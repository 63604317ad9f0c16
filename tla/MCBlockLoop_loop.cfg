SPECIFICATION FairLoopSpec
CONSTANTS
    feed = feed
    aave = aave
    Slots <- MCSlots
    StartHead = 1
    EndBlock = 3
    MaxHead = 4
    PassesFail = TRUE
    MaxHeldTicks = 2
    BatchCommit = TRUE
    MayFail <- NoFaults
    Partial = FALSE
    MaxLate = 0
    WallClock = TRUE
    Period = TRUE
INVARIANTS EachBlockCoveredOnce OneWalkStepPerBlock NoLostHead ReadsOwnPrices FinalBlockCarriesItsStage
PROPERTIES RunCloses
