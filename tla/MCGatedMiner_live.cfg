SPECIFICATION FairSpec
CONSTANTS
    feed = feed
    aave = aave
    Slots <- MCSlots
    StartHead = 1
    MaxHead = 3
    PassesFail = TRUE
    MaxHeldTicks = 2
    BatchCommit = TRUE
    MayFail <- WriteFaults
    Partial = FALSE
    MaxLate = 1
INVARIANTS HeadExists
PROPERTIES ChainAdvances StopReturns
