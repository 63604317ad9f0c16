SPECIFICATION Spec
CONSTANTS
    feed = feed
    aave = aave
    Slots <- MCSlots
    StartHead = 1
    MaxHead = 5
    PassesFail = FALSE
    MaxHeldTicks = 2
    BatchCommit = FALSE
    MayFail <- WriteFaults
    Partial = TRUE
    MaxLate = 0
SYMMETRY Symmetry
INVARIANTS PricedByItsPass MixedOnlyAfterGiveUp OneBlockAfterHalt
