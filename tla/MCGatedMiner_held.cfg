SPECIFICATION Spec
CONSTANTS
    feed = feed
    aave = aave
    Slots <- MCSlots
    StartHead = 1
    MaxHead = 4
    PassesFail = TRUE
    MaxHeldTicks = 3
    BatchCommit = FALSE
    MayFail <- ApplyFaults
    Partial = TRUE
    MaxLate = 0
INVARIANTS MixedOnlyAfterGiveUp
