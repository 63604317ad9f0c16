SPECIFICATION Spec
CONSTANTS
    feed = feed
    aave = aave
    Slots <- MCSlots
    StartHead = 1
    MaxHead = 4
    PassesFail = FALSE
    MaxHeldTicks = 3
    BatchCommit = FALSE
    MayFail <- ApplyFaults
    Partial = FALSE
    MaxLate = 0
INVARIANTS WrittenOffOnlyIfTried
