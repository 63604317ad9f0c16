SPECIFICATION Spec
CONSTANTS
    feed = feed
    aave = aave
    Slots <- MCSlots
    StartHead = 1
    MaxHead = 4
    PassesFail = FALSE
    MaxHeldTicks = 3
    BatchCommit = TRUE
    MayFail <- CommitFaults
    Partial = TRUE
    MaxLate = 0
INVARIANTS PricedByItsPass
