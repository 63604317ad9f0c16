SPECIFICATION Spec
CONSTANTS
    Start = 1
    Interval = 2
    Lag = 1
    Every = 2
    Keep = 2
    DumpEvery = 2
    DiskFull = FALSE
    ReadsFail = TRUE
    MaxHead = 6
    MaxSegments = 2
    MaxFaults = 3
    MaxRewinds = 0
INVARIANTS NeverStuck
CHECK_DEADLOCK FALSE
