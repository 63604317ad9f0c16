SPECIFICATION Spec
CONSTANTS
    Start = 1
    Interval = 2
    Lag = 1
    Every = 2
    Keep = 2
    DumpEvery = 2
    DiskFull = FALSE
    ReadsFail = FALSE
    MaxHead = 6
    MaxSegments = 3
    MaxFaults = 2
    MaxRewinds = 1
INVARIANTS RowsAreOnTheChain SeriesIsTheFiles EachIntervalInOneSegment NeverStuck
CHECK_DEADLOCK FALSE
