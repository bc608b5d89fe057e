SPECIFICATION QuietSpec
CONSTANTS
    Total = 2
    BatchSize = 2
    MaxFaults = 1
INVARIANT NothingMissing
CHECK_DEADLOCK FALSE
