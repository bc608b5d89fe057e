SPECIFICATION FairSpec
CONSTANTS
    Total = 3
    BatchSize = 2
    MaxFaults = 2
INVARIANTS StopLosesNothing StopInv
PROPERTIES EventuallyDelivered StopEndsTheThread
CHECK_DEADLOCK FALSE
