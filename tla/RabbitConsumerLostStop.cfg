SPECIFICATION FairSpec
CONSTANTS
    Total = 1
    MaxFaults = 0
PROPERTIES DisposeEndsTheThread
CHECK_DEADLOCK FALSE
