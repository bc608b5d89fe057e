SPECIFICATION FairSpec
CONSTANTS
    Total = 2
    MaxFaults = 3
INVARIANTS NoConnectionLeaks NoLoss IInv
PROPERTIES DeliversAtLeastOnceInOrder EventuallyDelivered DisposeEndsARunningThread DisposeReturns
CHECK_DEADLOCK FALSE
