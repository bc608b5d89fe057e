SPECIFICATION QuietRunSpec
CONSTANTS
    Total = 3
    BatchSize = 2
    MaxFaults = 2
INVARIANTS NoLoss AtMostOneBatchTwice ReusableBetweenBatches IInv
PROPERTY DeliversAtLeastOnceInOrder
