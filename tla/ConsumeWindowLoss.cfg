SPECIFICATION RunSpec
CONSTANTS
    Total = 2
    BatchSize = 2
    MaxFaults = 1
INVARIANT NoLoss
