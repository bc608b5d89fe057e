SPECIFICATION FairSpec
CONSTANTS
    a = a
    r1 = r1
    Stored = {}
    Posted = {a}
    Automatic = {a}
    Requests = {r1}
    MaxRequests = 3
    RunOnce = {a}
    MaxStarts = 2
INVARIANTS IInv MonitoredPipelines AddFindsNoPipeline OneRunningInstance
PROPERTIES EveryInstanceIsAPipeline StopEndsEverything StoredPipelinesStart
CHECK_DEADLOCK FALSE
