SPECIFICATION FairSpec
CONSTANTS
    c1 = c1
    c2 = c2
    c3 = c3
    Callers = {c1, c2, c3}
    MaxStarts = 4
    RunOnce = TRUE
    Operations = {"execute"}
INVARIANTS OneThreadInHandler MonitorTellsTheTruth OneTaskInv
CHECK_DEADLOCK FALSE
