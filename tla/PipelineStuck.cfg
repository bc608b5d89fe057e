SPECIFICATION FairSpec
CONSTANTS
    c1 = c1
    c2 = c2
    Callers = {c1, c2}
    MaxStarts = 1
    RunOnce = TRUE
    Operations = {"execute"}
INVARIANTS WorkingHasATask
CHECK_DEADLOCK FALSE
