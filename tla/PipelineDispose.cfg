SPECIFICATION FairSpec
CONSTANTS
    c1 = c1
    c2 = c2
    Callers = {c1, c2}
    MaxStarts = 2
    RunOnce = FALSE
    Operations = {"execute", "dispose", "stop"}
INVARIANTS TransitionsAreExclusive DisposeCancelsTheCurrentToken IInv LifeInv
PROPERTIES DisposeEndsTheLatestTask ImplementsPipelineLife
CHECK_DEADLOCK FALSE
