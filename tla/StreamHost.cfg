SPECIFICATION FairSpec
CONSTANTS
    a = a
    b = b
    Script <- MCScript
    MaxStreams = 3
    MaxItems = 2
    Disposers = {"service", "host"}
    Names = {a, b}
    Contents = {44}
    Situations <- MCSituations
    Protected = {25}
    Outside = {27, 31, 32, 33}
    Covered = {28, 29, 30}
INVARIANTS IInv RecordsTellTheTruth ProtectedScriptsRun
PROPERTIES FinallyIsNotSkipped ScriptsStart ScriptsStop
CHECK_DEADLOCK FALSE
