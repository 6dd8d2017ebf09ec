SPECIFICATION FairKernelsSpec
CONSTANTS
    Callers = {"a", "b", "c"}
    Tables <- MCTables
    TableOf <- MCTableOf
    Ensembles = {1, 2}
    Requests <- MCRequests
    MaxReads = 2
    Budget = 8
    Share = 4
    Slack = 1
    Device = "mps"
    None = None
INVARIANTS
    KernelsTypeOK
    AnswersAreOwn
    EveryReadSettled
    UnknownOnlyNearTheShare
PROPERTIES
    CycleEnds
