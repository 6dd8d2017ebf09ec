SPECIFICATION FairSpec
CONSTANTS
    Callers <- MCCallers
    Jobs <- MCJobs
    CallerOf <- MCCallerOf
    KindOf <- MCKindOf
    MembersOf <- MCMembersOf
    CellsOf <- MCCellsOf
    MaxCells = 8
    ShareCells = 4
    CycleCells = 3
    StatCap = 0
INVARIANTS
    TypeOK
    CountersExact
    PushesBack
    TurnsSound
    PendingHeldOnce
    CycleKept
    PassedOverGoFirst
PROPERTIES
    NoOvertaking
    EveryRequestHeard
    KeepsPromise
