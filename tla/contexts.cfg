SPECIFICATION FairCacheSpec
CONSTANTS
    Callers = {a, b, c}
    Ids = {x, y}
    Estimators = {f}
    Sizes = {1, 2, 4}
    Budget = 6
    Share = 3
    None = None
INVARIANTS
    CacheTypeOK
    WithinShares
    JustPutStays
PROPERTIES
    EvictsAnotherOnlyForThree
    CallsEnd
