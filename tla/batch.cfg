SPECIFICATION BatchSpec
CONSTANTS
    Kinds <- MCKinds
    Ensembles = {1, 3}
    Shapes = {"small", "large"}
    CellsIn <- MCCellsIn
    MaxReads = 5
    TablesPerPass = 3
    CellsPerPass = 4
    Workers = 2
    PoolFrom = 3
    ChunksPerWorker = 1
    None = None
INVARIANTS
    BatchTypeOK
    OwnViewsOwnLevels
    
