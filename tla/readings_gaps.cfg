SPECIFICATION ReadingsSpec
CONSTANTS
    BINS = 3
    DEFAULT_WEIGHT = 4
    MIN_HISTORY = 2
    Sliver = 5
    Dens = 4
    MinHistory = 3
    SERIES_VOICES = {"chronos2", "seasonal_naive"}
    Shipped <- MCShipped
    Clip = 5
    HorizonUpTo = 3
    None = None
    Refusal = Refusal
    YEAR = 4
    CountsUpTo = 2
    GridUpTo = 3
    MonthsUpTo = 9
    Seasons = {1, 2, 4}
    Horizons = {1, 2, 3, 5}
    VoicesUpTo = 2
    ColumnsUpTo = 5
    RowsUpTo = 7
    FoldsUpTo = 4
    VoicesAsked <- MCVoicesAsked
    Pasts <- MCPasts
    AlphasAsked <- MCAlphasAsked
    Windows = {1, 12}
INVARIANTS
    NaiveNeverRaises
