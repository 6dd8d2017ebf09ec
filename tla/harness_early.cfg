SPECIFICATION HarnessSpec
CONSTANTS
    Tables <- MCTables
    Walks <- EarlyWalks
    Made <- MCMade
    Listed <- MCListed
    KeyMonths = 4
    Season = 3
    MIN_TRAIN = 2
    MinHistory = 2
    Absent = Absent
    None = None
INVARIANTS
    NothingIsLost
