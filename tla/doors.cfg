SPECIFICATION FairDoorsSpec
CONSTANTS
    Requests = {r1, r2}
    Tokens = {"ta", "tb", "tc", "forged"}
    AccountOf <- MCAccountOf
    ExpOf <- MCExpOf
    Callers = {"a", "b"}
    Keys = {"ta"}
    Modes = {"open", "keys", "tokens"}
    TokenCap = 1
    Skew = 1
    Horizon = 2
    None = None
INVARIANTS
    DoorsTypeOK
PROPERTIES
    NothingStartsAfterTheSignal
    OnlyLiveTokensEnter
    OnlyLiveTokensPastTheCap
    EveryRequestTold
    DrainEnds
