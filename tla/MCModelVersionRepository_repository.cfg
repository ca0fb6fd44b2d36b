SPECIFICATION FairRepoSpec
CONSTANTS
    Versions = {v1, v2}
    Callers = {c1, c2, c3}
    None = None
INVARIANTS
    RepoInv
    AtMostOneActive
PROPERTIES
    ActiveNeverLost
    ImplementsRegister
    EveryCallReturns
CHECK_DEADLOCK FALSE
