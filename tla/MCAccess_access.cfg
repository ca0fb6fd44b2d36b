SPECIFICATION Spec
CONSTANTS
    Usernames = {ani, budi}
    Tokens = {t1}
    Requests = {q1, q2, q3, q4}
    None = None
    AllowUnprovisioned = TRUE
    MaxFailures = 2
    Window = 1
    Lifetime = 2
    IdleTimeout = 1
    MaxTime = 2
SYMMETRY AccessSymmetry
INVARIANTS
    AccessInv
    GuessesAreBounded
PROPERTIES
    CallersAreAuthentic
    IdleSessionsStayEnded
CHECK_DEADLOCK FALSE
