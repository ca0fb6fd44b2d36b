SPECIFICATION Spec
CONSTANTS
    Versions = {p1, p2, m1}
    Packages = {p1, p2}
    Callers = {r1, r2, r3, r4}
    None = None
    Kinds = {"upload", "web", "mcp_activate", "mcp_rollback", "predict"}
    MaxRestarts = 1
SYMMETRY RequestSymmetry
INVARIANTS
    ActivationInv
    ResidentIsLastActivated
    ChangesAreConfirmed
    RollbacksAreRecorded
    PredictionsAreAttributed
CHECK_DEADLOCK FALSE
