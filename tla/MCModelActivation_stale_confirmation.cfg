SPECIFICATION Spec
CONSTANTS
    Versions = {p1, m1}
    Packages = {p1}
    Callers = {r1, r2, r3, r4}
    None = None
    Kinds = {"upload", "web", "mcp_activate"}
    MaxRestarts = 0
SYMMETRY RequestSymmetry
INVARIANT StaleReadingsLose
CHECK_DEADLOCK FALSE
