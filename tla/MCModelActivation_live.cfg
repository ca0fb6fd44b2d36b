SPECIFICATION FairSpec
CONSTANTS
    Versions = {p1, m1}
    Packages = {p1}
    Callers = {r1, r2, r3}
    None = None
    Kinds = {"upload", "web", "rest", "mcp_activate"}
    MaxRestarts = 1
PROPERTY RequestsComplete
CHECK_DEADLOCK FALSE
