SPECIFICATION Spec
CONSTANTS
    Versions = {p1, m1}
    Packages = {p1}
    Callers = {r1, r2, r3}
    None = None
    Kinds = {"upload", "web", "rest"}
    MaxRestarts = 0
SYMMETRY RequestSymmetry
INVARIANT ResidentModelIsActive
CHECK_DEADLOCK FALSE
