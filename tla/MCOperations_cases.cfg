SPECIFICATION Spec
CONSTANTS
    Requests = {r1, r2, r3}
    Ids = {o1}
    None = None
    MaxRows = 2
    MaxCrashes = 0
SYMMETRY CallSymmetry
INVARIANT EvaluationsAreAnswered
CHECK_DEADLOCK FALSE
