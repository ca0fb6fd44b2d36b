SPECIFICATION Spec
CONSTANTS
    Requests = {r1, r2, r3}
    Ids = {o1, o2}
    None = None
    MaxRows = 2
    MaxCrashes = 1
SYMMETRY CallSymmetry
INVARIANTS
    OperationsInv
    DistancesAreAttributed
    RecordedFuelIsKept
    BatchesLeaveAtMostOneOrphan
CHECK_DEADLOCK FALSE
