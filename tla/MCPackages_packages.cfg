CONSTANTS
    Uploads = {u1, u2}
    Versions = {v1, v2}
    None = None
    MaxMae = 2
    MaxCrashes = 1
SPECIFICATION Spec
SYMMETRY PackageSymmetry
INVARIANTS
    PackagesInv
    ResidentIsOnePackage
    AcceptedCanBeActivated
CHECK_DEADLOCK FALSE
