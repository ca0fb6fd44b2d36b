SPECIFICATION JobsSpec
CONSTANTS
    Versions = {p1, p2, m1}
    Packages = {p1, p2}
    Members = {f1, f2}
    None = None
    KeepRetired = 1
    RunIds = {1, 2}
    StaleAfter = 1
    MaxTime = 2
    here = here
    Here = Here
    there = there
    i1 = i1
    i2 = i2
    i3 = i3
    Names = {here, Here, there}
    KeyOf <- Spellings
    Imports = {i1, i2, i3}
    SheetOf <- Sheets
    Nobody = Nobody
    Clients = {c1, c2}
    ClientNames = {n1, n2}
    LongTool = "long"
    Nothing = Nothing
    Called = {"predict_fuel", "activate_model_version", "list_model_versions", "unknown", "long"}
    Granted = {{"fuel:predict", "models:admin"}}
    MaxCalls = 2
    CallWindow = 1
    MaxClock = 2
    MaxRecords = 4
    MaxCrashes = 1
SYMMETRY JobsSymmetry
INVARIANTS
    OnlyServedVersionsArePruned
    UndisturbedActiveIsKept
    UndisturbedRetiredAreKept
    CandidatesKeepTheirBytes
    RunsInv
    NoFalseAlarm
    CataloguesInv
    KnownVehiclesAreFound
    AgentInv
    RunsAreBounded
CHECK_DEADLOCK FALSE
