SPECIFICATION FairSpec
CONSTANTS
    QualityKeys = {}
    MissingKeys = {m}
    ModelKeys = {g}
    Pages = {p}
    Jobs = {j}
    IsConfigured = TRUE
    MaxCrashes = 1
    MaxTimeouts = 1
INVARIANTS
    AlertsInv
PROPERTIES
    NothingIsRepeated
    AlertsBecomeAccurate
    OperatorsBecomeInformed
