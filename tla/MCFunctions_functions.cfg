SPECIFICATION FunctionsSpec
CONSTANTS
    Operations = {o1, o2, o3, o4}
    CategoryOf <- Groups
    NoPrediction = NoPrediction
    Answers <- SmallAnswers
    MaxLiters = 2
    Uncertainty = 1
    Margin = 0
    RollingWindow = 2
    MinimumOutcomes = 2
    MaxMae = 1
INVARIANTS
    RowsInv
    MeasuresInv
    AlertsFollowTheLatestOutcomes
PROPERTIES
    CorrectionsConverge
CHECK_DEADLOCK FALSE
