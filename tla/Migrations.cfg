SPECIFICATION MigrationSpec
CONSTANTS
    Dialects <- MCDialects
    Ids <- MCIds
    Times <- MCTimes
    MaxResolutions = 2
INVARIANTS
    SchemaMatchesVersion
    ReferencesHold
    FailureExplained
    HistoryNumbered
PROPERTY
    HistorySurvives
