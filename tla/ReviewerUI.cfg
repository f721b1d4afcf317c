SPECIFICATION Spec
CHECK_DEADLOCK FALSE
CONSTANTS
    Desks <- MCDesks
    Records <- MCRecords
    MaxRevision = 2
    MaxDrafts = 2
    MaxMoves = 3
    MaxOthers = 1
INVARIANTS
    SavedWhereWritten
    SavedOnce
    ConflictIsStale
    OwnSaveShown
