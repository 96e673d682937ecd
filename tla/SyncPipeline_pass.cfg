CONSTANTS
    Cols <- MCCols
    ColumnMapping <- MCColumnMapping
    ColumnTypes <- MCColumnTypes
    TableKey <- MCTableKey
    Configs <- PassConfigs
    Docs <- MCDocs
    InitTables <- MCInitTables
    UsizeMax <- MCUsizeMax

SPECIFICATION Spec
INVARIANT TypeOK
INVARIANT SuccessMeansAllPersisted
INVARIANT UpsertNeverRejected
PROPERTY Termination
PROPERTY BatchAtomicity
CHECK_DEADLOCK FALSE
