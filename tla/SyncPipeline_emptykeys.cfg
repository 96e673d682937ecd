CONSTANTS
    Cols <- MCCols
    ColumnMapping <- MCColumnMapping
    ColumnTypes <- MCColumnTypes
    TableKey <- MCTableKey
    Configs <- EmptyKeyConfigs
    Docs <- MCDocs
    InitTables <- MCInitTables
    UsizeMax <- MCUsizeMax

SPECIFICATION Spec
INVARIANT UpsertNeverRejected
CHECK_DEADLOCK FALSE
