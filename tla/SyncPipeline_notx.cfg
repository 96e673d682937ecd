CONSTANTS
    Cols <- MCCols
    ColumnMapping <- MCColumnMapping
    ColumnTypes <- MCColumnTypes
    TableKey <- MCTableKey
    Configs <- NoTxConfigs
    Docs <- MCDocs
    InitTables <- MCInitTables
    UsizeMax <- MCUsizeMax

SPECIFICATION Spec
INVARIANT SuccessMeansAllPersisted
CHECK_DEADLOCK FALSE
