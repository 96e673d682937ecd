CONSTANTS
    Cols <- MCCols
    ColumnMapping <- MCColumnMapping
    ColumnTypes <- MCColumnTypes
    TableKey <- MCTableKey
    Configs <- HangConfigs
    Docs <- MCDocs
    InitTables <- MCInitTables
    UsizeMax <- MCUsizeMax

SPECIFICATION Spec
PROPERTY Termination
CHECK_DEADLOCK FALSE
