CONSTANTS
    Cols <- MCCols
    ColumnMapping <- MCColumnMapping
    ColumnTypes <- MCColumnTypes
    TableKey <- MCTableKey
    Configs <- DefaultConfigs
    Docs <- UnwrapDocs
    InitTables <- MCInitTables
    UsizeMax <- MCUsizeMax

SPECIFICATION Spec
PROPERTY BatchAtomicity
CHECK_DEADLOCK FALSE
