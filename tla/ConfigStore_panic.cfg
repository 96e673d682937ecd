CONSTANTS
    DefaultsJson <- MCDefaultsJson
    TaskIds <- MCTaskIds
    CreateBodies <- MCCreateBodies
    UpdateBodies <- MCUpdateBodies
    ExtKeys <- MCExtKeys
    ExtValues <- MCExtValues
    UsizeMax = 1000
    InitFiles <- MCPanicFiles
    Watching = FALSE

SPECIFICATION Spec
INVARIANT PersistSavesUser
