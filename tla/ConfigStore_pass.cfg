CONSTANTS
    DefaultsJson <- MCDefaultsJson
    InitFiles <- MCInitFiles
    Watching = TRUE
    TaskIds <- MCTaskIds
    CreateBodies <- MCCreateBodies
    UpdateBodies <- MCUpdateBodies
    ExtKeys <- MCExtKeys
    ExtValues <- MCExtValues
    UsizeMax = 1000

SPECIFICATION Spec
INVARIANT TaskIdsUnique
PROPERTY AckedTaskKept
