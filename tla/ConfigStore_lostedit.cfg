CONSTANTS
    DefaultsJson <- MCDefaultsJson
    TaskIds <- MCTaskIds
    CreateBodies <- MCCreateBodies
    UpdateBodies <- MCUpdateBodies
    ExtKeys <- MCExtKeys
    ExtValues <- MCExtValues
    UsizeMax = 1000
    InitFiles <- MCLostEditFiles
    Watching = TRUE

SPECIFICATION Spec
INVARIANT NoLostExternalEdit
