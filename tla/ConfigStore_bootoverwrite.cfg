CONSTANTS
    DefaultsJson <- MCDefaultsJson
    TaskIds <- MCTaskIds
    CreateBodies <- MCCreateBodies
    UpdateBodies <- MCUpdateBodies
    ExtKeys <- MCExtKeys
    ExtValues <- MCExtValues
    UsizeMax = 1000
    InitFiles <- MCBootFiles
    Watching = FALSE

SPECIFICATION Spec
PROPERTY BootKeepsUserSettings
