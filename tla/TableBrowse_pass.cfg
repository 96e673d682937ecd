CONSTANTS
    b1 = b1
    b2 = b2
    DefaultsJson <- MCDefaultsJson
    InitFiles <- MCInitFiles
    TaskIds <- MCTaskIds
    CreateBodies = {}
    UpdateBodies <- MCUpdateBodies
    ExtKeys = {}
    ExtValues = {}
    UsizeMax = 1000
    Callers <- MCCallers
    Urls <- MCUrls
    MaxPools = 3
    Lower <- MCLower
    Scheme <- MCScheme
    Queries <- MCQueries

SPECIFICATION FairSpec
INVARIANT TypeOK
INVARIANT PoolsPerKeyBounded
PROPERTY RequestsAnswered
