CONSTANTS
    Chars <- MCChars
    Types <- MCTypes
    Ids <- MCIds
    Rels <- MCRels
    Universe <- MCUniverse
    MaxTuples = 4
    Req <- MCReq
    MaxDepth = 1
SPECIFICATION Spec
INVARIANTS
    TypeOK
    AllowedSound
    WalkOutcome
PROPERTIES
    Terminates
CHECK_DEADLOCK FALSE
