CONSTANTS
    a = a
    b = b
    c = c
    p = p
    Names <- MCNames
    Lists <- AllLists
SPECIFICATION Spec
INVARIANTS
    TypeOK
    OnlyCycles
    NoCycleLeft
PROPERTY SearchEnds
