CONSTANTS
    a = a
    b = b
    c = c
    p = p
    Names <- MCNames
    Lists <- AllLists
SPECIFICATION Spec
INVARIANT AllCyclesFound
