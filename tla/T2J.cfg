SPECIFICATION Spec
CONSTANTS
    p1 = p1
    p2 = p2
    Procs = {p1, p2}
    Bitmaps = {b1, b2, b3, b4}
    NoBitmap = NoBitmap
    WordBits = 4
    PoolWords = 3
    Calls <- MCCalls
    Types <- MCTypes
    Structs <- MCStructs
INVARIANTS
    TypeOK
    BitmapsExclusive
    MarksOwned
    
    Agrees
PROPERTY Returns
CHECK_DEADLOCK FALSE
