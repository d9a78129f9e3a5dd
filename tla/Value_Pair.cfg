CONSTANTS
    Base = 16
    FixedWidth = 2
    Bad = Bad
    Fields <- MCFields
    Root = "R"
    InitBufs <- PairBufs
    Gets <- PairGets
    Sets <- PairSets
    Unsets <- NoPaths
    GetManys <- NoPaths
    SetManys <- NoPaths
    MaxLen = 40
SPECIFICATION Spec
INVARIANT
    LengthsComplete
