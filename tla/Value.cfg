CONSTANTS
    Base = 16
    FixedWidth = 2
    Bad = Bad
    Fields <- MCFields
    Root = "R"
    InitBufs <- MCInitBufs
    Gets <- MCGets
    Sets <- MCSets
    Unsets <- MCUnsets
    GetManys <- MCGetManys
    SetManys <- MCSetManys
    MaxLen = 18
SPECIFICATION Spec
INVARIANTS
    TypeOK
    
PROPERTIES
    TreeSpec
    FailedCallKeepsBytes
