CONSTANTS
    S = S
    T = T
    Num = Num
    I16 = I16
    Str = Str
    Bool = Bool
    LT = LT
    M = M
    NT = NT
    NF = NF
    Texts <- MCTexts
    Types <- MCTypes
    NoType = NT
    NoField = NF
    TypeDesc <- MCTypeDesc
    RootType = S
    Docs <- MCDocs
    Options <- MCOptions
    HttpData <- MCHttp
    BufCaps = {1, 40}
    ReqCaps = {5, 40}
    KeyCaps = {0}
    FieldCaps = {0, 9}
    KeyLen = 1
    WordBits = 2
    MaxRecurse = 6
    FieldGrow = 9
SPECIFICATION Spec
INVARIANTS
    TypeOK
    ResumePos
    UnwindsMember
    BitmapsDisjoint
    
PROPERTIES
    KeptOutput
    Progress
