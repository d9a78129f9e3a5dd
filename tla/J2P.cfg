CONSTANTS
    R = R
    M = M
    NM = NM
    NF = NF
    Texts <- MCTexts
    Messages <- MCMessages
    NoMsg = NM
    NoField = NF
    FieldsOf <- MCFieldsOf
    Root = R
    Docs <- MCDocs
    StkDepth = 5
    VarintBase = 4
SPECIFICATION Spec
INVARIANTS
    TypeOK
    LengthsNested
    FollowsText
    Encodes
PROPERTIES
    KeptOutput
