SPECIFICATION Spec
CONSTANTS
    Keys <- MCKeys
    Asked <- MCAsked
    Vals <- MCVals
    None = None
    Panic = Panic
    Hash <- DJBHash32
    LoadFactor = 4
    MaxBucket = 2
    HashBits = 2
    HashSeed = 6
INVARIANTS
    TypeOK
    Answers
    NeverFull
