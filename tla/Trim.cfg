CONSTANTS
    Procs = {p, q}
    Heaps <- MCHeaps
    Kinds = {"struct", "map"}
    Types = {"A", "B"}
    Names = {"a", "b"}
    Ids = {1, 2}
    NoMap = NoMap
    ReuseNormalized = FALSE
    MaxReads = 1
SPECIFICATION JSONSpec
INVARIANTS
    TypeOK
    Normalized
PROPERTIES
    SurvivesJSON
    Rebuilds
    Ends
CHECK_DEADLOCK FALSE
