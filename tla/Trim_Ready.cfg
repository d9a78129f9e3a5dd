CONSTANTS
    Procs = {p}
    Heaps <- OneNode
    Kinds = {"struct", "map"}
    Types = {"A", "B"}
    Names = {"a", "b"}
    Ids = {1, 2}
    NoMap = NoMap
    ReuseNormalized = TRUE
    MaxReads = 1
SPECIFICATION JSONSpec
PROPERTY
    ReadyOnReturn
