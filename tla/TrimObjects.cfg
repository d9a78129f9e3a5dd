CONSTANTS
    Nil = Nil
    Layout <- MCLayout
    Descs <- MCDescs
    HashName <- MCHash
    Sources <- MCSources
    Dests <- MCDests
    Trees <- MCTrees
    FetchDescs = {1, 4, 5, 10}
    AssignDescs = {1, 4, 5, 10, 15}
    Raws <- MCRaws
    MaxAssigns = 2
SPECIFICATION Spec
INVARIANTS
    TypeOK
    FetchSelects
PROPERTIES
    
    RestKept
CHECK_DEADLOCK FALSE
