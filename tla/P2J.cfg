SPECIFICATION Spec
CONSTANTS
    Base = 8
    FixedWidth = 2
    Messages <- MCMessages
    Unknown <- MCUnknown
    Calls <- MCCalls
INVARIANTS
    TypeOK
    Agrees
    BudgetIsExact
    StaysInside
    
PROPERTY Returns
CHECK_DEADLOCK FALSE
