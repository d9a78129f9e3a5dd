SPECIFICATION Spec
CONSTANTS
    Base = 8
    FixedWidth = 2
    Messages <- MCMessages
    Unknown <- MCUnknown
    Calls <- MCListCalls
INVARIANT UnknownFieldIsError
CHECK_DEADLOCK FALSE
