SPECIFICATION Spec
CONSTANTS
    Base = 64
    Headers <- MCHeaders
    Values <- MCValues
    MaxLength = 9
INVARIANT
    AcceptedIsFaithful
CHECK_DEADLOCK FALSE
