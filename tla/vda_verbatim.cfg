\* An instant action whose type no table knows.
CONSTANTS
    Messages = {m1}
    Requested <- AllAndUnknown
    BridgeMayFail = FALSE
    MaxStates = 1
SPECIFICATION Spec
INVARIANTS
    PassedThrough
\* The process stops.
CHECK_DEADLOCK FALSE
