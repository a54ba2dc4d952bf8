\* start() fails after the subscription.
CONSTANTS
    Messages = {m1}
    Requested <- SomeTypes
    BridgeMayFail = TRUE
    MaxStates = 1
SPECIFICATION Spec
PROPERTIES
    WithoutItNoCommands
\* The process stops.
CHECK_DEADLOCK FALSE
