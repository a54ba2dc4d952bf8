\* Two pools of two workers, a queue of two, two stop() calls.
CONSTANTS
    MaxConcurrency = 2
    MaxQueueSize = 2
    MaxCalls = 3
    MaxStarts = 2
    Stops = {s1, s2}
    NoCall = NoCall
SPECIFICATION Spec
INVARIANTS
    TypeOK
    WorkersServe
    BoundedConcurrency
    PostedOnce
    DispatchInOrder
    UnavailableMeansUntouched
    NoStrandedJob
    BoundedOvertaking
PROPERTIES
    ServesAsBroker
\* Every call is made at most once, so the system comes to rest.
CHECK_DEADLOCK FALSE
