\* Two sources, a viewer and two snapshots that race with a stop().
CONSTANTS
    Sources = {a, b}
    Viewers = {v1}
    Snapshots = {n1, n2}
    Stops = {s1}
    MaxTasks = 3
    MaxFrames = 2
    NoSource = NoSource
SPECIFICATION Spec
SYMMETRY Interchangeable
INVARIANTS
    TypeOK
    OneStream
    EventMeansFrame
    BoxIsFresh
PROPERTIES
    ServesAsFeed
\* The calls are made at most once each, so the hub may come to rest.
CHECK_DEADLOCK FALSE
