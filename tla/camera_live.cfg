\* A camera that may hang for ever, and two calls of stop().
CONSTANTS
    Sources = {a}
    Viewers = {v1}
    Snapshots = {n1}
    Stops = {s1, s2}
    MaxTasks = 2
    MaxFrames = 1
    NoSource = NoSource
SPECIFICATION FairSpec
PROPERTIES
    SnapshotReturns
    GoneIsUnsubscribed
    StopReturns
\* The calls are made at most once each, so the hub may come to rest.
CHECK_DEADLOCK FALSE
