\* Two stop() calls and two pools of one worker (max_concurrency 0 is raised to 1).
CONSTANTS
    MaxConcurrency = 0
    MaxQueueSize = 0
    MaxCalls = 2
    MaxStarts = 2
    Stops = {s1, s2}
    NoCall = NoCall
SPECIFICATION FairSpec
PROPERTIES
    AnsweredOrCutOff
    QueueServed
    StopReturns
\* Every call is made at most once, so the system comes to rest.
CHECK_DEADLOCK FALSE
