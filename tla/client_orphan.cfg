\* A stop() while a request is in flight: the caller is never answered.
CONSTANTS
    MaxConcurrency = 1
    MaxQueueSize = 1
    MaxCalls = 2
    MaxStarts = 1
    Stops = {s1}
    NoCall = NoCall
SPECIFICATION FairSpec
PROPERTIES
    Answered
\* Every call is made at most once, so the system comes to rest.
CHECK_DEADLOCK FALSE
