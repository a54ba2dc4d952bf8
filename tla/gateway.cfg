\* Two samplers, a command and two PiDogs; the queue just holds two samples,
\* and the daemons change as they like.
CONSTANTS
    Samplers = {pump, vda}
    Commands = {c1}
    MaxDogs = 2
    Capacity = 4
    Concurrency = 2
    NoJob = NoJob
SPECIFICATION FairSpec
INVARIANTS
    TypeOK
    OldFirst
    NobodyForgotten
PROPERTIES
    RefusedByCommands
    FlagIsSteady
    CommandsAnswered
    DownIsNoticed
    UpIsNoticed
