\* An endpoint that only the file has.
CONSTANTS
    MaxUpdates = 2
    MaxBoots = 2
    Missing = Missing
    Torn = Torn
SPECIFICATION Spec
INVARIANTS
    FileIsFallback
\* The numbers of boots and updates are bounded.
CHECK_DEADLOCK FALSE
