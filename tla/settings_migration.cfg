\* A boot that migrates the local file.
CONSTANTS
    MaxUpdates = 2
    MaxBoots = 3
    Missing = Missing
    Torn = Torn
SPECIFICATION Spec
PROPERTIES
    MigratesIntoEmptyStore
\* The numbers of boots and updates are bounded.
CHECK_DEADLOCK FALSE
