\* Crashes at any moment, and any call of the stores may fail.
CONSTANTS
    MaxUpdates = 3
    MaxBoots = 4
    Missing = Missing
    Torn = Torn
SPECIFICATION Spec
INVARIANTS
    TypeOK
    SurvivesRestart
    FileSurvivesRestart
PROPERTIES
    ServesAsRegister
\* The numbers of boots and updates are bounded.
CHECK_DEADLOCK FALSE
