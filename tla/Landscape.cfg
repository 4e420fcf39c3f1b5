SPECIFICATION Spec
CONSTANTS
    Ways = {"cluster", "sequence"}
    Res = 1
    Samplings = 2
INVARIANTS
    TypeOK
    RowsOfTheirSamples
    SettledIsCollected
PROPERTIES
    WorkRunsDown
    ScriptsTerminate
CHECK_DEADLOCK FALSE
