SPECIFICATION Spec
CONSTANTS
    t1 = t1
    t2 = t2
    t3 = t3
    NoTask = NoTask
    Tasks <- ThreeTasks
    MaxAlerts = 1
    MaxRestarts = 1
    StoreFaults = TRUE
SYMMETRY Symmetry
INVARIANTS
    TypeOK
    RunsBounded
    RetriedHasCopy
    NoOvertaking
    PauseHolds
