SPECIFICATION Spec
CONSTANTS
    t1 = t1
    t2 = t2
    t3 = t3
    NoTask = NoTask
    Tasks <- ThreeTasks
    MaxAlerts = 0
    MaxRestarts = 0
    StoreFaults = FALSE
INVARIANTS
    RetriedOnce
