SPECIFICATION FairSpec
CONSTANTS
    t1 = t1
    t2 = t2
    t3 = t3
    NoTask = NoTask
    Tasks <- TwoTasks
    MaxAlerts = 1
    MaxRestarts = 1
    StoreFaults = FALSE
INVARIANTS
    RunningIsServed
PROPERTIES
    TasksEnd
