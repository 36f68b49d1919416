SPECIFICATION Spec
CONSTANTS
    t1 = t1
    t2 = t2
    r1 = r1
    r2 = r2
    c1 = c1
    c2 = c2
    w1 = w1
    w2 = w2
    NoRobot = NoRobot
    NoTask = NoTask
    Tasks <- TwoTasks
    Robots <- TwoRobots
    Faults <- WorkerErrors
    MaxChecks = 2
    NoWrite = NoWrite
    WriteTasks <- TwoBindings
    Workers <- TwoWorkers
    OldSecrets = 2
    Apps <- NewAndConfigured
    Overlap = FALSE
    WriteFaults <- WriteErrors
    MaxCalls = 3
SYMMETRY Symmetry
INVARIANTS
    RunnerTypeOK
    OneOrder
    SubmitsFollowDelay
    WriteTypeOK
    OneWriter
    RecordedIsInstalled
    CompletedIsOnline
PROPERTIES
    ImplementsLease
    TerminalAbsorbing
    SavedIsInstalled
    CompletedIsFinal
CHECK_DEADLOCK FALSE
