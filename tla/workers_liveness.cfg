SPECIFICATION FairLoops
CONSTANTS
    t1 = t1
    t2 = t2
    r1 = r1
    r2 = r2
    NoRobot = NoRobot
    NoTask = NoTask
    Tasks <- TwoTasks
    Robots <- TwoRobots
    Faults <- StoreErrors
    MaxChecks = 2
    Kinds <- ServedKinds
    MaxDispatches = 2
    MaxFaults = 2
INVARIANTS
    TypeOK
    ServedIsReported
    EventsInOrder
PROPERTIES
    TasksSettle
    RobotsComeBack
    DispatchesAnswered
CHECK_DEADLOCK FALSE
