SPECIFICATION Spec
CONSTANTS
    t1 = t1
    t2 = t2
    r1 = r1
    r2 = r2
    q1 = q1
    q2 = q2
    NoRobot = NoRobot
    NoTask = NoTask
    NoRequest = NoRequest
    Tasks <- OneTask
    Robots <- TwoRobots
    Requests <- TwoRequests
    Faults <- AllFaults
    MaxChecks = 2
SYMMETRY Symmetry
INVARIANTS
    TypeOK
    ServedByOne
    SuccessIsAccepted
CHECK_DEADLOCK FALSE
