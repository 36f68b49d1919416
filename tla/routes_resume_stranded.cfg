SPECIFICATION FairSpec
CONSTANTS
    t1 = t1
    t2 = t2
    r1 = r1
    r2 = r2
    q1 = q1
    q2 = q2
    NoRobot = NoRobot
    NoTask = NoTask
    NoRequest = NoRequest
    Tasks <- OneTask
    Robots <- OneRobot
    Requests <- OneRequest
    Faults <- NoFaults
    MaxChecks = 1
PROPERTIES
    ResumedTaskRunsAgain
CHECK_DEADLOCK FALSE
