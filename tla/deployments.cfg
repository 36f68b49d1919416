SPECIFICATION Spec
CONSTANTS
    f1 = f1
    t1 = t1
    r1 = r1
    r2 = r2
    e1 = e1
    e2 = e2
    h1 = h1
    h2 = h2
    NoRobot = NoRobot
    NoTask = NoTask
    Setups <- FourSetups
    MaxPolls = 2
    MaxNotify = 1
    MaxDispatches = 2
    MaxExpiries = 1
    Flows <- OneFlow
    WebhookFlow = f1
    Scripts <- TwoFlows
    Editors <- TwoEditors
    Hooks <- TwoHooks
    MaxVersions = 2
    Tasks <- OneTask
    Robots <- TwoRobots
    FakeRobots <- OneFakeRobot
    MaxChecks = 1
INVARIANTS
    TypeOK
    BrowserClosed
    QrIsNeeded
    ExhaustedIsQuiet
    PointersAgree
    NumbersInOrder
    SnapshotReleased
    OneRobotPerTask
PROPERTIES
    WorkingCookieKept
    ReadyIsChecked
    SnapshotFixed
    ImplementsReleases
    RunEnds
CHECK_DEADLOCK FALSE
