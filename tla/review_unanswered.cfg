SPECIFICATION HybridSpec
CONSTANTS
    f1 = f1
    t1 = t1
    r1 = r1
    r2 = r2
    e1 = e1
    e2 = e2
    h1 = h1
    h2 = h2
    NoRobot = NoRobot
    NoTask = NoTask
    Flows <- OneFlow
    WebhookFlow = f1
    Scripts <- TwoFlows
    Editors <- TwoEditors
    Hooks <- TwoHooks
    MaxVersions = 2
    Tasks <- OneTask
    Robots <- TwoRobots
    FakeRobots = {}
    MaxChecks = 1
INVARIANTS
    SubmittedOnce
CHECK_DEADLOCK FALSE
