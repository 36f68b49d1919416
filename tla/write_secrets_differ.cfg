SPECIFICATION WriteSpec
CONSTANTS
    t1 = t1
    w1 = w1
    w2 = w2
    NoWrite = NoWrite
    WriteTasks <- OneTask
    Workers <- TwoWorkers
    OldSecrets = 2
    Apps <- NewOrForeign
    Overlap = FALSE
    WriteFaults <- NoFaults
    MaxCalls = 2
INVARIANTS
    SecretsAgree
CHECK_DEADLOCK FALSE
