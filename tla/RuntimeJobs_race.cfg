\* Two workers, one instance, two operations, a crash.
CONSTANTS
    w1 = w1
    w2 = w2
    i1 = i1
    i2 = i2
    i3 = i3
    NoWorker = NoWorker
    NoContainer = NoContainer
    NoMessage = NoMessage
    Consumer <- TwoWorkers
    Instance <- OneInstance
    ChallengeOf <- OneChallenge
    Job <- TwoJobs
    Copy = {0, 1}
    MaxAttempts = 1
    Capacity = 1
    MaxCrashes = 1
    MaxFaults = 0
    MaxDbFaults = 0
SYMMETRY Workers
SPECIFICATION Spec
CHECK_DEADLOCK FALSE
INVARIANTS
    InstanceMutex
    OneHost
    QueuedOnItsWay
PROPERTIES
    LifecycleSafe
