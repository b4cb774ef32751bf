\* One worker, a fault and a database fault, under fairness.
CONSTANTS
    w1 = w1
    w2 = w2
    i1 = i1
    i2 = i2
    i3 = i3
    NoWorker = NoWorker
    NoContainer = NoContainer
    NoMessage = NoMessage
    Consumer <- OneWorker
    Instance <- OneInstance
    ChallengeOf <- OneChallenge
    Job <- ThreeJobs
    Copy = {0, 1, 2, 3, 4, 5}
    MaxAttempts = 1
    Capacity = 1
    MaxCrashes = 0
    MaxFaults = 1
    MaxDbFaults = 1
SPECIFICATION FairSpec
CHECK_DEADLOCK FALSE
PROPERTIES
    Lifecycle
    ContainersReclaimed
