\* A worker killed while it drives Docker and started again within 90 seconds.
CONSTANTS
    w1 = w1
    w2 = w2
    i1 = i1
    i2 = i2
    i3 = i3
    NoWorker = NoWorker
    NoContainer = NoContainer
    NoMessage = NoMessage
    Consumer <- OneWorker
    Instance <- OneInstance
    ChallengeOf <- OneChallenge
    Job <- TwoJobs
    Copy = {0, 1, 2, 3, 4, 5}
    MaxAttempts = 1
    Capacity = 1
    MaxCrashes = 1
    MaxFaults = 0
    MaxDbFaults = 0
SPECIFICATION FairSpec
CHECK_DEADLOCK FALSE
PROPERTIES
    InstanceSettles
