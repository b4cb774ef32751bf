\* One worker with room for one instance, two instances of one challenge and one
\* of another, three operations, a fault and a database fault: restarts and
\* resets against errors and lost containers.
CONSTANTS
    w1 = w1
    w2 = w2
    i1 = i1
    i2 = i2
    i3 = i3
    NoWorker = NoWorker
    NoContainer = NoContainer
    NoMessage = NoMessage
    Consumer <- OneWorker
    Instance <- ThreeInstances
    ChallengeOf <- TwoChallenges
    Job <- ThreeJobs
    Copy = {0, 1, 2, 3, 4, 5}
    MaxAttempts = 1
    Capacity = 1
    MaxCrashes = 0
    MaxFaults = 1
    MaxDbFaults = 1
SYMMETRY Instances
SPECIFICATION Spec
CHECK_DEADLOCK FALSE
INVARIANTS
    TypeOK
    FlagCurrent
    CapacityRespected
