\* Two workers, one instance, two operations, a database fault: an outbox event
\* that is published twice, transactions that fail.
CONSTANTS
    w1 = w1
    w2 = w2
    i1 = i1
    i2 = i2
    i3 = i3
    NoWorker = NoWorker
    NoContainer = NoContainer
    NoMessage = NoMessage
    Consumer <- TwoWorkers
    Instance <- OneInstance
    ChallengeOf <- OneChallenge
    Job <- TwoJobs
    Copy = {0, 1, 2, 3, 4, 5}
    MaxAttempts = 0
    Capacity = 1
    MaxCrashes = 0
    MaxFaults = 0
    MaxDbFaults = 1
SYMMETRY Workers
SPECIFICATION Spec
CHECK_DEADLOCK FALSE
INVARIANTS
    ValidRuntimeState
    JobMutex
PROPERTIES
    OutcomeFinal
