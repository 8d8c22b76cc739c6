SPECIFICATION FairSpec
CONSTANTS
    w1 = w1
    Deliveries = {d1, d2}
    Invocations = {i1, i2}
    Workers = {w1}
    WorkerOf <- MCWorkerOf
    MaximumAttempts = 3
    BatchLimit = 2
    NoOne = NoOne
INVARIANTS
    LeaseHonoured
    AttemptsInOrder
PROPERTY SettlesUnlessOrphaned
