CONSTANTS
    r1 = r1
    r2 = r2
    i1 = i1
    i2 = i2
    NoHost = NoHost
    Requests <- TwoRequests
    Instances <- TwoInstances
    MaxPending = 2
    MaxGeneration = 2
    MaxGrant = 2
SPECIFICATION Spec
SYMMETRY Symmetry
INVARIANTS QueueIsAwaited HandedToTarget AnsweredByOwner ParkedPollIsCurrent WaitingIsArmed
PROPERTIES StaleHandlerHarmless ImplementsRpcOnce
