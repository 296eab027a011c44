CONSTANTS
    r1 = r1
    r2 = r2
    i1 = i1
    i2 = i2
    NoHost = NoHost
    Requests <- TwoRequests
    Instances <- OneInstance
    MaxPending = 1
    MaxGeneration = 2
    MaxGrant = 1
SPECIFICATION FairSpec
INVARIANTS PendingBounded
PROPERTIES EveryCallReturns
