\* A name is created, deleted and created again while the informer lags.
\* No time passes.
SPECIFICATION Spec
CONSTANTS
    r1 = r1
    r2 = r2
    r3 = r3
    Worker = Worker
    Sweeper = Sweeper
    Uid <- RequestUid
    TTL = 3
    Second = 1
    MaxSkew = 0
    MaxLatency = 1
    Requests = {r1, r2, r3}
    Generated = {}
    Name <- SharedName
    Deletable = {r1}
    Limits = {1}
    BoundedOutage = TRUE
    MaxTime = 0
    MaxFaults = 0
    MaxCrashes = 0
INVARIANTS NoOvershoot
CHECK_DEADLOCK FALSE
