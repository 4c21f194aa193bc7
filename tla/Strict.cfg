\* Three creates of different names, one of them by generateName, two limits in the
\* registries, deletes, one crash and restart, one failed or unanswered call,
\* clocks one tick apart, and a second of two ticks.
SPECIFICATION Spec
CONSTANTS
    r1 = r1
    r2 = r2
    r3 = r3
    Worker = Worker
    Sweeper = Sweeper
    Uid <- RequestUid
    TTL = 4
    Second = 2
    MaxSkew = 1
    MaxLatency = 1
    Requests = {r1, r2, r3}
    Generated = {r3}
    Name <- DistinctName
    Deletable = {r1, r2, r3}
    Limits = {0, 1}
    BoundedOutage = TRUE
    MaxTime = 3
    MaxFaults = 1
    MaxCrashes = 1
SYMMETRY Interchangeable
INVARIANTS StrictInv Covered NoOvershoot NoDoubleCount
PROPERTIES GrantWithinLimit ImplementsStrictQuota
CHECK_DEADLOCK FALSE
