\* The only object is deleted while the controller is away.
SPECIFICATION FairSpec
CONSTANTS
    r1 = r1
    r2 = r2
    r3 = r3
    Worker = Worker
    Sweeper = Sweeper
    Uid <- RequestUid
    TTL = 3
    Second = 1
    MaxSkew = 0
    MaxLatency = 1
    Requests = {r1}
    Generated = {}
    Name <- DistinctName
    Deletable = {r1}
    Limits = {1}
    BoundedOutage = TRUE
    MaxTime = 0
    MaxFaults = 0
    MaxCrashes = 1
PROPERTIES ConfirmedConverges
CHECK_DEADLOCK FALSE
