\* Everything settles when the consumer is quiet, also after a crash of the controller.
SPECIFICATION FairSpec
CONSTANTS
    r1 = r1
    r2 = r2
    r3 = r3
    Worker = Worker
    Sweeper = Sweeper
    Uid <- RequestUid
    TTL = 2
    Second = 1
    MaxSkew = 0
    MaxLatency = 1
    Requests = {r1, r2}
    Generated = {}
    Name <- DistinctName
    Deletable = {r1, r2}
    Limits = {1}
    BoundedOutage = TRUE
    MaxTime = 2
    MaxFaults = 1
    MaxCrashes = 1
PROPERTIES ConvergesUnlessEmptied ExpiredSwept EveryRequestAnswered
CHECK_DEADLOCK FALSE
