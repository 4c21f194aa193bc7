\* What holds of every ledger, also when requests share a name, names are used
\* again and the TTL is too short.
SPECIFICATION Spec
CONSTANTS
    r1 = r1
    r2 = r2
    r3 = r3
    Worker = Worker
    Sweeper = Sweeper
    Uid <- RequestUid
    TTL = 2
    Second = 1
    MaxSkew = 1
    MaxLatency = 2
    Requests = {r1, r2, r3}
    Generated = {}
    Name <- SharedName
    Deletable = {r1}
    Limits = {2}
    BoundedOutage = FALSE
    MaxTime = 1
    MaxFaults = 1
    MaxCrashes = 1
INVARIANTS TypeOK DraftFresh Bookkeeping ConfirmedIsCount OneReservationPerKey
PROPERTIES SlotWithinLimit TwoFates ApplyIsAtomic
CHECK_DEADLOCK FALSE
