\* Two quotas on two shards: one is edited and moved, the other also created and
\* deleted, while the replica starts, with a failed list or a restart.
SPECIFICATION FairSpec
CONSTANTS
    c1 = c1
    c2 = c2
    r1 = r1
    r2 = r2
    r3 = r3
    s1 = s1
    s2 = s2
    None = None
    CQs = {c1, c2}
    Refs = {r1, r2, r3}
    Limits = {1, 2}
    Names <- OwnRef
    Shards = {s1, s2}
    Shard <- OwnShard
    Deletable = {c2}
    MaxEdits = 1
    MaxFaults = 1
INVARIANTS TypeOK Mirrored MoveFollowed ReadyKnows
PROPERTIES Opens
CHECK_DEADLOCK FALSE
