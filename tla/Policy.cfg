\* Two quotas and two exports: one is created, moved between the exports, deleted
\* and created again while the other is installed beside it, over lagging caches,
\* with a failed or unanswered call and a restart.
SPECIFICATION FairSpec
CONSTANTS
    c1 = c1
    c2 = c2
    g1 = g1
    g2 = g2
    id1 = id1
    id2 = id2
    None = None
    CQs = {c1, c2}
    Governed = {g1, g2}
    Resource <- OwnResource
    Rule <- OwnResource
    Identity <- OwnIdentity
    Names <- OneMoves
    Deletable = {c1}
    MaxEdits = 3
    MaxFaults = 1
    MaxRestarts = 1
INVARIANTS TypeOK Reconciled EnforcedButForRemovals
PROPERTIES OwnEntryOnly EntryGuarded Settles
CHECK_DEADLOCK FALSE
