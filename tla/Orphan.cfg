\* The only quota is deleted while its webhook is being installed.
SPECIFICATION Spec
CONSTANTS
    c1 = c1
    c2 = c2
    g1 = g1
    g2 = g2
    id1 = id1
    id2 = id2
    None = None
    CQs = {c1}
    Governed = {g1}
    Resource <- OwnResource
    Rule <- OwnResource
    Identity <- OwnIdentity
    Names <- AnyName
    Deletable = {c1}
    MaxEdits = 1
    MaxFaults = 0
    MaxRestarts = 0
INVARIANTS NoOrphan
CHECK_DEADLOCK FALSE
