\* The only quota is deleted while its stopped set is being started again.
SPECIFICATION Spec
CONSTANTS
    c1 = c1
    c2 = c2
    g1 = g1
    g2 = g2
    i1 = i1
    i2 = i2
    i3 = i3
    None = None
    CQs = {c1}
    Governed = {g1}
    Key <- OwnKey
    Instances = {i1, i2}
    Names <- AnyName
    Deletable = {c1}
    Withdrawable = {}
    MaxEdits = 0
    MaxFailures = 0
    MaxStops = 1
INVARIANTS NoUnreferencedSet
CHECK_DEADLOCK FALSE
