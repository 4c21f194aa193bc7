\* Two quotas over two versions of one export: whatever stops or fails to start comes back.
SPECIFICATION FairSpec
CONSTANTS
    c1 = c1
    c2 = c2
    g1 = g1
    g2 = g2
    i1 = i1
    i2 = i2
    i3 = i3
    None = None
    CQs = {c1, c2}
    Governed = {g1, g2}
    Key <- SharedKey
    Instances = {i1, i2, i3}
    Names <- AnyName
    Deletable = {}
    Withdrawable = {}
    MaxEdits = 2
    MaxFailures = 2
    MaxStops = 2
PROPERTIES Recovered
CHECK_DEADLOCK FALSE
