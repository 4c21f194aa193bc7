\* Two quotas over two exports, edited, deleted and created again, while starts
\* fail, sets stop by themselves and one export is withdrawn.
SPECIFICATION Spec
CONSTANTS
    c1 = c1
    c2 = c2
    g1 = g1
    g2 = g2
    i1 = i1
    i2 = i2
    i3 = i3
    None = None
    CQs = {c1, c2}
    Governed = {g1, g2}
    Key <- OwnKey
    Instances = {i1, i2, i3}
    Names <- AnyName
    Deletable = {c1, c2}
    Withdrawable = {g1}
    MaxEdits = 2
    MaxFailures = 1
    MaxStops = 2
SYMMETRY Alike
INVARIANTS TypeOK SingleWriter RegisteredIsAlive OneStarter RefsMatchSpecs
PROPERTIES TeardownWhenUnreferenced StartNotLost
CHECK_DEADLOCK FALSE
