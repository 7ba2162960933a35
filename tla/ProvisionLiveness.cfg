SPECIFICATION FairSpec
CONSTANTS
    x = x
    y = y
    i1 = i1
    i2 = i2
    i3 = i3
    c1 = c1
    c2 = c2
    Names = {x, y}
    Ids = {i1, i2, i3}
    Calls = {c1, c2}
    Bytes = {5}
    GiB = 4
    MaxFaults = 2
    MaxRestarts = 2
    Deadlines = FALSE
    None = None
CHECK_DEADLOCK FALSE
INVARIANTS
    OneVolumePerName
PROPERTIES
    Provisioned
