SPECIFICATION Spec
CONSTANTS
    x = x
    i1 = i1
    i2 = i2
    i3 = i3
    c1 = c1
    c2 = c2
    Names = {x}
    Ids = {i1, i2, i3}
    Calls = {c1, c2}
    Bytes = {4}
    GiB = 4
    MaxFaults = 0
    MaxRestarts = 0
    Deadlines = TRUE
    None = None
SYMMETRY Symmetry
CHECK_DEADLOCK FALSE
INVARIANTS
    OneVolumePerName
