SPECIFICATION Spec
CONSTANTS
    x = x
    y = y
    i1 = i1
    i2 = i2
    i3 = i3
    c1 = c1
    c2 = c2
    Names = {x, y}
    Ids = {i1, i2, i3}
    Calls = {c1, c2}
    Bytes = {0, 1, 4, 5}
    GiB = 4
    MaxFaults = 1
    MaxRestarts = 1
    Deadlines = TRUE
    None = None
SYMMETRY Symmetry
CHECK_DEADLOCK FALSE
INVARIANTS
    CapacityCovers
