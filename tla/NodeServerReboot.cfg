SPECIFICATION Spec
CONSTANTS
    v1 = v1
    v2 = v2
    n1 = n1
    p1 = p1
    p2 = p2
    c1 = c1
    c2 = c2
    Volumes = {v1, v2}
    Nodes = {n1}
    Paths = {p1, p2}
    Calls = {c1, c2}
    None = None
    Transport <- AllRbd
    Block = {}
    Serial = {}
    FromSource = {}
    ProbeSteps = 2
    MaxFaults = 0
    MaxReboots = 1
    MaxLosses = 0
    MaxMounts = 3
    Deadlines = FALSE
SYMMETRY Symmetry
INVARIANTS
    StagedOwn
