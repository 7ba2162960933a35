SPECIFICATION FairSpec
CONSTANTS
    v1 = v1
    v2 = v2
    n1 = n1
    p1 = p1
    c1 = c1
    c2 = c2
    Volumes = {v1, v2}
    Nodes = {n1}
    Paths = {p1}
    Calls = {c1, c2}
    None = None
    Transport <- AllRbd
    Block = {v2}
    Serial = {v2}
    FromSource = {}
    ProbeSteps = 1
    MaxFaults = 2
    MaxReboots = 1
    MaxLosses = 0
    MaxMounts = 1
    Deadlines = TRUE
INVARIANTS
    TypeOK

    
