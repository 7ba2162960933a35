SPECIFICATION FairSpec
CONSTANTS
    v1 = v1
    v2 = v2
    v3 = v3
    n1 = n1
    p1 = p1
    p2 = p2
    c1 = c1
    c2 = c2
    Volumes = {v1, v2, v3}
    Nodes = {n1}
    Paths = {p1, p2}
    Calls = {c1, c2}
    None = None
    Transport <- AllRbd
    Block = {v2}
    Serial = {}
    FromSource = {v3}
    ProbeSteps = 2
    MaxFaults = 1
    MaxReboots = 0
    MaxLosses = 1
    MaxMounts = 3
    Deadlines = FALSE
INVARIANTS
    PodSeesVolume
    GrownBeforeUse
PROPERTIES
    NeverFormatsData
    PodRuns
    PodGoes
