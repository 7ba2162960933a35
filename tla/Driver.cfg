SPECIFICATION Spec
CONSTANTS
    v1 = v1
    v2 = v2
    n1 = n1
    n2 = n2
    p1 = p1
    p2 = p2
    a1 = a1
    a2 = a2
    c1 = c1
    c2 = c2
    k1 = k1
    k2 = k2
    Volumes = {v1, v2}
    Nodes = {n1, n2}
    Paths = {p1, p2}
    Attachments = {a1, a2}
    ControllerCalls = {c1, c2}
    NodeCalls = {k1, k2}
    None = None
    Servers <- MCServers
    EcsNode <- MCEcsNode
    Transport <- AllRbd
    AttachSteps = 1
    DetachSteps = 1
    Faulty <- RolledBack
    ControllerFaults = 1
    Block = {}
    Serial = {}
    FromSource = {}
    ProbeSteps = 1
    NodeFaults = 1
    MaxMounts = 1
SYMMETRY Symmetry
CHECK_DEADLOCK FALSE
INVARIANTS
    MountedWhereAttached
PROPERTIES
    ImplementsNodeServer
    ImplementsPodStorage
