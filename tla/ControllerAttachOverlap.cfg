SPECIFICATION Spec
CONSTANTS
    v1 = v1
    n1 = n1
    n2 = n2
    p1 = p1
    p2 = p2
    p3 = p3
    a1 = a1
    a2 = a2
    a3 = a3
    a4 = a4
    c1 = c1
    c2 = c2
    Volumes = {v1}
    Nodes = {n1, n2}
    Paths = {p1, p2, p3}
    Attachments = {a1, a2, a3, a4}
    Calls = {c1, c2}
    None = None
    Servers <- MCServers
    EcsNode <- MCEcsNode
    Transport <- AllRbd
    AttachSteps = 1
    DetachSteps = 1
    Faulty <- NoRequest
    MaxFaults = 0
    MaxRestarts = 0
    Deadlines = TRUE
    Provisioning = FALSE
SYMMETRY Symmetry
CHECK_DEADLOCK FALSE
INVARIANTS
    NoOrphanDevice
    SingleNodeAttached
