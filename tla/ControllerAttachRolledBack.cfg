SPECIFICATION FairSpec
CONSTANTS
    v1 = v1
    v2 = v2
    n1 = n1
    n2 = n2
    p1 = p1
    p2 = p2
    a1 = a1
    a2 = a2
    c1 = c1
    c2 = c2
    Volumes = {v1, v2}
    Nodes = {n1, n2}
    Paths = {p1, p2}
    Attachments = {a1, a2}
    Calls = {c1, c2}
    None = None
    Servers <- MCServers
    EcsNode <- MCEcsNode
    Transport <- AllRbd
    AttachSteps = 1
    DetachSteps = 1
    Faulty <- RolledBack
    MaxFaults = 2
    MaxRestarts = 0
    Deadlines = FALSE
    Provisioning = FALSE
CHECK_DEADLOCK FALSE
INVARIANTS
    PublishedPath
PROPERTIES
    Published
    Unpublished
    Removed
