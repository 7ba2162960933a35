SPECIFICATION Spec
CONSTANTS
    v1 = v1
    n1 = n1
    n2 = n2
    p1 = p1
    p2 = p2
    p3 = p3
    a1 = a1
    a2 = a2
    a3 = a3
    a4 = a4
    c1 = c1
    Volumes = {v1}
    Nodes = {n1, n2}
    Paths = {p1, p2, p3}
    Attachments = {a1, a2, a3, a4}
    Calls = {c1}
    None = None
    Servers <- MCServers
    EcsNode <- MCEcsNode
    Transport <- AllRbd
    AttachSteps = 2
    DetachSteps = 2
    Faulty <- AnyRequest
    MaxFaults = 2
    MaxRestarts = 1
    Deadlines = FALSE
    Provisioning = TRUE
SYMMETRY Symmetry
CHECK_DEADLOCK FALSE
INVARIANTS
    TypeOK
    SingleNodeAttached
    NoOrphanDevice
    DevicesOnOneNode
    DetachFindsAttachment
    ReleasesOwn
    AttachedIsAttached
    DeletedNotMapped
PROPERTIES
    UnpublishTruthful
    ImplementsExclusive
