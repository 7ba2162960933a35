SPECIFICATION Spec
CONSTANTS
    v1 = v1
    v2 = v2
    v3 = v3
    v4 = v4
    None = None
    Volumes = {v1, v2, v3, v4}
    Limits = {0, 1, 2, 4}
    MaxLimit = 3
    MaxFaults = 1
INVARIANTS
    CompleteWithLimit
    ListedOnce
PROPERTIES
    ListingEnds
