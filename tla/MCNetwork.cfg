SPECIFICATION Spec
CONSTANTS
    g = g  a1 = a1  a2 = a2  b1 = b1
    n1 = n1  n2 = n2  n3 = n3  n4 = n4
    Genesis = g
    EMPTY = EMPTY
    None = None
    Blocks <- MCBlocks
    Parent <- MCParent
    Ancestors <- MCAncestors
    Validators <- ThreeValidators
    Rotation <- ThreeRotation
    Quorum = 2
    MaxView = 2
    MaxRestarts = 1
    Faults = TRUE
    Timeouts = TRUE
INVARIANTS
    TypeOK
    AvailabilityBound
    TrackersOnOneChain
