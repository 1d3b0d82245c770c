SPECIFICATION FairSpec
CONSTANTS
    g = g  a1 = a1  a2 = a2  b1 = b1
    n1 = n1  n2 = n2  n3 = n3  n4 = n4
    Genesis = g
    EMPTY = EMPTY
    None = None
    Blocks <- MCBlocks
    Parent <- MCParent
    Ancestors <- MCAncestors
    Validators <- FourValidators
    Rotation <- FourRotation
    Quorum = 3
    MaxView = 2
    MaxRestarts = 0
    Faults = FALSE
    Timeouts = FALSE
PROPERTY LeadersPropose
