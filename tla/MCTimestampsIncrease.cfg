\* Blocks within one second.
SPECIFICATION Spec
CONSTANTS
    Nodes = {n1, n2}
    None = None
    PerSecond = 3
    U64Max = 10
    MaxBlocks = 3
SYMMETRY Symmetry
INVARIANT TimesIncrease
CHECK_DEADLOCK FALSE
