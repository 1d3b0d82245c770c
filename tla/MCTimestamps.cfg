SPECIFICATION Spec
CONSTANTS
    Nodes = {n1, n2}
    None = None
    PerSecond = 3
    U64Max = 10
    MaxBlocks = 3
SYMMETRY Symmetry
INVARIANTS
    TypeOK
    RecordsAgree
    ProposerNeverRefused
    TimesFollowClocks
CHECK_DEADLOCK FALSE
