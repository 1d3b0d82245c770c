SPECIFICATION Spec
CONSTANTS
    g = g  a1 = a1  a2 = a2  b1 = b1  me = me  peer = peer
    Genesis = g
    EMPTY = EMPTY
    None = None
    Self = me
    Blocks <- MCBlocks
    Parent <- MCParent
    Ancestors <- MCAncestors
    Validators <- MCValidators
    Faults = TRUE
    MaxView = 3
    MailboxSize = 1
    SinkSize = 2
    FcuAttempts = 2
    MaxRestarts = 1
    Rebuild = TRUE
INVARIANTS
    AnchorsFinal
    ProposalsExtendParent
    VouchedIsHeld
PROPERTY ImplementsNode
