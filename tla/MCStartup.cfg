\* Devnets of up to four validators, three nodes of which are started; u8 scaled
\* down to 0..3.
SPECIFICATION Spec
CONSTANTS
    U8Modulus = 4
    OverflowChecks = TRUE
    Started = {0, 1, 2}
    MaxSize = 4
    BasePorts = {5, 6}
    Lists <- SomeLists
    MaxPort = 8
    Configs <- SmallConfigs
INVARIANTS
    TypeOK
    AgreeOnValidators
    PeersReachable
    RefusedOnMainThread
CHECK_DEADLOCK FALSE
