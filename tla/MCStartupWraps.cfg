\* A release build: u8 overflow wraps.
SPECIFICATION Spec
CONSTANTS
    U8Modulus = 4
    OverflowChecks = FALSE
    Started = {0, 1, 2, 3}
    MaxSize = 4
    BasePorts = {5, 6}
    Lists <- NoLists
    MaxPort = 8
    Configs <- OnlyDefault
INVARIANTS
    RefusedOnMainThread
CHECK_DEADLOCK FALSE
