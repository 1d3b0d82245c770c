SPECIFICATION Spec
CONSTANTS
    KeySize = 32
    Numbers <- MCNumbers
    Keys <- MCKeys
    Inner <- MCInner
    None = None
    Refused = Refused
INVARIANTS
    DecodesOnlyWhole
    LengthsExact
