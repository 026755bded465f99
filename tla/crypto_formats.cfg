SPECIFICATION Spec
CONSTANTS
    Radix = 4
    Half = 3
    Signatures <- MCSignatures
    Points <- MCPoints
    Prime <- MCPrime
INVARIANTS
    HalvesDenote
    NeverPanics
    KeysStayApart
CHECK_DEADLOCK FALSE
