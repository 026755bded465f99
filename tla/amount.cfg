SPECIFICATION Spec
CONSTANTS
    Decimals = 9
    Cap = 64
    Amounts <- MCAmounts
INVARIANTS
    ScanInv
    PanicOnlyOnEmpty
    RefusedExactly
    ValuePreserved
    Canonical
    ExamplesConverted
CHECK_DEADLOCK FALSE
