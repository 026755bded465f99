SPECIFICATION Spec
CONSTANTS
    Decimals = 9
    Cap = 64
    Amounts <- MCAmounts
INVARIANT BadAmountIsAnError
CHECK_DEADLOCK FALSE
