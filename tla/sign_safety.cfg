SPECIFICATION Spec
CONSTANTS
    Transactions1 <- AllTransactions
    Paths2 <- MCPaths
    Blocks <- AllBlocks
    NoRequest = NoRequest
    MaxStarts = 2
INVARIANTS
    SignInv
    ReviewedIsSigned
    BlindSignatureNeedsConsent
    RecognizedStaysRecognized
PROPERTIES
    BlindNeedsSetting
    EveryStepCounts
