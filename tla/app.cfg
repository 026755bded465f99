SPECIFICATION FairAppSpec
CONSTANTS
    Nvm = FALSE
    NoHandler = NoHandler
    Headers <- MCHeaders
    Transactions1 <- MCTransactions
    Paths2 <- MCPaths2
    SignBlocks <- MCSignBlocks
    MaxStarts = 2
    Radix = 3
    StepBytes = 1
    MaxSteps = 2
    BIP32_PREFIX <- MCPrefix
    Params <- MCParams
    AddressBlocks <- MCAddressBlocks
    NoRequest = NoRequest
    PendingReviewScreen = TRUE
INVARIANTS
    HandlerSettingsCurrent
    LoopInv
    HandlerMatchesLoop
    EachStartReviewed
PROPERTIES
    KeepsPromise
    PollsRunOut
    ResultIsEarned
    ImplementsSign
    ImplementsAddress
    CommandAnswered
