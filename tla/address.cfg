SPECIFICATION MCSpec
CONSTANTS
    Radix = 5
    StepBytes = 2
    MaxSteps = 3
    BIP32_PREFIX <- MCPrefix
    Params <- MCParams
    Blocks <- MCBlocks
    NoRequest = NoRequest
INVARIANTS
    TypeOK
    StreamInv
    AnswerMatchesRequest
PROPERTIES
    KeepsPromise
    EveryStepCounts
    CooperationIsAnswered
