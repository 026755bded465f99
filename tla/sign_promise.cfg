SPECIFICATION LiveSpec
CONSTANTS
    Transactions1 <- SomeTransactions
    Paths2 <- MCPaths
    Blocks <- SomeBlocks
    NoRequest = NoRequest
    MaxStarts = 3
PROPERTIES
    KeepsPromise
    EveryRequestEnds
    CooperationIsSigned
