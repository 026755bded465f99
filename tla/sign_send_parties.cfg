SPECIFICATION Spec
CONSTANTS
    Transactions1 <- SomeTransactions
    Paths2 <- MCPaths
    Blocks <- SomeBlocks
    NoRequest = NoRequest
    MaxStarts = 1
INVARIANT SendShowsParties
