SPECIFICATION Spec
CONSTANTS
    Nvm = TRUE
    NoHandler = NoHandler
    Headers <- MCHeaders
INVARIANTS
    TypeOK
    BlindSigningScreenTruthful
    PressActsOnMenuShown
    ToggleTestReturns
PROPERTIES
    ConsentToBlindSigning
    KeepsPromise
