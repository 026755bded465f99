SPECIFICATION Spec
CONSTANTS
    Nvm = FALSE
    NoHandler = NoHandler
    Headers <- MCHeaders
PROPERTY CancelResetsRequest
