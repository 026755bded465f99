SPECIFICATION Spec
CONSTANTS
    Nvm = FALSE
    NoHandler = NoHandler
    Headers <- MCHeaders
PROPERTY GetVersionStrAnswered
