CONSTANTS
    MaxTyped = 1
    MaxOutput = 0
    InFlight = 1
    ExitCode = 3
    PromptEcho = TRUE
    IdleTimeout = FALSE
SPECIFICATION FairSpec

    
PROPERTY
    CatchesUp
