CONSTANTS
    MaxTyped = 0
    MaxOutput = 1
    InFlight = 2
    ExitCode = 3
    PromptEcho = FALSE
    IdleTimeout = TRUE
SPECIFICATION Spec
INVARIANT
    HandshakeLeavesFinalScreen
