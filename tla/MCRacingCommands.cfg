CONSTANTS
    Procs = {p, q}
    MaxDaemons = 2
SPECIFICATION Spec
PROPERTY
    OnlyDeadAreRemoved
