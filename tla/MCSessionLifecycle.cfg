CONSTANTS
    Procs = {p}
    MaxDaemons = 4
SPECIFICATION FairSpec
INVARIANTS
    ReachableAndAlone
PROPERTIES
    StaleIsReclaimed
