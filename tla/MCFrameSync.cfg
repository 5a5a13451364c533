CONSTANTS
    Screens <- MCScreens
    MaxOutstanding = 1
    DiffOverhead = 0
    MaxFrames = 3
SPECIFICATION FairSpec
INVARIANTS
    ClientHoldsItsFrame
    ServerKnowsClient
    FullDumpOnlyWhenFarBehind
PROPERTIES
    MirrorsScreens
    Converges
