CONSTANTS
    MaxFragments = 3
    NumLimit = 4
    MaxPieces = 4
    MaxPayloads = 3
    LenBase = 2
    MaxFrameLen = 2
    MaxRead = 3
    MaxFrames = 3
    MaxStdin = 5
    MaxStdinRead = 2
SPECIFICATION MCSpec
INVARIANTS
    Reassembles
    DetachesAtKey
    FramesExact
    KeysHandedOn
    OuterFollowsModel
CHECK_DEADLOCK FALSE
