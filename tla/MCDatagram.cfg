CONSTANTS
    wifi = wifi
    cell = cell
    Addr <- MCAddr
    HomeAddr = wifi
    Window = 2
    MaxSeq = 4
    MaxRoams = 2
SPECIFICATION FairSpec
INVARIANTS
    AtMostOnce
    FirstArrivalIsAccepted
    AnswersToPresentAddress
PROPERTY
    PathRecovers
CHECK_DEADLOCK FALSE
