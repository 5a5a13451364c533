SPECIFICATION Spec
CONSTANTS
    Settings <- MCSettings
    Screens <- MCScreens
    Glyphs <- MCGlyphs
    Keys <- MCKeys
    Intervals = {1}
    Pauses = {1}
    GLITCH_THRESHOLD = 1
    GLITCH_REPAIR_COUNT = 1
    GLITCH_REPAIR_MININTERVAL = 1
    GLITCH_FLAG_THRESHOLD = 2
    SRTT_TRIGGER_LOW = 1
    SRTT_TRIGGER_HIGH = 2
    FLAG_TRIGGER_LOW = 3
    FLAG_TRIGGER_HIGH = 4
    MaxKeys = 3
    MaxTime = 1
    Widths = {2}
    PasteAt = {1}
    WinchAt = {2}
    PauseAt = {3}
INVARIANTS NoStalePrediction SecretNotShown  NothingLeftDrawn
CHECK_DEADLOCK FALSE
