SPECIFICATION Spec
CONSTANTS
  Emulate <- Process
  ResizeTo <- Resize
  Dump <- DumpVt
  AttachDump <- DumpFlat
  SwitchDump <- DumpScreenSwitch
  Draw <- NewFrame
  WideChars = {"W"}
  CombiningChars = {"^"}
  Slots = {1, 2}
  TabWidth = 2
  Cols132 = 5
  Cols80 = 4
  ColorStackMax = 2
  KittyStackMax = 2
  Quota = 20
  MaxPending = 15
  CellW = 1
  CellH = 1
  ChunkSize = 6
  EraseRun = 1
  ShortMove = 2
  ServerLateAfter = 2
  MessageTime = 1
  Height = 3
  Width = 3
  History = 12
  Sizes <- MCSizes
  Ways = {"text", "control", "graphics", "remote", "banner", "attached"}
  Scripts <- MCScripts
  Vocabulary <- MCVocabulary
  Outputs <- MCOutputs
  Latest = 5
INVARIANTS
  
  
  DisplayMorphs
  OuterGivenBack
PROPERTIES
  SwitchRepaints
  NoticedChanges
  ReflowKeepsText
CHECK_DEADLOCK FALSE
