SPECIFICATION Spec
CONSTANTS
  a = a
  b = b
  Clients = {a, b}
  Readers <- MCReaders
  Sizes <- MCSizes
  StartSize <- MCStartSize
  DefaultSize <- MCDefaultSize
  MaxBacklog = 1
  SockRoom = 1
  MaxOutput = 1
  MaxInq = 1
  MaxSends = 1
INVARIANTS
  PtyIsSmallestClient
  ClientMirrorsModel
  ExitComesLast
PROPERTIES
  ReaderSeesScreen
  SessionEnds
