SPECIFICATION Spec
CONSTANTS
  a = a
  b = b
  Clients = {a}
  Readers <- MCReaders
  Sizes <- MCSizes
  StartSize <- MCStartSize
  DefaultSize <- MCDefaultSize
  MaxBacklog = 3
  SockRoom = 2
  MaxOutput = 1
  MaxInq = 1
  MaxSends = 0
INVARIANT ToldIsHeard
