SPECIFICATION Spec
CONSTANTS
  c1 = c1
  c2 = c2
  c3 = c3
  b1 = b1
  b2 = b2
  Clients <- TwoClients
  Broadcasters <- OneBroadcaster
  maxConn = 1
  SendBuffer = 1
  MaxBroadcasts = 1
SYMMETRY Symmetry
INVARIANTS TypeOK SlotAccounting NoLeakedClient
PROPERTY ImplementsPool
