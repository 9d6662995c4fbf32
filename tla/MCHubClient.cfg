SPECIFICATION FairSpec
CONSTANTS
  c1 = c1
  c2 = c2
  c3 = c3
  b1 = b1
  b2 = b2
  Clients <- OneClient
  Broadcasters <- TwoBroadcasters
  maxConn = 1
  SendBuffer = 2
  MaxBroadcasts = 3
INVARIANTS OneCloser GapMeansDropped
PROPERTIES RemovedClientStops DisconnectFreesSlot CloseEnds ImplementsFeeds
