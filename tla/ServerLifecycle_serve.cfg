SPECIFICATION FairSpec
CONSTANTS
  p1 = p1
  h1 = h1
  Peers <- OnePeer
  Handlers <- OneStream
INVARIANTS
  TypeOK
  StopNeverBlocks
  ServesConnected
PROPERTIES
  EventuallyServes
  SignalEnds
  DiscoveryEnds
CHECK_DEADLOCK FALSE
