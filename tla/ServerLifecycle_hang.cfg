SPECIFICATION FairSpec
CONSTANTS
  p1 = p1
  h1 = h1
  Peers <- OnePeer
  Handlers <- OneStream
PROPERTIES
  ShutdownStopsServer
CHECK_DEADLOCK FALSE
