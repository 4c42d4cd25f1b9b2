SPECIFICATION Spec
CONSTANTS
  Nodes = {n1, n2}
  Gossipers = {n1}
  Circulations <- MCCirculations
  Noise <- MCNoise
  GenesisKeys <- FirstKeys
  MaxAtWork = 2
  MaxFaults = 1
  GenesisRaw <- MCGenesisRaw
  Parses <- KeyParses
  Sign <- KeySign
INVARIANTS
  WireTypeOK
  RelayedUnchanged
  DecodesAgain
  ChainOfTrust
PROPERTIES
  AuthenticRows
  ReadsFormat
  FramesSeparate
CHECK_DEADLOCK FALSE
