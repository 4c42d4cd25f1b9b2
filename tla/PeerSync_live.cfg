SPECIFICATION FairSpec
CONSTANTS
  n1 = n1
  n2 = n2
  s1 = s1
  s2 = s2
  Nodes <- NodesTwo
  Streams <- StreamsOne
  MaxSeq = 2
  MaxFaults = 1
  NotFoundErr = "ErrAlertNotFound"
PROPERTIES
  ImplementsAlertLog
  CatchUp
  SessionsEnd
CHECK_DEADLOCK FALSE
