SPECIFICATION Spec
CONSTANTS
  n1 = n1
  n2 = n2
  s1 = s1
  s2 = s2
  Nodes <- NodesTwo
  Streams <- StreamsTwo
  MaxSeq = 2
  MaxFaults = 1
  NotFoundErr = "ErrNoResults"
SYMMETRY Symmetry
INVARIANTS
  TypeOK
  GapFree
  OnlyPublished
  HalfDuplex
  RequestsServable
  NoStandstill
  CompleteSync
CHECK_DEADLOCK FALSE
