SPECIFICATION FairSpec
CONSTANTS
  g = g
  rotate = rotate
  ban = ban
  rotate2 = rotate2
  k1 = k1
  k2 = k2
  k3 = k3
  k4 = k4
  Genesis = g
  Alerts <- ThreeAlerts
  Keys <- KeySet
  SeqOf <- SeqDef
  KeysOf <- KeysDef
  SignersOf <- SignersDef
  Readers = {"r1"}
  NotFoundErr = "ErrAlertNotFound"
  TablePrefix = "alert_system_mainnet"
  MaxFaults = 0
  MaxRefusals = 1
PROPERTIES
  EventuallyProcessed
CHECK_DEADLOCK FALSE
