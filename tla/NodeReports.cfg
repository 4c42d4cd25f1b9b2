SPECIFICATION ReportsSpec
CONSTANTS
  g = g
  rotate = rotate
  ban = ban
  k1 = k1
  k2 = k2
  k3 = k3
  Genesis = g
  Alerts <- ThreeAlerts
  Keys <- KeySet
  SeqOf <- SeqDef
  KeysOf <- KeysDef
  SignersOf <- SignersDef
  Readers = {"r1"}
  NotFoundErr = "ErrNoResults"
  TablePrefix = "alert_system"
  MaxFaults = 1
  MaxRefusals = 1
INVARIANTS
  HealthTruthful
  ListedIsShown
  PostedHappened
CHECK_DEADLOCK FALSE
