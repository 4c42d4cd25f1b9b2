----------------------------- MODULE MCStartup -----------------------------
(* Instances of Startup for TLC: five genesis keys, as on mainnet, and *)
(* configurations that differ from a good one in one setting.          *)
EXTENDS Startup

CONSTANTS k1, k2, k3, k4, k5
FiveKeys == {k1, k2, k3, k4, k5}

Good == [environment |-> TRUE, readable |-> TRUE, rpcConnections |-> 1, rpcPort |-> TRUE,
         genesisKeys |-> <<k1, k2, k3, k4, k5>>, bitcoinConfig |-> "unset", bitcoinValues |-> {},
         ip |-> TRUE, port |-> TRUE, engine |-> "sqlite", autoMigrate |-> TRUE,
         privateKey |-> "unset"]

BitcoinConf(values) ==
  [Good EXCEPT !.bitcoinConfig = "found", !.bitcoinValues = values, !.rpcPort = FALSE]

Some == {
  Good,
  [Good EXCEPT !.readable = FALSE],
  [Good EXCEPT !.genesisKeys = <<>>],
  [Good EXCEPT !.ip = FALSE],
  [Good EXCEPT !.engine = "mongodb"],
  [Good EXCEPT !.engine = "mysql", !.autoMigrate = FALSE],
  [Good EXCEPT !.privateKey = "valid"],
  [Good EXCEPT !.privateKey = "invalid"],
  BitcoinConf({"rpcuser", "rpcpassword"}),
  BitcoinConf({"rpcport", "rpcuser", "rpcpassword"})}
=============================================================================
