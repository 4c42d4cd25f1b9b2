---------------------------- MODULE MCNodeReports ----------------------------
(* Instance of NodeReports for TLC: the genesis alert installs k1, k2; the  *)
(* first alert replaces k1 by k3; the second, valid with either set of      *)
(* keys, acts on the bitcoin node.                                          *)
EXTENDS NodeReports

CONSTANTS g, rotate, ban, k1, k2, k3

ThreeAlerts == {g, rotate, ban}
KeySet == {k1, k2, k3}

SeqDef == [a \in Alerts |-> CASE a = g -> 0 [] a = rotate -> 1 [] OTHER -> 2]
KeysDef == [a \in Alerts |-> CASE a = g -> {k1, k2} [] a = rotate -> {k2, k3} [] OTHER -> {}]
SignersDef == [a \in Alerts |-> CASE a = g -> {} [] a = rotate -> {k1, k2} [] OTHER -> {k2}]
=============================================================================
