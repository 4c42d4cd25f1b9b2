---------------------------- MODULE MCAlertNode ----------------------------
(***************************************************************************)
(* Instances of AlertNode for TLC: the genesis alert installs k1, k2; the  *)
(* first alert replaces k1 by k3; the second acts on the bitcoin node; the *)
(* third replaces k2 by k4.  The second is valid with either set of keys,  *)
(* so that only its number keeps it in its place; the third needs a key    *)
(* that the first installs.                                                *)
(***************************************************************************)
EXTENDS AlertNode

CONSTANTS g, rotate, ban, rotate2, k1, k2, k3, k4

ThreeAlerts == {g, rotate, ban}
FourAlerts == {g, rotate, ban, rotate2}
KeySet == {k1, k2, k3, k4}

SeqDef == [a \in Alerts |-> CASE a = g -> 0 [] a = rotate -> 1 [] a = ban -> 2 [] OTHER -> 3]
KeysDef == [a \in Alerts |->
  CASE a = g -> {k1, k2} [] a = rotate -> {k2, k3} [] a = ban -> {} [] OTHER -> {k3, k4}]
SignersDef == [a \in Alerts |->
  CASE a = g -> {} [] a = rotate -> {k1, k2} [] a = ban -> {k2} [] OTHER -> {k2, k3}]
=============================================================================
