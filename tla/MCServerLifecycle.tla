------------------------- MODULE MCServerLifecycle -------------------------
(* Instances of ServerLifecycle for TLC. *)
EXTENDS ServerLifecycle

CONSTANTS p1, h1
OnePeer == {p1}
OneStream == {h1}
=============================================================================
