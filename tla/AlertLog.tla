------------------------------ MODULE AlertLog ------------------------------
(***************************************************************************)
(* What the replication of alerts promises, with no protocol: every node   *)
(* holds a gap-free log of alerts that starts at the genesis alert         *)
(* (sequence number 0) and that only ever grows, by one alert in           *)
(* circulation at a time.  PeerSync implements it.                         *)
(***************************************************************************)
EXTENDS Integers

CONSTANTS
  Nodes,   \* nodes of the network
  MaxSeq   \* bound: the highest sequence number ever published

VARIABLES
  height,     \* height[n]: sequence number of the latest alert n holds
  published   \* sequence numbers of the alerts in circulation

vars == <<height, published>>

SeqNums == 0 .. MaxSeq

Init ==
  /\ height \in [Nodes -> SeqNums]
  /\ published \in SUBSET SeqNums
  /\ \A n \in Nodes : 0 .. height[n] \subseteq published

\* A publisher puts an alert in circulation.
Publish(k) ==
  /\ published' = published \cup {k}
  /\ UNCHANGED height

\* A node obtains the alert that follows its latest one.
Append(n) ==
  /\ height[n] + 1 \in published
  /\ height' = [height EXCEPT ![n] = @ + 1]
  /\ UNCHANGED published

Next ==
  \/ \E k \in SeqNums : Publish(k)
  \/ \E n \in Nodes : Append(n)

Spec == Init /\ [][Next]_vars
=============================================================================
