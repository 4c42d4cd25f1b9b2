----------------------------- MODULE MCPeerSync -----------------------------
(* Instances of PeerSync for TLC. *)
EXTENDS PeerSync, TLC

CONSTANTS n1, n2, s1, s2
NodesTwo == {n1, n2}
StreamsOne == {s1}
StreamsTwo == {s1, s2}

\* Streams are interchangeable, and so are nodes.
Symmetry == Permutations(Nodes) \cup Permutations(Streams)
=============================================================================
