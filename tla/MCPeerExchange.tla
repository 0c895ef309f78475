--------------------------- MODULE MCPeerExchange ---------------------------
(* Model-checking instance of PeerExchange: one edaBit of two bits, made    *)
(* with two buckets, one of them opened.  Pools run dry in every function,  *)
(* at a place that depends on what they held at the start.                  *)
EXTENDS PeerExchange

MCDegree == [f2 |-> 2, fe |-> 1]
=============================================================================
