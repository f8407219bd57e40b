------------------------------ MODULE MCGossip ------------------------------
(* An instance of Gossip: two ids, one of them in two encodings.           *)
EXTENDS Gossip

CONSTANTS p1, p2, m1, m2, n1, m, n

TwoEncodings == [x \in {m1, m2, n1} |-> IF x = n1 THEN n ELSE m]
AllConfigs == [scoring : BOOLEAN, fastIds : BOOLEAN]
=============================================================================
