------------------------------- MODULE MCMesh -------------------------------
(* Mesh for TLC.  Peers are interchangeable, and so are connections.  The  *)
(* scores are the least that tell the thresholds apart.                    *)
EXTENDS Mesh

Symmetry == Permutations(Peers) \cup Permutations(Conns)

MinusOne     == -1
MinusTwo     == -2
BadOrNeutral == {-1, 0}
AllBands     == {-2, -1, 0}
=============================================================================
