------------------------------- MODULE MCRing -------------------------------
(* The instance of Ring for TLC. *)
EXTENDS Ring, TLC

\* Every placement of the virtual nodes, with and without two on one position.
AllHashes == [Nodes -> [VNodes -> Pos]]

\* No definition of Ring tells nodes or virtual nodes apart, and AllHashes is
\* closed under their permutations.
RingSymmetry == Permutations(Nodes) \cup Permutations(VNodes)
=============================================================================
