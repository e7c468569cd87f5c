---------------------------- MODULE MCShmPosix -----------------------------
(* Instances of ShmPosix for TLC.                                           *)
EXTENDS ShmPosix, TLC

Symmetry == Permutations(Producers) \cup Permutations(Consumers)

=============================================================================
