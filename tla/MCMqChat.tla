------------------------------ MODULE MCMqChat ------------------------------
(* Instances of MqChat for TLC.                                             *)
EXTENDS MqChat, TLC

Symmetry == Permutations(Procs)

=============================================================================
