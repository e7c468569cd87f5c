----------------------------- MODULE MCShmSysV -----------------------------
(* Instances of ShmSysV for TLC: see the configurations for the values.     *)
EXTENDS ShmSysVInv, TLC

ConsumerSymmetry == Permutations(Consumers)

=============================================================================
