----------------------------- MODULE MCVmManager -----------------------------
(* Instances of VmManager for TLC. *)
EXTENDS VmManager, TLC

Nothing == {}

Symmetry == Permutations(Owners) \cup Permutations(Calls)
==============================================================================
