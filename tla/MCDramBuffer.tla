---------------------------- MODULE MCDramBuffer ----------------------------
(* Instances of DramBuffer for TLC. *)
EXTENDS DramBuffer, TLC

CoreSymmetry == Permutations(Core)
=============================================================================
