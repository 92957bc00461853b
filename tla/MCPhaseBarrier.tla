--------------------------- MODULE MCPhaseBarrier ---------------------------
(* Instances of PhaseBarrier for TLC. *)
EXTENDS PhaseBarrier, TLC

ThreadSymmetry == Permutations(Thread)
=============================================================================
