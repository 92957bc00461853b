-------------------------- MODULE MCFutexMatching --------------------------
(* Instances of FutexMatching for TLC. *)
EXTENDS FutexMatching

CONSTANTS t1, t2, t3

MCOneOrTwo == {1, 2}
=============================================================================
