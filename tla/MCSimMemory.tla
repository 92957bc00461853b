---------------------------- MODULE MCSimMemory ----------------------------
(* Instances of SimMemory small enough for TLC. *)
EXTENDS SimMemory

CONSTANTS g1, g2

MCLife4 == [p \in 0 .. 3 |-> <<1, 2, 3, 4>>[p + 1]]
=============================================================================
