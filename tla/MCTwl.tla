-------------------------------- MODULE MCTwl --------------------------------
(* Instances of Twl small enough for TLC. *)
EXTENDS Twl

(* Pages of unequal endurance, which sum up to the driver's ten accesses. *)
MCLife4 == [p \in 0 .. 3 |-> <<1, 2, 3, 4>>[p + 1]]
=============================================================================
