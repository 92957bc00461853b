------------------------------- MODULE Phases -------------------------------
(***************************************************************************)
(* What the phase barrier of the simulator promises.                       *)
(*                                                                         *)
(* Simulated time advances in phases.  A thread in the barrier has one     *)
(* turn in each phase, at most Limit threads have theirs together, and a   *)
(* phase ends when every thread in the barrier has had its turn.  A thread *)
(* may enter and exit at any time; one that exits and enters again gets    *)
(* another turn in the same phase.                                         *)
(***************************************************************************)
EXTENDS Integers, FiniteSets

CONSTANTS
    Thread,   \* the threads that may take part
    Limit     \* how many may run together

VARIABLE where   \* thread -> "out", "ready" for its turn, "running" or "done"

In(place) == {t \in Thread : where[t] = place}

Init == where = [t \in Thread |-> "out"]

Moves(t, from, to) ==
    /\ where[t] = from
    /\ where' = [where EXCEPT ![t] = to]

Enter(t) == Moves(t, "out", "ready")

Start(t) == Cardinality(In("running")) < Limit /\ Moves(t, "ready", "running")

Finish(t) == Moves(t, "running", "done")

Exit(t) == \E from \in {"ready", "running", "done"} : Moves(t, from, "out")

(* A phase ends: the next one is the turn of every thread that is in.       *)
EndPhase ==
    /\ In("ready") = {} /\ In("running") = {} /\ In("done") # {}
    /\ where' = [t \in Thread |->
                    IF where[t] = "done" THEN "ready" ELSE where[t]]

Next ==
    \/ \E t \in Thread : Enter(t) \/ Start(t) \/ Finish(t) \/ Exit(t)
    \/ EndPhase

Spec == Init /\ [][Next]_where
=============================================================================
