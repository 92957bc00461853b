---------------------------- MODULE MCScheduler ----------------------------
(* Instances of Scheduler for TLC. *)
EXTENDS Scheduler

CONSTANTS t1, t2, t3

MCOneCore == {0}

MCCore == {0, 1}

(* Every thread may run everywhere. *)
MCAnywhere == [t \in Thread |-> Core]

(* One thread runs on one core only. *)
MCPinned == [t \in Thread |-> IF t = t1 THEN {1} ELSE Core]
=============================================================================
