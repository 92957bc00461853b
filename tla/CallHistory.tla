----------------------------- MODULE CallHistory -----------------------------
(***************************************************************************)
(* What both CLIMBER schemes need to be compared with WearLeveling: the    *)
(* placement and the lives at the start of the call of access() under way. *)
(* before only records; it constrains no action.                           *)
(***************************************************************************)
EXTENDS ClimberCore

VARIABLE before

Snapshot == [map |-> maplist, life |-> lifelist]

(* A call that returns makes the present state the new starting point. *)
Remembers == before' = IF pc' = "ready" THEN Snapshot' ELSE before
=============================================================================
