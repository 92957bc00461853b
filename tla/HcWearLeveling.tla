--------------------------- MODULE HcWearLeveling ---------------------------
(***************************************************************************)
(* HcClimber implements WearLeveling.  A call of access() is one abstract  *)
(* step, taken when the call returns; while it runs, the abstract state is *)
(* the one the call started from, which the history variable before keeps. *)
(***************************************************************************)
EXTENDS HcClimber, CallHistory

hvars == <<vars, before>>

HInit == Init /\ before = Snapshot

HNext == Next /\ Remembers

HSpec == HInit /\ [][HNext]_hvars

WL == INSTANCE WearLeveling WITH
        Page <- Page,
        Endurance <- lifelist2,
        Recharges <- FALSE,
        map <- before.map,
        life <- before.life,
        alive <- (pc # "worn")

(***************************************************************************)
(* Every call of access() is a write of the abstract memory: it leaves a   *)
(* placement, and it has charged exactly the pages that received data, in  *)
(* the climb, the write and the remap taken together.                      *)
(***************************************************************************)
ImplementsWearLeveling == WL!Spec
=============================================================================
