--------------------------- MODULE BwlWearLeveling ---------------------------
(***************************************************************************)
(* BwlClimber implements WearLeveling.  A call of access() is one abstract *)
(* step, taken when the call returns; while it runs, the abstract state is *)
(* the one the call started from, which the history variable before keeps. *)
(***************************************************************************)
EXTENDS BwlClimber, CallHistory

bwlHvars == <<bwlVars, before>>

BwlHInit == BwlInit /\ before = Snapshot

BwlHNext == BwlNext /\ Remembers

BwlHSpec == BwlHInit /\ [][BwlHNext]_bwlHvars

BwlWL == INSTANCE WearLeveling WITH
        Page <- Page,
        Endurance <- lifelist2,
        Recharges <- TRUE,
        map <- before.map,
        life <- before.life,
        alive <- (pc # "worn")

(***************************************************************************)
(* Every call of access() is a write of the abstract memory: it leaves a   *)
(* placement, and it has charged the pages that received data, in the      *)
(* climb, the write and the remap, and the written page again in a remap.  *)
(***************************************************************************)
BwlImplementsWearLeveling == BwlWL!Spec
=============================================================================
