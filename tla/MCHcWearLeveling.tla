-------------------------- MODULE MCHcWearLeveling --------------------------
(* The instances of MCHcClimber, with the history variable. *)
EXTENDS MCHcClimber, HcWearLeveling
=============================================================================
