------------------------- MODULE MCBwlWearLeveling -------------------------
(* The instances of MCBwlClimber, with the history variable. *)
EXTENDS MCBwlClimber, BwlWearLeveling
=============================================================================
