--------------------------- MODULE MCGamifyService ---------------------------
(* Small values for GamifyService: deltas that cross the thresholds 100 and  *)
(* 400 of the level curve, in both directions, and reach both ends of Int64. *)
EXTENDS GamifyService

MCDeltas == {-300, 100, 300}
=============================================================================
