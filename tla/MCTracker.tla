------------------------------ MODULE MCTracker ------------------------------
(***************************************************************************)
(* Neighbouring places are within reach of each other (78 percent) but do  *)
(* not overlap too much (38 percent); those two apart are out of reach.    *)
(* Six frames confirm a track and delete it; with three detections three   *)
(* tracks of different age compete.  Four are the fewest that show what    *)
(* the thinning leaves.                                                    *)
(***************************************************************************)
EXTENDS Tracker

MCPlaces == {0, 13, 26}
=============================================================================
