-------------------------- MODULE MCTrackingUpload --------------------------
(***************************************************************************)
(* A small instance of TrackingUpload: rings that a few frames fill and    *)
(* wrap, a limit two failed batches reach, and one restart.                *)
(***************************************************************************)
EXTENDS TrackingUpload
=============================================================================
