---------------------------- MODULE MCHostOutput ----------------------------
(***************************************************************************)
(* Four headers through an output queue of two: enough for an eviction     *)
(* while the output thread holds an item, for the output thread to empty   *)
(* the queue between a failed push and the eviction, and for a failure at  *)
(* every point of a reception. The watchdog is due after two empty polls.  *)
(***************************************************************************)
EXTENDS HostOutput
=============================================================================
