---------------------------- MODULE MCHostInput ----------------------------
(***************************************************************************)
(* Two application threads push four images through an input queue of two: *)
(* enough for a full queue, an eviction by each of them, and a push that   *)
(* loses the race for the slot the other one freed.                        *)
(***************************************************************************)
EXTENDS HostInput
=============================================================================
