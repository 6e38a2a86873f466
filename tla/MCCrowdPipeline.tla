--------------------------- MODULE MCCrowdPipeline ---------------------------
(***************************************************************************)
(* Three buffers to convert into are the least the code could do with; it  *)
(* has six.  Four frames use one of them and each thread twice, and of a   *)
(* recorder two are pictured.  A queue of two fills when the handler is    *)
(* slow.  The vector of tracks grows, is moved when it already has some,   *)
(* shrinks or is empty, and is filled again in place.                      *)
(***************************************************************************)
EXTENDS CrowdPipeline

MCTracked == <<{1}, {2}, {0, 1}, {2}>>
=============================================================================
