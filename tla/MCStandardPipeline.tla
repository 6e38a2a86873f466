------------------------- MODULE MCStandardPipeline -------------------------
(* StandardPipeline for TLC: the video frames, image queue and dispatch queue of main.cpp, *)
(* PlgXlink.cpp and frmdispatch.cpp; three result buffers per network where the code has   *)
(* four, and the two queues that have to hold them all in proportion (3 and 2 * 3).        *)
EXTENDS StandardPipeline
=============================================================================
