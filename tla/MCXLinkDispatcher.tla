------------------------- MODULE MCXLinkDispatcher --------------------------
(***************************************************************************)
(* Two threads on queues of four slots, which six calls go round once and  *)
(* a half, and packets of which one at a time is unanswered.               *)
(***************************************************************************)
EXTENDS XLinkDispatcher
=============================================================================
