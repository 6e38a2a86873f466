--------------------------- MODULE MCXLinkStream ----------------------------
(***************************************************************************)
(* One end writes, from two threads of which one closes, packets of one    *)
(* and three bytes into a buffer of six bytes (three lines of two) and     *)
(* three packets; the other end reads with one thread. Small packets fill  *)
(* the packet ring first, large ones the bytes, and a writer is blocked    *)
(* behind another.                                                         *)
(***************************************************************************)
EXTENDS XLinkStream, TLC

CONSTANTS w1, w2, r1

MCOneWay ==
  w1 :> [peer |-> "app", ops |-> {"write", "close"}] @@
  w2 :> [peer |-> "app", ops |-> {"write"}] @@
  r1 :> [peer |-> "device", ops |-> {"read", "release"}]

MCBuffer == [app |-> 6, device |-> 0]
=============================================================================
