------------------------------ MODULE MCUsbLink ------------------------------
(***************************************************************************)
(* Two messages each way, so that what a late transfer does to the message *)
(* after it is seen; two chunks from the host, so that a read can be       *)
(* abandoned between them; the interface goes down once.                   *)
(***************************************************************************)
EXTENDS UsbLink
=============================================================================
