---------------------------- MODULE MCUsbSession ----------------------------
(***************************************************************************)
(* Two images of two cells and a model of one, each of which fits the      *)
(* device's buffer or not, a restart after a stop, one failed receive and  *)
(* one failed send on the device, one payload the host does not send and   *)
(* one receive that fails on the host: enough for a frame inside another,  *)
(* an image before the first CONFIG_XEYE, a payload left on the pipe, a    *)
(* header handled twice and a result without its first or its second half. *)
(***************************************************************************)
EXTENDS UsbSession
=============================================================================
