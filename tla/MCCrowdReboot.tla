---------------------------- MODULE MCCrowdReboot ----------------------------
(***************************************************************************)
(* Three starts, so that a recorded reset and an unrecorded one both have  *)
(* a next start that reads the flash; one firmware.                        *)
(***************************************************************************)
EXTENDS CrowdReboot
=============================================================================
