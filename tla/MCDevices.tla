----------------------------- MODULE MCDevices -----------------------------
(* An instance of Devices for TLC: two devices and one invitation. *)
EXTENDS Devices

CONSTANTS d1, d2, i1
============================================================================
