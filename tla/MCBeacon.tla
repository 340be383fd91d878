------------------------------ MODULE MCBeacon ------------------------------
(***************************************************************************)
(* Small instances of Beacon: windows of one or two time units are enough  *)
(* for every order in which they can run out.                              *)
(***************************************************************************)
EXTENDS Beacon

CONSTANT beacon

AllAds == Heard
=============================================================================
