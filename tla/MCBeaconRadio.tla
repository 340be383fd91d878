---------------------------- MODULE MCBeaconRadio ----------------------------
(***************************************************************************)
(* A small instance of BeaconRadio with the default options: the distance  *)
(* is off, so the advertisements differ in the buds being worn only.       *)
(***************************************************************************)
EXTENDS BeaconRadio

CONSTANT beacon

NearAds == {[inEar |-> TRUE, rssi |-> "near"]}
=============================================================================
