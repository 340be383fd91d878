---------------------------- MODULE MCBeaconLock ----------------------------
(***************************************************************************)
(* A small instance of BeaconLock: the headset alone, and advertisements   *)
(* of a pair that is worn and near.                                        *)
(***************************************************************************)
EXTENDS BeaconLock, TLC

CONSTANT beacon

ShortGrace == beacon :> 1
LongGrace == beacon :> 3    \* than the reading of the buds is good for
WornNear == {[inEar |-> TRUE, rssi |-> "near"]}
=============================================================================
