---------------------------- MODULE MCAnchorLock ----------------------------
(***************************************************************************)
(* A small instance of AnchorLock: one stick, one port, the anchor with a  *)
(* window of one time unit and the webhook with none.                      *)
(***************************************************************************)
EXTENDS AnchorLock, TLC

CONSTANTS anchor, webhook, stick, usb1

ShortGrace == (anchor :> 1) @@ (webhook :> 0)
=============================================================================
