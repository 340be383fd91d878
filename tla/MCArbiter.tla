------------------------------ MODULE MCArbiter ------------------------------
(***************************************************************************)
(* Small instances of Arbiter: the three triggers of enum Source, windows  *)
(* of at most three time units.                                            *)
(***************************************************************************)
EXTENDS Arbiter, TLC

CONSTANTS anchor, beacon, webhook

\* One window of each kind: the anchor locks at once, the webhook, which is
\* never remembered, owns a short one and the beacon a long one.
MixedGrace == (anchor :> 0) @@ (beacon :> 3) @@ (webhook :> 1)
=============================================================================
