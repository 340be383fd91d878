--------------------------- MODULE MCControlSocket ---------------------------
(***************************************************************************)
(* Two daemons of the same user: the service and a `vanish run` by hand.   *)
(***************************************************************************)
EXTENDS ControlSocket

CONSTANTS service, byHand
=============================================================================
