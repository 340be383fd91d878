------------------------------ MODULE MCAnchor ------------------------------
(***************************************************************************)
(* Small instances of Anchor: the anchor, a second device of the same      *)
(* model, and one that has nothing to do with it.                          *)
(***************************************************************************)
EXTENDS Anchor

CONSTANTS anchor, stick, twin, mouse, usb1, usb2
=============================================================================
