----------------------------- MODULE MCHidSend -----------------------------
(***************************************************************************)
(* A small HID IN pipe for TLC: sends of one, two and three packets.       *)
(***************************************************************************)
EXTENDS HidSend
============================================================================
