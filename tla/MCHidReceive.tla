---------------------------- MODULE MCHidReceive ----------------------------
(***************************************************************************)
(* A small HID pipe for TLC.  Packets of up to three bytes and a buffer of *)
(* three, the firmware's proportion (64 and 64), give reads that end       *)
(* inside the first buffer, inside the second and at the end of either.    *)
(***************************************************************************)
EXTENDS HidReceive
============================================================================
