--------------------------- MODULE MCUartFromUsb ---------------------------
(***************************************************************************)
(* A small transmit path for TLC.  A txbuf of three bytes and packets of   *)
(* up to three give receives that end inside the first buffer, inside the  *)
(* second one and at the end of either.                                    *)
(***************************************************************************)
EXTENDS UartFromUsb
============================================================================
