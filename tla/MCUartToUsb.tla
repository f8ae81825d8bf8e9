---------------------------- MODULE MCUartToUsb ----------------------------
(***************************************************************************)
(* A small UART bridge for TLC.  A rxbuf of three bytes with two-byte      *)
(* packets gives sends of one and two packets, full and short last         *)
(* packets, a full rxbuf and one that starts over.                         *)
(***************************************************************************)
EXTENDS UartToUsb
============================================================================
