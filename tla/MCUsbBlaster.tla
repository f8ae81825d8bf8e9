---------------------------- MODULE MCUsbBlaster ----------------------------
(***************************************************************************)
(* Every stream of up to four bytes and every way to cut it into buffers   *)
(* of up to three, with shifts of up to three bytes: shifts within a       *)
(* buffer and across two or three of them, between commands that leave TCK *)
(* high or low.                                                            *)
(***************************************************************************)
EXTENDS UsbBlaster
============================================================================
