----------------------------- MODULE MCMainLoop -----------------------------
(***************************************************************************)
(* The main loop with every interrupt, commands of the FPGA at any time,   *)
(* and a connector whose contact bounces as often as it likes.             *)
(***************************************************************************)
EXTENDS MainLoop
=============================================================================
