---------------------------- MODULE MCBoardStart ----------------------------
(* Two block entries of three pages of two bytes; block 3 does not exist.  *)
EXTENDS BoardStart
FileLists == {<<2, 1>>, <<3, 1>>}
\* Bound: how far the sides had settled when SetVCore returned is not remembered
\* longer than until the flash is probed; nothing looks at it any more.
Quiet == boot = "ports" \/ (settled = {"high", "low"} /\ flags = {})
=============================================================================
