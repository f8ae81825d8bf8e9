--------------------------- MODULE MCNandRequests ---------------------------
(***************************************************************************)
(* Two requests for TLC: an erase (address only), a program (address and   *)
(* data) that needs two receives, a read that needs two sends, and one     *)
(* that is refused; a program whose length is negative as an int, and one  *)
(* whose lengths add up to a whole word.                                   *)
(***************************************************************************)
EXTENDS NandRequests

MCShapes == {[addr |-> 1, write |-> 0, read |-> 0],
             [addr |-> 1, write |-> 2, read |-> 0],
             [addr |-> 1, write |-> 0, read |-> 3],
             [addr |-> 0, write |-> 1, read |-> 1],
             [addr |-> 1, write |-> 3, read |-> 0],
             [addr |-> 1, write |-> 5, read |-> 0]}
============================================================================
