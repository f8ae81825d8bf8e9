--------------------------- MODULE MCMassStorage ---------------------------
(* A command of every case, and reads and writes of up to three blocks. *)
EXTENDS MassStorage

Cmd(op, dir, want, fit, blocks) ==
  [op |-> op, dir |-> dir, want |-> want, fit |-> fit, blocks |-> blocks,
   cmdLen |-> TRUE, good |-> TRUE]
First ==
  {Cmd("READ", "in", n * LbaPackets, "exact", n) : n \in {0, MaxBlocks}}
    \cup {[Cmd("READ", "in", 1, "exact", 1) EXCEPT !.cmdLen = FALSE]}
    \cup {Cmd("WRITE", "out", n * LbaPackets, "exact", n) : n \in {0, MaxBlocks}}
    \cup {Cmd("READ", "in", 1, "more", 0), Cmd("WRITE", "out", 1, "less", 2),
          Cmd("INQUIRY", "in", 1, "more", 0), Cmd("SENSE", "in", 1, "exact", 0),
          Cmd("REPLY", "in", 1, "exact", 0), Cmd("MODE", "in", 1, "more", 0),
          Cmd("PASS", "out", 0, "exact", 0), Cmd("UNKNOWN", "in", 1, "exact", 0),
          Cmd("UNKNOWN", "out", 1, "exact", 0), Cmd("SENSE", "in", 0, "less", 0),
          Cmd("READY", "out", 1, "more", 0)}
    \cup {[Cmd("READY", "out", 0, "exact", 0) EXCEPT !.good = FALSE]}
Second == {Cmd("SENSE", "in", 1, "exact", 0), Cmd("READY", "out", 0, "exact", 0),
           Cmd("READ", "in", MaxBlocks * LbaPackets, "exact", MaxBlocks)}
Third == {Cmd("SENSE", "in", 1, "exact", 0)}
MCCommands == <<First, Second, Third>>
=============================================================================
