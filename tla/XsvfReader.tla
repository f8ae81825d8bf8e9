----------------------------- MODULE XsvfReader -----------------------------
(***************************************************************************)
(* What main() does with the NAND flash before USB: nand_probe, and the    *)
(* programming of the FPGA from the flash (the XSVF player's callbacks in  *)
(* nand_ordb3.c).  Pages are fetched one ahead with the chip's cache: a    *)
(* cached load makes the page asked for before readable.  The player,      *)
(* libxsvf, is external: it asks for bytes until it has enough or fails.   *)
(* No interrupt is enabled: a step is a call of the player, or one exchange *)
(* with the chip.  A chip that stays busy is a wait that times out.        *)
(***************************************************************************)
EXTENDS Integers, Sequences

CONSTANTS MaxBlocks,      \* MAXBLOCKS, entries of the block list (32)
          PagesPerBlock,  \* the chip's geometry (64, ...
          BytesPerPage,   \* ... 2048, ...
          NumBlocks,      \* ... blocksperlun * luns)
          MaxTries,       \* attempts to enable the chip's ECC (6)
          Behind,         \* values that may lie behind the block list in memory
          Lists,          \* bound of the model: block lists on page 0
          MaxLate,        \* bound of the model: waits that time out
          MaxBytes        \* bound of the model: bytes the player takes

\* Fewer than three pages would make setup's third page one of another block
ASSUME GeometryAssumption ==
  /\ MaxBlocks \in Nat \ {0} /\ PagesPerBlock \in Nat \ 0..2
  /\ BytesPerPage \in Nat \ {0} /\ NumBlocks \in Nat /\ MaxTries \in Nat \ {0}
  /\ MaxLate \in Nat /\ MaxBytes \in Nat
ASSUME ListAssumption == Lists \subseteq [1..MaxBlocks -> Int] /\ Behind \subseteq Nat

VARIABLES
  boot,     \* where main() is: see ReaderTypeOK
  flash,    \* the chip: its kind, whether its ECC is on and can be put on,
            \* the block list on page 0
  regs,     \* its page registers: the readable one, the one behind it, the column
  geom,     \* geom has been read
  tries,    \* local of nand_probe
  state,    \* xsvf_nand_state
  port,     \* the pins: chip enabled, command interrupt on, R/Bn held low
  got, last,\* history: how many bytes the player has, and the last of them
  late      \* history: waits that timed out
xsvfVars == <<boot, flash, regs, geom, tries, state, port, got, last, late>>

NoPage == -1
Kinds == {"dead", "plain", "other", "known"}  \* no chip; no ONFI; unknown; Micron's
----------------------------------------------------------------------------
Blank == [i \in 1..MaxBlocks |-> 0]
XsvfInit ==
  /\ boot = "ports" /\ geom = FALSE /\ tries = MaxTries
  /\ flash = [kind |-> "dead", ecc |-> FALSE, sticks |-> FALSE, list |-> Blank]
  /\ regs = [cache |-> NoPage, behind |-> NoPage, col |-> 0]
  /\ state = [blocks |-> Blank, bytesleftinpage |-> 0,
              pageinblock |-> 0, blockinlist |-> 0]
  /\ port = [open |-> FALSE, command |-> FALSE, busy |-> FALSE]
  /\ got = 0 /\ last = <<NoPage, 0>> /\ late = 0

nand_open(p)  == [p EXCEPT !.open = TRUE, !.command = FALSE]
nand_close(p) == [p EXCEPT !.open = FALSE, !.command = TRUE]

\* A wait for R/Bn of the probe: it times out, or not
Polls(then, else) ==
  \/ flash.kind # "dead" /\ boot' = then /\ UNCHANGED late
  \/ flash.kind = "dead" /\ boot' = else /\ UNCHANGED late
  \/ late < MaxLate /\ boot' = else /\ late' = late + 1

\* Which chip is there shows when it is first asked
Flashes == [kind : Kinds \ {"known"}, ecc : {FALSE}, sticks : {FALSE}, list : Lists]
             \cup [kind : {"known"}, ecc : {FALSE}, sticks : BOOLEAN, list : Lists]
             \cup [kind : {"known"}, ecc : {TRUE}, sticks : {TRUE}, list : Lists]

\* nand_probe: open, the first wait, the reset
ProbeOpen ==
  /\ boot = "ports" /\ boot' = "reset" /\ port' = nand_open(port)
  /\ flash' \in Flashes
  /\ UNCHANGED <<regs, geom, tries, state, got, last, late>>
ProbeReset ==
  /\ boot = "reset" /\ Polls("id", "setup")
  /\ UNCHANGED <<flash, regs, geom, tries, state, port, got, last>>
ProbeId ==
  /\ boot = "id"
  /\ boot' = IF flash.kind = "plain" THEN "setup" ELSE "ecc"
  /\ UNCHANGED <<flash, regs, geom, tries, state, port, got, last, late>>

\* One round of the loop that enables the ECC
ProbeEcc ==
  /\ boot = "ecc"
  /\ \/ /\ flash.kind # "known" \/ flash.ecc
        /\ boot' = "parameters" /\ UNCHANGED <<flash, tries, late>>
     \/ /\ flash.kind = "known" /\ ~flash.ecc
        /\ tries' = tries - 1 /\ flash' = [flash EXCEPT !.ecc = flash.sticks]
        /\ Polls(IF tries > 1 THEN "ecc" ELSE "parameters", "setup")
  /\ UNCHANGED <<regs, geom, state, port, got, last>>
ProbeParameters ==
  /\ boot = "parameters" /\ Polls("setup", "setup")
  /\ geom' = (late' = late)
  /\ UNCHANGED <<flash, regs, tries, state, port, got, last>>
----------------------------------------------------------------------------
\* nand_loadpage, of a chip with page registers r: R/Bn is held low, so it polls
\* the status, and goes on when that takes too long
Loaded(r, page, mode) ==
  CASE mode = "Uncached" -> [cache |-> page, behind |-> page, col |-> 0]
    [] mode = "Cached"   -> [cache |-> r.behind, behind |-> page, col |-> 0]
InTime(r) == regs' = r /\ UNCHANGED late
TooLate   == /\ late < MaxLate /\ late' = late + 1
             /\ regs' = [cache |-> NoPage, behind |-> NoPage, col |-> 0]

\* xsvf_shutdown
Shutdown(p) == [nand_close(p) EXCEPT !.busy = FALSE]

\* xsvf_setup: page 0 is read for the block list, whose first entry must be a
\* block that is not the first one; then two pages are loaded
Setup ==
  /\ boot = "setup"
  /\ \E list \in {flash.list} \cup (IF late < MaxLate THEN Lists ELSE {}) :
       LET first == list[1] * PagesPerBlock
           held == [nand_open(port) EXCEPT !.busy = TRUE]
           bad  == ~geom \/ list[1] <= 0 \/ list[1] >= NumBlocks
           page0 == Loaded(regs, 0, "Uncached")
       IN /\ state' = [blocks |-> list, pageinblock |-> 2, blockinlist |-> 0,
                       bytesleftinpage |-> IF geom THEN BytesPerPage ELSE 0]
          /\ boot' = IF bad THEN "main" ELSE "play"
          /\ port' = IF bad THEN Shutdown(held) ELSE held
          /\ \/ /\ list = flash.list
                /\ InTime(IF bad THEN page0
                          ELSE Loaded(Loaded(page0, first, "Cached"), first + 1, "Cached"))
             \/ TooLate
  /\ UNCHANGED <<flash, geom, tries, got, last>>

\* The byte the chip puts on its port, and its next column
ByteOf(r) == <<r.cache, r.col>>
\* blocks[i]; blocks[MAXBLOCKS] is what lies behind the array
BlocksAt(i) == IF i < MaxBlocks THEN {state.blocks[i + 1]} ELSE Behind

\* The place after the page that was asked for
NextPlace(s) ==
  LET page == s.pageinblock + 1
  IN CASE page < PagesPerBlock -> [s EXCEPT !.pageinblock = page]
       [] page >= PagesPerBlock /\ s.blockinlist < MaxBlocks ->
            [s EXCEPT !.pageinblock = 0, !.blockinlist = @ + 1]
       [] OTHER -> [s EXCEPT !.pageinblock = page - 1]

\* Mutant of GetByte: the next page is loaded before the last byte is read.
GetByte_LoadsFirst ==
  /\ boot = "play" /\ got < MaxBytes /\ got' = got + 1
  /\ \/ /\ state.bytesleftinpage > 1
        /\ state' = [state EXCEPT !.bytesleftinpage = @ - 1]
        /\ last' = ByteOf(regs)
        /\ regs' = [regs EXCEPT !.col = @ + 1] /\ UNCHANGED late
     \/ /\ state.bytesleftinpage = 1
        /\ state' = NextPlace([state EXCEPT !.bytesleftinpage = BytesPerPage])
        /\ \E b \in BlocksAt(state.blockinlist) :
             InTime(Loaded(regs, b * PagesPerBlock + state.pageinblock, "Cached"))
        /\ last' = ByteOf(regs')
  /\ UNCHANGED <<boot, flash, geom, tries, port>>
\* xsvf_getbyte
GetByte ==
  /\ boot = "play" /\ got < MaxBytes
  /\ got' = got + 1 /\ last' = ByteOf(regs)
  /\ \/ /\ state.bytesleftinpage > 1
        /\ state' = [state EXCEPT !.bytesleftinpage = @ - 1]
        /\ regs' = [regs EXCEPT !.col = @ + 1] /\ UNCHANGED late
     \/ /\ state.bytesleftinpage = 1
        /\ state' = NextPlace([state EXCEPT !.bytesleftinpage = BytesPerPage])
        /\ \E b \in BlocksAt(state.blockinlist) :
             \/ InTime(Loaded(regs, b * PagesPerBlock + state.pageinblock, "Cached"))
             \/ TooLate
  /\ UNCHANGED <<boot, flash, geom, tries, port>>

\* libxsvf_play returns, with or without an error
PlayEnds ==
  /\ boot = "play" /\ boot' = "main" /\ port' = Shutdown(port)
  /\ UNCHANGED <<flash, regs, geom, tries, state, got, last, late>>

XsvfNext == \/ ProbeOpen \/ ProbeReset \/ ProbeId \/ ProbeEcc \/ ProbeParameters
            \/ Setup \/ GetByte \/ PlayEnds
----------------------------------------------------------------------------
\* The values of the variables; boot names what main() does next: Init_Ports is
\* over, the steps of nand_probe, the setup of the player, its run, the rest.
ReaderTypeOK ==
  /\ boot \in {"ports", "reset", "id", "ecc", "parameters", "setup", "play", "main"}
  /\ geom \in BOOLEAN /\ tries \in 0..MaxTries /\ got \in 0..MaxBytes
  /\ state.blockinlist \in 0..MaxBlocks /\ state.pageinblock \in 0..PagesPerBlock - 1
  /\ state.bytesleftinpage \in 0..BytesPerPage

\* The file: the pages of the blocks in the order of the list
PageAt(n) == flash.list[n \div PagesPerBlock + 1] * PagesPerBlock + (n % PagesPerBlock)
FileByte(k) == <<PageAt(k \div BytesPerPage), k % BytesPerPage>>
FileSize == MaxBlocks * PagesPerBlock * BytesPerPage

\* While no wait has timed out, xsvf_getbyte gives the bytes of the listed blocks
\* in order up to the end of the last block, although pages are asked for two
\* ahead, over the ends of the blocks, and at the end of the list from an entry
\* blocks[MAXBLOCKS] that does not exist.
StreamIsFile == late = 0 /\ got \in 1..FileSize => last = FileByte(got - 1)
=============================================================================
