---------------------------- MODULE MassStorage ----------------------------
(***************************************************************************)
(* The mass storage class of the USB library: bulk-only transport and SCSI *)
(* (UsbMscScsi.c, UsbMscStateMachine.c, UsbMscReq.c, and its parts of      *)
(* usb.c), an application that serves the block buffers, and a host that   *)
(* follows the transport's rules.  The library is in the tree; the         *)
(* firmware's own configuration does not link this class.                  *)
(*                                                                         *)
(* Lengths count packets of 64 bytes.  A block is LbaPackets packets, a    *)
(* block buffer BufBlocks blocks.  Packet p of the medium is the number p; *)
(* command n reads or writes from block n * MaxBlocks, so no packet of one *)
(* command can pass for one of another.  There is one LUN.  The main       *)
(* program runs while no endpoint interrupt is pending: interrupts are     *)
(* enabled wherever the model has a step of its own.                       *)
(***************************************************************************)
EXTENDS Integers, Sequences, FiniteSets

CONSTANTS LbaPackets,   \* lbaSize, in packets
          BufBlocks,    \* lbaBufCapacity: blocks a buffer holds
          MaxBlocks,    \* bound of the model: blocks of a command
          Commands,     \* the commands the host may send, first, second, ...:
                        \* a sequence of sets, its length a bound of the model
          MaxFaults     \* bound of the model: media changes, give-ups, errors

Ops == {"READ", "WRITE", "READY", "PASS", "INQUIRY", "SENSE", "REPLY", "MODE",
        "UNKNOWN"}
\* op: the command; "REPLY" is READ CAPACITY and REPORT LUNS, "READY" those of
\* TEST UNIT READY's case, "PASS" those without work.  want: packets the host
\* expects in direction dir; fit: its length against the device's; blocks: of
\* READ and WRITE; cmdLen: bCBWCBLength is not 0; good: signature and the
\* reserved fields are right
Command == [op : Ops, dir : {"in", "out"}, want : Nat,
            fit : {"less", "exact", "more"}, blocks : Nat, cmdLen : BOOLEAN,
            good : BOOLEAN]

ASSUME MassStorageAssumption ==
  /\ {LbaPackets, BufBlocks, MaxBlocks} \subseteq Nat \ {0}
  /\ MaxFaults \in Nat /\ Commands \in Seq(SUBSET Command)
  /\ \A n \in DOMAIN Commands : \A c \in Commands[n] : c.blocks <= MaxBlocks

VARIABLES
  dev,      \* the device: see MassTypeOK
  at,       \* where the main program is in USBMSC_poll
  stored,   \* what the application wrote for this command: <<place, packet>>
  host,     \* the host: phase, command number, packets moved, ...
  last,     \* history: how the last command ended
  odd,      \* history: what happened that the library does not get over
  faults    \* media changes, errors and give-ups so far
massVars == <<dev, at, stored, host, last, odd, faults>>
----------------------------------------------------------------------------
Free == [kind |-> "free"]
NoPackets == [b \in {"X", "Y"} |-> Free]
Data(p) == [kind |-> "data", p |-> p]
Other(b) == IF b = "X" THEN "Y" ELSE "X"
Smaller(i, j) == IF i < j THEN i ELSE j
BufPackets == BufBlocks * LbaPackets
NoCbw == [op |-> "none", dir |-> "out", want |-> 0, fit |-> "exact", blocks |-> 0,
          cmdLen |-> FALSE, good |-> FALSE]
EmptyRw == [op |-> "none", lba |-> 0, count |-> 0, xy |-> "X",
            full |-> [b \in {"X", "Y"} |-> FALSE], packets |-> [b \in {"X", "Y"} |-> 0],
            lbas |-> [b \in {"X", "Y"} |-> 0], counts |-> [b \in {"X", "Y"} |-> 0],
            processed |-> FALSE, first |-> FALSE]
EmptyRead == [busy |-> FALSE, left |-> 0, src |-> "null", pos |-> 1, lba |-> 0,
              count |-> 0, cur |-> "X", xy |-> "X"]
EmptyWrite == [busy |-> FALSE, left |-> 0, free |-> 0, ptr |-> "null", lba |-> 0,
               count |-> 0, byte |-> 0, cur |-> "X", ct1 |-> "none", xy |-> "X"]

StallIn(d)  == [d EXCEPT !.inHalt = TRUE]                 \* usbStallInEndpoint
StallOut(d) == [d EXCEPT !.outHalt = TRUE, !.stallEndpoint = TRUE]
StallFor(d) == IF d.cbw.dir = "in" THEN StallIn(d) ELSE StallOut(d)
ClearOepByteCount(d) == [d EXCEPT !.oep["X"] = Free]   \* buffer Y keeps its count
Sense(d, key) == [d EXCEPT !.sense = key]       \* Reset_RequestSenseResponse, and the key
Failed(d, key) == [Sense(d, key) EXCEPT !.status = "failed"]

\* MscSendData; the host does not suspend or deconfigure inside a command
CanSend(d, size) == size # 0 /\ d.r.left = 0 /\ ~d.r.busy
MscSendData(d, src, size) ==
  IF CanSend(d, size)
  THEN [d EXCEPT !.r.busy = TRUE, !.r.left = size, !.r.src = src, !.r.pos = 1,
                 !.iepIfg = TRUE]
  ELSE d

\* A response of one packet
Respond(d) ==
  IF CanSend(d, 1) THEN MscSendData(d, "response", 1)
                   ELSE [d EXCEPT !.status = "failed"]

\* Scsi_Send_CSW: the status is PASSED again whether it was sent or not
SendCsw(d) ==
  [MscSendData([d EXCEPT !.csw = [tag |-> d.tag, status |-> d.status,
                                  residue |-> d.residue]], "csw", 1)
     EXCEPT !.status = "passed"]
----------------------------------------------------------------------------
(* SCSI commands *)

\* Check_CBW: the direction and length the command calls for
Agrees(d, dir) ==
  \/ d.cbw.op \in {"INQUIRY", "SENSE"}
  \/ dir = d.cbw.dir /\ (d.cbw.fit = "exact" \/ (d.cbw.fit = "more" /\ d.cbw.op = "MODE"))
Disagree(d, dir) ==
  LET mismatch == dir # d.cbw.dir
      e == [d EXCEPT !.sense = "illegal",
             !.status = IF ~mismatch /\ d.cbw.fit = "less" THEN "phase" ELSE "failed",
             !.residue = IF mismatch \/ d.cbw.fit = "more" THEN "all" ELSE "0"]
  IN IF mismatch /\ d.cbw.dir = "out" /\ d.cbw.op # "READ" THEN e ELSE StallFor(e)

Read10(d) ==
  IF ~Agrees(d, "in") THEN Disagree(d, "in")
  ELSE [d EXCEPT !.r.lba = d.tag * MaxBlocks, !.r.count = d.cbw.blocks, !.r.xy = "X",
                 !.rw = [EmptyRw EXCEPT !.op = "read", !.lba = d.tag * MaxBlocks,
                           !.count = Smaller(d.cbw.blocks, BufBlocks),
                           !.lbas = d.rw.lbas, !.counts = d.rw.counts]]

Write10(d) ==
  IF ~Agrees(d, "out") THEN Disagree(d, "out")
  ELSE [d EXCEPT !.w = [d.w EXCEPT !.left = d.cbw.blocks * LbaPackets, !.ptr = "X",
                          !.free = BufPackets, !.busy = TRUE, !.lba = d.tag * MaxBlocks,
                          !.byte = 0, !.count = 0, !.xy = "X"],
                 !.rw = [EmptyRw EXCEPT !.packets = d.rw.packets]]

Inquiry(d) ==
  IF d.cbw.fit = "more" THEN StallIn(Failed(d, "illegal"))
  ELSE IF d.cbw.want = 0 \/ CanSend(d, 1)
  THEN [(IF d.cbw.want = 0 THEN d ELSE Respond(d)) EXCEPT !.residue = "0"]
  ELSE Respond(d)

\* The flag is cleared whether the response was sent or not
RequestSense(d) ==
  LET e == IF ~d.attention THEN d
           ELSE Sense(d, IF d.present THEN "attention" ELSE "notready")
      f == IF d.cbw.want = 0 THEN [e EXCEPT !.status = "failed"]
           ELSE IF CanSend(e, 1) THEN [Respond(e) EXCEPT !.residue = "0"] ELSE Respond(e)
  IN [f EXCEPT !.attention = FALSE]

TestUnitReady(d) == Sense(IF Agrees(d, "out") THEN d ELSE [Disagree(d, "out") EXCEPT
                                                             !.status = "failed"], "none")

UnknownRequest(d) ==
  LET e == [Failed(d, "illegal") EXCEPT !.residue = "0"]
  IN IF d.cbw.want = 0 THEN e ELSE StallFor([e EXCEPT !.supported = FALSE])

\* Scsi_Mode_Sense6 and 10, Scsi_Report_Luns: a response of a fixed size
ModeSense(d)  == IF Agrees(d, "in") THEN Respond(d) ELSE Disagree(d, "in")
ReportLuns(d) == IF Agrees(d, "in") THEN Respond(d) ELSE Disagree(d, "in")

\* The cases of Scsi_Cmd_Parser
Command10(d) ==
  LET op == d.cbw.op
      absent == Failed(d, "notready")
  IN CASE op = "READ"    -> IF d.present THEN Read10(d) ELSE StallIn(absent)
       [] op = "WRITE"   -> IF ~d.present THEN StallOut(absent)
                            ELSE IF ~d.protected THEN Write10(d)
                            ELSE StallOut([Failed(d, "protect") EXCEPT !.w.busy = FALSE,
                                                                       !.residue = "1"])
       [] op = "READY"   -> IF d.present THEN TestUnitReady(d) ELSE absent
       [] op = "PASS"    -> d
       [] op = "INQUIRY" -> Inquiry(d)
       [] op = "SENSE"   -> RequestSense(d)
       [] op = "REPLY"   -> IF d.present THEN ReportLuns(d) ELSE StallFor(absent)
       [] op = "MODE"    -> ModeSense(d)
       [] op = "UNKNOWN" -> UnknownRequest(d)

CmdParser(d) ==
  LET e == [d EXCEPT !.residue = "all"]
  IN IF d.attention /\ d.cbw.op \notin {"INQUIRY", "SENSE"}
     THEN [e EXCEPT !.status = "failed"]
     ELSE IF ~d.cbw.cmdLen THEN e ELSE Command10(e)

\* Scsi_Verify_CBW: a command block without meaning stops both endpoints
Meaningless(d) == d.resetRequired \/ ~d.cbw.good
Refuse(d) == ClearOepByteCount([d EXCEPT !.resetRequired = TRUE, !.outHalt = TRUE,
                                  !.inHalt = TRUE, !.status = "failed", !.residue = "0"])

\* USBMSC_poll with a command block
Perform(d) ==
  [ (IF Meaningless(d) THEN Refuse(d)
     ELSE [CmdParser([d EXCEPT !.status = "passed"]) EXCEPT !.sendCsw = TRUE])
    EXCEPT !.received = FALSE]
----------------------------------------------------------------------------
(* Blocks to the host: MSCToHostFromBuffer, the interrupt of the IN endpoint *)

\* What the next packet is copied from
Content(d) ==
  CASE d.r.src = "csw"          -> [kind |-> "csw", tag |-> d.csw.tag, status |-> d.csw.status,
                                     residue |-> d.csw.residue]
    [] d.r.src = "response"     -> [kind |-> "response", key |-> d.sense]
    [] d.r.src \in {"X", "Y"}   -> Data(d.buf[d.r.src][d.r.pos])
    [] OTHER                    -> Data(0)

Load(d) == [d EXCEPT !.iep[d.r.cur] = Content(d), !.r.cur = Other(@),
                     !.r.left = @ - 1, !.r.pos = @ + 1]
FillEps(d) ==
  IF d.inHalt \/ d.iep[d.r.cur] # Free THEN d
  ELSE LET e == Load(d)
       IN IF e.r.left > 0 /\ e.iep[e.r.cur] = Free THEN Load(e) ELSE e

\* The application is asked for the next blocks, in buffer b
AskBlocks(d, b) ==
  [d EXCEPT !.rw.op = "read", !.rw.xy = b, !.rw.lba = d.r.lba,
            !.rw.count = Smaller(BufBlocks, d.r.count)]

ToHostSingle(d) ==
  IF d.r.left # 0 THEN FillEps(d)
  ELSE LET e == [d EXCEPT !.r.busy = FALSE]
       IN IF e.r.count > 0 THEN AskBlocks(e, "X") ELSE e

ToHostDouble(d) ==
  LET free == Other(d.rw.xy)
      e == IF d.r.count > 0 /\ d.rw.processed /\ ~d.rw.full[free]
           THEN AskBlocks([d EXCEPT !.rw.processed = FALSE], free) ELSE d
      next == Other(e.r.xy)
      f == [e EXCEPT !.r.busy = FALSE, !.rw.full[e.r.xy] = FALSE,
                     !.rw.packets[e.r.xy] = 0]
  IN IF e.r.left # 0 THEN FillEps(e)
     ELSE IF f.rw.full[next]
          THEN [MscSendData(f, next, f.rw.packets[next]) EXCEPT !.r.xy = next]
          ELSE f

MSCToHostFromBuffer(d) == IF d.double THEN ToHostDouble(d) ELSE ToHostSingle(d)
----------------------------------------------------------------------------
(* From the host: MSCFromHostToBuffer, the interrupt of the OUT endpoint,  *)
(* also called by USBMSC_poll and USBMSC_bufferProcessed                   *)

\* A packet of data taken for a command block has no signature
ReceiveCbw(d) ==
  LET b == d.w.cur
      e == [d EXCEPT !.w.ct1 = b]
      pkt == d.oep[b]
  IN IF pkt = Free THEN e
     ELSE [e EXCEPT !.w.cur = Other(b), !.oep[b] = Free, !.received = TRUE,
                    !.cbw = IF pkt.kind = "cbw" THEN pkt.c ELSE NoCbw,
                    !.tag = IF pkt.kind = "cbw" THEN pkt.tag ELSE 0]

MscCopyUsbToBuff(d, b) ==
  LET whole == d.w.byte + 1 >= LbaPackets
      pkt == d.oep[b]
  IN [d EXCEPT !.buf[d.w.ptr][BufPackets - d.w.free + 1] =
                    IF pkt.kind = "data" THEN pkt.p ELSE 0,
               !.oep[b] = Free,
               !.w = [d.w EXCEPT !.left = @ - 1, !.free = @ - 1, !.cur = Other(@),
                               !.byte = IF whole THEN 0 ELSE @ + 1,
                               !.count = IF whole THEN @ + 1 ELSE @]]

\* The buffer is given to the application
DeliverSingle(d) ==
  [d EXCEPT !.rw.op = "write", !.rw.lba = d.w.lba, !.rw.count = d.w.count,
            !.w.lba = @ + d.w.count, !.w.byte = 0, !.w.count = 0]
DeliverDouble(d) ==
  LET e == IF d.rw.first THEN d
           ELSE [d EXCEPT !.rw.first = TRUE, !.rw.op = "write", !.rw.lba = d.w.lba,
                          !.rw.count = d.w.count]
  IN [e EXCEPT !.rw.full[d.w.xy] = TRUE, !.rw.lbas[d.w.xy] = d.w.lba,
               !.rw.counts[d.w.xy] = d.w.count]

CanTake(d) == d.oep[d.w.cur] # Free /\ d.w.free > 0
TakePackets(d) ==
  LET b  == d.w.cur
      d1 == [d EXCEPT !.w.ct1 = b]
      d2 == MscCopyUsbToBuff(d1, b)
      d3 == IF d2.w.left > 0 /\ CanTake(d2) THEN MscCopyUsbToBuff(d2, Other(b)) ELSE d2
  IN IF ~CanTake(d) THEN d1
     ELSE IF d3.w.free # 0 /\ d3.w.left # 0 THEN d3
          ELSE IF d.double THEN DeliverDouble(d3) ELSE DeliverSingle(d3)

\* The buffer given last is processed: give the other when it is full
HandOver(d) ==
  LET o == Other(d.rw.xy)
      e == [d EXCEPT !.rw.full[d.rw.xy] = FALSE]
  IN IF ~d.rw.processed THEN d
     ELSE IF ~e.rw.full[o] THEN e
          ELSE [e EXCEPT !.rw.processed = FALSE, !.rw.xy = o, !.rw.op = "write",
                         !.rw.lba = e.rw.lbas[o], !.rw.count = e.rw.counts[o]]
\* Mutant of SwitchBuffer: the other buffer may still be with the application.
SwitchBuffer_Busy(d) ==
  LET o == Other(d.w.xy)
  IN IF d.w.free # 0 THEN d
     ELSE [d EXCEPT !.w = [d.w EXCEPT !.lba = @ + d.w.count, !.byte = 0, !.count = 0,
                                    !.ptr = o, !.xy = o, !.free = BufPackets]]
\* The buffer being filled is full: go on with the other when it is free
SwitchBuffer(d) ==
  LET o == Other(d.w.xy)
  IN IF d.w.free # 0 \/ d.rw.full[o] THEN d
     ELSE [d EXCEPT !.w = [d.w EXCEPT !.lba = @ + d.w.count, !.byte = 0, !.count = 0,
                                    !.ptr = o, !.xy = o, !.free = BufPackets]]

\* The data stage of a write, up to where a packet is looked for
BeforeTake(d) == IF ~d.double THEN d
                 ELSE LET e == HandOver(d) IN IF e.w.left > 0 THEN SwitchBuffer(e) ELSE e
ReceiveData(d) ==
  LET e == BeforeTake(d)
  IN CASE e.w.left > 0 -> TakePackets(e)
       [] d.double /\ e.w.left = 0 /\ e.rw.full = [b \in {"X", "Y"} |-> FALSE] ->
            [e EXCEPT !.w.ptr = "null", !.w.busy = FALSE]
       [] OTHER -> e

MSCFromHostToBuffer(d) ==
  CASE d.stallEndpoint -> [d EXCEPT !.outHalt = TRUE]
    [] ~d.stallEndpoint /\ d.received -> d
    [] ~d.stallEndpoint /\ ~d.received /\ ~d.w.busy -> ReceiveCbw(d)
    [] ~d.stallEndpoint /\ ~d.received /\ d.w.busy -> ReceiveData(d)
----------------------------------------------------------------------------
(* The application's buffer is processed: USBMSC_bufferProcessed *)

\* what the application reports, and the sense key and residue it gives
ReturnCodes == {"RWSuccess", "RWDevWriteFault"}
SenseOf == [RWNotReady |-> "notready", RWDevWriteFault |-> "medium"]

Sent(d) ==                                   \* what is left to read after this
  IF d.rw.count >= d.r.count
  THEN [d EXCEPT !.r.count = 0, !.rw.op = "none"]
  ELSE [d EXCEPT !.r.count = @ - d.rw.count, !.r.lba = @ + d.rw.count, !.rw.op = "none"]

ReadProcessed(d) ==
  LET n == d.rw.count * LbaPackets
      e == [d EXCEPT !.rw.processed = TRUE, !.rw.full[d.rw.xy] = TRUE,
                     !.rw.packets[d.rw.xy] = n]
  IN CASE ~d.double              -> Sent(MscSendData(d, "X", n))
       [] d.double /\ d.rw.first -> Sent([e EXCEPT !.iepIfg = TRUE])
       [] d.double /\ ~d.rw.first -> Sent(MscSendData([e EXCEPT !.rw.first = TRUE],
                                                      d.rw.xy, n))

\* The single buffer's write is over when its last buffer is processed,
\* whatever the return code; with two buffers MSCFromHostToBuffer sees to it
WriteOver(d) == IF ~d.double /\ d.w.left = 0
                THEN [d EXCEPT !.w.ptr = "null", !.w.busy = FALSE] ELSE d
WriteProcessed(d) ==
  IF d.double
  THEN MSCFromHostToBuffer([d EXCEPT !.rw.processed = TRUE, !.rw.full[d.rw.xy] = FALSE,
                                     !.rw.op = "none"])
  ELSE MSCFromHostToBuffer([d EXCEPT !.w.ptr = "X", !.w.free = BufPackets,
                                     !.rw.op = "none"])

Refused(d) ==
  LET e == [d EXCEPT !.rw.op = "none"]
  IN IF d.cbw.dir = "in"
     THEN [StallIn(e) EXCEPT !.r.busy = FALSE, !.r.src = "null", !.r.count = 0]
     ELSE [(IF e.w.left > 0 THEN StallOut(e) ELSE e)
             EXCEPT !.w.busy = FALSE, !.w.ptr = "null", !.oep = NoPackets]

\* Mutant of BufferProcessed: a refusal sets the status only.
BufferProcessed_KeepsSense(d, code) ==
  LET e == IF d.rw.op = "write" THEN WriteOver(d) ELSE d
  IN IF code = "RWSuccess"
     THEN IF d.rw.op = "write" THEN WriteProcessed(e) ELSE ReadProcessed(e)
     ELSE Refused([e EXCEPT !.status = "failed"])
BufferProcessed(d, code) ==
  LET e == IF d.rw.op = "write" THEN WriteOver(d) ELSE d
  IN IF code = "RWSuccess"
     THEN [(IF d.rw.op = "write" THEN WriteProcessed(e) ELSE ReadProcessed(e))
             EXCEPT !.residue = "0", !.sense = "none"]
     ELSE Refused([Failed(e, SenseOf[code]) EXCEPT
                     !.residue = IF code = "RWNotReady" THEN "1" ELSE "0"])
----------------------------------------------------------------------------
(* Resets and requests on endpoint 0 *)

\* Msc_ResetStateMachine, Msc_ResetFlags, Msc_ResetStruct: the count of blocks
\* left to read, the endpoint buffers and the CSW's status in flight stay
ResetStruct(d) ==
  [d EXCEPT !.sendCsw = FALSE, !.residue = "0", !.status = "passed", !.supported = TRUE,
            !.received = FALSE, !.attention = FALSE, !.resetRequired = FALSE,
            !.stallEndpoint = FALSE, !.rw = EmptyRw, !.cbw = NoCbw, !.tag = 0,
            !.csw = [tag |-> 0, status |-> "passed", residue |-> "0"],
            !.r = [d.r EXCEPT !.src = "null", !.left = 0, !.busy = FALSE],
            !.w = [d.w EXCEPT !.busy = FALSE, !.ptr = "null", !.left = 0],
            !.sense = "none", !.configured = TRUE]

\* USBMSC_reset; the toggles say which endpoint buffer is next
Reset(d) == [ResetStruct(d) EXCEPT !.inHalt = FALSE, !.outHalt = FALSE,
                                   !.hwIn = "X", !.hwOut = "X"]

\* Mutant of ClearIn: the driver does not go back to the first buffer.
ClearIn_KeepsBuffer(d) ==
  LET e == IF d.resetRequired THEN d ELSE [d EXCEPT !.inHalt = FALSE, !.hwIn = "X"]
  IN [e EXCEPT !.supported = TRUE]
ClearIn(d) ==
  LET e == IF d.resetRequired THEN d ELSE [d EXCEPT !.inHalt = FALSE, !.hwIn = "X"]
  IN [e EXCEPT !.r.cur = "X", !.supported = TRUE]
ClearOut(d) ==
  LET e == IF d.resetRequired THEN d
           ELSE [d EXCEPT !.outHalt = FALSE, !.hwOut = "X", !.oep = NoPackets,
                          !.stallEndpoint = FALSE]
  IN [e EXCEPT !.w.cur = "X", !.supported = TRUE]

\* USBMSC_getState; of an operation on no blocks it returns what was on the stack
InProgress(d, guess) == d.rw.op # "none" /\ (d.rw.count > 0 \/ guess)
\* USBMSC_updateMediaInfo: the application tells what became of the medium
UpdateMediaInfo(d, present, changed, guess) ==
  LET inserted == ~d.present /\ present
      removed == (d.present /\ ~present) \/ (present /\ changed)
      e == IF inserted \/ removed THEN [d EXCEPT !.attention = TRUE, !.status = "failed"]
                                  ELSE d
      f == IF removed /\ InProgress(d, guess) THEN SendCsw(ResetStruct(StallFor(e))) ELSE e
  IN [f EXCEPT !.present = present]
----------------------------------------------------------------------------
MassInit ==
  /\ \E double \in BOOLEAN, protected \in BOOLEAN :
       ~(double /\ protected) /\
       dev = [status |-> "passed", residue |-> "0", supported |-> TRUE,
              received |-> FALSE, sendCsw |-> FALSE, configured |-> FALSE,
              attention |-> FALSE, resetRequired |-> FALSE, stallEndpoint |-> FALSE,
              r |-> EmptyRead, w |-> EmptyWrite, rw |-> EmptyRw, cbw |-> NoCbw,
              tag |-> 0, csw |-> [tag |-> 0, status |-> "passed", residue |-> "0"],
              sense |-> "none", present |-> TRUE, protected |-> protected,
              double |-> double,
              buf |-> [b \in {"X", "Y"} |-> [i \in 1..BufPackets |-> 0]],
              iep |-> [b \in {"X", "Y"} |-> Free], oep |-> [b \in {"X", "Y"} |-> Free],
              inHalt |-> FALSE, outHalt |-> FALSE, hwIn |-> "X", hwOut |-> "X",
              iepIfg |-> FALSE, oepIfg |-> FALSE]
  /\ at = "top" /\ stored = {}
  /\ host = [ph |-> "setup", n |-> 0, c |-> NoCbw, got |-> <<>>, sent |-> 0,
             retried |-> FALSE]
  /\ last = [status |-> "none", exact |-> TRUE, explained |-> TRUE, c |-> NoCbw]
  /\ odd = {} /\ faults = 0

InIsr ==
  /\ dev.iepIfg
  /\ dev' = MSCToHostFromBuffer([dev EXCEPT !.iepIfg = FALSE])
  /\ UNCHANGED <<at, stored, host, last, odd, faults>>
\* In the middle of the main program's own call it takes the same packet, and
\* what the main program does next is not followed any further
OutIsr ==
  /\ dev.oepIfg
  /\ dev' = MSCFromHostToBuffer([dev EXCEPT !.oepIfg = FALSE])
  /\ IF at = "take" THEN odd' = odd \cup {"race"} /\ at' = "mixed"
                    ELSE UNCHANGED <<odd, at>>
  /\ UNCHANGED <<stored, host, last, faults>>

Main == ~dev.iepIfg /\ ~dev.oepIfg

\* Of MSCs that end a command with no stall although the host waits for data
\* (or to send it), or stall with packets still to be read, or skip a write
Oddities(d, e) ==
  {o \in {"skipped", "inFlight", "noBlocks", "accepted"} :
     CASE o = "skipped"  -> /\ e.sendCsw /\ ~d.sendCsw /\ e.supported
                            /\ ~e.inHalt /\ ~e.outHalt /\ e.cbw.want > 0
                            /\ ~e.r.busy /\ ~e.w.busy /\ e.rw.op = "none"
       [] o = "inFlight" -> /\ e.inHalt /\ ~d.inHalt
                            /\ \/ d.iep # NoPackets
                               \/ d.r.left > 0
       [] o = "accepted" -> ~e.supported /\ d.supported /\ e.outHalt /\ d.oep # NoPackets
       [] o = "noBlocks" -> e.w.busy /\ ~d.w.busy /\ e.w.left = 0}

\* USBMSC_poll, from its beginning; MSC commands are performed here
Poll ==
  LET d == IF dev.r.busy THEN [dev EXCEPT !.r.busy = FALSE] ELSE dev
      p == Perform(d)
      more == /\ p.w.ct1 # "none" /\ p.oep # NoPackets
  IN /\ at = "top" /\ Main
     /\ \/ /\ dev.r.busy /\ (dev.r.left # 0 \/ dev.r.count # 0)   \* go on sending
           /\ dev' = IF dev.inHalt THEN dev ELSE [dev EXCEPT !.iepIfg = TRUE]
           /\ UNCHANGED <<at, odd>>
        \/ /\ ~(dev.r.busy /\ (dev.r.left # 0 \/ dev.r.count # 0))
           /\ \/ /\ ~d.configured \/ (~d.sendCsw /\ ~d.received)
                 /\ dev' = d /\ UNCHANGED <<at, odd>>
              \/ /\ d.configured /\ d.sendCsw
                 /\ dev' = d /\ at' = "status" /\ UNCHANGED odd
              \/ /\ d.configured /\ ~d.sendCsw /\ d.received
                 /\ dev' = IF more THEN [p EXCEPT !.oepIfg = TRUE] ELSE p
                 /\ at' = IF more \/ ~p.sendCsw THEN "top" ELSE "status"
                 /\ odd' = odd \cup Oddities(d, p)
     /\ UNCHANGED <<stored, host, last, faults>>

\* The end of USBMSC_poll: the status, once the data stage is over.  It looks at
\* the buffer being sent, not at the other one, which may be full and go after it
Status ==
  /\ at = "status" /\ Main
  /\ \/ ~(dev.sendCsw /\ dev.supported) /\ at' = "top" /\ UNCHANGED <<dev, odd>>
     \/ /\ dev.sendCsw /\ dev.supported /\ ~dev.w.busy /\ ~dev.r.busy /\ dev.r.count = 0
        /\ dev' = [SendCsw(dev) EXCEPT !.sendCsw = ~CanSend(dev, 1)]
        /\ at' = "top"
        /\ odd' = odd \cup (IF dev.rw.op # "none" THEN {"noBlocks"} ELSE {})
                       \cup (IF dev.rw.full[Other(dev.r.xy)] THEN {"early"} ELSE {})
     \/ /\ dev.sendCsw /\ dev.supported /\ (dev.w.busy \/ dev.r.busy \/ dev.r.count # 0)
        /\ LET d == MSCFromHostToBuffer(dev)
           IN IF d.oep = dev.oep THEN dev' = d /\ at' = "top"
                                 ELSE UNCHANGED dev /\ at' = "take"
        /\ UNCHANGED odd
  /\ UNCHANGED <<stored, host, last, faults>>
\* ... or the main program's call of MSCFromHostToBuffer, when it finds a packet
Take ==
  /\ at = "take" /\ Main
  /\ dev' = MSCFromHostToBuffer(dev) /\ at' = "top"
  /\ UNCHANGED <<stored, host, last, odd, faults>>

\* The application reads or writes the blocks of the buffer it was given
Application ==
  LET d == dev
      start == d.rw.lba * LbaPackets
      n == d.rw.count * LbaPackets
      filled == [d EXCEPT !.buf[d.rw.xy] = [i \in 1..BufPackets |->
                                             IF i <= n THEN start + i ELSE 0]]
  IN /\ at = "top" /\ Main /\ d.rw.op # "none"
     /\ \E code \in ReturnCodes :
          /\ code = "RWSuccess" \/ faults < MaxFaults
          /\ faults' = IF code = "RWSuccess" THEN faults ELSE faults + 1
          /\ dev' = BufferProcessed(IF d.rw.op = "read" THEN filled ELSE d, code)
          /\ stored' = IF d.rw.op = "write" /\ code = "RWSuccess"
                       THEN stored \cup {<<start + i, d.buf[d.rw.xy][i]>> : i \in 1..n}
                       ELSE stored
     /\ odd' = odd \cup Oddities(dev, dev')
     /\ UNCHANGED <<at, host, last>>
Media ==
  /\ at = "top" /\ Main /\ faults < MaxFaults
  /\ \E present, changed, guess \in BOOLEAN :
       /\ changed => present /\ dev.present
       /\ changed \/ present # dev.present
       /\ dev' = UpdateMediaInfo(dev, present, changed, guess)
  /\ odd' = IF dev'.csw # dev.csw \/ dev.rw.op # dev'.rw.op
            THEN odd \cup {"media"} ELSE odd
  /\ faults' = faults + 1
  /\ UNCHANGED <<at, stored, host, last>>
----------------------------------------------------------------------------
(* The host: one command at a time, as the bulk-only transport has it *)

Base(n) == n * MaxBlocks * LbaPackets
HostTo(ph) == host' = [host EXCEPT !.ph = ph]
DevOnly == UNCHANGED <<at, stored, last, odd, faults>>

GetMaxLun == /\ host.ph = "setup" /\ HostTo("idle")
             /\ dev' = [dev EXCEPT !.configured = TRUE] /\ DevOnly

\* A reset that leaves blocks or packets behind breaks the command after it,
\* which is not followed (so is one after two copies of a packet)
SendCbw ==
  /\ host.ph = "idle" /\ host.n < Len(Commands) /\ odd \cap {"reset", "race"} = {}
  /\ dev.outHalt \/ dev.oep[dev.hwOut] = Free
  /\ \E c \in Commands[host.n + 1] :
       host' = [ph |-> CASE dev.outHalt -> "reset" [] ~dev.outHalt /\ c.want = 0 -> "status"
                         [] ~dev.outHalt /\ c.want # 0 -> c.dir,
                n |-> host.n + 1, c |-> c, got |-> <<>>, sent |-> 0, retried |-> FALSE]
  /\ dev' = IF dev.outHalt THEN dev
            ELSE [dev EXCEPT !.oep[dev.hwOut] = [kind |-> "cbw", c |-> host'.c, tag |-> host'.n],
                             !.hwOut = Other(@), !.oepIfg = TRUE]
  /\ stored' = {} /\ UNCHANGED <<at, last, odd, faults>>

\* It sends a packet of the data stage, or learns that the endpoint is stalled
SendPacket ==
  /\ host.ph = "out"
  /\ \/ dev.outHalt /\ HostTo("haltOut") /\ UNCHANGED dev
     \/ /\ ~dev.outHalt /\ dev.oep[dev.hwOut] = Free
        /\ dev' = [dev EXCEPT !.oep[dev.hwOut] = Data(Base(host.n) + host.sent + 1),
                              !.hwOut = Other(@), !.oepIfg = TRUE]
        /\ host' = [host EXCEPT !.sent = @ + 1,
                                !.ph = IF host.sent + 1 = host.c.want THEN "status" ELSE @]
  /\ DevOnly

Exact == LET all == 1..host.c.want
         IN CASE host.c.op = "READ"  -> host.got = [i \in all |-> Base(host.n) + i]
              [] host.c.op = "WRITE" -> stored = {<<Base(host.n) + i, Base(host.n) + i>> :
                                                     i \in all}
              [] OTHER -> TRUE
\* Commands whose failure leaves no sense data: REQUEST SENSE of no bytes, and the
\* commands of TEST UNIT READY's case when direction or length is wrong, as
\* Scsi_Test_Unit_Ready clears what Check_CBW has set
FailsInSilence(c) == \/ c.op = "SENSE" /\ c.want = 0
                     \/ c.op = "READY" /\ ~(c.dir = "out" /\ c.fit = "exact")
\* It reads a packet; a packet that is not full ends the data stage
HostTakes(pkt) ==
  CASE host.ph = "in" ->
         /\ host' = [host EXCEPT
              !.got = IF pkt.kind = "data" THEN Append(@, pkt.p) ELSE @,
              !.ph = IF pkt.kind = "data" /\ Len(host.got) + 1 < host.c.want THEN "in"
                                                                       ELSE "status"]
         /\ last' = IF /\ pkt.kind = "response" /\ host.c.op = "SENSE"
                       /\ last.status = "failed" /\ ~FailsInSilence(last.c)
                    THEN [last EXCEPT !.explained = pkt.key # "none"] ELSE last
    [] host.ph = "status" ->
         LET mine == pkt.kind = "csw" /\ pkt.tag = host.n
         IN IF mine /\ pkt.status # "phase"
            THEN /\ HostTo("idle")
                 /\ last' = [status |-> pkt.status, exact |-> Exact, explained |-> TRUE, c |-> host.c]
            ELSE HostTo("reset") /\ UNCHANGED last
ReadPacket ==
  /\ host.ph \in {"in", "status"}
  /\ \/ /\ dev.inHalt /\ UNCHANGED <<dev, last>>
        /\ host' = [host EXCEPT
             !.ph = IF host.ph = "status" /\ host.retried THEN "reset" ELSE "haltIn",
             !.retried = host.ph = "status"]
     \/ /\ ~dev.inHalt /\ dev.iep[dev.hwIn] # Free
        /\ HostTakes(dev.iep[dev.hwIn])
        /\ dev' = [dev EXCEPT !.iep[dev.hwIn] = Free, !.hwIn = Other(@), !.iepIfg = TRUE]
  /\ UNCHANGED <<at, stored, odd, faults>>

\* CLEAR_FEATURE, alone or as the end of a reset recovery
ClearFeature ==
  /\ \/ host.ph \in {"haltIn", "resetIn"} /\ dev' = ClearIn(dev)
     \/ host.ph \in {"haltOut", "resetOut"} /\ dev' = ClearOut(dev)
  /\ HostTo(CASE host.ph = "resetIn" -> "resetOut" [] host.ph = "resetOut" -> "idle"
              [] host.ph \in {"haltIn", "haltOut"} -> "status")
  /\ DevOnly

\* The reset request; what it leaves behind.  It clears the sense data, so that
\* of the commands before it there is nothing more to ask
BulkOnlyReset ==
  /\ host.ph = "reset" /\ dev' = Reset(dev) /\ HostTo("resetIn")
  /\ odd' = IF \/ dev.r.count > 0
               \/ dev.iep # NoPackets \/ dev.oep # NoPackets
            THEN odd \cup {"reset"} ELSE odd
  /\ last' = [last EXCEPT !.status = "none"]
  /\ UNCHANGED <<at, stored, faults>>

\* The host gives up waiting
GiveUp ==
  /\ host.ph \in {"in", "out", "status"} /\ faults < MaxFaults
  /\ HostTo("reset") /\ faults' = faults + 1
  /\ UNCHANGED <<dev, at, stored, last, odd>>

MassNext == \/ InIsr \/ OutIsr \/ Poll \/ Status \/ Take \/ Application \/ Media
        \/ GetMaxLun \/ SendCbw \/ SendPacket \/ ReadPacket
        \/ ClearFeature \/ BulkOnlyReset \/ GiveUp
MassSpec == MassInit /\ [][MassNext]_massVars

\* Interrupts are served, the main program runs, and the host goes on with a
\* command it began; it may send no more commands, nor give up
MassFairSpec ==
  /\ MassSpec /\ WF_massVars(InIsr \/ OutIsr) /\ WF_massVars(Poll \/ Status \/ Take)
  /\ SF_massVars(Application)
  /\ WF_massVars(SendPacket \/ ReadPacket \/ ClearFeature \/ BulkOnlyReset)
----------------------------------------------------------------------------
\* The values of the variables.
MassTypeOK ==
  /\ at \in {"top", "status", "take", "mixed"}
  /\ dev.r.left \in 0..BufPackets /\ dev.w.free \in 0..BufPackets
  /\ dev.r.count \in 0..MaxBlocks /\ dev.w.left \in 0..MaxBlocks * LbaPackets

\* The packet that the host takes for the status of its command is that status.
StatusIsNext ==
  LET pkt == dev.iep[dev.hwIn]
  IN odd = {} /\ host.ph = "status" /\ ~dev.inHalt /\ pkt # Free
     => pkt.kind = "csw" /\ pkt.tag = host.n

\* A command the host is told has passed did what it asked: a read gave it the
\* blocks of the medium, a write put all of its packets in their places.  Not so
\* one whose command block has no length, which passes with nothing done, nor
\* what comes after a read or write of no blocks, or after a stall that left
\* packets in the endpoint: the host takes them for those of the next read.
PassedIsDone ==
  /\ odd \cap {"noBlocks", "inFlight"} = {}
  /\ last.status = "passed" /\ last.c.cmdLen
  => last.exact

\* The status that the host takes is that of its command, and true.
StatusTrue == StatusIsNext /\ PassedIsDone

\* After a failed command REQUEST SENSE says why, but of those that fail in
\* silence and with the same exceptions.
FailureExplained == odd \cap {"noBlocks", "inFlight"} = {} => last.explained

\* A command ends, with its status or a reset.
CommandsEnd ==
  host.ph \in {"in", "out", "status"} ~> (host.ph = "idle" \/ odd \ {"early"} # {})
=============================================================================
