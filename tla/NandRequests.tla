---------------------------- MODULE NandRequests ----------------------------
(***************************************************************************)
(* Access of the host to the NAND flash: the flash part of the main loop   *)
(* (ordb3a_main.c, case ST_ENUM_ACTIVE), nand_state, and the functions of  *)
(* nand_ordb3.c it calls.                                                  *)
(*                                                                         *)
(* The host sends requests: a struct nandreq, addr_bytes of address and    *)
(* writelen of data.  The chip gets the command, the address and the data, *)
(* and gives back readlen bytes.  The USB endpoint below is a first-in     *)
(* first-out queue, as HidReceive shows, whose contents a reset discards.  *)
(* A byte is named by the request and the part of it that it belongs to.   *)
(*                                                                         *)
(* The look at the USB buffers and the receive after it are separate       *)
(* steps: packets arrive and the bus changes in between.  The receive,     *)
(* hidReceiveDataInBuffer, is one step; what a suspend in the middle of it *)
(* does is in HidReceive.                                                  *)
(***************************************************************************)
EXTENDS Integers, Sequences

CONSTANTS HdrSize,       \* sizeof(struct nandreq) (6)
          BufSize,       \* MAX_STR_LENGTH, size of buf (64)
          MaxReply,      \* most bytes of one reply to the host (62)
          PktSize,       \* largest packet of the endpoint (64)
          AddrLimit,     \* addr_bytes of a valid request is below this (8)
          WordSize,      \* 2^16: values of writelen, of readlen, and of an int
          Shapes,        \* bound of the model: the requests the host may make
          MaxRequests    \* bound of the model: how many of them

ASSUME SizeAssumption ==
  /\ HdrSize \in Nat \ {0} /\ BufSize \in Nat \ {0} /\ PktSize \in Nat \ {0}
  /\ MaxReply \in 1..BufSize /\ AddrLimit \in Nat /\ MaxRequests \in Nat
  /\ WordSize \in Nat /\ WordSize \div 2 \in Nat \ 0..AddrLimit
ASSUME ShapeAssumption ==
  Shapes \subseteq [addr : Nat, write : 0..WordSize-1, read : 0..WordSize-1]

VARIABLES
  bus,                   \* "down", "up" (ST_ENUM_ACTIVE) or "suspended"
  fifo,                  \* what the two endpoint buffers hold
  pc, seen,              \* the main loop's position, and its len: see TypeOK
  nand_state,            \* cmd (the number of its request), and the lengths
  open,                  \* between nand_open and nand_close
  ready,                 \* the chip's R/Bn line
  asked,                 \* the host's requests
  hostLeft,              \* what the host still has to send
  due,                   \* history: what the chip is to see for them
  chip,                  \* history: what the chip has seen on its port
  replies,               \* history: what the host has been sent
  clean                  \* history: no request was invalid, too long or cut off

hostVars == <<asked, hostLeft, due>>
nandVars == <<nand_state, open, ready, chip, replies>>
vars == <<bus, fifo, pc, seen, nandVars, hostVars, clean>>

Entry == [req : 0..MaxRequests, part : {"header", "cmd", "addr", "data", "read", "junk"}, n : Nat]

\* pc: in another part of the loop, at the flash part, after a look that found
\* a whole request, and after one that found too little.
TypeOK ==
  /\ bus \in {"down", "up", "suspended"}
  /\ fifo \in Seq(Entry) /\ Len(fifo) <= 2 * PktSize
  /\ pc \in {"elsewhere", "flash", "header", "discard"} /\ seen \in 0..2*PktSize
  /\ nand_state \in [cmd : 0..MaxRequests, addr_bytes : Nat,
                     writelen : 0..WordSize-1, readlen : 0..WordSize-1]
  /\ open \in BOOLEAN /\ ready \in BOOLEAN
  /\ asked \in Seq(Shapes) /\ Len(asked) <= MaxRequests
  /\ hostLeft \in Seq(Entry) /\ due \in Seq(Entry)
  /\ chip \in Seq(Entry) /\ replies \in Seq(Entry)
  /\ clean \in BOOLEAN

\* main() after nand_probe has cleared the lengths and xsvf_shutdown has
\* released the chip.
Init ==
  /\ bus = "down" /\ fifo = <<>> /\ pc = "elsewhere" /\ seen = 0
  /\ nand_state = [cmd |-> 0, addr_bytes |-> 0, writelen |-> 0, readlen |-> 0]
  /\ open = FALSE /\ ready = TRUE
  /\ asked = <<>> /\ hostLeft = <<>> /\ due = <<>> /\ chip = <<>> /\ replies = <<>>
  /\ clean = TRUE
----------------------------------------------------------------------------
SmallerOf(a, b) == IF a < b THEN a ELSE b
Drop(s, n) == SubSeq(s, n + 1, Len(s))

\* n bytes of one part of request k.
Part(k, part, n) == [i \in 1..n |-> [req |-> k, part |-> part, n |-> i]]

\* What the host sends for request k of shape s, and what the chip is to see.
HostBytes(k, s) == Part(k, "header", HdrSize) \o Part(k, "addr", s.addr) \o Part(k, "data", s.write)
ChipBytes(k, s) == Part(k, "cmd", 1) \o Part(k, "addr", s.addr) \o Part(k, "data", s.write)
                     \o Part(k, "read", s.read)

\* A length as the int of process_nanddata
Signed(w) == IF w < WordSize \div 2 THEN w ELSE w - WordSize

\* "Simple validation for now"
Valid(r) == r.addr < AddrLimit /\ ~(r.write > 0 /\ r.read > 0)

\* Bound of the model: a request that is too long is the last one.
TooLong(s) == Signed(s.write) < 0

\* The host makes a request, and may make the next one before it is done.
NewRequest ==
  /\ bus = "up" /\ Len(asked) < MaxRequests /\ ~(\E k \in DOMAIN asked : TooLong(asked[k]))
  /\ \E s \in Shapes :
       /\ asked' = Append(asked, s)
       /\ hostLeft' = hostLeft \o HostBytes(Len(asked'), s)
       /\ due' = due \o ChipBytes(Len(asked'), s)
       /\ clean' = (clean /\ Valid(s) /\ ~TooLong(s))
  /\ UNCHANGED <<bus, fifo, pc, seen, nandVars>>

\* A packet arrives.  The host does not split a header ("Too small a packet,
\* discard the data"): what stays behind does not begin within one.
WholeHeaders(rest) == rest # <<>> => (rest[1].part = "header" => rest[1].n = 1)

HostSends ==
  /\ bus = "up"
  /\ \E n \in 1..SmallerOf(PktSize, Len(hostLeft)) :
       /\ Len(fifo) + n <= 2 * PktSize
       /\ fifo' = fifo \o SubSeq(hostLeft, 1, n)
       /\ hostLeft' = Drop(hostLeft, n) /\ WholeHeaders(hostLeft')
  /\ UNCHANGED <<bus, pc, seen, nandVars, asked, due, clean>>

\* The chip raises R/Bn.
ChipReady == ~ready /\ ready' = TRUE
             /\ UNCHANGED <<bus, fifo, pc, seen, nand_state, open, chip, replies, hostVars, clean>>
----------------------------------------------------------------------------
\* expect_nandreq()
ExpectNandreq == nand_state.addr_bytes = 0 /\ nand_state.writelen = 0 /\ nand_state.readlen = 0

\* Mutant of ExpectNanddata: the address is not counted.
ExpectNanddata_WriteOnly == nand_state.writelen

\* expect_nanddata(): an int, which the sum may wrap to zero.
ExpectNanddata == (nand_state.addr_bytes + nand_state.writelen) % WordSize

\* USBHID_bytesInUSBBuffer
BytesInUSBBuffer == IF bus = "up" THEN Len(fifo) ELSE 0

\* The main loop finds ST_ENUM_ACTIVE and comes to the flash part.
EnterActive ==
  /\ pc = "elsewhere" /\ bus = "up" /\ pc' = "flash"
  /\ UNCHANGED <<bus, fifo, seen, nandVars, hostVars, clean>>

\* nand_ready() says no.
ChipIsBusy ==
  /\ pc = "flash" /\ ~ready /\ pc' = "elsewhere"
  /\ UNCHANGED <<bus, fifo, seen, nandVars, hostVars, clean>>

\* A packet that cannot hold a struct nandreq.
TooSmall(n) == n < HdrSize

\* expect_nandreq() releases the chip; then the size of what has arrived.
LookForRequest ==
  /\ pc = "flash" /\ ready /\ ExpectNandreq
  /\ open' = FALSE /\ seen' = BytesInUSBBuffer
  /\ pc' = CASE seen' = 0 -> "elsewhere" [] seen' > 0 /\ TooSmall(seen') -> "discard"
             [] OTHER -> "header"
  /\ UNCHANGED <<bus, fifo, nand_state, ready, chip, replies, hostVars, clean>>

\* "Too small a packet, discard the data": what is there by now, up to len.
Discard ==
  /\ pc = "discard" /\ pc' = "elsewhere"
  /\ fifo' = Drop(fifo, SmallerOf(seen, BytesInUSBBuffer))
  /\ clean' = FALSE
  /\ UNCHANGED <<bus, seen, nandVars, hostVars>>

\* The struct nandreq that HdrSize bytes of the queue make: the request's when
\* they are its header, any other when the host and the loop are out of step.
Parsed(header) ==
  LET k == header[1].req
      Fields(cmd, s) == [cmd |-> cmd, addr_bytes |-> s.addr, writelen |-> s.write,
                         readlen |-> s.read]
  IN  IF header = Part(k, "header", HdrSize) THEN {Fields(k, asked[k])}
      ELSE {Fields(0, s) : s \in Shapes}

\* Mutant of ProcessNandreq: the chip is left as it was.
ProcessNandreq_NoOpen(r) ==
  /\ UNCHANGED open /\ nand_state' = r
  /\ chip' = Append(chip, [req |-> r.cmd, part |-> "cmd", n |-> 1])
  /\ ready' \in BOOLEAN

\* process_nandreq(): the chip is selected and gets the command byte.
ProcessNandreq(r) ==
  /\ open' = TRUE /\ nand_state' = r
  /\ chip' = Append(chip, [req |-> r.cmd, part |-> "cmd", n |-> 1])
  /\ ready' \in BOOLEAN

\* hidReceiveDataInBuffer(&nand_state, ...), the validation and either
\* process_nandreq() or "flush the buffer".  The result of the receive is not
\* looked at: without a bus nand_state keeps the last command and no lengths.
ReadHeader ==
  /\ pc = "header" /\ pc' = "elsewhere"
  /\ LET got  == BytesInUSBBuffer >= HdrSize
         rest == IF got THEN Drop(fifo, HdrSize) ELSE fifo
     IN  \E r \in IF got THEN Parsed(SubSeq(fifo, 1, HdrSize)) ELSE {nand_state} :
           /\ clean' = (clean /\ got)
           /\ \/ /\ Valid([addr |-> r.addr_bytes, write |-> r.writelen, read |-> r.readlen])
                 /\ ProcessNandreq(r) /\ fifo' = rest
              \/ /\ ~Valid([addr |-> r.addr_bytes, write |-> r.writelen, read |-> r.readlen])
                 /\ fifo' = Drop(rest, SmallerOf(seen, Len(rest)))
                 /\ nand_state' = [r EXCEPT !.addr_bytes = 0, !.writelen = 0, !.readlen = 0]
                 /\ UNCHANGED <<open, ready, chip>>
  /\ UNCHANGED <<bus, seen, replies, hostVars>>
----------------------------------------------------------------------------
\* process_nanddata: how many of n bytes are address.
AddressPart(n) == SmallerOf(n, nand_state.addr_bytes)

\* process_nanddata: how many bytes it writes when n more have been received,
\* and takes from writelen.  A negative length is counted down through all of
\* the words there are, and the loop runs on behind the buffer.
WritePart(n) ==
  IF n > 0 /\ nand_state.writelen > 0
  THEN (IF n < Signed(nand_state.writelen) THEN n ELSE Signed(nand_state.writelen)) % WordSize
  ELSE 0
Junk == [req |-> 0, part |-> "junk", n |-> 0]

\* Mutant of Wanted: a whole buffer is asked for.
Wanted_Buffer == BufSize

\* sizeof(buf)<len?sizeof(buf):len
Wanted == SmallerOf(BufSize, ExpectNanddata)

\* Address or data for the chip: receive, process_nanddata.
TakeData ==
  /\ pc = "flash" /\ ready /\ ~ExpectNandreq /\ ExpectNanddata > 0
  /\ pc' = "elsewhere"
  /\ LET n    == SmallerOf(Wanted, BytesInUSBBuffer)
         alen == AddressPart(n)
         wrlen == WritePart(n - alen)
     IN  /\ fifo' = Drop(fifo, n)
         /\ nand_state' = [nand_state EXCEPT !.addr_bytes = @ - alen,
                                             !.writelen = (@ - wrlen) % WordSize]
         /\ chip' = chip \o [i \in 1..alen+wrlen |->
                      IF i > n THEN Junk
                      ELSE [fifo[i] EXCEPT !.part = IF i <= alen THEN "addr" ELSE "data"]]
  /\ UNCHANGED <<bus, seen, open, ready, replies, hostVars, clean>>

\* Lengths whose sum has wrapped to zero: none of the branches is taken, in this
\* round and in every later one.
NothingExpected ==
  /\ pc = "flash" /\ ready /\ ~ExpectNandreq /\ ExpectNanddata = 0 /\ nand_state.readlen = 0
  /\ pc' = "elsewhere"
  /\ UNCHANGED <<bus, fifo, seen, nandVars, hostVars, clean>>

\* produce_nanddata: up to a packet's payload at once.
ReplySize == SmallerOf(MaxReply, nand_state.readlen)

\* Data from the chip: produce_nanddata, then a waiting send whose result is
\* not looked at; without a bus the bytes are lost.
ProduceData ==
  /\ pc = "flash" /\ ready /\ ExpectNanddata = 0 /\ nand_state.readlen > 0
  /\ pc' = "elsewhere"
  /\ LET total == IF nand_state.cmd = 0 THEN nand_state.readlen ELSE asked[nand_state.cmd].read
         bytes == [i \in 1..ReplySize |->
                     [req |-> nand_state.cmd, part |-> "read", n |-> total - nand_state.readlen + i]]
     IN  /\ chip' = chip \o bytes
         /\ replies' = (IF bus = "up" THEN replies \o bytes ELSE replies)
  /\ nand_state' = [nand_state EXCEPT !.readlen = @ - ReplySize]
  /\ clean' = (clean /\ bus = "up")
  /\ UNCHANGED <<bus, fifo, seen, open, ready, hostVars>>
----------------------------------------------------------------------------
\* Bound of the model: once per run between a look and the receive after it.
Suspend == bus = "up" /\ bus' = "suspended" /\ (pc = "header" => clean)
           /\ UNCHANGED <<fifo, pc, seen, nandVars, hostVars, clean>>

Resume == bus = "suspended" /\ bus' = "up"
          /\ UNCHANGED <<fifo, pc, seen, nandVars, hostVars, clean>>

\* A bus reset or an unplugged cable: the buffers are emptied, the host gives
\* up what it was sending, and nand_state stays as it is.
BusDown ==
  /\ bus # "down" /\ bus' = "down"
  /\ fifo' = <<>> /\ hostLeft' = <<>>
  /\ clean' = (clean /\ fifo = <<>> /\ hostLeft = <<>> /\ ExpectNandreq)
  /\ UNCHANGED <<pc, seen, nandVars, asked, due>>

BusUp == bus = "down" /\ bus' = "up"
         /\ UNCHANGED <<fifo, pc, seen, nandVars, hostVars, clean>>

Loop == \/ EnterActive \/ ChipIsBusy \/ LookForRequest \/ Discard \/ ReadHeader
        \/ TakeData \/ ProduceData \/ NothingExpected

Next == \/ NewRequest \/ HostSends \/ ChipReady \/ Loop
        \/ Suspend \/ Resume \/ BusDown \/ BusUp

Spec == Init /\ [][Next]_vars

\* The host sends what it has begun, the chip gets ready, the loop goes round.
Fairness == WF_vars(HostSends) /\ WF_vars(ChipReady) /\ WF_vars(Loop)
FairSpec == Spec /\ Fairness
----------------------------------------------------------------------------
\* As long as the host keeps to the protocol and no request is cut off, the
\* chip sees the host's requests and nothing else: each command, its address,
\* its data and its reads, in order, whatever packets the requests come in and
\* however many of them are in the buffers at once (nand_ordb3.h:1).
ChipSeesRequests == clean => Len(chip) <= Len(due) /\ SubSeq(due, 1, Len(chip)) = chip

\* The chip's port is used only between nand_open and nand_close, also after
\* a request was cut off; the rest of the time it belongs to the FPGA.
UsesOpenChip == [][chip' # chip => open']_vars

\* Once the host stays attached, every request is carried through to its end,
\* the host has every byte that was read for it, in order, and the port goes
\* back to the FPGA.
RequestsFinish ==
  (<>[](bus = "up") /\ []clean) =>
    /\ <>[]( /\ hostLeft = <<>> /\ fifo = <<>> /\ ExpectNandreq /\ chip = due
             /\ replies = SelectSeq(due, LAMBDA e : e.part = "read") )
    /\ []<>~open
============================================================================
