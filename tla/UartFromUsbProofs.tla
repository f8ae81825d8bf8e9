-------------------------- MODULE UartFromUsbProofs --------------------------
(***************************************************************************)
(* The transmit interrupt of uart.c is enabled exactly while txbuf holds a *)
(* character, whatever the sizes of txbuf and of the packets are and       *)
(* wherever the receive of handle_uart is cut off by the bus; and, until a *)
(* receive has stayed open, the characters reach the UART in the order in  *)
(* which the host sent them, and none is lost while the device stays       *)
(* configured.                                                             *)
(***************************************************************************)
EXTENDS UartFromUsb, UsbOutEpProofs

\* The consumer never passes the producer, and the interrupt is enabled while
\* it is behind; this holds also while handle_uart keeps interrupts off.
Armed == /\ tx \in {"ready", "loaded"}
         /\ txo \in Nat /\ txsiz \in Nat /\ txo <= txsiz /\ txsiz <= MemSize
         /\ txie <=> txo < txsiz

\* What cdcReceiveDataInBuffer has received fits behind what txbuf holds.
RoomLeft == pc \in {"count", "receive"} => txsiz + cur <= MemSize

Counters == sent \in Nat /\ cur \in Nat /\ asked \in Nat

IInv == Sound(ep) /\ Counters /\ Armed /\ RoomLeft

LEMMA InitInv == Init => IInv
<1> SUFFICES ASSUME Init PROVE IInv
  OBVIOUS
<1>1. Cleared \in [0..MemSize-1 -> Nat]
  BY DEF Cleared, Junk
<1>2. Sound(ep)
  BY <1>1, ResetSound DEF Init
<1> QED BY <1>2, SizeAssumption DEF Init, IInv, Counters, Armed, RoomLeft

\* The host and the two interrupts.
LEMMA HostStep == ASSUME IInv, HostSends PROVE IInv'
<1>1. PICK n \in 1..EpSize :
        /\ ep' = Accept(ep, [i \in 1..n |-> sent + i]) /\ sent' = sent + n
  BY DEF HostSends
<1>2. n \in Nat /\ [i \in 1..n |-> sent + i] \in Seq(Nat)
  BY SizeAssumption DEF IInv, Counters
<1>3. Sound(ep')
  BY <1>1, <1>2, AcceptSound DEF IInv, HostSends
<1>4. Counters' /\ Armed' /\ RoomLeft'
  BY <1>1, <1>2 DEF IInv, HostSends, Counters, Armed, RoomLeft, uartVars, appVars
<1> QED BY <1>3, <1>4 DEF IInv

LEMMA InterruptStep == ASSUME IInv, OepIsr \/ TxReady \/ TxIsr PROVE IInv'
<1>1. CASE OepIsr
  <2>1. Sound(ep')
    BY <1>1, InterruptSound DEF IInv, OepIsr
  <2> QED BY <1>1, <2>1
          DEF IInv, OepIsr, Counters, Armed, RoomLeft, uartVars, appVars
<1>2. CASE TxReady
  BY <1>2 DEF IInv, TxReady, Counters, Armed, RoomLeft, appVars
<1>3. CASE TxIsr
  <2>1. /\ txo < txsiz /\ txsiz \in Nat /\ txo \in Nat /\ tx' = "loaded"
        /\ IF txo + 1 = txsiz THEN AllSent
           ELSE txo' = txo + 1 /\ UNCHANGED <<txsiz, txie, ep>>
    BY <1>3 DEF IInv, Armed, TxIsr
  <2>2. Sound(ep')
    BY <2>1, EmptySound DEF IInv, AllSent
  <2>3. Armed'
    BY <2>1, SizeAssumption DEF IInv, Armed, AllSent
  <2>4. Counters' /\ RoomLeft'
    BY <1>3 DEF IInv, Counters, RoomLeft, TxIsr, InterruptsOn, appVars
  <2> QED BY <2>2, <2>3, <2>4 DEF IInv
<1> QED BY <1>1, <1>2, <1>3

\* handle_uart with cdcReceiveDataInBuffer.
LEMMA ReturnStep ==
  ASSUME IInv, NEW n \in Nat, txsiz + n <= MemSize, Return(n)
  PROVE  Armed' /\ RoomLeft' /\ cur' \in Nat
  BY SizeAssumption DEF IInv, Armed, Return, RoomLeft

LEMMA CountStep == ASSUME IInv, Count PROVE IInv'
<1>1. asked' \in Nat
  BY CountType DEF IInv, Count
<1>2. CASE pc' = "receive" /\ UNCHANGED <<cur, uartVars>>
  BY <1>1, <1>2 DEF Count, IInv, Counters, Armed, RoomLeft, uartVars
<1>3. CASE Return(cur)
  <2>1. cur \in Nat /\ txsiz + cur <= MemSize
    BY DEF IInv, Counters, RoomLeft, Count
  <2>2. Armed' /\ RoomLeft' /\ cur' \in Nat
    BY <1>3, <2>1, ReturnStep
  <2> QED BY <1>1, <2>2 DEF IInv, Count, Counters
<1> QED BY <1>2, <1>3 DEF Count

LEMMA ReceiveStep == ASSUME IInv, Receive PROVE IInv'
<1> DEFINE rxCount == IF Fits THEN asked ELSE MemSize - Target
<1>0. /\ cur \in Nat /\ asked \in Nat /\ txsiz \in Nat /\ txsiz + cur <= MemSize
      /\ MemSize \in Nat
  BY SizeAssumption DEF IInv, Counters, Armed, RoomLeft, Receive
<1>1. Target \in Nat /\ rxCount \in Nat /\ Target + rxCount <= MemSize
      /\ Target = txsiz + cur
  BY <1>0 DEF Target, Fits
<1>2. Sound(ep')
  <2>1. ep' = ep \/ ep' = ReceiveData(ep, Target, rxCount)
    BY DEF Receive
  <2> HIDE DEF rxCount
  <2> QED BY <1>1, <2>1, ReceiveSound DEF IInv
<1>3. \/ pc' = "count" /\ cur' = cur + rxCount /\ UNCHANGED uartVars
      \/ Return(cur + rxCount)
  BY DEF Receive
<1>4. UNCHANGED <<asked, sent>>
  BY DEF Receive
<1> HIDE DEF rxCount
<1>5. CASE pc' = "count" /\ cur' = cur + rxCount /\ UNCHANGED uartVars
  BY <1>0, <1>1, <1>2, <1>4, <1>5 DEF IInv, Counters, Armed, RoomLeft, uartVars
<1>6. CASE Return(cur + rxCount)
  <2>1. cur + rxCount \in Nat /\ txsiz + (cur + rxCount) <= MemSize
    BY <1>0, <1>1
  <2>2. Armed' /\ RoomLeft' /\ cur' \in Nat
    BY <1>6, <2>1, ReturnStep
  <2> QED BY <1>2, <1>4, <2>2 DEF IInv, Counters
<1> QED BY <1>3, <1>5, <1>6

LEMMA LoopStep == ASSUME IInv, EnterActive \/ HandleUart PROVE IInv'
  BY SizeAssumption DEF IInv, EnterActive, HandleUart, Counters, Armed, RoomLeft, uartVars

LEMMA BusStep == ASSUME IInv, Bus PROVE IInv'
<1>1. UNCHANGED <<uartVars, appVars, sent>>
  BY DEF Bus, BusReset, VbusOn, UsbReset, VbusOff, Enumerate, Suspend, Resume
<1>2. ep' = ep \/ ep' = ResetData(ep.mem)
  BY DEF Bus, BusReset, VbusOn, UsbReset, VbusOff, Enumerate, Suspend, Resume
<1>3. ep.mem \in [0..MemSize-1 -> Nat]
  BY DEF IInv, Sound, Record
<1>4. Sound(ep')
  BY <1>2, <1>3, ResetSound DEF IInv
<1> QED BY <1>1, <1>4 DEF IInv, Counters, Armed, RoomLeft, uartVars, appVars

LEMMA StepInv == ASSUME IInv, [Next]_vars PROVE IInv'
<1>1. CASE Next
  BY <1>1, HostStep, InterruptStep, CountStep, ReceiveStep, LoopStep, BusStep DEF Next
<1>2. CASE UNCHANGED vars
  BY <1>2 DEF vars, IInv, Counters, Armed, RoomLeft, uartVars, appVars
<1> QED BY <1>1, <1>2

\* The invariant holds in every reachable state.
THEOREM TransmitInvariance == Spec => []IInv
  BY InitInv, StepInv, PTL DEF Spec

\* The transmit interrupt is enabled exactly while txbuf holds a character, so
\* it never consumes UCTXIFG for nothing and the UART never falls silent
\* (uart.c:51, uart.c:120), for every size of txbuf and of the packets.
THEOREM TransmitterIsArmed == Spec => []TransmitterArmed
<1>1. IInv => TransmitterArmed
  BY DEF IInv, Armed, TransmitterArmed
<1> QED BY <1>1, TransmitInvariance, PTL
-----------------------------------------------------------------------------
(* The bytes, until a receive has stayed open: no receive waits, what      *)
(* handle_uart has counted it has stored, the bus cannot go away between   *)
(* the count and the receive because interrupts are off, and nothing is    *)
(* held before the device is configured.                                   *)

Calm == /\ ~ep.open /\ ep.want = 0 /\ Aligned(ep)
        /\ usb = "default" => Held(ep) = <<>>
        /\ wire \in Seq(Nat) /\ pc \in {"elsewhere", "active", "count", "receive"}
        /\ InterruptsOn => cur = 0
        /\ pc = "receive" => BusUp

\* Bytes named 1 to top at most, in the order of their names.
Ordered(s, top) ==
  /\ \A k \in 1..Len(s) : 0 < s[k] /\ s[k] <= top
  /\ \A k, m \in 1..Len(s) : k < m => s[k] < s[m]

PathInv == IInv /\ (~overasked => Calm /\ Ordered(Path, sent))

LEMMA OrderedGrows ==
  ASSUME NEW s \in Seq(Nat), NEW top \in Nat, Ordered(s, top),
         NEW c \in Seq(Nat), \A k \in 1..Len(c) : c[k] = top + k
  PROVE  Ordered(s \o c, top + Len(c))
<1> DEFINE t == s \o c
<1>1. t \in Seq(Nat) /\ Len(t) = Len(s) + Len(c)
  OBVIOUS
<1>2. /\ \A k \in 1..Len(s) : t[k] = s[k]
      /\ \A k \in Len(s)+1..Len(t) : t[k] = top + (k - Len(s))
  BY <1>1, ConcatProperties
<1> HIDE DEF t
<1>3. ASSUME NEW k \in 1..Len(t) PROVE 0 < t[k] /\ t[k] <= top + Len(c)
  <2>1. CASE k <= Len(s)
    <3>1. k \in 1..Len(s) /\ t[k] = s[k] /\ s[k] \in Nat
      BY <1>1, <1>2, <1>3, <2>1
    <3>2. 0 < s[k] /\ s[k] <= top
      BY <3>1 DEF Ordered
    <3> QED BY <3>1, <3>2
  <2>2. CASE k > Len(s)
    <3>1. k \in Len(s)+1..Len(t) /\ k - Len(s) \in 1..Len(c)
      BY <1>1, <1>3, <2>2
    <3>2. t[k] = top + (k - Len(s))
      BY <1>2, <3>1
    <3> QED BY <3>1, <3>2
  <2> QED BY <1>1, <1>3, <2>1, <2>2
<1>4. ASSUME NEW k \in 1..Len(t), NEW m \in 1..Len(t), k < m PROVE t[k] < t[m]
  <2>1. CASE m <= Len(s)
    <3>1. k \in 1..Len(s) /\ m \in 1..Len(s)
      BY <1>1, <1>4, <2>1
    <3>2. t[k] = s[k] /\ t[m] = s[m]
      BY <1>2, <3>1
    <3> QED BY <1>4, <3>1, <3>2 DEF Ordered
  <2>2. CASE k <= Len(s) /\ m > Len(s)
    <3>1. k \in 1..Len(s) /\ t[k] = s[k] /\ s[k] \in Nat
      BY <1>1, <1>2, <1>4, <2>2
    <3>2. s[k] <= top
      BY <3>1 DEF Ordered
    <3>3. m \in Len(s)+1..Len(t) /\ m - Len(s) >= 1
      BY <1>1, <1>4, <2>2
    <3>4. t[m] = top + (m - Len(s))
      BY <1>2, <3>3
    <3> QED BY <3>1, <3>2, <3>3, <3>4
  <2>3. CASE k > Len(s) /\ m > Len(s)
    <3>1. k \in Len(s)+1..Len(t) /\ m \in Len(s)+1..Len(t)
      BY <1>1, <1>4, <2>3
    <3>2. t[k] = top + (k - Len(s)) /\ t[m] = top + (m - Len(s))
      BY <1>2, <3>1
    <3> QED BY <1>4, <3>1, <3>2
  <2> QED BY <1>1, <1>4, <2>1, <2>2, <2>3
<1> QED BY <1>3, <1>4 DEF Ordered, t

LEMMA OrderedPart ==
  ASSUME NEW s \in Seq(Nat), NEW c \in Seq(Nat), NEW top \in Int, NEW higher \in Int,
         Ordered(s \o c, top), top <= higher
  PROVE  Ordered(s, higher)
<1> DEFINE t == s \o c
<1>1. t \in Seq(Nat) /\ Len(t) = Len(s) + Len(c) /\ \A k \in 1..Len(s) : t[k] = s[k]
  BY ConcatProperties
<1>2. Ordered(t, top)
  OBVIOUS
<1> HIDE DEF t
<1>3. ASSUME NEW k \in 1..Len(s) PROVE 0 < s[k] /\ s[k] <= higher
  <2>1. k \in 1..Len(t) /\ s[k] = t[k] /\ s[k] \in Nat
    BY <1>1, <1>3
  <2>2. 0 < t[k] /\ t[k] <= top
    BY <1>2, <2>1 DEF Ordered
  <2> QED BY <2>1, <2>2
<1>4. ASSUME NEW k \in 1..Len(s), NEW m \in 1..Len(s), k < m PROVE s[k] < s[m]
  <2>1. k \in 1..Len(t) /\ m \in 1..Len(t) /\ s[k] = t[k] /\ s[m] = t[m]
    BY <1>1, <1>4
  <2> QED BY <1>2, <1>4, <2>1 DEF Ordered
<1> QED BY <1>3, <1>4 DEF Ordered

LEMMA PathParts ==
  ASSUME IInv, Calm
  PROVE  /\ txsiz \in Nat /\ txo \in Nat /\ cur \in Nat /\ sent \in Nat /\ MemSize \in Nat
         /\ txo <= txsiz + cur /\ txsiz + cur <= MemSize /\ txo <= txsiz
         /\ ep \in Record /\ ep.mem \in [0..MemSize-1 -> Nat]
         /\ InTxbuf = Slice(ep.mem, txo, txsiz + cur - txo)
         /\ InTxbuf \in Seq(Nat) /\ InBuffer \in Seq(Nat) /\ Held(ep) \in Seq(Nat)
         /\ wire \in Seq(Nat) /\ Path \in Seq(Nat) /\ Path = (wire \o InTxbuf) \o InBuffer
<1>1. /\ txsiz \in Nat /\ txo \in Nat /\ cur \in Nat /\ sent \in Nat /\ MemSize \in Nat
      /\ txo <= txsiz /\ txsiz <= MemSize
  BY SizeAssumption DEF IInv, Counters, Armed
<1>2. txsiz + cur <= MemSize
  <2>1. CASE pc \in {"count", "receive"}
    BY <2>1 DEF IInv, RoomLeft
  <2>2. CASE ~(pc \in {"count", "receive"})
    <3>1. cur = 0
      BY <2>2 DEF Calm, InterruptsOn
    <3> QED BY <1>1, <3>1
  <2> QED BY <2>1, <2>2
<1>3. ep \in Record /\ ep.mem \in [0..MemSize-1 -> Nat] /\ Held(ep) \in Seq(Nat)
  BY AlignedType DEF Calm, Record
<1>4. InTxbuf = Slice(ep.mem, txo, txsiz + cur - txo)
  BY DEF InTxbuf, Slice
<1>5. txo <= txsiz + cur /\ txsiz + cur - txo \in Nat /\ txo + (txsiz + cur - txo) <= MemSize
  BY <1>1, <1>2
<1>6. InTxbuf \in Seq(Nat)
  BY <1>1, <1>3, <1>4, <1>5, SliceFacts
<1>7. InBuffer \in Seq(Nat) /\ wire \in Seq(Nat)
  BY <1>3 DEF InBuffer, Calm
<1>8. Path = (wire \o InTxbuf) \o InBuffer /\ Path \in Seq(Nat)
  BY <1>6, <1>7, ConcatProperties DEF Path
<1> QED BY <1>1, <1>2, <1>3, <1>4, <1>5, <1>6, <1>7, <1>8

\* The three kinds of steps: one that moves bytes along the path or does
\* nothing, one that puts new bytes at its end, one that loses the bytes that
\* are at its end.
Kept  == Path' = Path /\ sent' = sent
Grown == \E c \in Seq(Nat) : /\ \A k \in 1..Len(c) : c[k] = sent + k
                             /\ Path' = Path \o c /\ sent' = sent + Len(c)
Cut   == usb' # "configured" /\ Path = Path' \o InBuffer /\ Path' \in Seq(Nat) /\ sent' = sent

LEMMA StillOrdered ==
  ASSUME IInv, Calm, Ordered(Path, sent), Kept \/ Grown \/ Cut
  PROVE  /\ Ordered(Path', sent')
         /\ usb' = "configured" => Len(Path') >= Len(Path) /\ SubSeq(Path', 1, Len(Path)) = Path
<1>1. Path \in Seq(Nat) /\ InBuffer \in Seq(Nat) /\ sent \in Nat
  BY PathParts
<1>2. CASE Kept
  BY <1>1, <1>2, SubSeqFull DEF Kept
<1>3. CASE Grown
  <2>1. PICK c \in Seq(Nat) : /\ \A k \in 1..Len(c) : c[k] = sent + k
                              /\ Path' = Path \o c /\ sent' = sent + Len(c)
    BY <1>3 DEF Grown
  <2>2. Ordered(Path \o c, sent + Len(c))
    BY <1>1, <2>1, OrderedGrows
  <2>3. /\ Len(Path') = Len(Path) + Len(c) /\ SubSeq(Path', 1, Len(Path)) = Path
        /\ Len(Path) \in Nat /\ Len(c) \in Nat
    BY <1>1, <2>1, TwoParts
  <2>4. Len(Path') >= Len(Path)
    BY <2>3
  <2> QED BY <2>1, <2>2, <2>3, <2>4
<1>4. CASE Cut
  <2>1. Path' \in Seq(Nat) /\ Ordered(Path' \o InBuffer, sent) /\ sent' = sent
    BY <1>4 DEF Cut
  <2>2. Ordered(Path', sent)
    BY <1>1, <2>1, OrderedPart
  <2> QED BY <1>4, <2>1, <2>2 DEF Cut
<1> QED BY <1>2, <1>3, <1>4

LEMMA SlicesMeet ==
  ASSUME NEW m \in [0..MemSize-1 -> Nat], NEW at \in Nat, NEW j \in Nat, NEW k \in Nat,
         NEW mid, mid = at + j, mid + k <= MemSize
  PROVE  Slice(m, at, j + k) = Slice(m, at, j) \o Slice(m, mid, k)
<1>1. at + j + k <= MemSize
  OBVIOUS
<1> QED BY <1>1, SliceJoin

LEMMA FirstOfSlice ==
  ASSUME NEW m \in [0..MemSize-1 -> Nat], NEW o \in Nat, NEW s \in Nat, o < s, s <= MemSize
  PROVE  /\ Slice(m, o, s - o) = Slice(m, o, 1) \o Slice(m, o + 1, s - o - 1)
         /\ Slice(m, o, 1) \in Seq(Nat) /\ Slice(m, o + 1, s - o - 1) \in Seq(Nat)
<1> DEFINE k == s - o - 1
           mid == o + 1
           start == 1
<1>1. m \in [0..MemSize-1 -> Nat] /\ o \in Nat /\ start \in Nat /\ k \in Nat
  OBVIOUS
<1>2. mid = o + start /\ mid + k <= MemSize
  BY SizeAssumption
<1>0. mid \in Nat /\ o + start <= MemSize
  BY SizeAssumption
<1>3. s - o = start + k
  OBVIOUS
<1> HIDE DEF k, mid, start
<1>4. Slice(m, o, start + k) = Slice(m, o, start) \o Slice(m, mid, k)
  BY <1>1, <1>2, SlicesMeet
<1>5. Slice(m, o, start) \in Seq(Nat)
  BY <1>0, <1>1, <1>2, SliceFacts
<1>6. Slice(m, mid, k) \in Seq(Nat)
  BY <1>0, <1>1, <1>2, SliceFacts
<1> QED BY <1>3, <1>4, <1>5, <1>6 DEF k, mid, start

LEMMA SamePath ==
  ASSUME wire' = wire, InTxbuf' = InTxbuf, InBuffer' = InBuffer, sent' = sent PROVE Kept
  BY DEF Kept, Path

\* An OUT packet.
LEMMA HostPath == ASSUME IInv, Calm, HostSends PROVE Calm' /\ Grown
<1>1. PICK n \in 1..EpSize :
        /\ ep' = Accept(ep, [i \in 1..n |-> sent + i]) /\ sent' = sent + n
  BY DEF HostSends
<1> DEFINE packet == [i \in 1..n |-> sent + i]
<1>2. n \in Nat /\ sent \in Nat
  BY SizeAssumption DEF IInv, Counters
<1>3. packet \in Seq(Nat) /\ Len(packet) = n /\ \A k \in 1..n : packet[k] = sent + k
  BY <1>2
<1>4. /\ CanAccept(ep) /\ BusUp /\ Aligned(ep) /\ ~ep.open /\ ep.want = 0
      /\ UNCHANGED <<usb, susp, txsiz, txo, wire, pc, cur>>
  BY DEF HostSends, Calm, busVars, uartVars, appVars
<1> HIDE DEF packet
<1>5. /\ Aligned(ep') /\ Held(ep') = Held(ep) \o packet /\ ~ep'.open /\ ep'.want = 0
      /\ ep'.mem = ep.mem
  <2>1. ep' = Accept(ep, packet)
    BY <1>1 DEF packet
  <2> QED BY <1>3, <1>4, <2>1, AcceptContent
<1>6. Calm'
  BY <1>4, <1>5 DEF Calm, BusUp, InterruptsOn
<1>7. InBuffer = Held(ep) /\ InBuffer' = Held(ep) \o packet /\ InTxbuf' = InTxbuf
  BY <1>4, <1>5 DEF InBuffer, InTxbuf, BusUp
<1>8. Path' = Path \o packet
  <2> DEFINE w == wire \o InTxbuf
             h == Held(ep)
  <2>1. w \in Seq(Nat) /\ h \in Seq(Nat) /\ Path = w \o h
    BY <1>7, PathParts, ConcatProperties
  <2>2. Path' = w \o (h \o packet)
    BY <1>4, <1>7 DEF Path
  <2> HIDE DEF w, h
  <2> QED BY <1>3, <2>1, <2>2, Regroup
<1>9. Grown
  <2>1. \A k \in 1..Len(packet) : packet[k] = sent + k
    BY <1>3
  <2>2. sent' = sent + Len(packet)
    BY <1>1, <1>3
  <2> QED BY <1>3, <1>8, <2>1, <2>2 DEF Grown
<1> QED BY <1>6, <1>9

\* The endpoint's interrupt finds no receive open.
LEMMA OepPath == ASSUME IInv, Calm, OepIsr PROVE Calm' /\ Kept
<1>1. ep' = ep
  <2>1. ep' = ep \/ ep' = ToBufferFromHost(ep)
    BY DEF OepIsr
  <2>2. ToBufferFromHost(ep) = [ep EXCEPT !.open = FALSE]
    BY DEF ToBufferFromHost, Calm
  <2>3. [ep EXCEPT !.open = FALSE] = ep
    <3>1. ep \in Record /\ ep.open = FALSE
      BY PathParts DEF Calm, Record
    <3> QED BY <3>1 DEF Record
  <2> QED BY <2>1, <2>2, <2>3
<1>2. UNCHANGED <<usb, susp, txsiz, txo, wire, pc, cur, sent>>
  BY DEF OepIsr, busVars, uartVars, appVars
<1>3. Calm'
  BY <1>1, <1>2 DEF Calm, BusUp, InterruptsOn
<1> QED BY <1>1, <1>2, <1>3, SamePath DEF InTxbuf, InBuffer

\* The transmit interrupt moves the first byte of txbuf to the wire.
LEMMA TxPath == ASSUME IInv, Calm, TxIsr PROVE Calm' /\ Kept
<1>0. /\ txsiz \in Nat /\ txo \in Nat /\ ep \in Record /\ ep.mem \in [0..MemSize-1 -> Nat]
      /\ MemSize \in Nat /\ txsiz + cur <= MemSize /\ wire \in Seq(Nat)
      /\ InTxbuf = Slice(ep.mem, txo, txsiz + cur - txo)
  BY PathParts
<1>1. /\ txo < txsiz /\ cur = 0 /\ wire' = wire \o [i \in 1..1 |-> ep.mem[txo]]
      /\ IF txo + 1 = txsiz THEN AllSent
         ELSE txo' = txo + 1 /\ UNCHANGED <<txsiz, txie, ep>>
      /\ UNCHANGED <<usb, susp, pc, cur, sent>>
  BY <1>0 DEF IInv, Armed, TxIsr, Calm, busVars, appVars
<1> DEFINE one == Slice(ep.mem, txo, 1)
           rest == Slice(ep.mem, txo + 1, txsiz - txo - 1)
<1>2. wire' = wire \o one
  <2>1. \A i \in 1..1 : txo + i - 1 = txo
    BY <1>0
  <2>2. [i \in 1..1 |-> ep.mem[txo]] = one
    BY <2>1 DEF Slice
  <2> QED BY <1>1, <2>2
<1>3. one \in Seq(Nat) /\ rest \in Seq(Nat) /\ InTxbuf = one \o rest
  <2>1. txo < txsiz /\ txsiz <= MemSize /\ txsiz + cur - txo = txsiz - txo
    BY <1>0, <1>1
  <2>2. /\ Slice(ep.mem, txo, txsiz - txo) = one \o rest
        /\ one \in Seq(Nat) /\ rest \in Seq(Nat)
    BY <1>0, <2>1, FirstOfSlice DEF one, rest
  <2> QED BY <1>0, <2>1, <2>2
<1>4. Aligned(ep') /\ Held(ep') = Held(ep) /\ ~ep'.open /\ ep'.want = 0 /\ InTxbuf' = rest
  <2>1. CASE txo + 1 = txsiz
    <3>1. ep' = [ep EXCEPT !.mem = Cleared] /\ txo' = 0 /\ txsiz' = 0
      BY <1>1, <2>1 DEF AllSent
    <3>2. Aligned(ep') /\ Held(ep') = Held(ep) /\ ~ep'.open /\ ep'.want = 0
      BY <3>1, EmptyContent DEF Calm
    <3>3. InTxbuf' = <<>>
      BY <1>1, <3>1 DEF InTxbuf
    <3>4. rest = <<>>
      <4>1. txsiz - txo - 1 = 0
        BY <1>0, <2>1
      <4> QED BY <4>1 DEF Slice
    <3> QED BY <3>2, <3>3, <3>4
  <2>2. CASE txo + 1 # txsiz
    <3>1. txo' = txo + 1 /\ UNCHANGED <<txsiz, ep>>
      BY <1>1, <2>2
    <3>2. InTxbuf' = Slice(ep.mem, txo + 1, txsiz + cur - (txo + 1))
      BY <1>1, <3>1 DEF InTxbuf, Slice
    <3>3. txsiz + cur - (txo + 1) = txsiz - txo - 1
      BY <1>0, <1>1
    <3> QED BY <3>1, <3>2, <3>3 DEF Calm
  <2> QED BY <2>1, <2>2
<1> HIDE DEF one, rest
<1>5. wire' \in Seq(Nat)
  BY <1>0, <1>2, <1>3, ConcatProperties
<1>6. Calm'
  BY <1>1, <1>4, <1>5 DEF Calm, BusUp, InterruptsOn
<1>7. Path' = Path
  <2>1. wire \o (one \o rest) = (wire \o one) \o rest
    BY <1>0, <1>3, Regroup
  <2>2. InBuffer' = InBuffer
    BY <1>1, <1>4 DEF InBuffer
  <2> QED BY <1>2, <1>3, <1>4, <2>1, <2>2 DEF Path
<1> QED BY <1>1, <1>6, <1>7 DEF Kept

\* cdcReceiveDataInBuffer returns n, with txbuf holding what it should.
LEMMA ReturnPath ==
  ASSUME IInv, Calm, NEW n \in Nat, txsiz + n <= MemSize, Return(n)
  PROVE  /\ InTxbuf' = Slice(ep'.mem, txo, txsiz + n - txo) /\ wire' = wire
         /\ pc' = "elsewhere" /\ cur' = 0
<1>0. txsiz \in Nat /\ txo \in Nat /\ txo <= txsiz
  BY PathParts
<1>1. InTxbuf' = Slice(ep'.mem, txo', txsiz' + cur' - txo') /\ cur' = 0
  BY DEF InTxbuf, Slice, Return
<1>2. CASE txsiz + n > txo
  <2>1. txsiz' = txsiz + n /\ txo' = txo
    BY <1>2 DEF Return
  <2>2. txsiz' + cur' - txo' = txsiz + n - txo
    BY <1>0, <1>1, <2>1
  <2> QED BY <1>1, <2>1, <2>2 DEF Return
<1>3. CASE ~(txsiz + n > txo)
  <2>1. txsiz' = 0 /\ txo' = 0
    BY <1>3 DEF Return
  <2>2. txsiz + n - txo = 0 /\ txsiz' + cur' - txo' = 0
    BY <1>0, <1>1, <1>3, <2>1
  <2>3. Slice(ep'.mem, txo', 0) = <<>> /\ Slice(ep'.mem, txo, 0) = <<>>
    BY DEF Slice
  <2> QED BY <1>1, <2>2, <2>3 DEF Return
<1> QED BY <1>2, <1>3

LEMMA CountPath == ASSUME IInv, Calm, Count PROVE Calm' /\ Kept
<1>1. UNCHANGED <<ep, usb, susp, sent>> /\ pc = "count"
  BY DEF Count, busVars
<1>2. /\ cur \in Nat /\ txsiz + cur <= MemSize
      /\ InTxbuf = Slice(ep.mem, txo, txsiz + cur - txo)
  BY PathParts
<1>3. CASE asked' > 0 /\ pc' = "receive" /\ UNCHANGED <<cur, uartVars>>
  <2>1. BusUp
    BY <1>3 DEF Count
  <2>2. Calm'
    BY <1>1, <1>3, <2>1 DEF Calm, BusUp, InterruptsOn, uartVars
  <2> QED BY <1>1, <1>3, <2>2, SamePath DEF InTxbuf, InBuffer, uartVars
<1>4. CASE Return(cur)
  <2>1. /\ InTxbuf' = Slice(ep'.mem, txo, txsiz + cur - txo) /\ wire' = wire
        /\ pc' = "elsewhere" /\ cur' = 0
    BY <1>2, <1>4, ReturnPath
  <2>2. Calm'
    BY <1>1, <2>1 DEF Calm, BusUp, InterruptsOn
  <2>3. InTxbuf' = InTxbuf /\ InBuffer' = InBuffer
    BY <1>1, <1>2, <2>1 DEF InBuffer
  <2> QED BY <1>1, <2>1, <2>2, <2>3, SamePath
<1> QED BY <1>3, <1>4 DEF Count

\* A receive that does not stay open moves bytes from the endpoint to the end
\* of txbuf.
LEMMA ReceivePath == ASSUME IInv, Calm, Receive, ~overasked' PROVE Calm' /\ Kept
<1> DEFINE n == IF Fits THEN asked ELSE MemSize - Target
           had == Slice(ep.mem, txo, txsiz + cur - txo)
           new == Slice(ep'.mem, Target, n)
<1>0. /\ txsiz \in Nat /\ txo \in Nat /\ cur \in Nat /\ MemSize \in Nat /\ txo <= txsiz
      /\ txsiz + cur <= MemSize /\ ep.mem \in [0..MemSize-1 -> Nat]
      /\ InTxbuf = had /\ had \in Seq(Nat) /\ wire \in Seq(Nat) /\ Held(ep) \in Seq(Nat)
      /\ asked \in Nat /\ Aligned(ep) /\ BusUp /\ ~ep.open
  BY PathParts DEF IInv, Counters, Calm, Receive
<1>1. Target \in Nat /\ n \in Nat /\ Target + n <= MemSize /\ Target = txsiz + cur
  BY <1>0, SMTT(60) DEF Target, Fits
<1>2. /\ ep' = (IF MayReceive(ep, n, BusUp) THEN ReceiveData(ep, Target, n) ELSE ep)
      /\ \/ pc' = "count" /\ cur' = cur + n /\ UNCHANGED uartVars
         \/ Return(cur + n)
      /\ ~ep'.open /\ UNCHANGED <<usb, susp, sent>>
  BY DEF Receive, busVars
<1> HIDE DEF n, had, new
<1>3. /\ Aligned(ep') /\ ep'.want = 0
      /\ Held(ep) = new \o Held(ep')
      /\ \A i \in 0..MemSize-1 : i < Target => ep'.mem[i] = ep.mem[i]
  <2>1. CASE n = 0
    <3>1. ep' = ep
      BY <1>2, <2>1 DEF MayReceive
    <3>2. new = <<>>
      BY <2>1 DEF new, Slice
    <3>3. <<>> \o Held(ep) = Held(ep)
      BY <1>0, ConcatEmptySeq
    <3> QED BY <3>1, <3>2, <3>3 DEF Calm
  <2>2. CASE n # 0
    <3> DEFINE r == ep'
    <3>1. r = ReceiveData(ep, Target, n)
      BY <1>0, <1>1, <1>2, <2>2 DEF MayReceive
    <3>2. new = Slice(r.mem, Target, n) /\ ~r.open
      BY <1>2 DEF new
    <3> HIDE DEF r
    <3>3. /\ Aligned(r) /\ Takes(Begin(ep, Target, n), Held(ep), r)
          /\ r.want > 0 => Held(r) = <<>> /\ r.open
      BY <1>0, <1>1, <3>1, ReceiveContent
    <3>4. r.want = 0
      BY <3>2, <3>3, AlignedType
    <3> DEFINE b == Begin(ep, Target, n)
    <3>5. /\ Begin(ep, Target, n).want = n /\ Begin(ep, Target, n).dst = Target
          /\ Begin(ep, Target, n).mem = ep.mem
      <4>1. ep \in Record
        BY <1>0, AlignedType
      <4>2. b = Begin(ep, Target, n)
        OBVIOUS
      <4> HIDE DEF b
      <4>3. Target \in Nat /\ n \in Nat
        BY <1>1
      <4>4. b.want = n /\ b.dst = Target /\ b.mem = ep.mem
        BY <4>1, <4>2, <4>3, BeginFacts
      <4> QED BY <4>2, <4>4
    <3>6. n - r.want = n
      BY <1>1, <3>4
    <3>7. /\ Held(ep) = Slice(r.mem, Target, n) \o Held(r)
          /\ \A i \in 0..MemSize-1 : i < Target => r.mem[i] = ep.mem[i]
      BY <3>3, <3>5, <3>6 DEF Takes
    <3> QED BY <3>2, <3>3, <3>4, <3>7 DEF r
  <2> QED BY <2>1, <2>2
<1>4. ep'.mem \in [0..MemSize-1 -> Nat] /\ Held(ep') \in Seq(Nat)
  BY <1>3, AlignedType DEF Record
<1>5. /\ InTxbuf' = Slice(ep'.mem, txo, txsiz + cur + n - txo) /\ wire' = wire
      /\ pc' # "receive" /\ pc' \in {"count", "elsewhere"} /\ (InterruptsOn' => cur' = 0)
  <2>1. CASE pc' = "count" /\ cur' = cur + n /\ UNCHANGED uartVars
    <3>1. InTxbuf' = Slice(ep'.mem, txo, txsiz + (cur + n) - txo)
      BY <2>1 DEF InTxbuf, Slice, uartVars
    <3>2. txsiz + (cur + n) - txo = txsiz + cur + n - txo
      BY <1>0, <1>1
    <3> QED BY <2>1, <3>1, <3>2 DEF uartVars, InterruptsOn
  <2>2. CASE Return(cur + n)
    <3>1. cur + n \in Nat /\ txsiz + (cur + n) <= MemSize
          /\ txsiz + (cur + n) - txo = txsiz + cur + n - txo
      BY <1>0, <1>1
    <3>2. /\ InTxbuf' = Slice(ep'.mem, txo, txsiz + (cur + n) - txo) /\ wire' = wire
          /\ pc' = "elsewhere" /\ cur' = 0
      BY <2>2, <3>1, ReturnPath
    <3> QED BY <3>1, <3>2
  <2> QED BY <1>2, <2>1, <2>2
<1>6. Calm'
  BY <1>0, <1>2, <1>3, <1>4, <1>5 DEF Calm, BusUp
<1>7. InTxbuf' = had \o new /\ new \in Seq(Nat)
  <2> DEFINE m == ep'.mem
             k == txsiz + cur - txo
  <2>1. k \in Nat /\ txo + k + n <= MemSize /\ txo + k = Target /\ txsiz + cur + n - txo = k + n
        /\ txo + k <= MemSize
    BY <1>0, <1>1
  <2>2. had = Slice(ep.mem, txo, k)
    BY DEF had
  <2>3. m \in [0..MemSize-1 -> Nat] /\ new = Slice(m, Target, n)
        /\ InTxbuf' = Slice(m, txo, txsiz + cur + n - txo)
    BY <1>4, <1>5 DEF new
  <2>4. \A i \in 0..MemSize-1 : txo <= i /\ i < txo + k => m[i] = ep.mem[i]
    BY <1>3, <2>1
  <2> HIDE DEF m, k
  <2>5. Slice(m, txo, k) = had
    BY <1>0, <2>1, <2>2, <2>4, SliceSame, ZenonT(60)
  <2>6. Slice(m, txo, k + n) = Slice(m, txo, k) \o Slice(m, txo + k, n)
    <3> DEFINE mid == txo + k
    <3>1. m \in [0..MemSize-1 -> Nat] /\ txo \in Nat /\ n \in Nat /\ k \in Nat
      BY <1>0, <1>1, <2>1, <2>3
    <3>2. mid = txo + k /\ mid + n <= MemSize
      BY <2>1
    <3> HIDE DEF mid
    <3>3. Slice(m, txo, k + n) = Slice(m, txo, k) \o Slice(m, mid, n)
      BY <3>1, <3>2, SlicesMeet
    <3> QED BY <3>3 DEF mid
  <2>7. Slice(m, Target, n) \in Seq(Nat)
    BY <1>1, <2>3, SliceFacts
  <2> QED BY <2>1, <2>3, <2>5, <2>6, <2>7
<1>8. Path' = Path
  <2> DEFINE h == Held(ep')
             w == wire \o had
  <2>1. InBuffer = new \o h /\ InBuffer' = h
    BY <1>0, <1>2, <1>3 DEF InBuffer, BusUp
  <2>2. Path = w \o (new \o h) /\ Path' = (wire \o (had \o new)) \o h
    BY <1>0, <1>5, <1>7, <2>1 DEF Path
  <2>3. h \in Seq(Nat) /\ w \in Seq(Nat) /\ w \o new \in Seq(Nat)
    BY <1>0, <1>4, <1>7, ConcatProperties
  <2>4. wire \o (had \o new) = w \o new
    BY <1>0, <1>7, Regroup
  <2> HIDE DEF h, w
  <2>5. w \o (new \o h) = (w \o new) \o h
    BY <1>7, <2>3, Regroup
  <2> QED BY <2>2, <2>4, <2>5
<1> QED BY <1>2, <1>6, <1>8 DEF Kept

\* The bus: a step to a state in which the device is not configured loses what
\* the endpoint holds, and the endpoint is empty when it is configured again.
LEMMA CutPath ==
  ASSUME IInv, Calm, usb' # "configured", wire' = wire, InTxbuf' = InTxbuf, sent' = sent
  PROVE  Cut
<1> DEFINE w == wire \o InTxbuf
<1>1. w \in Seq(Nat) /\ Path = w \o InBuffer /\ InBuffer' = <<>>
  BY PathParts, ConcatProperties DEF InBuffer
<1>2. Path' = w \o <<>>
  BY <1>1 DEF Path
<1> HIDE DEF w
<1>3. Path' = w
  BY <1>1, <1>2, ConcatEmptySeq
<1> QED BY <1>1, <1>3 DEF Cut

LEMMA BusPath == ASSUME IInv, Calm, Bus PROVE Calm' /\ (Kept \/ Cut)
<1>0. /\ UNCHANGED <<txsiz, txo, wire, pc, cur, sent>>
      /\ InterruptsOn /\ cur = 0 /\ pc # "receive" /\ pc' # "receive"
  BY DEF Bus, InterruptsOn, BusReset, VbusOn, VbusOff, Enumerate, Suspend, Resume, UsbReset,
         uartVars, appVars, Calm
<1>1. CASE BusReset \/ VbusOn
  <2>1. ep' = ResetData(ep.mem) /\ usb' = "default"
    BY <1>1 DEF BusReset, VbusOn, UsbReset
  <2>2. ep.mem \in [0..MemSize-1 -> Nat]
    BY PathParts
  <2>3. /\ Aligned(ep') /\ Held(ep') = <<>>
        /\ ~ep'.open /\ ep'.want = 0 /\ ep'.mem = ep.mem
    BY <2>1, <2>2, ResetContent
  <2>4. Calm'
    BY <1>0, <2>1, <2>3 DEF Calm, InterruptsOn
  <2>5. InTxbuf' = InTxbuf
    BY <1>0, <2>3 DEF InTxbuf
  <2> QED BY <1>0, <2>1, <2>4, <2>5, CutPath
<1>2. CASE VbusOff
  <2>1. ep' = ep /\ usb' = "off"
    BY <1>2 DEF VbusOff
  <2>2. Calm'
    BY <1>0, <2>1 DEF Calm, InterruptsOn
  <2>3. InTxbuf' = InTxbuf
    BY <1>0, <2>1 DEF InTxbuf
  <2> QED BY <1>0, <2>1, <2>2, <2>3, CutPath
<1>3. CASE Enumerate
  <2>1. ep' = ep /\ usb = "default" /\ usb' = "configured"
    BY <1>3 DEF Enumerate
  <2>2. Calm' /\ InBuffer = <<>> /\ InBuffer' = <<>>
    BY <1>0, <2>1 DEF Calm, InterruptsOn, InBuffer
  <2>3. InTxbuf' = InTxbuf
    BY <1>0, <2>1 DEF InTxbuf
  <2> QED BY <1>0, <2>2, <2>3, SamePath
<1>4. CASE Suspend \/ Resume
  <2>1. ep' = ep /\ usb' = usb
    BY <1>4 DEF Suspend, Resume
  <2>2. Calm' /\ InBuffer' = InBuffer
    BY <1>0, <2>1 DEF Calm, InterruptsOn, InBuffer
  <2>3. InTxbuf' = InTxbuf
    BY <1>0, <2>1 DEF InTxbuf
  <2> QED BY <1>0, <2>2, <2>3, SamePath
<1> QED BY <1>1, <1>2, <1>3, <1>4 DEF Bus

\* The main loop outside the receive, and the shift register.
LEMMA QuietPath ==
  ASSUME IInv, Calm, EnterActive \/ HandleUart \/ TxReady \/ UNCHANGED vars
  PROVE  Calm' /\ Kept
<1>1. /\ UNCHANGED <<ep, usb, susp, txsiz, txo, wire, sent>> /\ cur' = cur
      /\ \/ pc' = pc
         \/ pc' \in {"active", "count", "elsewhere"} /\ cur' = 0
  BY DEF EnterActive, HandleUart, TxReady, vars, busVars, uartVars, appVars, Calm, InterruptsOn
<1>2. Calm'
  BY <1>1 DEF Calm, BusUp, InterruptsOn
<1>3. InTxbuf' = InTxbuf /\ InBuffer' = InBuffer
  BY <1>1 DEF InTxbuf, InBuffer
<1> QED BY <1>1, <1>2, <1>3, SamePath

LEMMA CalmStep ==
  ASSUME IInv, Calm, ~overasked', [Next]_vars PROVE Calm' /\ (Kept \/ Grown \/ Cut)
<1>1. CASE HostSends
  BY <1>1, HostPath
<1>2. CASE OepIsr
  BY <1>2, OepPath
<1>3. CASE TxIsr
  BY <1>3, TxPath
<1>4. CASE Count
  BY <1>4, CountPath
<1>5. CASE Receive
  BY <1>5, ReceivePath
<1>6. CASE Bus
  BY <1>6, BusPath
<1>7. CASE EnterActive \/ HandleUart \/ TxReady \/ UNCHANGED vars
  BY <1>7, QuietPath
<1> QED BY <1>1, <1>2, <1>3, <1>4, <1>5, <1>6, <1>7 DEF Next

\* No step forgets that a receive has stayed open.
LEMMA StaysOverasked == ASSUME [Next]_vars, overasked PROVE overasked'
<1>1. CASE Receive
  BY <1>1 DEF Receive
<1>2. CASE Bus
  BY <1>2 DEF Bus, BusReset, VbusOn, VbusOff, Enumerate, Suspend, Resume, UsbReset
<1>3. CASE HostSends \/ OepIsr \/ TxReady \/ TxIsr \/ EnterActive \/ HandleUart \/ Count
  BY <1>3 DEF HostSends, OepIsr, TxReady, TxIsr, EnterActive, HandleUart, Count
<1>4. CASE UNCHANGED vars
  BY <1>4 DEF vars
<1> QED BY <1>1, <1>2, <1>3, <1>4 DEF Next

\* What a step loses, and the order it leaves.
NothingLostStep ==
  ~overasked' /\ usb' = "configured"
  => Len(Path') >= Len(Path) /\ SubSeq(Path', 1, Len(Path)) = Path

LEMMA PathStep == ASSUME PathInv, [Next]_vars PROVE PathInv' /\ NothingLostStep
<1>1. IInv /\ IInv'
  BY StepInv DEF PathInv
<1>2. CASE overasked'
  BY <1>1, <1>2 DEF PathInv, NothingLostStep
<1>3. CASE ~overasked'
  <2>1. Calm /\ Ordered(Path, sent)
    BY <1>3, StaysOverasked DEF PathInv
  <2>2. Calm' /\ (Kept \/ Grown \/ Cut)
    BY <1>1, <1>3, <2>1, CalmStep
  <2>3. /\ Ordered(Path', sent')
        /\ usb' = "configured" => Len(Path') >= Len(Path) /\ SubSeq(Path', 1, Len(Path)) = Path
    BY <1>1, <2>1, <2>2, StillOrdered
  <2>4. Ordered(Path, sent)'
    BY <2>3 DEF Ordered
  <2> QED BY <1>1, <2>2, <2>3, <2>4 DEF PathInv, NothingLostStep
<1> QED BY <1>2, <1>3

LEMMA PathInit == Init => PathInv
<1> SUFFICES ASSUME Init PROVE PathInv
  OBVIOUS
<1>1. Cleared \in [0..MemSize-1 -> Nat]
  BY DEF Cleared, Junk
<1>2. /\ Aligned(ep) /\ Held(ep) = <<>> /\ ~ep.open /\ ep.want = 0
  BY <1>1, ResetContent DEF Init
<1>3. Calm
  BY <1>2 DEF Init, Calm, InterruptsOn
<1>4. InTxbuf = <<>> /\ InBuffer = <<>> /\ wire = <<>> /\ sent = 0
  BY DEF Init, InTxbuf, InBuffer
<1>5. Path = <<>>
  BY <1>4 DEF Path
<1>6. Ordered(Path, sent)
  BY <1>5 DEF Ordered
<1> QED BY <1>3, <1>6, InitInv DEF PathInv

\* PathInv is the invariant behind the order of the characters: while no
\* receive has stayed open, the wire, txbuf and the endpoint together hold
\* names in their order and none that the host has not sent.
THEOREM PathInvariance == Spec => []PathInv
<1>1. PathInv /\ [Next]_vars => PathInv'
  BY PathStep
<1> QED BY <1>1, PathInit, PTL DEF Spec

\* InOrder, for every size of txbuf and of the packets: the characters go to
\* the UART in the order in which the host sent them, each once and none
\* invented, through packets that are read in two parts, a txbuf that fills,
\* resets and detaches (uart.c:44, uart.c:113, usbConstructs.c:249).
THEOREM CharactersInOrder == Spec => []InOrder
<1>1. PathInv => InOrder
  <2> SUFFICES ASSUME PathInv, ~overasked, NEW i \in 1..Len(Path), NEW j \in 1..Len(Path), i < j
               PROVE  0 < Path[i] /\ Path[i] < Path[j]
    BY DEF InOrder
  <2>1. Ordered(Path, sent)
    BY DEF PathInv
  <2> QED BY <2>1 DEF Ordered
<1> QED BY <1>1, PathInvariance, PTL

\* NothingLost, for every size of txbuf and of the packets: a step that leaves
\* the device configured keeps every character that is under way.
THEOREM NoCharacterLost == Spec => NothingLost
<1>1. PathInv /\ [Next]_vars => PathInv' /\ NothingLostStep
  BY PathStep
<1>2. PathInv /\ [Next]_vars => [NothingLostStep]_vars
  BY <1>1
<1>3. Spec => [][NothingLostStep]_vars
  BY <1>2, PathInvariance, PTL DEF Spec
<1> QED BY <1>3, PTL DEF NothingLost, NothingLostStep
============================================================================
