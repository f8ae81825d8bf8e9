---------------------------- MODULE UartToUsbProofs ----------------------------
(***************************************************************************)
(* Theorems about UartToUsb for every size of rxbuf and of the packets.    *)
(***************************************************************************)
EXTENDS UartToUsb, SequenceTheorems, TLAPS

\* The inductive invariant.  Levels is what handle_uart relies on without
\* saying so: rxo never passes rxsiz.
Levels == rxo <= rxsiz
IInv == TypeOK /\ Levels /\ SourceOwned /\ SendNotStuck /\ BuffersInStep

LEMMA OtherBuffer == \A b \in Buf : Other(b) \in Buf /\ Other(b) # b /\ Other(Other(b)) = b
  BY DEF Buf, Other

\* Two counts whose sum fits rxbuf fit it each.
LEMMA InBounds ==
  ASSUME NEW m \in Nat, NEW n \in Nat, m + n <= RxSize
  PROVE  m \in 0..RxSize /\ n \in 0..RxSize
  BY SizeAssumption

\* A chunk of rxbuf inside its bounds is a sequence of bytes.
LEMMA ChunkType ==
  ASSUME TypeOK, NEW at \in Nat, NEW n \in Nat, at + n <= RxSize
  PROVE  Chunk(at, n) \in Seq(Nat)
<1>1. \A i \in 1..n : at + i - 1 \in 0..RxSize-1
  BY SizeAssumption
<1>2. \A i \in 1..n : rxbuf[at + i - 1] \in Nat
  BY <1>1 DEF TypeOK
<1>3. Chunk(at, n) \in [1..n -> Nat]
  BY <1>2 DEF Chunk
<1> QED BY <1>3

LEMMA InitInv == Init => IInv
  BY SizeAssumption DEF Init, IInv, TypeOK, Levels, SourceOwned, SendNotStuck,
     BuffersInStep, Buf

\* What loading the endpoint's buffers does to the driver's counters.
LEMMA LoadCounts ==
  ASSUME IInv, left # 0, ~full[xy], LoadBuffers
  PROVE  /\ left' \in Nat /\ src' \in Nat /\ left' < left
         /\ src' + left' = src + left
         /\ last' \in 0..EpSize
         /\ xy' \in Buf
         /\ full' \in [Buf -> BOOLEAN] /\ full'[xy]
         /\ pkt' \in [Buf -> Seq(Nat)]
         /\ \/ full' = [full EXCEPT ![xy] = TRUE] /\ xy' = Other(xy)
            \/ full' = [b \in Buf |-> TRUE] /\ xy' = xy /\ ~full[Other(xy)]
<1> DEFINE n1 == SmallerOf(left, EpSize)
           n2 == IF full[Other(xy)] THEN 0 ELSE SmallerOf(left - n1, EpSize)
<1>1. /\ left \in 1..RxSize /\ src \in Nat /\ src + left <= RxSize
      /\ xy \in Buf /\ Other(xy) \in Buf /\ Other(xy) # xy
      /\ full \in [Buf -> BOOLEAN] /\ pkt \in [Buf -> Seq(Nat)]
  BY OtherBuffer, SizeAssumption DEF IInv, TypeOK, SourceOwned
<1>2. n1 \in 1..EpSize /\ n1 <= left
  BY <1>1, SizeAssumption DEF SmallerOf
<1>3. n2 \in 0..EpSize /\ n1 + n2 <= left
  BY <1>1, <1>2, SizeAssumption DEF SmallerOf
<1> HIDE DEF n1, n2
<1>4. /\ left' = left - n1 - n2 /\ src' = src + n1 + n2
      /\ last' = (IF n2 > 0 THEN n2 ELSE n1)
      /\ xy' = (IF n2 > 0 THEN xy ELSE Other(xy))
      /\ full' = [full EXCEPT ![xy] = TRUE, ![Other(xy)] = @ \/ n2 > 0]
      /\ pkt' = [pkt EXCEPT ![xy] = Chunk(src, n1),
                            ![Other(xy)] = IF n2 > 0 THEN Chunk(src + n1, n2) ELSE @]
  BY DEF LoadBuffers, n1, n2
<1>5. Chunk(src, n1) \in Seq(Nat) /\ Chunk(src + n1, n2) \in Seq(Nat)
  <2>1. src + n1 \in Nat /\ src + n1 <= RxSize /\ (src + n1) + n2 <= RxSize
    BY <1>1, <1>2, <1>3, SizeAssumption
  <2> QED BY <2>1, <1>1, <1>2, <1>3, ChunkType DEF IInv
<1>6. /\ left' \in Nat /\ src' \in Nat /\ left' < left /\ src' + left' = src + left
      /\ last' \in 0..EpSize
  BY <1>1, <1>2, <1>3, <1>4, SizeAssumption
<1>7. pkt' \in [Buf -> Seq(Nat)]
  BY <1>1, <1>4, <1>5
<1>8. full' \in [Buf -> BOOLEAN] /\ full'[xy] /\ xy' \in Buf
  BY <1>1, <1>3, <1>4
<1>9. \/ full' = [full EXCEPT ![xy] = TRUE] /\ xy' = Other(xy)
      \/ full' = [b \in Buf |-> TRUE] /\ xy' = xy /\ ~full[Other(xy)]
  <2>1. CASE n2 > 0
    <3>1. ~full[Other(xy)]
      BY <2>1, <1>1 DEF n2
    <3>2. full' = [b \in Buf |-> TRUE]
      BY <1>1, <1>4, <2>1 DEF Buf, Other
    <3> QED BY <3>1, <3>2, <1>4, <2>1
  <2>2. CASE n2 = 0
    <3>1. ~(n2 > 0)
      BY <2>2
    <3>2. \A b \in Buf : full'[b] = [full EXCEPT ![xy] = TRUE][b]
      BY <3>1, <1>1, <1>4 DEF Buf, Other
    <3>3. full' = [full EXCEPT ![xy] = TRUE]
      BY <3>2, <1>1, <1>8
    <3> QED BY <3>1, <3>3, <1>4
  <2> QED BY <2>1, <2>2, <1>3
<1> QED BY <1>6, <1>7, <1>8, <1>9
----------------------------------------------------------------------------
\* One lemma per group of actions: the invariant is preserved.

LEMMA StoreTypes ==
  ASSUME IInv, rxsiz < RxSize, Store
  PROVE  /\ rxbuf' \in [0..RxSize-1 -> Nat]
         /\ rxsiz' \in 0..RxSize /\ rxsiz' = rxsiz + 1
         /\ stored' \in Nat
<1> USE SizeAssumption DEF IInv, TypeOK, Store
<1>1. rxsiz \in 0..RxSize /\ stored \in Nat /\ rxbuf \in [0..RxSize-1 -> Nat]
  OBVIOUS
<1>2. rxsiz' \in 0..RxSize /\ rxsiz' = rxsiz + 1 /\ stored' \in Nat /\ stored + 1 \in Nat
  BY <1>1
<1>3. rxbuf' \in [0..RxSize-1 -> Nat]
  BY <1>1, <1>2
<1> QED BY <1>2, <1>3

LEMMA UartStep ==
  ASSUME IInv, CharArrives \/ RxIsr \/ Inject \/ EnterActive
  PROVE  IInv'
<1>1. CASE CharArrives
  BY <1>1 DEF CharArrives, IInv, TypeOK, Levels, SourceOwned, SendNotStuck,
     BuffersInStep, cdcVars, epVars, busVars
<1>2. CASE EnterActive
  BY <1>2 DEF EnterActive, IInv, TypeOK, Levels, SourceOwned, SendNotStuck,
     BuffersInStep, uartVars, cdcVars, epVars, busVars
<1>3. CASE RxIsr
  <2>1. /\ rxbuf' \in [0..RxSize-1 -> Nat] /\ stored' \in Nat
        /\ rxsiz' \in 0..RxSize /\ rxsiz' >= rxsiz
    <3>1. rxsiz \in Nat
      BY SizeAssumption DEF IInv, TypeOK
    <3>2. CASE HasRoom /\ Store
      <4>1. rxsiz < RxSize
        BY <3>2 DEF HasRoom
      <4> QED BY <3>1, <3>2, <4>1, StoreTypes
    <3>3. CASE UNCHANGED <<rxbuf, rxsiz, stored>>
      BY <3>1, <3>3 DEF IInv, TypeOK
    <3> QED BY <1>3, <3>2, <3>3 DEF RxIsr
  <2>2. rxie' \in BOOLEAN /\ rxifg' \in BOOLEAN
    BY <1>3 DEF RxIsr, HasRoom
  <2> QED BY <1>3, <2>1, <2>2, SizeAssumption, SMTT(60)
          DEF RxIsr, HasRoom, IInv, TypeOK, Levels, SourceOwned, SendNotStuck,
              BuffersInStep, cdcVars, epVars, busVars
<1>4. CASE Inject
  <2>1. /\ rxbuf' \in [0..RxSize-1 -> Nat] /\ stored' \in Nat
        /\ rxsiz' \in 0..RxSize /\ rxsiz' >= rxsiz
    BY <1>4, StoreTypes, SizeAssumption DEF Inject, HasRoom, IInv, TypeOK
  <2> QED BY <1>4, <2>1, SizeAssumption, SMTT(60)
          DEF Inject, HasRoom, IInv, TypeOK, Levels, SourceOwned, SendNotStuck,
              BuffersInStep, cdcVars, epVars, busVars
<1> QED BY <1>1, <1>2, <1>3, <1>4

LEMMA HandleStep == ASSUME IInv, HandleUart PROVE IInv'
<1>1. CASE HandleSubmit
  <2> USE SizeAssumption DEF IInv, TypeOK, Levels, SourceOwned
  <2>1. CASE SendData(rxo, rxsiz - rxo) /\ rxo' = rxsiz
    <3>1. /\ left' \in 0..RxSize /\ src' \in 0..RxSize /\ rxo' \in 0..RxSize
          /\ src' + left' = rxo'
      BY <1>1, <2>1 DEF HandleSubmit, SendData
    <3>2. ifg' = TRUE /\ sending' = TRUE /\ rxsiz' = rxsiz /\ rxie' = rxie
      BY <1>1, <2>1 DEF HandleSubmit, SendData
    <3>3. active' = FALSE /\ UNCHANGED <<rxbuf, rxifg, stored, xy, zlp, last,
                                         full, pkt, hw, usb, susp, got>>
      BY HandleUart DEF HandleUart, epVars, busVars
    <3>4. TypeOK'
      BY <3>1, <3>2, <3>3
    <3>5. Levels'
      BY <3>2, <2>1
    <3>6. SourceOwned' /\ SendNotStuck'
      BY <3>1, <3>2 DEF SendNotStuck
    <3>7. BuffersInStep'
      BY <3>3 DEF BuffersInStep
    <3> QED BY <3>4, <3>5, <3>6, <3>7
  <2>2. CASE UNCHANGED <<left, src, ifg, rxo>>
    <3>1. sending' = TRUE /\ rxsiz' = rxsiz /\ rxie' = rxie
      BY <1>1 DEF HandleSubmit
    <3>2. active' = FALSE /\ UNCHANGED <<rxbuf, rxifg, stored, xy, zlp, last,
                                         full, pkt, hw, usb, susp, got>>
      BY HandleUart DEF HandleUart, epVars, busVars
    <3>3. TypeOK'
      BY <3>1, <3>2, <2>2
    <3>4. Levels' /\ SourceOwned' /\ SendNotStuck' /\ BuffersInStep'
      BY <3>1, <3>2, <2>2 DEF SendNotStuck, BuffersInStep
    <3> QED BY <3>3, <3>4
  <2> QED BY <1>1, <2>1, <2>2 DEF HandleSubmit
<1>2. CASE HandleIdle
  <2> USE SizeAssumption DEF IInv, TypeOK, Levels, SourceOwned
  <2>1. /\ rxo' \in 0..RxSize /\ rxsiz' \in 0..RxSize /\ rxo' <= rxsiz'
        /\ left > 0 => rxo' = rxo
    BY <1>2 DEF HandleIdle
  <2>2. rxie' = TRUE /\ UNCHANGED <<sending, left, src, ifg>>
    BY <1>2 DEF HandleIdle
  <2>3. active' = FALSE /\ UNCHANGED <<rxbuf, rxifg, stored, xy, zlp, last,
                                       full, pkt, hw, usb, susp, got>>
    BY HandleUart DEF HandleUart, epVars, busVars
  <2>4. TypeOK'
    BY <2>1, <2>2, <2>3
  <2>5. Levels' /\ SourceOwned'
    BY <2>1, <2>2
  <2>6. SendNotStuck' /\ BuffersInStep'
    BY <2>2, <2>3 DEF SendNotStuck, BuffersInStep
  <2> QED BY <2>4, <2>5, <2>6
<1> QED BY <1>1, <1>2 DEF HandleUart

LEMMA InterruptStep == ASSUME IInv, IepIsr PROVE IInv'
<1> USE DEF IepIsr, uartVars, busVars
<1>1. CASE left # 0 /\ LoadBuffers /\ UNCHANGED sending /\ full[xy]
  <2>1. UNCHANGED <<left, src, xy, last, full, pkt, sending>> /\ zlp' = FALSE
    BY <1>1 DEF LoadBuffers
  <2>2. TypeOK'
    BY <2>1 DEF IInv, TypeOK
  <2>3. Levels' /\ SourceOwned' /\ BuffersInStep'
    BY <2>1 DEF IInv, Levels, SourceOwned, BuffersInStep
  <2>4. SendNotStuck'
    BY <1>1, <2>1 DEF IInv, TypeOK, SendNotStuck
  <2> QED BY <2>2, <2>3, <2>4 DEF IInv
<1>2. CASE left # 0 /\ LoadBuffers /\ UNCHANGED sending /\ ~full[xy]
  <2>0. zlp' = TRUE \/ zlp' = FALSE
    BY <1>2 DEF LoadBuffers
  <2>e. UNCHANGED <<sending, rxo, rxsiz>> /\ left > 0
    BY <1>2, SizeAssumption DEF IInv, TypeOK
  <2>f. src' + left' = src + left
    BY <1>2, LoadCounts
  <2>a. SourceOwned' /\ Levels'
    BY <2>e, <2>f DEF IInv, Levels, SourceOwned
  <2>b. left' \in 0..RxSize /\ src' \in 0..RxSize
    <3>1. left' \in Nat /\ src' \in Nat
      BY <1>2, LoadCounts
    <3>2. src' + left' <= RxSize
      <4>1. src + left = rxo /\ rxo <= RxSize
        BY <2>e, SizeAssumption DEF IInv, TypeOK, SourceOwned
      <4> QED BY <4>1, <2>f
    <3> QED BY <3>1, <3>2, InBounds
  <2>c. TypeOK'
    BY <1>2, LoadCounts, <2>0, <2>b DEF IInv, TypeOK
  <2>d. SendNotStuck'
    BY <1>2, LoadCounts DEF IInv, TypeOK, SendNotStuck
  <2>1. TypeOK' /\ Levels' /\ SourceOwned' /\ SendNotStuck'
    BY <2>a, <2>c, <2>d
  <2>2. BuffersInStep'
    BY <1>2, LoadCounts, OtherBuffer DEF IInv, TypeOK, BuffersInStep, Buf, Other
  <2> QED BY <2>1, <2>2 DEF IInv
<1>3. CASE left = 0 /\ ~zlp /\ Complete
  <2>0. zlp' = TRUE /\ sending' = FALSE /\ left' = 0
    BY <1>3 DEF Complete, HandleSendCompleted
  <2>a. /\ full' \in [Buf -> BOOLEAN] /\ pkt' \in [Buf -> Seq(Nat)]
        /\ xy' \in Buf
    <3>1. /\ full \in [Buf -> BOOLEAN] /\ pkt \in [Buf -> Seq(Nat)]
          /\ xy \in Buf /\ Other(xy) \in Buf /\ <<>> \in Seq(Nat)
      BY OtherBuffer DEF IInv, TypeOK
    <3>2. CASE last = EpSize /\ ~full[xy]
      <4>1. /\ full' = [full EXCEPT ![xy] = TRUE]
            /\ pkt' = [pkt EXCEPT ![xy] = <<>>]
            /\ xy' = Other(xy)
        BY <1>3, <3>2 DEF Complete, HandleSendCompleted
      <4> QED BY <4>1, <3>1
    <3>3. CASE UNCHANGED <<full, pkt, xy>>
      BY <3>1, <3>3
    <3> QED BY <1>3, <3>2, <3>3 DEF Complete, HandleSendCompleted
  <2>b. TypeOK'
    BY <1>3, <2>0, <2>a DEF Complete, HandleSendCompleted, IInv, TypeOK
  <2>c. Levels' /\ SourceOwned' /\ SendNotStuck'
    BY <1>3, <2>0 DEF IInv, Levels, SourceOwned, SendNotStuck
  <2>1. TypeOK' /\ Levels' /\ SourceOwned' /\ SendNotStuck'
    BY <2>b, <2>c
  <2>2. BuffersInStep'
    BY <1>3, OtherBuffer DEF Complete, HandleSendCompleted, IInv, TypeOK, BuffersInStep, Buf, Other
  <2> QED BY <2>1, <2>2 DEF IInv
<1>4. CASE left = 0 /\ zlp /\ UNCHANGED <<sending, cdcVars, full, pkt>>
  <2>1. ifg' = FALSE
    OBVIOUS
  <2>2. TypeOK'
    BY <1>4, <2>1 DEF IInv, TypeOK, cdcVars
  <2>3. left' = 0 /\ Levels'
    BY <1>4 DEF IInv, Levels, cdcVars
  <2>4. SourceOwned' /\ SendNotStuck'
    BY <2>3 DEF SourceOwned, SendNotStuck
  <2>5. BuffersInStep'
    BY <1>4 DEF IInv, BuffersInStep, cdcVars
  <2> QED BY <2>2, <2>3, <2>4, <2>5 DEF IInv
<1> QED BY <1>1, <1>2, <1>3, <1>4

LEMMA HostStep == ASSUME IInv, HostReads PROVE IInv'
<1> USE DEF HostReads, uartVars, cdcVars, busVars
<1>1. got' \in Seq(Nat)
  BY DEF IInv, TypeOK
<1>2. full' \in [Buf -> BOOLEAN] /\ hw' \in Buf
  BY OtherBuffer DEF IInv, TypeOK
<1>3. BuffersInStep'
  BY OtherBuffer, <1>2 DEF IInv, TypeOK, BuffersInStep, Buf, Other
<1>4. TypeOK' /\ Levels' /\ SourceOwned' /\ SendNotStuck'
  BY <1>1, <1>2 DEF IInv, TypeOK, Levels, SourceOwned, SendNotStuck
<1> QED BY <1>3, <1>4 DEF IInv

LEMMA BusStep == ASSUME IInv, Bus PROVE IInv'
<1> USE SizeAssumption
    DEF IInv, TypeOK, Levels, SourceOwned, SendNotStuck, BuffersInStep,
        uartVars, cdcVars, epVars
<1>1. CASE UsbReset
  <2>1. full' \in [Buf -> BOOLEAN] /\ \A b \in Buf : ~full'[b]
    BY <1>1 DEF UsbReset, ResetData
  <2>2. /\ left' = 0 /\ src' = 0 /\ last' = 0 /\ xy' = "X" /\ hw' = "X"
        /\ zlp' = FALSE /\ susp' = FALSE /\ usb' = "default"
        /\ UNCHANGED <<rxbuf, rxsiz, rxo, rxie, rxifg, stored, sending, pkt,
                       ifg, active, got>>
    BY <1>1 DEF UsbReset, ResetData
  <2>a. left' \in 0..RxSize /\ src' \in 0..RxSize /\ last' \in 0..EpSize
    BY <2>2
  <2>b. xy' \in Buf /\ hw' \in Buf
    BY <2>2 DEF Buf
  <2>c. usb' \in {"off", "default", "configured"}
    BY <2>2
  <2>d. zlp' \in BOOLEAN /\ susp' \in BOOLEAN
    BY <2>2
  <2>3. TypeOK'
    BY <2>1, <2>2, <2>a, <2>b, <2>c, <2>d
  <2>4. Levels' /\ SourceOwned' /\ SendNotStuck'
    BY <2>2
  <2>5. BuffersInStep'
    BY <2>1, <2>2 DEF Buf
  <2> QED BY <2>3, <2>4, <2>5
<1>2. CASE VbusOff
  <2>1. /\ usb' = "off" /\ susp' = FALSE
        /\ UNCHANGED <<rxbuf, rxsiz, rxo, rxie, rxifg, stored, sending, left,
                       src, xy, zlp, last, full, pkt, hw, ifg, active, got>>
    BY <1>2 DEF VbusOff
  <2>2. TypeOK'
    <3>1. usb' \in {"off", "default", "configured"} /\ susp' \in BOOLEAN
      BY <2>1
    <3> QED BY <2>1, <3>1
  <2>3. Levels' /\ SourceOwned' /\ SendNotStuck' /\ BuffersInStep'
    BY <2>1
  <2> QED BY <2>2, <2>3
<1>3. CASE Enumerate \/ Suspend \/ Resume
  <2>1. /\ usb' \in {"off", "default", "configured"} /\ susp' \in BOOLEAN
        /\ UNCHANGED <<rxbuf, rxsiz, rxo, rxie, rxifg, stored, sending, left,
                       src, xy, zlp, last, full, pkt, hw, ifg, active, got>>
    BY <1>3 DEF Enumerate, Suspend, Resume
  <2> QED BY <2>1
<1> QED BY <1>1, <1>2, <1>3 DEF Bus, BusReset, VbusOn

LEMMA StepInv == IInv /\ [Next]_vars => IInv'
<1> SUFFICES ASSUME IInv, [Next]_vars PROVE IInv'
  OBVIOUS
<1>1. CASE Next
  BY <1>1, UartStep, HandleStep, InterruptStep, HostStep, BusStep DEF Next
<1>2. CASE UNCHANGED vars
  BY <1>2 DEF vars, uartVars, cdcVars, epVars, busVars, IInv, TypeOK, Levels,
              SourceOwned, SendNotStuck, BuffersInStep
<1> QED BY <1>1, <1>2

\* The whole invariant holds in every reachable state.
THEOREM Invariance == Spec => []IInv
  BY InitInv, StepInv, PTL DEF Spec

\* Type correctness: no index leaves rxbuf and no counter its range, for every
\* size of the buffer and of the packets.
THEOREM TypeCorrect == Spec => []TypeOK
<1>1. IInv => TypeOK
  BY DEF IInv
<1> QED BY <1>1, Invariance, PTL

\* The bytes of rxbuf the driver has yet to copy are never overwritten and the
\* buffer is never restarted under it, for every size of rxbuf and packet.
THEOREM SourceIsOwned == Spec => []SourceOwned
<1>1. IInv => SourceOwned
  BY DEF IInv
<1> QED BY <1>1, Invariance, PTL

\* A CDC send in progress always has something pending that will continue it.
THEOREM SendIsNeverStuck == Spec => []SendNotStuck
<1>1. IInv => SendNotStuck
  BY DEF IInv
<1> QED BY <1>1, Invariance, PTL

\* Driver and hardware agree on which endpoint buffer comes next.
THEOREM BuffersStayInStep == Spec => []BuffersInStep
<1>1. IInv => BuffersInStep
  BY DEF IInv
<1> QED BY <1>1, Invariance, PTL
----------------------------------------------------------------------------
\* That the path is a channel of bytes, by a refinement: every step of the
\* firmware puts a byte into the queue, delivers its oldest bytes, loses them
\* with the link, or leaves the queue as it is.

\* A device that has been reset and not yet configured has nothing to send, and
\* has no packet to complete, so that configuring it brings no byte back.
CleanStart ==
  usb = "default" => left = 0 /\ last # EpSize /\ \A b \in Buf : ~full[b]

LEMMA CleanInit == Init => CleanStart
  BY DEF Init, CleanStart

LEMMA CleanStep == ASSUME IInv, CleanStart, [Next]_vars PROVE CleanStart'
<1> USE DEF CleanStart
<1>1. CASE CharArrives \/ RxIsr \/ Inject \/ EnterActive
  BY <1>1 DEF CharArrives, RxIsr, Inject, EnterActive, cdcVars, epVars, busVars
<1>2. CASE HandleUart
  BY <1>2 DEF HandleUart, HandleSubmit, SendData, HandleIdle, BusUp, epVars, busVars
<1>3. CASE IepIsr
  <2>1. CASE left # 0
    BY <1>3, <2>1 DEF IepIsr, busVars
  <2>2. CASE left = 0
    BY <1>3, <2>2 DEF IepIsr, Complete, cdcVars, busVars
  <2> QED BY <2>1, <2>2
<1>4. CASE HostReads
  BY <1>4 DEF HostReads, BusUp, busVars
<1>5. CASE UsbReset
  BY <1>5, SizeAssumption DEF UsbReset, ResetData
<1>6. CASE VbusOff \/ Enumerate \/ Suspend \/ Resume
  BY <1>6 DEF VbusOff, Enumerate, Suspend, Resume, cdcVars, epVars
<1>7. CASE UNCHANGED vars
  BY <1>7 DEF vars, cdcVars, epVars, busVars
<1> QED BY <1>1, <1>2, <1>3, <1>4, <1>5, <1>6, <1>7 DEF Next, Bus, BusReset, VbusOn

\* Concatenation under a name of its own, which the provers do not unfold.
Joined(p, q) == p \o q

\* What a chunk of rxbuf, whatever it holds, is.
Piece(f, at, n) == [i \in 1..n |-> f[at + i - 1]]

LEMMA PieceFacts ==
  ASSUME NEW f \in [0..RxSize-1 -> Nat], NEW at \in Nat, NEW n \in Nat, at + n <= RxSize
  PROVE  /\ Piece(f, at, n) \in Seq(Nat) /\ Len(Piece(f, at, n)) = n
         /\ \A i \in 1..n : Piece(f, at, n)[i] = f[at + i - 1]
<1>1. \A i \in 1..n : at + i - 1 \in 0..RxSize-1
  BY SizeAssumption
<1>2. Piece(f, at, n) \in [1..n -> Nat]
  BY <1>1 DEF Piece
<1>3. Piece(f, at, n) \in Seq(Nat) /\ DOMAIN Piece(f, at, n) = 1..n
  BY <1>2
<1>4. Len(Piece(f, at, n)) \in Nat /\ DOMAIN Piece(f, at, n) = 1..Len(Piece(f, at, n))
  BY <1>3, LenProperties
<1>5. Len(Piece(f, at, n)) = n
  BY <1>3, <1>4
<1> QED BY <1>3, <1>5 DEF Piece

LEMMA ChunkFacts ==
  ASSUME TypeOK, NEW at \in Nat, NEW n \in Nat, at + n <= RxSize
  PROVE  /\ Chunk(at, n) \in Seq(Nat) /\ Len(Chunk(at, n)) = n
         /\ \A i \in 1..n : Chunk(at, n)[i] = rxbuf[at + i - 1]
<1>1. Chunk(at, n) = Piece(rxbuf, at, n) /\ rxbuf \in [0..RxSize-1 -> Nat]
  BY DEF Chunk, Piece, TypeOK
<1> DEFINE p == Piece(rxbuf, at, n)
<1>2. p \in Seq(Nat) /\ Len(p) = n /\ \A i \in 1..n : p[i] = rxbuf[at + i - 1]
  BY <1>1, PieceFacts
<1> HIDE DEF p
<1>3. Chunk(at, n) = p
  BY <1>1 DEF p
<1> QED BY <1>2, <1>3

\* Writing behind a chunk makes it one longer.
Span(f, at, end) == Piece(f, at, end - at)
Writes(f, g, k, end, x, one) == g = [f EXCEPT ![k] = x] /\ end = k + 1 /\ one = <<x>>

LEMMA SpanGrows ==
  ASSUME NEW f \in [0..RxSize-1 -> Nat], NEW g, NEW at \in Nat, NEW k \in Nat, at <= k,
         k < RxSize, NEW end, NEW x \in Nat, NEW one, Writes(f, g, k, end, x, one)
  PROVE  Span(g, at, end) = Joined(Span(f, at, k), one)
<1> DEFINE n == k - at
           m == end - at
           old == Piece(f, at, n)
           new == Piece(g, at, m)
<1>0. n \in Nat /\ k = at + n /\ m = n + 1 /\ one = <<x>>
  BY DEF Writes
<1> HIDE DEF n, m
<1>1. /\ g \in [0..RxSize-1 -> Nat] /\ g[k] = x
      /\ \A i \in 1..n : g[at + i - 1] = f[at + i - 1]
  <2>1. k \in 0..RxSize-1 /\ \A i \in 1..n : at + i - 1 \in 0..RxSize-1 /\ at + i - 1 # k
    BY <1>0, SizeAssumption
  <2> QED BY <2>1 DEF Writes
<1>2. /\ old \in Seq(Nat) /\ Len(old) = n /\ \A i \in 1..n : old[i] = f[at + i - 1]
  <2>1. at + n <= RxSize
    BY <1>0, SizeAssumption
  <2> QED BY <1>0, <2>1, PieceFacts
<1>3. /\ new \in Seq(Nat) /\ Len(new) = m /\ \A i \in 1..m : new[i] = g[at + i - 1]
  <2>1. at + m <= RxSize /\ m \in Nat /\ g \in [0..RxSize-1 -> Nat]
    BY <1>0, <1>1, SizeAssumption
  <2> QED BY <2>1, PieceFacts, ZenonT(60)
<1> HIDE DEF old, new
<1>4. one \in Seq(Nat) /\ Len(one) = 1 /\ one[1] = x
  BY <1>0
<1>5. /\ old \o one \in Seq(Nat) /\ Len(old \o one) = m
      /\ \A i \in 1..m : (old \o one)[i] = IF i <= n THEN old[i] ELSE one[i - n]
  BY <1>0, <1>2, <1>4, ConcatProperties
<1>6. ASSUME NEW i \in 1..m PROVE new[i] = (old \o one)[i]
  <2>1. CASE i <= n
    <3>1. i \in 1..n
      BY <1>0, <1>6, <2>1
    <3> QED BY <1>0, <1>1, <1>2, <1>3, <1>5, <1>6, <2>1, <3>1
  <2>2. CASE ~(i <= n)
    <3>1. i = n + 1 /\ at + i - 1 = k /\ i - n = 1
      BY <1>0, <1>6, <2>2
    <3>2. new[i] = x
      BY <1>1, <1>3, <1>6, <3>1
    <3>3. (old \o one)[i] = x
      BY <1>4, <1>5, <1>6, <2>2, <3>1
    <3> QED BY <3>2, <3>3
  <2> QED BY <2>1, <2>2
<1>7. new = old \o one
  BY <1>0, <1>3, <1>5, <1>6, SeqEqual
<1> QED BY <1>7 DEF old, new, n, m, Span, Joined

LEMMA NoBytes == ASSUME TypeOK, NEW at \in Nat, at <= RxSize PROVE Chunk(at, 0) = <<>>
<1>1. Chunk(at, 0) \in Seq(Nat) /\ Len(Chunk(at, 0)) = 0
  BY ChunkFacts
<1> QED BY <1>1, EmptySeq

LEMMA ChunkSplit ==
  ASSUME TypeOK, NEW at \in Nat, NEW m \in Nat, NEW n \in Nat, at + m + n <= RxSize
  PROVE  Chunk(at, m) \o Chunk(at + m, n) = Chunk(at, m + n)
<1> DEFINE c == Chunk(at, m)
           d == Chunk(at + m, n)
           w == Chunk(at, m + n)
<1>1. /\ c \in Seq(Nat) /\ Len(c) = m /\ \A i \in 1..m : c[i] = rxbuf[at + i - 1]
      /\ d \in Seq(Nat) /\ Len(d) = n /\ \A i \in 1..n : d[i] = rxbuf[at + m + i - 1]
      /\ w \in Seq(Nat) /\ Len(w) = m + n /\ \A i \in 1..m+n : w[i] = rxbuf[at + i - 1]
  <2>1. at + m <= RxSize /\ at + (m + n) <= RxSize /\ (at + m) + n <= RxSize
        /\ at + m \in Nat /\ m + n \in Nat
    BY SizeAssumption
  <2> QED BY <2>1, ChunkFacts
<1> HIDE DEF c, d, w
<1>2. /\ c \o d \in Seq(Nat) /\ Len(c \o d) = m + n
      /\ \A i \in 1..m+n : (c \o d)[i] = IF i <= m THEN c[i] ELSE d[i - m]
  <2>1. c \in Seq(Nat) /\ d \in Seq(Nat) /\ Len(c) = m /\ Len(d) = n
    BY <1>1
  <2>2. /\ c \o d \in Seq(Nat) /\ Len(c \o d) = Len(c) + Len(d)
        /\ \A i \in 1..Len(c) + Len(d) :
             (c \o d)[i] = IF i <= Len(c) THEN c[i] ELSE d[i - Len(c)]
    BY <2>1, ConcatProperties
  <2> QED BY <2>1, <2>2
<1>3. ASSUME NEW i \in 1..m+n PROVE (c \o d)[i] = w[i]
  <2>1. (c \o d)[i] = IF i <= m THEN c[i] ELSE d[i - m]
    BY <1>2, <1>3
  <2>2. i \in Nat /\ w[i] = rxbuf[at + i - 1]
    BY <1>1, <1>3
  <2>3. CASE i <= m
    <3>1. c[i] = rxbuf[at + i - 1]
      BY <1>1, <1>3, <2>3
    <3> QED BY <2>1, <2>2, <2>3, <3>1
  <2>4. CASE ~(i <= m)
    <3>1. i - m \in 1..n /\ at + m + (i - m) - 1 = at + i - 1
      BY <1>3, <2>4
    <3>2. d[i - m] = rxbuf[at + m + (i - m) - 1]
      BY <1>1, <3>1
    <3> QED BY <2>1, <2>2, <2>4, <3>1, <3>2
  <2> QED BY <2>3, <2>4
<1>4. c \o d = w
  BY <1>1, <1>2, <1>3, SeqEqual
<1> QED BY <1>4 DEF c, d, w

LEMMA ChunkJoin ==
  ASSUME TypeOK, NEW at \in Nat, NEW m \in Nat, NEW n \in Nat, at + m + n <= RxSize
  PROVE  Chunk(at, m + n) = Joined(Chunk(at, m), Chunk(at + m, n))
  BY ChunkSplit DEF Joined

LEMMA PutOne ==
  ASSUME NEW q \in Seq(Nat), NEW x \in Nat, NEW one, one = <<x>>
  PROVE  /\ q \o one \in Seq(Nat) /\ Len(q \o one) > Len(q)
         /\ SubSeq(q \o one, 1, Len(q)) = q
<1>1. one \in Seq(Nat) /\ Len(one) = 1 /\ Len(q) \in Nat
  OBVIOUS
<1>2. q \o one \in Seq(Nat) /\ Len(q \o one) = Len(q) + 1
  BY <1>1, ConcatProperties
<1>3. SubSeq(q, 1, Len(q)) = q
  BY SubSeqFull
<1>4. SubSeq(q \o one, 1, Len(q)) = q
  <2>1. CASE Len(q) = 0
    BY <1>1, <2>1, SubSeqEmpty, EmptySeq
  <2>2. CASE Len(q) # 0
    <3>1. 1 \in 1..Len(q) /\ Len(q) \in 1..Len(q)
      BY <1>1, <2>2
    <3> QED BY <1>1, <1>3, <3>1, SubSeqOfConcat1
  <2> QED BY <2>1, <2>2
<1> QED BY <1>1, <1>2, <1>4

\* The first part of a queue and what is left without it.
LEMMA TakeFirst ==
  ASSUME NEW p \in Seq(Nat), NEW q \in Seq(Nat)
  PROVE  /\ SubSeq(p \o q, 1, Len(p)) = p
         /\ SubSeq(p \o q, Len(p) + 1, Len(p \o q)) = q
         /\ Len(p) \in 0..Len(p \o q)
<1>1. Len(p) \in Nat /\ Len(q) \in Nat /\ Len(p \o q) = Len(p) + Len(q)
  BY ConcatProperties
<1>2. SubSeq(p, 1, Len(p)) = p /\ SubSeq(q, 1, Len(q)) = q
  BY SubSeqFull
<1>3. SubSeq(p \o q, 1, Len(p)) = p
  <2>1. CASE Len(p) = 0
    BY <1>1, <2>1, SubSeqEmpty, EmptySeq
  <2>2. CASE Len(p) # 0
    <3>1. 1 \in 1..Len(p) /\ Len(p) \in 1..Len(p)
      BY <1>1, <2>2
    <3> QED BY <1>2, <3>1, SubSeqOfConcat1
  <2> QED BY <2>1, <2>2
<1>4. SubSeq(p \o q, Len(p) + 1, Len(p \o q)) = q
  <2>1. CASE Len(q) = 0
    <3>1. Len(p \o q) < Len(p) + 1 /\ Len(p) + 1 \in Int /\ Len(p \o q) \in Int
      BY <1>1, <2>1
    <3> QED BY <2>1, <3>1, SubSeqEmpty, EmptySeq
  <2>2. CASE Len(q) # 0
    <3>1. /\ Len(p) + 1 \in Len(p)+1..Len(p)+Len(q)
          /\ Len(p) + Len(q) \in Len(p)+1..Len(p)+Len(q)
          /\ Len(p) + 1 - Len(p) = 1 /\ Len(p) + Len(q) - Len(p) = Len(q)
      BY <1>1, <2>2
    <3> QED BY <1>1, <1>2, <3>1, SubSeqOfConcat2
  <2> QED BY <2>1, <2>2
<1> QED BY <1>1, <1>3, <1>4

LEMMA ChannelInit == Init => Channel!Init
<1> SUFFICES ASSUME Init PROVE Channel!Init
  OBVIOUS
<1>1. TypeOK
  BY InitInv DEF IInv
<1>2. rxo = 0 /\ rxsiz - rxo = 0 /\ got = <<>> /\ usb = "off"
  BY DEF Init
<1>3. Chunk(rxo, rxsiz - rxo) = <<>>
  BY <1>1, <1>2, NoBytes, SizeAssumption
<1>4. Queue = <<>>
  BY <1>2, <1>3, ConcatEmptySeq, EmptySeq DEF Queue
<1> QED BY <1>2, <1>4 DEF Channel!Init

\* The four parts of the queue: two packets, what the driver has yet to copy
\* and what rxbuf has not submitted.
LEMMA PartTypes ==
  ASSUME IInv
  PROVE  /\ \A b \in Buf : Packet(b) \in Seq(Nat)
         /\ hw \in Buf /\ Other(hw) \in Buf /\ Other(hw) # hw
         /\ src \in Nat /\ left \in Nat /\ src + left <= RxSize
         /\ rxo \in Nat /\ rxsiz - rxo \in Nat /\ rxo + (rxsiz - rxo) <= RxSize
         /\ Chunk(src, left) \in Seq(Nat) /\ Chunk(rxo, rxsiz - rxo) \in Seq(Nat)
         /\ Submitted \in Seq(Nat) /\ Queue \in Seq(Nat)
<1>1. \A b \in Buf : Packet(b) \in Seq(Nat)
  BY EmptySeq DEF IInv, TypeOK, Packet
<1>2. hw \in Buf /\ Other(hw) \in Buf /\ Other(hw) # hw
  BY OtherBuffer DEF IInv, TypeOK
<1>3. /\ src \in Nat /\ left \in Nat /\ src + left <= RxSize
      /\ rxo \in Nat /\ rxsiz - rxo \in Nat /\ rxo + (rxsiz - rxo) <= RxSize
  BY SizeAssumption DEF IInv, TypeOK, SourceOwned, Levels
<1>4. Chunk(src, left) \in Seq(Nat) /\ Chunk(rxo, rxsiz - rxo) \in Seq(Nat)
  BY <1>3, ChunkFacts DEF IInv
<1>5. Submitted \in Seq(Nat)
  BY <1>1, <1>2, <1>4, ConcatProperties DEF Submitted
<1>6. Queue \in Seq(Nat)
  BY <1>4, <1>5, ConcatProperties, EmptySeq DEF Queue
<1> QED BY <1>1, <1>2, <1>3, <1>4, <1>5, <1>6

\* The queue stays as it is.
Idle == UNCHANGED <<Queue, got, usb = "configured">>

LEMMA IdleStep == Idle => UNCHANGED Channel!vars
  BY DEF Idle, Channel!vars

\* A character that rxbuf accepts is put into the queue.
LEMMA StorePuts ==
  ASSUME IInv, HasRoom, Store,
         UNCHANGED <<rxo, left, src, full, pkt, hw, usb, got>>
  PROVE  Channel!Put
<1> DEFINE front == IF usb = "configured" THEN Submitted ELSE <<>>
           old == Chunk(rxo, rxsiz - rxo)
           new == Chunk(rxo, rxsiz - rxo)'
           x == stored + 1
           one == <<stored + 1>>
<1>1. /\ rxbuf' = [rxbuf EXCEPT ![rxsiz] = x] /\ rxsiz' = rxsiz + 1 /\ x \in Nat
      /\ rxbuf \in [0..RxSize-1 -> Nat] /\ rxsiz \in Nat /\ rxsiz < RxSize
      /\ rxo \in Nat /\ rxo <= rxsiz /\ rxo' = rxo /\ TypeOK
  BY SizeAssumption DEF Store, HasRoom, IInv, TypeOK, Levels
<1>3. Submitted' = Submitted
  <2>1. Packet(hw)' = Packet(hw) /\ Packet(Other(hw))' = Packet(Other(hw))
    BY DEF Packet
  <2>2. ASSUME NEW i \in 1..left PROVE rxbuf'[src + i - 1] = rxbuf[src + i - 1]
    <3>1. /\ src + left = rxo /\ src \in Nat /\ left \in Nat
      BY <2>2, SizeAssumption DEF IInv, TypeOK, SourceOwned
    <3>2. src + i - 1 \in 0..RxSize-1 /\ src + i - 1 # rxsiz
      BY <1>1, <2>2, <3>1, SizeAssumption
    <3> QED BY <1>1, <3>2
  <2>3. Chunk(src, left)' = Chunk(src, left)
    BY <2>2 DEF Chunk
  <2> QED BY <2>1, <2>3 DEF Submitted
<1>4. new = old \o one
  <2>2. old = Span(rxbuf, rxo, rxsiz) /\ new = Span(rxbuf', rxo, rxsiz')
    BY <1>1 DEF Chunk, Piece, Span
  <2>3. Writes(rxbuf, rxbuf', rxsiz, rxsiz', x, one)
    BY <1>1 DEF Writes
  <2> HIDE DEF old, new, x, one
  <2>4. /\ rxbuf \in [0..RxSize-1 -> Nat] /\ rxo \in Nat /\ rxsiz \in Nat /\ rxo <= rxsiz
        /\ rxsiz < RxSize /\ x \in Nat
    BY <1>1
  <2>5. Span(rxbuf', rxo, rxsiz') = Joined(Span(rxbuf, rxo, rxsiz), one)
    BY <2>3, <2>4, SpanGrows
  <2> QED BY <2>2, <2>5 DEF Joined
<1>5. front \in Seq(Nat) /\ old \in Seq(Nat) /\ Queue \in Seq(Nat)
  BY PartTypes, EmptySeq
<1>6. Queue = front \o old /\ Queue' = front \o new
  BY <1>3 DEF Queue
<1>a. one \in Seq(Nat) /\ one = <<x>>
  BY <1>1
<1> HIDE DEF front, old, new, x, one
<1>7. Queue' = Queue \o one
  BY <1>4, <1>5, <1>6, <1>a, ConcatAssociative
<1>8. /\ Queue' \in Seq(Nat) /\ Len(Queue') > Len(Queue)
      /\ SubSeq(Queue', 1, Len(Queue)) = Queue
  BY <1>1, <1>5, <1>7, <1>a, PutOne
<1> QED BY <1>8 DEF Channel!Put

\* The queue has two halves, and the second stays rxbuf's.
Front == IF usb = "configured" THEN Submitted ELSE <<>>
Rear  == Chunk(rxo, rxsiz - rxo)

LEMMA Halves ==
  ASSUME IInv
  PROVE  Front \in Seq(Nat) /\ Rear \in Seq(Nat) /\ Queue = Front \o Rear
<1>1. Front \in Seq(Nat) /\ Rear \in Seq(Nat)
  BY PartTypes, EmptySeq DEF Front, Rear
<1> QED BY <1>1 DEF Queue, Front, Rear

\* Steps that move bytes within the queue or do nothing to it.
LEMMA SameHalves ==
  ASSUME UNCHANGED <<Front, Rear, got, usb>>
  PROVE  Idle
<1>1. Queue = Front \o Rear /\ Queue' = Front' \o Rear'
  BY DEF Queue, Front, Rear
<1> QED BY <1>1 DEF Idle

LEMMA UntouchedHalves ==
  ASSUME UNCHANGED <<rxbuf, rxsiz, rxo, left, src, full, pkt, hw, usb, got>>
  PROVE  Idle
<1>1. UNCHANGED <<Front, Rear>>
  BY DEF Front, Rear, Submitted, Packet, Chunk
<1> QED BY <1>1, SameHalves

\* handle_uart submits everything rxbuf holds, or starts it over.
LEMMA HandleIdles == ASSUME IInv, HandleUart PROVE Idle
<1>0. UNCHANGED <<rxbuf, full, pkt, hw, usb, got>> /\ TypeOK
  BY DEF HandleUart, epVars, busVars, IInv
<1>1. CASE UNCHANGED <<rxsiz, rxo, left, src>>
  BY <1>0, <1>1, UntouchedHalves
<1>2. CASE rxsiz = rxo /\ rxo' = 0 /\ rxsiz' = 0 /\ UNCHANGED <<left, src>>
  <2>1. rxo \in Nat /\ rxo <= RxSize /\ 0 <= RxSize /\ rxsiz - rxo = 0
    BY <1>2, SizeAssumption DEF IInv, TypeOK
  <2>2. Chunk(rxo, 0) = <<>> /\ Chunk(0, 0) = <<>>
    BY <1>0, <2>1, NoBytes
  <2>3. Rear = Chunk(rxo, 0)
    BY <2>1 DEF Rear
  <2>4. Rear' = Chunk(0, 0)
    BY <1>0, <1>2 DEF Rear, Chunk
  <2>5. UNCHANGED Front
    BY <1>0, <1>2 DEF Front, Submitted, Packet, Chunk
  <2> QED BY <1>0, <2>2, <2>3, <2>4, <2>5, SameHalves
<1>3. CASE SendData(rxo, rxsiz - rxo) /\ rxo' = rxsiz /\ rxsiz' = rxsiz
  <2> DEFINE sent == Packet(hw) \o Packet(Other(hw))
  <2>1. /\ left = 0 /\ usb = "configured" /\ left' = rxsiz - rxo /\ src' = rxo
        /\ rxsiz \in Nat /\ rxsiz <= RxSize /\ src \in Nat /\ src <= RxSize
    BY <1>3, SizeAssumption DEF SendData, BusUp, IInv, TypeOK
  <2>2. Chunk(src, 0) = <<>> /\ Chunk(rxsiz, 0) = <<>>
    BY <1>0, <2>1, NoBytes
  <2>3. sent \in Seq(Nat) /\ Rear \in Seq(Nat)
    BY PartTypes, ConcatProperties DEF Rear
  <2>4. Front = sent \o <<>>
    BY <2>1, <2>2 DEF Front, Submitted
  <2>5. Front' = sent \o Rear
    BY <1>0, <2>1 DEF Front, Submitted, Packet, Chunk, Rear
  <2>6. Rear' = <<>>
    <3>1. Rear' = Chunk(rxsiz, 0)
      BY <1>0, <1>3, <2>1 DEF Rear, Chunk
    <3> QED BY <2>2, <3>1
  <2> HIDE DEF sent
  <2>7. Front = sent /\ sent \o Rear \in Seq(Nat) /\ (sent \o Rear) \o <<>> = sent \o Rear
    BY <2>3, <2>4, ConcatEmptySeq, ConcatProperties
  <2>8. Queue' = Front' \o Rear' /\ Queue = Front \o Rear
    BY DEF Queue, Front, Rear
  <2>9. Queue' = Queue
    BY <2>5, <2>6, <2>7, <2>8
  <2> QED BY <1>0, <2>9 DEF Idle
<1>4. \/ UNCHANGED <<rxsiz, rxo, left, src>>
      \/ rxsiz = rxo /\ rxo' = 0 /\ rxsiz' = 0 /\ UNCHANGED <<left, src>>
      \/ SendData(rxo, rxsiz - rxo) /\ rxo' = rxsiz /\ rxsiz' = rxsiz
  BY DEF HandleUart, HandleSubmit, HandleIdle
<1> QED BY <1>1, <1>2, <1>3, <1>4

\* The endpoint interrupt moves bytes from rxbuf to the endpoint's buffers.
LEMMA LoadMoves ==
  ASSUME IInv, left # 0, LoadBuffers, UNCHANGED <<rxbuf, hw>>
  PROVE  Submitted' = Submitted
<1>1. CASE full[xy]
  BY <1>1 DEF LoadBuffers, Submitted, Packet, Chunk
<1>2. CASE ~full[xy]
  <2> DEFINE n1 == SmallerOf(left, EpSize)
             n2 == IF full[Other(xy)] THEN 0 ELSE SmallerOf(left - n1, EpSize)
             n3 == left - n1 - n2
             c1 == Chunk(src, n1)
             c2 == Chunk(src + n1, n2)
             c3 == Chunk(src + n1 + n2, n3)
  <2>1. /\ left \in Nat /\ left # 0 /\ src \in Nat /\ src + left <= RxSize /\ TypeOK
        /\ xy \in Buf /\ Other(xy) \in Buf /\ Other(xy) # xy
        /\ full \in [Buf -> BOOLEAN] /\ pkt \in [Buf -> Seq(Nat)]
    BY OtherBuffer, PartTypes DEF IInv, TypeOK
  <2>2. n1 \in Nat /\ n1 <= left
    BY <2>1, SizeAssumption DEF SmallerOf
  <2>3. n2 \in Nat /\ n1 + n2 <= left /\ (full[Other(xy)] => n2 = 0)
    BY <2>1, <2>2, SizeAssumption DEF SmallerOf
  <2> HIDE DEF n1, n2
  <2>4. n3 \in Nat /\ n1 + (n2 + n3) = left /\ n1 + n2 + n3 = left
    BY <2>1, <2>2, <2>3
  <2>5. /\ left' = n3 /\ src' = src + n1 + n2
        /\ full' = [full EXCEPT ![xy] = TRUE, ![Other(xy)] = @ \/ n2 > 0]
        /\ pkt' = [pkt EXCEPT ![xy] = c1, ![Other(xy)] = IF n2 > 0 THEN c2 ELSE @]
    BY <1>2 DEF LoadBuffers, n1, n2
  <2>6. c1 \in Seq(Nat) /\ c2 \in Seq(Nat) /\ c3 \in Seq(Nat)
    <3>1. /\ src + n1 \in Nat /\ src + n1 + n2 \in Nat /\ src + n1 <= RxSize
          /\ (src + n1) + n2 <= RxSize /\ (src + n1 + n2) + n3 <= RxSize
      BY <2>1, <2>2, <2>3, <2>4, SizeAssumption
    <3> HIDE DEF n3
    <3> QED BY <2>1, <2>2, <2>3, <2>4, <3>1, ChunkFacts
  <2>7. Chunk(src, left) = c1 \o (c2 \o c3)
    <3>1. /\ src + n1 \in Nat /\ (src + n1) + n2 + n3 <= RxSize /\ n2 + n3 \in Nat
          /\ src + n1 + (n2 + n3) <= RxSize
      BY <2>1, <2>2, <2>3, <2>4, SizeAssumption
    <3> HIDE DEF n3
    <3>2. Chunk(src + n1, n2 + n3) = Joined(c2, c3)
      BY <2>1, <2>3, <2>4, <3>1, ChunkJoin, ZenonT(60)
    <3>3. Chunk(src, n1 + (n2 + n3)) = Joined(c1, Chunk(src + n1, n2 + n3))
      BY <2>1, <2>2, <3>1, ChunkJoin, ZenonT(60)
    <3> HIDE DEF c1, c2, c3
    <3>4. Chunk(src, left) = Joined(c1, Joined(c2, c3))
      BY <2>4, <3>2, <3>3
    <3> QED BY <3>4 DEF Joined
  <2>8. n2 = 0 => c2 = <<>>
    <3>1. src + n1 \in Nat /\ src + n1 <= RxSize
      BY <2>1, <2>2, SizeAssumption
    <3> QED BY <2>1, <3>1, NoBytes
  <2> HIDE DEF c1, c2, c3, n3
  <2>9. Chunk(src, left)' = c3
    BY <2>5 DEF Chunk, c3
  <2>10. CASE hw = xy
    <3>1. ~full[Other(xy)]
      BY <1>2, <2>1, <2>10 DEF IInv, BuffersInStep, Buf, Other
    <3>2. Packet(hw) = <<>> /\ Packet(Other(hw)) = <<>>
      BY <1>2, <2>10, <3>1 DEF Packet
    <3>3. Packet(hw)' = c1
      BY <2>1, <2>5, <2>10 DEF Packet
    <3>4. Packet(Other(hw))' = c2
      <4>1. Packet(Other(hw))' = IF full'[Other(xy)] THEN pkt'[Other(xy)] ELSE <<>>
        BY <2>10 DEF Packet
      <4>2. CASE n2 > 0
        BY <2>1, <2>5, <4>1, <4>2
      <4>3. CASE n2 = 0
        <5>1. ~full'[Other(xy)]
          BY <2>1, <2>5, <3>1, <4>3
        <5> QED BY <2>8, <4>1, <4>3, <5>1
      <4> QED BY <2>3, <4>2, <4>3
    <3>5. c1 \o (c2 \o c3) \in Seq(Nat) /\ (c1 \o c2) \o c3 = c1 \o (c2 \o c3)
      <4>1. c2 \o c3 \in Seq(Nat)
        BY <2>6, ConcatProperties
      <4>2. c1 \o (c2 \o c3) \in Seq(Nat)
        BY <2>6, <4>1, ConcatProperties
      <4>3. (c1 \o c2) \o c3 = c1 \o (c2 \o c3)
        BY <2>6, ConcatAssociative, SMTT(60)
      <4> QED BY <4>2, <4>3
    <3>6. Submitted = (<<>> \o <<>>) \o (c1 \o (c2 \o c3))
      BY <2>7, <3>2 DEF Submitted
    <3>7. Submitted' = (c1 \o c2) \o c3
      BY <2>9, <3>3, <3>4 DEF Submitted
    <3>8. <<>> \o <<>> = <<>>
      BY ConcatEmptySeq, EmptySeq
    <3> QED BY <3>5, <3>6, <3>7, <3>8, ConcatEmptySeq
  <2>11. CASE hw = Other(xy)
    <3> DEFINE p == Packet(hw)
    <3>1. full[hw] /\ n2 = 0 /\ Other(hw) = xy
      BY <1>2, <2>1, <2>3, <2>11 DEF IInv, BuffersInStep, Buf, Other
    <3>2. Packet(Other(hw)) = <<>>
      BY <1>2, <3>1 DEF Packet
    <3>3. Packet(hw)' = p
      BY <2>1, <2>3, <2>5, <2>11, <3>1 DEF Packet
    <3>4. Packet(Other(hw))' = c1
      BY <2>1, <2>5, <2>11, <3>1 DEF Packet
    <3>5. p \in Seq(Nat)
      BY PartTypes
    <3>6. Submitted = (p \o <<>>) \o (c1 \o (c2 \o c3))
      BY <2>7, <3>2 DEF Submitted
    <3>7. Submitted' = (p \o c1) \o c3
      BY <2>9, <3>3, <3>4 DEF Submitted
    <3> HIDE DEF p
    <3>8. p \o <<>> = p /\ c2 \o c3 = c3 /\ (p \o c1) \o c3 = p \o (c1 \o c3)
      BY <2>6, <2>8, <3>1, <3>5, ConcatEmptySeq, ConcatAssociative, SMTT(60)
    <3> QED BY <3>6, <3>7, <3>8
  <2>12. hw = xy \/ hw = Other(xy)
    BY <2>1, PartTypes DEF Buf, Other
  <2> QED BY <2>10, <2>11, <2>12
<1> QED BY <1>1, <1>2

LEMMA InterruptIdles == ASSUME IInv, IepIsr PROVE Idle
<1>0. UNCHANGED <<rxbuf, rxsiz, rxo, hw, usb, got>>
  BY DEF IepIsr, uartVars, busVars
<1>1. CASE left # 0
  <2>1. Submitted' = Submitted
    BY <1>0, <1>1, LoadMoves DEF IepIsr
  <2>2. UNCHANGED <<Front, Rear>>
    BY <1>0, <2>1 DEF Front, Rear, Chunk
  <2> QED BY <1>0, <2>2, SameHalves
<1>2. CASE left = 0 /\ UNCHANGED <<left, src, full, pkt>>
  BY <1>0, <1>2, UntouchedHalves
<1>3. CASE left = 0 /\ Complete /\ ~full[xy]
           /\ full' = [full EXCEPT ![xy] = TRUE] /\ pkt' = [pkt EXCEPT ![xy] = <<>>]
  <2>1. full \in [Buf -> BOOLEAN] /\ pkt \in [Buf -> Seq(Nat)] /\ xy \in Buf
    BY DEF IInv, TypeOK
  <2>2. ASSUME NEW b \in Buf PROVE Packet(b)' = Packet(b)
    BY <1>3, <2>1, <2>2 DEF Packet
  <2>3. Packet(hw)' = Packet(hw) /\ Packet(Other(hw))' = Packet(Other(hw))
    <3>1. hw \in Buf /\ Other(hw) \in Buf
      BY PartTypes
    <3>2. Packet(hw)' = (IF full'[hw] THEN pkt'[hw] ELSE <<>>)
          /\ Packet(Other(hw))' = (IF full'[Other(hw)] THEN pkt'[Other(hw)] ELSE <<>>)
      BY <1>0 DEF Packet
    <3> QED BY <1>3, <2>1, <3>1, <3>2 DEF Packet
  <2>4. UNCHANGED <<Front, Rear>>
    BY <1>0, <1>3, <2>3 DEF Front, Rear, Submitted, Chunk, Complete
  <2> QED BY <1>0, <2>4, SameHalves
<1>4. \/ left # 0
      \/ left = 0 /\ UNCHANGED <<left, src, full, pkt>>
      \/ left = 0 /\ Complete /\ ~full[xy]
         /\ full' = [full EXCEPT ![xy] = TRUE] /\ pkt' = [pkt EXCEPT ![xy] = <<>>]
  BY DEF IepIsr, Complete, cdcVars
<1> QED BY <1>1, <1>2, <1>3, <1>4

\* The host's read delivers a packet, the oldest bytes, or an empty one.
LEMMA ReadDelivers ==
  ASSUME IInv, HostReads PROVE Channel!Deliver \/ Idle
<1> DEFINE p == pkt[hw]
           o == Packet(Other(hw))
           c == Chunk(src, left)
           rest == (o \o c) \o Rear
<1>1. /\ usb = "configured" /\ full[hw] /\ got' = got \o p /\ hw' = Other(hw)
      /\ full' = [full EXCEPT ![hw] = FALSE]
      /\ UNCHANGED <<rxbuf, rxsiz, rxo, left, src, pkt, usb>>
      /\ full \in [Buf -> BOOLEAN] /\ hw \in Buf /\ Other(hw) \in Buf /\ Other(hw) # hw
      /\ Other(Other(hw)) = hw /\ got \in Seq(Nat)
  BY OtherBuffer DEF HostReads, BusUp, IInv, TypeOK, uartVars, cdcVars, busVars
<1>2. p \in Seq(Nat) /\ o \in Seq(Nat) /\ c \in Seq(Nat) /\ Rear \in Seq(Nat)
      /\ rest \in Seq(Nat)
  BY <1>1, PartTypes, ConcatProperties DEF Rear, IInv, TypeOK
<1>3. Queue = ((p \o o) \o c) \o Rear
  BY <1>1 DEF Queue, Submitted, Packet, Rear
<1>4. Queue' = ((o \o <<>>) \o c) \o Rear
  <2>1. Packet(hw)' = o
    BY <1>1 DEF Packet
  <2>2. Packet(Other(hw))' = <<>>
    BY <1>1 DEF Packet
  <2>3. Chunk(src, left)' = c /\ Rear' = Rear
    BY <1>1 DEF Chunk, Rear
  <2>4. Queue' = ((Packet(hw)' \o Packet(Other(hw))') \o Chunk(src, left)') \o Rear'
    BY <1>1 DEF Queue, Submitted, Rear
  <2> QED BY <2>1, <2>2, <2>3, <2>4
<1> HIDE DEF p, o, c
<1>5. Queue = p \o rest
  <2> DEFINE m == o \o c
             d == Rear
  <2>1. p \in Seq(Nat) /\ o \in Seq(Nat) /\ c \in Seq(Nat) /\ d \in Seq(Nat)
    BY <1>2
  <2>2. m \in Seq(Nat)
    BY <2>1, ConcatProperties
  <2>3. (p \o o) \o c = p \o m
    BY <2>1, SMTT(60)
  <2>4. Queue = (p \o m) \o d /\ rest = m \o d
    BY <1>3, <2>3
  <2> HIDE DEF m, d, rest
  <2>5. (p \o m) \o d = p \o (m \o d)
    BY <2>1, <2>2, SMTT(60)
  <2> QED BY <2>4, <2>5
<1>6. Queue' = rest
  <2>1. o \o <<>> = o
    BY <1>2, ConcatEmptySeq
  <2> QED BY <1>4, <2>1
<1> HIDE DEF rest
<1>7. /\ SubSeq(Queue, 1, Len(p)) = p /\ SubSeq(Queue, Len(p) + 1, Len(Queue)) = rest
      /\ Len(p) \in 0..Len(Queue) /\ Len(p) \in Nat /\ Len(Queue) \in Nat
  <2>1. Len(p) \in Nat /\ Len(p \o rest) \in Nat
    BY <1>2, ConcatProperties
  <2> QED BY <1>2, <1>5, <2>1, TakeFirst
<1>8. CASE Len(p) = 0
  <2>1. p = <<>>
    BY <1>2, <1>8, EmptySeq
  <2>2. got' = got /\ Queue = rest
    BY <1>1, <1>2, <1>5, <2>1, ConcatEmptySeq
  <2> QED BY <1>1, <1>6, <2>2 DEF Idle
<1>9. CASE Len(p) # 0
  <2>1. Len(p) \in 1..Len(Queue)
    BY <1>7, <1>9
  <2>2. /\ got' = got \o SubSeq(Queue, 1, Len(p))
        /\ Queue' = SubSeq(Queue, Len(p) + 1, Len(Queue))
        /\ UNCHANGED usb
    BY <1>1, <1>6, <1>7
  <2> QED BY <2>1, <2>2 DEF Channel!Deliver
<1> QED BY <1>8, <1>9

\* Leaving the configured state loses what was submitted; entering it brings
\* nothing back.
LEMMA BusLosesOrKeeps ==
  ASSUME IInv, CleanStart, Bus PROVE Channel!LinkDown \/ Channel!LinkUp \/ Idle
<1>1. CASE UsbReset \/ VbusOff
  <2>1. /\ usb' # "configured" /\ UNCHANGED <<rxbuf, rxsiz, rxo, got>>
    BY <1>1 DEF UsbReset, VbusOff, uartVars
  <2>2. Front \in Seq(Nat) /\ Rear \in Seq(Nat) /\ Queue = Front \o Rear
    BY Halves
  <2>3. Queue' = Rear
    <3>1. Queue' = <<>> \o Rear
      BY <2>1 DEF Queue, Chunk, Rear
    <3> QED BY <2>2, <3>1, ConcatEmptySeq
  <2>4. CASE usb = "configured"
    <3>1. /\ SubSeq(Queue, Len(Front) + 1, Len(Queue)) = Rear
          /\ Len(Front) \in 0..Len(Queue)
      BY <2>2, TakeFirst
    <3> QED BY <2>1, <2>3, <2>4, <3>1 DEF Channel!LinkDown
  <2>5. CASE usb # "configured"
    <3>1. Queue = Rear
      BY <2>2, <2>5, ConcatEmptySeq DEF Front
    <3> QED BY <2>1, <2>3, <2>5, <3>1 DEF Idle
  <2> QED BY <2>4, <2>5
<1>2. CASE Enumerate
  <2>1. /\ usb = "default" /\ usb' = "configured" /\ TypeOK
        /\ UNCHANGED <<rxbuf, rxsiz, rxo, left, src, full, pkt, hw, got>>
    BY <1>2 DEF Enumerate, uartVars, cdcVars, epVars, IInv
  <2>2. left = 0 /\ ~full[hw] /\ ~full[Other(hw)]
    BY <2>1, PartTypes DEF CleanStart
  <2>3. Chunk(src, 0) = <<>>
    BY <2>1, <2>2, PartTypes, NoBytes
  <2>4. Submitted = (<<>> \o <<>>) \o <<>> /\ <<>> \o <<>> = <<>>
    BY <2>2, <2>3, ConcatEmptySeq, EmptySeq DEF Submitted, Packet
  <2>5. Submitted' = Submitted
    BY <2>1 DEF Submitted, Packet, Chunk
  <2>6. Queue' = Queue
    <3>1. Queue = <<>> \o Rear /\ Queue' = Submitted' \o Rear'
      BY <2>1 DEF Queue, Rear
    <3>2. Rear' = Rear
      BY <2>1 DEF Rear, Chunk
    <3> QED BY <2>4, <2>5, <3>1, <3>2
  <2> QED BY <2>1, <2>6 DEF Channel!LinkUp
<1>3. CASE Suspend \/ Resume
  <2>1. UNCHANGED <<rxbuf, rxsiz, rxo, left, src, full, pkt, hw, usb, got>>
    BY <1>3 DEF Suspend, Resume, uartVars, cdcVars, epVars
  <2> QED BY <2>1, UntouchedHalves
<1> QED BY <1>1, <1>2, <1>3 DEF Bus, BusReset, VbusOn

\* Every step of the firmware is a step of the channel or leaves it alone.
LEMMA ChannelStep ==
  ASSUME IInv, CleanStart, [Next]_vars PROVE [Channel!Next]_Channel!vars
<1>1. CASE RxIsr \/ Inject
  <2>1. CASE HasRoom /\ Store
    <3>1. UNCHANGED <<rxo, left, src, full, pkt, hw, usb, got>>
      BY <1>1 DEF RxIsr, Inject, cdcVars, epVars, busVars
    <3>2. Channel!Put
      BY <2>1, <3>1, StorePuts
    <3> QED BY <3>2 DEF Channel!Next
  <2>2. CASE ~(HasRoom /\ Store)
    <3>1. UNCHANGED <<rxbuf, rxsiz, rxo, left, src, full, pkt, hw, usb, got>>
      BY <1>1, <2>2 DEF RxIsr, Inject, cdcVars, epVars, busVars
    <3> QED BY <3>1, UntouchedHalves, IdleStep
  <2> QED BY <2>1, <2>2
<1>2. CASE CharArrives \/ EnterActive \/ UNCHANGED vars
  <2>1. UNCHANGED <<rxbuf, rxsiz, rxo, left, src, full, pkt, hw, usb, got>>
    BY <1>2 DEF CharArrives, EnterActive, vars, uartVars, cdcVars, epVars, busVars
  <2> QED BY <2>1, UntouchedHalves, IdleStep
<1>3. CASE HandleUart
  BY <1>3, HandleIdles, IdleStep
<1>4. CASE IepIsr
  BY <1>4, InterruptIdles, IdleStep
<1>5. CASE HostReads
  BY <1>5, ReadDelivers, IdleStep DEF Channel!Next
<1>6. CASE Bus
  BY <1>6, BusLosesOrKeeps, IdleStep DEF Channel!Next
<1> QED BY <1>1, <1>2, <1>3, <1>4, <1>5, <1>6 DEF Next

\* The UART-to-host path implements a first-in first-out channel: the bytes
\* rxbuf accepts (uart.c) reach the host in order and once, and only a step out
\* of the configured state loses any, for every size of rxbuf and of the
\* packets.
THEOREM PathIsChannel == Spec => ImplementsChannel
<1>1. Init => Channel!Init
  BY ChannelInit
<1>2. IInv /\ CleanStart /\ [Next]_vars => [Channel!Next]_Channel!vars
  BY ChannelStep
<1>3. Init => CleanStart
  BY CleanInit
<1>4. IInv /\ CleanStart /\ [Next]_vars => CleanStart'
  BY CleanStep
<1> QED BY <1>1, <1>2, <1>3, <1>4, Invariance, PTL DEF Spec, ImplementsChannel, Channel!Spec
============================================================================
