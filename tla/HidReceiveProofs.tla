-------------------------- MODULE HidReceiveProofs --------------------------
(***************************************************************************)
(* The HID receive for every size of packets and of the application's      *)
(* buffer: the driver reads the buffers in the order of the hardware, its  *)
(* count is what the buffers hold, and hidReceiveDataInBuffer leaves no    *)
(* receive open.                                                           *)
(*                                                                         *)
(* The argument for the last is a balance: a read takes as many bytes from *)
(* the buffers as it takes off what is wanted, so a receive that starts    *)
(* with no more wanted than there is cannot end with something wanted.     *)
(***************************************************************************)
EXTENDS HidReceive, UsbOutEpProofs, SequenceTheorems

\* A buffer that was read in part is the current one, and pCT2 is the other.
InStep(e) ==
  Sound(e) /\ Toggles(e) /\ (e.inEp > 0 => e.ct1 = e.xy /\ e.ct2 = Other(e.xy))

\* "read 'fresh' data": with something still wanted afterwards, nothing is left.
LEMMA FreshBalance ==
  ASSUME Class = "HID", NEW e, InStep(e), e.inEp = 0, NEW r, r = ReadFresh(e)
  PROVE  /\ InStep(r) /\ Amount(r) - r.want = Amount(e) - e.want
         /\ r.want > 0 => Amount(r) = 0
<1> DEFINE d == [PointAt(e, e.xy) EXCEPT !.pos = Start(e.xy)]
           first == ReadBuffer(d, e.xy)
           third == ReadBuffer(first, first.ct2)
           second == SecondRead(third)
<1>0. e \in Record /\ Toggles(e) /\ e.xy \in Buf /\ e.full \in [Buf -> BOOLEAN]
      /\ Start(e.xy) \in [buf : Buf, off : Nat] /\ e.want \in Nat
      /\ Other(e.xy) \in Buf /\ Other(Other(e.xy)) = e.xy
  BY BufFacts DEF InStep, Sound, Record, Start
<1>1. Sound(r)
  BY ReadFreshSound DEF InStep
<1>2. /\ SameBuffers(d, e) /\ d.ct1 = e.xy /\ d.ct2 = Other(e.xy) /\ d.want = e.want
  <2>1. /\ PointAt(e, e.xy) \in Record /\ SameRest(PointAt(e, e.xy), e)
        /\ PointAt(e, e.xy).ct1 = e.xy /\ PointAt(e, e.xy).ct2 = Other(e.xy)
        /\ PointAt(e, e.xy).full = e.full /\ PointAt(e, e.xy).xy = e.xy
        /\ PointAt(e, e.xy).inEp = e.inEp /\ PointAt(e, e.xy).want = e.want
    BY <1>0, PointAtFacts
  <2> QED BY <1>0, <2>1, PosFacts DEF SameBuffers, SameRest
<1>3. r = CASE ~e.full[e.xy] -> e
            [] e.full[e.xy] /\ (first.want = 0 \/ ~first.full[first.ct2]) -> first
            [] OTHER -> second
  BY DEF ReadFresh
<1>4. CASE ~e.full[e.xy]
  <2>1. r = e /\ ~e.full[Other(e.xy)]
    BY <1>0, <1>3, <1>4 DEF Toggles
  <2>2. Amount(e) = 0
    BY <1>4, <2>1 DEF Amount, Front, Behind
  <2> QED BY <2>1, <2>2
<1>5. CASE e.full[e.xy]
  <2>1. d \in Record /\ Toggles(d) /\ d.full[d.xy] /\ d.inEp = 0 /\ d.xy = e.xy
        /\ Amount(d) = Amount(e)
    BY <1>0, <1>2, <1>5, Unmoved DEF SameBuffers
  <2> HIDE DEF d
  <2>2. /\ first \in Record /\ Toggles(first)
        /\ first.ct1 = e.xy /\ first.ct2 = Other(e.xy)
        /\ first.inEp > 0 => first.xy = e.xy /\ first.want = 0
        /\ first.want > 0 => first.xy = Other(e.xy) /\ first.inEp = 0 /\ ~first.full[e.xy]
        /\ Amount(first) - first.want = Amount(e) - e.want
    BY <1>2, <2>1, FreshRead
  <2> HIDE DEF first
  <2>3. first.want \in Nat /\ first.full \in [Buf -> BOOLEAN]
    BY <2>2 DEF Record
  <2>4. CASE first.want = 0 \/ ~first.full[first.ct2]
    <3>1. r = first
      BY <1>3, <1>5, <2>4
    <3>2. first.want > 0 => Amount(first) = 0
      BY <1>0, <2>2, <2>3, <2>4 DEF Amount, Front, Behind
    <3> QED BY <1>1, <2>2, <3>1, <3>2 DEF InStep
  <2>5. CASE first.want # 0 /\ first.full[first.ct2]
    <3>1. r = second
      BY <1>3, <1>5, <2>5
    <3>2. /\ first.want > 0 /\ first.xy = first.ct2 /\ first.inEp = 0 /\ ~first.full[e.xy]
          /\ first.full[first.xy] /\ Other(first.xy) = e.xy
      BY <1>0, <2>2, <2>3, <2>5
    <3>3. /\ third \in Record /\ Toggles(third) /\ third.ct1 = first.ct1
          /\ third.ct2 = first.ct2
          /\ third.inEp > 0 => third.xy = first.xy
          /\ third.want > 0 => third.xy = Other(first.xy) /\ third.inEp = 0
                               /\ ~third.full[first.xy]
          /\ third.full[Other(first.xy)] = first.full[Other(first.xy)]
          /\ Amount(third) - third.want = Amount(first) - first.want
      BY <2>2, <3>2, FreshRead
    <3>4. third.want > 0 => Amount(third) = 0
      BY <1>0, <2>2, <3>2, <3>3 DEF Amount, Front, Behind
    <3> HIDE DEF third
    <3>5. /\ SameBuffers(second, third) /\ second.want = third.want
          /\ second.ct1 = third.ct2 /\ second.ct2 = third.ct1
      BY <3>3, SecondReadFacts DEF SameBuffers, SameRest
    <3> HIDE DEF second
    <3>6. Toggles(second) /\ Amount(second) = Amount(third)
      BY <3>3, <3>5, Unmoved
    <3>7. second.inEp > 0 => second.ct1 = second.xy /\ second.ct2 = Other(second.xy)
      BY <1>0, <2>2, <3>2, <3>3, <3>5 DEF SameBuffers
    <3>8. InStep(r)
      BY <1>1, <3>1, <3>6, <3>7 DEF InStep
    <3> QED BY <2>2, <3>1, <3>3, <3>4, <3>5, <3>6, <3>8
  <2> QED BY <2>4, <2>5
<1> QED BY <1>4, <1>5

\* "read rest of data from buffer", then the other buffer.
LEMMA RestBalance ==
  ASSUME Class = "HID", NEW e \in Record, e.inEp > 0, Toggles(e), Rest(e, e.xy),
         e.ct1 = e.xy, e.ct2 = Other(e.xy), NEW r, r = ReadRest(e)
  PROVE  /\ InStep(r) /\ Amount(r) - r.want = Amount(e) - e.want
         /\ r.want > 0 => r.inEp = 0
<1> DEFINE rest == CopyUsbToBuff(e, e.pos, e.ct1)
           next == OtherBuffer(rest)
<1>0. /\ e.xy \in Buf /\ Other(e.xy) \in Buf /\ Other(Other(e.xy)) = e.xy
      /\ e.pos \in [buf : Buf, off : Nat] /\ e.pos.buf = e.xy /\ e.full[e.xy]
      /\ e.pos.off + e.inEp = Len(e.data[e.xy]) /\ e.inEp \in Nat /\ e.want \in Nat
  BY BufFacts DEF Record, Rest
<1>1. Sound(r)
  BY <1>0, ReadRestSound
<1>2. Amount(e) = e.inEp + Behind(e) /\ Behind(e) \in Nat
  BY AmountType DEF Amount, Front
<1>3. /\ rest \in Record /\ SameRest(rest, e) /\ rest.ct1 = e.ct1 /\ rest.ct2 = e.ct2
      /\ ReadWhole(e, e.inEp, rest, e.pos) \/ ReadPart(e, e.inEp, rest, e.pos)
  BY <1>0, CopyFacts
<1>4. r = IF rest.want = 0 THEN rest
          ELSE IF next.full[next.ct1] THEN ReadBuffer(next, next.ct1) ELSE next
  BY DEF ReadRest
<1> HIDE DEF rest
<1>5. /\ Toggles(rest)
      /\ rest.inEp > 0 => rest.xy = e.xy /\ rest.want = 0
      /\ rest.want > 0 => rest.xy = Other(e.xy) /\ rest.inEp = 0 /\ ~rest.full[e.xy]
      /\ Amount(rest) - rest.want = e.inEp + Behind(e) - e.want
  BY <1>0, <1>3, CurrentRead
<1>6. Amount(rest) - rest.want = Amount(e) - e.want /\ rest.want \in Nat
  BY <1>0, <1>2, <1>3, <1>5 DEF Record
<1>7. CASE rest.want = 0
  <2>1. r = rest
    BY <1>4, <1>7
  <2> QED BY <1>1, <1>3, <1>5, <1>6, <1>7, <2>1 DEF InStep
<1>8. CASE rest.want # 0
  <2>1. rest.want > 0 /\ rest.xy = Other(e.xy) /\ rest.inEp = 0 /\ rest.ct1 = e.xy
    BY <1>3, <1>5, <1>6, <1>8
  <2>2. /\ SameBuffers(next, rest) /\ next.ct1 = rest.xy /\ next.ct2 = e.xy
        /\ next.want = rest.want
    BY <1>0, <1>3, <2>1, OtherBufferFacts DEF SameBuffers, SameRest
  <2> HIDE DEF next
  <2>3. Toggles(next) /\ Amount(next) = Amount(rest) /\ next \in Record
    BY <1>3, <1>5, <2>2, Unmoved DEF SameBuffers
  <2>4. CASE next.full[next.ct1]
    <3>1. next.xy = next.ct1 /\ next.inEp = 0 /\ next.xy = Other(e.xy)
      BY <2>1, <2>2 DEF SameBuffers
    <3>2. r = ReadBuffer(next, next.xy)
      BY <1>4, <1>8, <2>4, <3>1
    <3>3. /\ r \in Record /\ Toggles(r) /\ r.ct1 = next.ct1 /\ r.ct2 = next.ct2
          /\ r.inEp > 0 => r.xy = next.xy
          /\ r.want > 0 => r.inEp = 0
          /\ Amount(r) - r.want = Amount(next) - next.want
      BY <2>3, <2>4, <3>1, <3>2, FreshRead
    <3>4. r.inEp > 0 => r.ct1 = r.xy /\ r.ct2 = Other(r.xy)
      BY <1>0, <2>2, <3>1, <3>3
    <3> QED BY <1>1, <1>6, <2>2, <2>3, <3>3, <3>4 DEF InStep
  <2>5. CASE ~next.full[next.ct1]
    <3>1. r = next
      BY <1>4, <1>8, <2>5
    <3> QED BY <1>1, <1>6, <2>1, <2>2, <2>3, <3>1 DEF InStep, SameBuffers
  <2> QED BY <2>4, <2>5
<1> QED BY <1>7, <1>8

\* USBHID_receiveData: a receive of no more than there is leaves nothing open.
LEMMA ReceiveWhatIsThere ==
  ASSUME Class = "HID", NEW e, InStep(e), NEW at \in Nat, NEW size \in Nat,
         size <= Amount(e), NEW r, r = ReceiveData(e, at, size)
  PROVE  InStep(r) /\ ~r.open
<1> DEFINE begun == Begin(e, at, size)
           rest  == IF begun.inEp > 0 THEN ReadRest(begun) ELSE begun
           last  == IF rest.want = 0 THEN rest ELSE ReadFresh(rest)
<1>0. e \in Record /\ Amount(e) \in Nat
  BY AmountType DEF InStep, Sound
<1>1. /\ SameBuffers(begun, e) /\ begun.want = size
      /\ begun.ct1 = e.ct1 /\ begun.ct2 = e.ct2 /\ begun.pos = e.pos
  BY <1>0, BeginFacts DEF SameBuffers
<1> HIDE DEF begun
<1>2. Toggles(begun) /\ Amount(begun) = Amount(e) /\ begun \in Record
  BY <1>0, <1>1, Unmoved DEF InStep, SameBuffers
<1>3. /\ InStep(rest) /\ Amount(rest) - rest.want = Amount(e) - size
      /\ rest.want > 0 => rest.inEp = 0
  <2>1. CASE begun.inEp > 0
    <3>1. /\ Rest(begun, begun.xy) /\ begun.ct1 = begun.xy /\ begun.ct2 = Other(begun.xy)
      BY <1>1, <2>1 DEF InStep, Sound, Rest, SameBuffers
    <3>2. rest = ReadRest(begun)
      BY <2>1
    <3> HIDE DEF rest
    <3> QED BY <1>1, <1>2, <2>1, <3>1, <3>2, RestBalance
  <2>2. CASE ~(begun.inEp > 0)
    <3>1. rest = begun /\ begun.inEp \in Nat
      BY <1>2, <2>2 DEF Record
    <3> HIDE DEF rest
    <3>2. Sound(begun)
      BY <1>2, <2>2 DEF Sound
    <3> QED BY <1>1, <1>2, <2>2, <3>1, <3>2 DEF InStep
  <2> QED BY <2>1, <2>2
<1>4. r = Close(last)
  BY DEF ReceiveData, begun
<1> HIDE DEF rest
<1>5. rest \in Record /\ rest.want \in Nat /\ rest.inEp \in Nat
  BY <1>3 DEF InStep, Sound, Record
<1>6. /\ InStep(last) /\ Amount(last) - last.want = Amount(e) - size
      /\ last.want > 0 => Amount(last) = 0
  <2>1. CASE rest.want = 0
    BY <1>3, <2>1
  <2>2. CASE rest.want # 0
    <3>1. last = ReadFresh(rest) /\ rest.inEp = 0
      BY <1>3, <1>5, <2>2
    <3> HIDE DEF last
    <3> QED BY <1>3, <3>1, FreshBalance
  <2> QED BY <2>1, <2>2
<1> HIDE DEF last
<1>7. last \in Record /\ last.want \in Nat
  BY <1>6 DEF InStep, Sound, Record
<1>8. last.want = 0
  BY <1>0, <1>6, <1>7
<1>9. /\ r \in Record /\ r.ct1 = last.ct1 /\ r.ct2 = last.ct2 /\ SameBuffers(r, last)
      /\ ~r.open
  BY <1>4, <1>7, <1>8, CloseFacts DEF SameBuffers
<1>10. Sound(r)
  BY <1>4, <1>6, CloseSound DEF InStep
<1>11. Toggles(r)
  BY <1>6, <1>7, <1>9, Unmoved DEF InStep
<1> QED BY <1>6, <1>9, <1>10, <1>11 DEF InStep, SameBuffers

\* USBHID_bytesInUSBBuffer.
LEMMA CountIsAmount ==
  ASSUME NEW e, InStep(e) PROVE BytesInUSBBuffer(e) = Amount(e)
<1> DEFINE held(b) == IF e.full[b] THEN Len(e.data[b]) ELSE 0
<1>1. e \in Record /\ e.xy \in Buf /\ Other(e.xy) \in Buf
  BY AmountType DEF InStep, Sound
<1>2. Amount(e) = (IF e.inEp > 0 THEN e.inEp ELSE held(e.xy)) + held(Other(e.xy))
  BY DEF Amount, Front, Behind
<1>3. BytesInUSBBuffer(e)
        = IF e.inEp > 0 THEN e.inEp + held(e.ct2) ELSE held("X") + held("Y")
  BY DEF BytesInUSBBuffer
<1>4. \A b \in Buf : held(b) \in Nat
  BY <1>1, Lengths
<1> HIDE DEF held
<1>5. CASE e.inEp > 0
  BY <1>2, <1>3, <1>5 DEF InStep
<1>6. CASE ~(e.inEp > 0)
  <2>1. \/ e.xy = "X" /\ Other(e.xy) = "Y"
        \/ e.xy = "Y" /\ Other(e.xy) = "X"
    BY <1>1 DEF Buf, Other
  <2>2. held("X") \in Nat /\ held("Y") \in Nat
    BY <1>4 DEF Buf
  <2> QED BY <1>2, <1>3, <1>6, <2>1, <2>2
<1> QED BY <1>5, <1>6

\* The length of what the endpoint really holds.
LEMMA HeldIsAmount ==
  ASSUME NEW e, InStep(e) PROVE Len(Held(e)) = Amount(e)
<1> DEFINE packet(b) == IF e.full[b] THEN e.data[b] ELSE <<>>
           current == IF e.inEp > 0
                      THEN SubSeq(e.data[e.pos.buf], e.pos.off + 1, e.pos.off + e.inEp)
                      ELSE packet(e.xy)
           behind == packet(Other(e.xy))
<1>1. /\ e \in Record /\ e.xy \in Buf /\ Other(e.xy) \in Buf
      /\ e.inEp \in Nat /\ e.data \in [Buf -> Seq(Nat)]
  BY AmountType DEF InStep, Sound, Record
<1>2. behind \in Seq(Nat) /\ Len(behind) = Behind(e)
  BY <1>1 DEF Behind
<1>3. current \in Seq(Nat) /\ Len(current) = Front(e)
  <2>1. CASE e.inEp > 0
    <3> DEFINE s == e.data[e.xy]
               k == e.pos.off
               n == e.inEp
    <3>1. s \in Seq(Nat) /\ k \in Nat /\ n \in Nat /\ e.pos.buf = e.xy /\ k + n = Len(s)
      BY <1>1, <2>1 DEF InStep, Sound, Rest, Record
    <3>2. current = SubSeq(s, k + 1, k + n)
      BY <2>1, <3>1
    <3> HIDE DEF s, k, current, n
    <3>3. current \in Seq(Nat) /\ Len(current) = n
      <4>1. k + 1 \in 1..Len(s)+1 /\ k + n \in 0..Len(s)
        BY <3>1
      <4>2. current \in Seq(Nat)
            /\ Len(current) = IF k + 1 <= k + n THEN (k + n) - (k + 1) + 1 ELSE 0
        BY <3>1, <3>2, <4>1, SubSeqProperties
      <4> QED BY <3>1, <4>2
    <3> QED BY <2>1, <3>3 DEF n, Front
  <2>2. CASE ~(e.inEp > 0)
    BY <1>1, <2>2 DEF Front
  <2> QED BY <2>1, <2>2
<1>4. Held(e) = current \o behind
  BY DEF Held
<1> HIDE DEF current, behind
<1>5. Len(current \o behind) = Len(current) + Len(behind)
  BY <1>2, <1>3, ConcatProperties, ZenonT(60)
<1>6. Len(Held(e)) = Front(e) + Behind(e)
  BY <1>2, <1>3, <1>4, <1>5
<1> QED BY <1>6 DEF Amount
-----------------------------------------------------------------------------
\* The hardware's and the host's part.
LEMMA ResetInStep ==
  ASSUME NEW m \in [0..MemSize-1 -> Nat], NEW r, r = ResetData(m)
  PROVE  InStep(r) /\ ~r.open
<1>1. Sound(r)
  BY ResetSound
<1>2. Toggles(r) /\ r.inEp = 0 /\ ~r.open
  BY DEF ResetData, Toggles, Buf, Other
<1> QED BY <1>1, <1>2 DEF InStep

LEMMA AcceptInStep ==
  ASSUME NEW e, InStep(e), CanAccept(e), NEW packet \in Seq(Nat), NEW r, r = Accept(e, packet)
  PROVE  InStep(r) /\ Amount(e) <= Amount(r) /\ r.open = e.open
<1>0. /\ e \in Record /\ e.hw \in Buf /\ e.xy \in Buf /\ e.full \in [Buf -> BOOLEAN]
      /\ e.data \in [Buf -> Seq(Nat)] /\ e.inEp \in Nat /\ ~e.full[e.hw]
      /\ Other(e.xy) \in Buf /\ Other(e.xy) # e.xy /\ Other(Other(e.xy)) = e.xy
      /\ (e.hw = e.xy \/ e.hw = Other(e.xy))
  BY BufFacts DEF InStep, Sound, Record, CanAccept
<1>1. Sound(r)
  BY AcceptSound DEF InStep
<1>2. r = [e EXCEPT !.full[e.hw] = TRUE, !.data[e.hw] = packet, !.hw = Other(e.hw)]
  BY DEF Accept
<1>3. /\ r.full = [e.full EXCEPT ![e.hw] = TRUE] /\ r.data = [e.data EXCEPT ![e.hw] = packet]
      /\ r.ct1 = e.ct1 /\ r.ct2 = e.ct2 /\ r.inEp = e.inEp /\ r.xy = e.xy
      /\ r.hw = Other(e.hw) /\ r.open = e.open
  BY <1>0, <1>2 DEF Record
<1>4. Toggles(e) /\ (e.inEp > 0 => e.full[e.xy])
  BY DEF InStep, Sound, Rest
<1>5. Toggles(r)
  <2>1. CASE e.hw = e.xy
    <3>1. ~e.full[e.xy] /\ ~e.full[Other(e.xy)]
      BY <1>0, <1>4, <2>1 DEF Toggles
    <3>2. r.full[r.xy] /\ ~r.full[Other(r.xy)] /\ r.hw = Other(r.xy)
      BY <1>0, <1>3, <2>1, <3>1
    <3> QED BY <3>2 DEF Toggles
  <2>2. CASE e.hw = Other(e.xy)
    <3>1. e.full[e.xy]
      BY <1>0, <1>4, <2>2 DEF Toggles
    <3>2. r.full[r.xy] /\ r.full[Other(r.xy)] /\ r.hw = r.xy
      BY <1>0, <1>3, <2>2, <3>1
    <3> QED BY <3>2 DEF Toggles
  <2> QED BY <1>0, <2>1, <2>2
<1>6. /\ Len(packet) \in Nat /\ Len(e.data[e.xy]) \in Nat /\ Len(e.data[Other(e.xy)]) \in Nat
  BY <1>0
<1>7. Front(e) <= Front(r) /\ Behind(e) <= Behind(r)
  <2>1. CASE e.hw = e.xy
    BY <1>0, <1>3, <1>4, <1>6, <2>1 DEF Front, Behind
  <2>2. CASE e.hw = Other(e.xy)
    BY <1>0, <1>3, <1>4, <1>6, <2>2 DEF Front, Behind
  <2> QED BY <1>0, <2>1, <2>2
<1>8. r \in Record /\ Front(r) \in Nat /\ Behind(r) \in Nat /\ Front(e) \in Nat /\ Behind(e) \in Nat
  BY <1>0, <1>1, AmountType DEF Sound
<1>9. Amount(e) <= Amount(r)
  <2>1. ASSUME NEW f \in Nat, NEW b \in Nat, NEW g \in Nat, NEW c \in Nat, f <= g, b <= c
        PROVE  f + b <= g + c
    BY <2>1
  <2> QED BY <1>7, <1>8, <2>1 DEF Amount
<1>10. r.inEp > 0 => r.ct1 = r.xy /\ r.ct2 = Other(r.xy)
  BY <1>3 DEF InStep
<1> QED BY <1>1, <1>3, <1>5, <1>9, <1>10 DEF InStep

\* main() empties its buffer.
LEMMA EmptyInStep ==
  ASSUME NEW e, InStep(e), NEW r, r = [e EXCEPT !.mem = Cleared]
  PROVE  InStep(r) /\ r.open = e.open
<1>1. e \in Record /\ Sound(r)
  BY EmptySound DEF InStep, Sound
<1>2. /\ SameBuffers(r, e) /\ r.ct1 = e.ct1 /\ r.ct2 = e.ct2 /\ r.open = e.open
  BY <1>1 DEF SameBuffers, Record, Sound
<1>3. Toggles(r)
  BY <1>1, <1>2, Unmoved DEF InStep
<1> QED BY <1>1, <1>2, <1>3 DEF InStep, SameBuffers
-----------------------------------------------------------------------------
\* Between the count and the receive the endpoint holds at least what was
\* counted, as long as the device stays configured.
CountStands == pc = "receive" /\ usb = "configured" => asked <= Amount(ep)

Counters == sent \in Nat /\ asked \in Nat /\ cur \in Nat /\ cur <= MemSize

IInv == InStep(ep) /\ ~ep.open /\ Counters /\ CountStands

LEMMA InitInv == Init => IInv
<1> SUFFICES ASSUME Init PROVE IInv
  OBVIOUS
<1>1. Cleared \in [0..MemSize-1 -> Nat]
  BY DEF Cleared, Junk
<1>2. InStep(ep) /\ ~ep.open
  BY <1>1, ResetInStep DEF Init
<1> QED BY <1>2, SizeAssumption DEF Init, IInv, Counters, CountStands

LEMMA HostStep == ASSUME IInv, HostSends PROVE IInv'
<1>1. PICK n \in 1..EpSize :
        /\ ep' = Accept(ep, [i \in 1..n |-> sent + i]) /\ sent' = sent + n
  BY DEF HostSends
<1>2. n \in Nat /\ [i \in 1..n |-> sent + i] \in Seq(Nat)
  BY SizeAssumption DEF IInv, Counters
<1>3. InStep(ep') /\ ~ep'.open /\ Amount(ep) <= Amount(ep')
  BY <1>1, <1>2, AcceptInStep DEF IInv, HostSends
<1>4. Counters'
  BY <1>1, <1>2 DEF IInv, HostSends, Counters, appVars
<1>5. CountStands'
  <2>1. ASSUME pc = "receive", usb = "configured" PROVE asked <= Amount(ep')
    <3>1. asked <= Amount(ep) /\ asked \in Nat
      BY <2>1 DEF IInv, CountStands, Counters
    <3>2. Amount(ep) \in Nat /\ Amount(ep') \in Nat
      BY <1>3, AmountType DEF IInv, InStep, Sound
    <3> QED BY <1>3, <3>1, <3>2
  <2>2. UNCHANGED <<pc, usb, asked>>
    BY DEF HostSends, appVars, busVars
  <2> QED BY <2>1, <2>2 DEF CountStands
<1> QED BY <1>3, <1>4, <1>5 DEF IInv

\* The interrupt finds no receive open.
LEMMA InterruptStep == ASSUME IInv, OepIsr PROVE IInv'
  BY DEF IInv, OepIsr, Counters, CountStands, appVars, busVars

LEMMA LoopStep == ASSUME IInv, EnterActive \/ TakeEvent PROVE IInv'
  BY DEF IInv, EnterActive, TakeEvent, Counters, CountStands, busVars

\* hidReceiveDataInBuffer.
LEMMA ReturnStep ==
  ASSUME NEW e, InStep(e), ~e.open, NEW n, Return(e, n)
  PROVE  InStep(ep') /\ ~ep'.open /\ cur' = 0 /\ pc' # "receive"
  BY EmptyInStep DEF Return, Again

LEMMA CountStep == ASSUME IInv, Count PROVE IInv'
<1>1. asked' = (IF BusUp THEN Amount(ep) ELSE 0) /\ Amount(ep) \in Nat
  BY CountIsAmount, AmountType DEF IInv, InStep, Sound, Count
<1>2. CASE asked' > 0 /\ pc' = "receive" /\ UNCHANGED <<ep, cur, got>>
  BY <1>1, <1>2 DEF IInv, Count, Counters, CountStands
<1>3. CASE Return(ep, cur)
  BY <1>1, <1>3, ReturnStep, SizeAssumption DEF IInv, Count, Counters, CountStands
<1> QED BY <1>2, <1>3 DEF Count

LEMMA ReceiveStep == ASSUME IInv, Receive PROVE IInv'
<1> DEFINE rxCount == IF Fits THEN asked ELSE MemSize - cur
           e == IF MayReceive(ep, rxCount, BusUp) THEN ReceiveData(ep, cur, rxCount) ELSE ep
<1>1. /\ cur \in Nat /\ asked \in Nat /\ cur <= MemSize /\ MemSize \in Nat /\ sent \in Nat
      /\ InStep(ep) /\ ~ep.open /\ Amount(ep) \in Nat
      /\ usb = "configured" => asked <= Amount(ep)
  BY SizeAssumption, AmountType DEF IInv, Counters, CountStands, Receive, InStep, Sound
<1>2. /\ rxCount \in Nat /\ rxCount <= asked
      /\ Fits => cur + rxCount \in Nat /\ cur + rxCount <= MemSize
  BY <1>1 DEF Fits
<1>3. /\ \/ ep' = e /\ cur' = cur + rxCount /\ pc' = "count" /\ Fits
         \/ Return(e, cur + rxCount)
      /\ asked' = asked /\ sent' = sent
  BY DEF Receive
<1> HIDE DEF rxCount
<1>4. InStep(e) /\ ~e.open
  <2>1. CASE MayReceive(ep, rxCount, BusUp)
    <3>1. rxCount <= Amount(ep)
      BY <1>1, <1>2, <2>1 DEF MayReceive, BusUp
    <3> QED BY <1>1, <1>2, <2>1, <3>1, HidAssumption, ReceiveWhatIsThere
  <2>2. CASE ~MayReceive(ep, rxCount, BusUp)
    BY <1>1, <2>2
  <2> QED BY <2>1, <2>2
<1> HIDE DEF e
<1>5. InStep(ep') /\ ~ep'.open /\ pc' # "receive" /\ cur' \in Nat /\ cur' <= MemSize
  BY <1>1, <1>2, <1>3, <1>4, ReturnStep
<1> QED BY <1>1, <1>3, <1>5 DEF IInv, Counters, CountStands

LEMMA BusStep == ASSUME IInv, Bus PROVE IInv'
<1>1. CASE UsbReset
  <2>1. ep.mem \in [0..MemSize-1 -> Nat] /\ ep' = ResetData(ep.mem)
    BY <1>1 DEF IInv, InStep, Sound, Record, UsbReset
  <2>2. InStep(ep') /\ ~ep'.open
    BY <2>1, ResetInStep
  <2> QED BY <1>1, <2>2 DEF IInv, UsbReset, Counters, CountStands, appVars
<1>2. CASE VbusOff \/ Enumerate \/ Suspend \/ Resume
  BY <1>2 DEF IInv, VbusOff, Enumerate, Suspend, Resume, Counters, CountStands, appVars
<1> QED BY <1>1, <1>2 DEF Bus, BusReset, VbusOn

LEMMA StepInv == ASSUME IInv, [Next]_vars PROVE IInv'
<1>1. CASE Next
  BY <1>1, HostStep, InterruptStep, LoopStep, CountStep, ReceiveStep, BusStep DEF Next
<1>2. CASE UNCHANGED vars
  BY <1>2 DEF vars, IInv, Counters, CountStands, appVars, busVars
<1> QED BY <1>1, <1>2

\* The invariant holds in every reachable state.
THEOREM ReceiveInvariance == Spec => []IInv
  BY InitInv, StepInv, PTL DEF Spec

\* hidReceiveDataInBuffer never leaves a receive open (usbConstructs.c:170), so
\* the USB interrupt never writes to a buffer the application has given up.
THEOREM NothingStaysOpen == Spec => []NoOpenReceive
<1>1. IInv => NoOpenReceive
  BY DEF IInv, NoOpenReceive
<1> QED BY <1>1, ReceiveInvariance, PTL

\* USBHID_bytesInUSBBuffer returns what the two buffers hold.
THEOREM CountIsExact == Spec => []CountExact
<1>1. IInv => CountExact
  BY CountIsAmount, HeldIsAmount DEF IInv, CountExact
<1> QED BY <1>1, ReceiveInvariance, PTL

\* The driver reads the buffers in the order in which the hardware fills them.
THEOREM ReceiveBuffersInStep == Spec => []BuffersInStep
<1>1. ASSUME IInv PROVE BuffersInStep
  <2>1. InStep(ep) /\ ep \in Record /\ ep.xy \in Buf
    BY <1>1 DEF IInv, InStep, Sound, Record
  <2>2. \/ ep.xy = "X" /\ Other(ep.xy) = "Y"
        \/ ep.xy = "Y" /\ Other(ep.xy) = "X"
    BY <2>1 DEF Buf, Other
  <2>3. ep.inEp > 0 => ep.full[ep.xy] /\ ep.pos.buf = ep.xy /\ ep.ct1 = ep.xy
    BY <2>1 DEF InStep, Sound, Rest
  <2>4. Toggles(ep)
    BY <2>1 DEF InStep
  <2> QED BY <2>2, <2>3, <2>4 DEF BuffersInStep, Toggles
<1> QED BY <1>1, ReceiveInvariance, PTL
-----------------------------------------------------------------------------
(* The bytes.  What the endpoint holds are bytes the host has sent, and it *)
(* holds none until it is configured; what main()'s buffer has not been    *)
(* told of is empty.                                                       *)

HeldBytes == Held(ep) \in Seq(Byte) /\ (usb = "default" => Held(ep) = <<>>)

Histories == /\ got \in Seq(Nat) /\ stored \in Seq(Nat)
             /\ \A i \in 0..MemSize-1 : i >= cur => ep.mem[i] = Junk

BytesInv == IInv /\ HeldBytes /\ Histories

LEMMA StepIsAligned == ASSUME NEW e, InStep(e) PROVE Aligned(e)
  BY DEF InStep, Aligned

\* What a receive asks for, and whether it is carried out.
RxCount == IF Fits THEN asked ELSE MemSize - cur
May     == MayReceive(ep, RxCount, BusUp)
Read    == IF May THEN ReceiveData(ep, cur, RxCount) ELSE ep

\* A receive that is carried out moves RxCount bytes from the endpoint to
\* main()'s buffer; one that is not moves none.
LEMMA ReceiveMoves ==
  ASSUME IInv, pc = "receive"
  PROVE  /\ RxCount \in Nat /\ cur \in Nat /\ cur + RxCount <= MemSize /\ Aligned(Read)
         /\ ep.mem \in [0..MemSize-1 -> Nat] /\ Read.mem \in [0..MemSize-1 -> Nat]
         /\ \A i \in 0..MemSize-1 : i < cur \/ i >= cur + RxCount => Read.mem[i] = ep.mem[i]
         /\ May => /\ RxCount > 0 /\ BusUp
                   /\ StoredFrom(cur, Read) = Slice(Read.mem, cur, RxCount)
                   /\ Held(ep) = Slice(Read.mem, cur, RxCount) \o Held(Read)
         /\ BusUp => May \/ RxCount = 0
<1>1. /\ cur \in Nat /\ asked \in Nat /\ cur <= MemSize /\ MemSize \in Nat /\ ep \in Record
      /\ InStep(ep) /\ ~ep.open /\ Amount(ep) \in Nat /\ Aligned(ep)
      /\ usb = "configured" => asked <= Amount(ep)
  BY SizeAssumption, AmountType, StepIsAligned DEF IInv, Counters, CountStands, InStep, Sound
<1>2. RxCount \in Nat /\ RxCount <= asked /\ cur + RxCount <= MemSize
  BY <1>1 DEF Fits, RxCount
<1>3. ep.mem \in [0..MemSize-1 -> Nat]
  BY <1>1 DEF Record
<1>4. BusUp => May \/ RxCount = 0
  BY <1>1, <1>2 DEF May, MayReceive
<1>5. CASE ~May
  BY <1>1, <1>2, <1>3, <1>4, <1>5 DEF Read
<1>6. CASE May
  <2>1. RxCount > 0 /\ BusUp /\ RxCount <= Amount(ep)
    BY <1>1, <1>2, <1>6 DEF May, MayReceive, BusUp
  <2> DEFINE r == Read
  <2>2. r = ReceiveData(ep, cur, RxCount)
    BY <1>6 DEF Read
  <2> HIDE DEF r
  <2>3. /\ Aligned(r) /\ Takes(Begin(ep, cur, RxCount), Held(ep), r)
        /\ r.want > 0 => Held(r) = <<>> /\ r.open
    BY <1>1, <1>2, <2>2, ReceiveContent
  <2>4. ~r.open
    BY <1>1, <1>2, <2>1, <2>2, HidAssumption, ReceiveWhatIsThere
  <2>5. r \in Record /\ r.want = 0 /\ r.mem \in [0..MemSize-1 -> Nat]
    BY <2>3, <2>4, AlignedType DEF Record
  <2>6. Begin(ep, cur, RxCount).want = RxCount /\ Begin(ep, cur, RxCount).dst = cur
        /\ Begin(ep, cur, RxCount).mem = ep.mem
    BY <1>1, <1>2, BeginFacts
  <2>7. RxCount - r.want = RxCount
    BY <1>2, <2>5
  <2>8. /\ r.dst = cur + RxCount /\ Held(ep) = Slice(r.mem, cur, RxCount) \o Held(r)
        /\ \A i \in 0..MemSize-1 : i < cur \/ i >= cur + RxCount => r.mem[i] = ep.mem[i]
    BY <2>3, <2>6, <2>7 DEF Takes
  <2>9. StoredFrom(cur, r) = Slice(r.mem, cur, RxCount)
    <3>1. r.dst - cur = RxCount
      BY <1>1, <1>2, <2>8
    <3> QED BY <3>1 DEF StoredFrom, Slice
  <2> QED BY <1>1, <1>2, <1>3, <1>4, <2>1, <2>3, <2>5, <2>8, <2>9 DEF r
<1> QED BY <1>5, <1>6

LEMMA EmptyMemory ==
  /\ Cleared \in [0..MemSize-1 -> Nat] /\ \A i \in 0..MemSize-1 : Cleared[i] = Junk
  BY DEF Cleared, Junk

\* What a step that leaves the driver's bytes alone has to show.
LEMMA KeepBytes ==
  ASSUME BytesInv, Held(ep') = Held(ep), UNCHANGED <<got, stored, cur>>,
         ep'.mem = ep.mem, usb' = usb \/ (usb' # "default")
  PROVE  HeldBytes' /\ Histories'
<1>1. HeldBytes'
  BY DEF BytesInv, HeldBytes
<1>2. Histories'
  BY DEF BytesInv, Histories
<1> QED BY <1>1, <1>2

LEMMA HostBytes == ASSUME BytesInv, HostSends PROVE HeldBytes' /\ Histories'
<1>1. PICK n \in 1..EpSize :
        /\ ep' = Accept(ep, [i \in 1..n |-> sent + i]) /\ sent' = sent + n
  BY DEF HostSends
<1> DEFINE packet == [i \in 1..n |-> sent + i]
<1>2. n \in Nat /\ sent \in Nat /\ Aligned(ep) /\ Held(ep) \in Seq(Byte)
  BY SizeAssumption, StepIsAligned DEF BytesInv, HeldBytes, IInv, Counters
<1>3. packet \in Seq(Byte) /\ packet \in Seq(Nat)
  BY <1>2 DEF Byte, Junk
<1>4. CanAccept(ep) /\ usb = "configured" /\ UNCHANGED <<usb, cur, got, stored>>
  BY DEF HostSends, BusUp, busVars, appVars
<1> HIDE DEF packet
<1>5. Held(ep') = Held(ep) \o packet /\ ep'.mem = ep.mem
  <2>1. ep' = Accept(ep, packet)
    BY <1>1 DEF packet
  <2> QED BY <1>2, <1>3, <1>4, <2>1, AcceptContent
<1>6. Held(ep') \in Seq(Byte)
  BY <1>2, <1>3, <1>5, ConcatProperties
<1>7. Histories'
  BY <1>4, <1>5 DEF BytesInv, Histories
<1> QED BY <1>4, <1>6, <1>7 DEF HeldBytes

LEMMA FirstBytes ==
  ASSUME NEW m, NEW n \in Nat PROVE [i \in 1..n |-> m[i - 1]] = Slice(m, 0, n)
<1>1. \A i \in 1..n : 0 + i - 1 = i - 1
  OBVIOUS
<1> QED BY <1>1 DEF Slice

\* hidReceiveDataInBuffer returns.
LEMMA ReturnBytes ==
  ASSUME NEW e, Aligned(e), NEW n \in Nat, n <= MemSize, Return(e, n), got \in Seq(Nat)
  PROVE  /\ Held(ep') = Held(e) /\ got' \in Seq(Nat) /\ got' = got \o Slice(e.mem, 0, n)
         /\ Slice(e.mem, 0, n) \in Seq(Nat) /\ cur' = 0
         /\ \A i \in 0..MemSize-1 : ep'.mem[i] = Junk
<1>1. Held(ep') = Held(e) /\ ep'.mem = Cleared
  BY EmptyContent DEF Return
<1>2. e.mem \in [0..MemSize-1 -> Nat] /\ 0 + n <= MemSize
  BY AlignedType DEF Record
<1>3. Slice(e.mem, 0, n) \in Seq(Nat)
  BY <1>2, SliceFacts
<1>4. [i \in 1..n |-> e.mem[i - 1]] = Slice(e.mem, 0, n)
  BY FirstBytes
<1>5. got' = got \o Slice(e.mem, 0, n) /\ cur' = 0
  BY <1>4 DEF Return
<1> QED BY <1>1, <1>3, <1>5, EmptyMemory, ConcatProperties

LEMMA CountBytes ==
  ASSUME BytesInv, Count
  PROVE  HeldBytes' /\ Histories' /\ Held(ep') = Held(ep)
<1>0. Aligned(ep) /\ got \in Seq(Nat) /\ cur \in Nat /\ cur <= MemSize
      /\ UNCHANGED <<usb, stored>>
  BY StepIsAligned DEF BytesInv, IInv, Counters, Histories, Count, busVars
<1>1. CASE UNCHANGED <<ep, cur, got>>
  BY <1>0, <1>1 DEF BytesInv, HeldBytes, Histories
<1>2. CASE Return(ep, cur)
  <2>1. /\ Held(ep') = Held(ep) /\ got' \in Seq(Nat) /\ cur' = 0
        /\ \A i \in 0..MemSize-1 : ep'.mem[i] = Junk
    BY <1>0, <1>2, ReturnBytes
  <2> QED BY <1>0, <2>1 DEF BytesInv, HeldBytes, Histories
<1> QED BY <1>1, <1>2 DEF Count

\* What Receive leaves behind, whether it returns or not.
LEMMA ReceiveResult ==
  ASSUME BytesInv, Receive
  PROVE  /\ Held(ep') = Held(Read) /\ UNCHANGED usb
         /\ stored' = IF May THEN stored \o StoredFrom(cur, Read) ELSE stored
         /\ \/ ep' = Read /\ cur' = cur + RxCount /\ got' = got
            \/ Return(Read, cur + RxCount)
<1>1. /\ \/ Fits /\ ep' = Read /\ cur' = cur + RxCount /\ pc' = "count" /\ UNCHANGED got
         \/ ~Fits /\ Return(Read, cur + RxCount)
      /\ stored' = (IF May THEN stored \o StoredFrom(cur, Read) ELSE stored)
      /\ UNCHANGED usb /\ pc = "receive"
  BY DEF Receive, Read, May, RxCount, busVars
<1>2. Aligned(Read) /\ cur + RxCount \in Nat /\ cur + RxCount <= MemSize /\ got \in Seq(Nat)
  BY <1>1, ReceiveMoves DEF BytesInv, Histories
<1>3. CASE Return(Read, cur + RxCount)
  <2>1. Held(ep') = Held(Read)
    BY <1>2, <1>3, ReturnBytes
  <2> QED BY <1>1, <1>3, <2>1
<1> QED BY <1>1, <1>3

LEMMA ReceiveBytes == ASSUME BytesInv, Receive PROVE HeldBytes' /\ Histories'
<1>0. /\ RxCount \in Nat /\ cur \in Nat /\ cur + RxCount <= MemSize /\ Aligned(Read)
      /\ ep.mem \in [0..MemSize-1 -> Nat] /\ Read.mem \in [0..MemSize-1 -> Nat]
      /\ \A i \in 0..MemSize-1 : i < cur \/ i >= cur + RxCount => Read.mem[i] = ep.mem[i]
      /\ May => /\ RxCount > 0 /\ BusUp
                /\ StoredFrom(cur, Read) = Slice(Read.mem, cur, RxCount)
                /\ Held(ep) = Slice(Read.mem, cur, RxCount) \o Held(Read)
  BY ReceiveMoves DEF Receive, BytesInv
<1>1. /\ got \in Seq(Nat) /\ stored \in Seq(Nat) /\ Held(ep) \in Seq(Byte)
      /\ \A i \in 0..MemSize-1 : i >= cur => ep.mem[i] = Junk
      /\ usb = "default" => Held(ep) = <<>>
  BY DEF BytesInv, Histories, HeldBytes
<1>2. /\ Held(ep') = Held(Read) /\ UNCHANGED usb
      /\ stored' = IF May THEN stored \o StoredFrom(cur, Read) ELSE stored
      /\ \/ ep' = Read /\ cur' = cur + RxCount /\ got' = got
         \/ Return(Read, cur + RxCount)
  BY ReceiveResult
<1>3. Slice(Read.mem, cur, RxCount) \in Seq(Nat) /\ Held(Read) \in Seq(Nat)
  BY <1>0, SliceFacts, AlignedType
<1>4. Held(Read) \in Seq(Byte) /\ (usb = "default" => Held(Read) = <<>>)
  <2>1. CASE May
    <3>1. Held(Read) \in Seq(Byte)
      BY <1>0, <1>1, <1>3, <2>1, PartsOver
    <3> QED BY <1>0, <2>1, <3>1 DEF BusUp
  <2>2. CASE ~May
    BY <1>1, <2>2 DEF Read
  <2> QED BY <2>1, <2>2
<1>5. stored' \in Seq(Nat)
  BY <1>0, <1>1, <1>2, <1>3, ConcatProperties
<1>6. got' \in Seq(Nat) /\ \A i \in 0..MemSize-1 : i >= cur' => ep'.mem[i] = Junk
  <2>1. CASE ep' = Read /\ cur' = cur + RxCount /\ got' = got
    <3>1. ASSUME NEW i \in 0..MemSize-1, i >= cur + RxCount PROVE Read.mem[i] = Junk
      <4>1. i >= cur
        BY <1>0, <3>1
      <4> QED BY <1>0, <1>1, <3>1, <4>1
    <3> QED BY <1>1, <2>1, <3>1
  <2>2. CASE Return(Read, cur + RxCount)
    <3>1. cur + RxCount \in Nat
      BY <1>0
    <3> QED BY <1>0, <1>1, <2>2, <3>1, ReturnBytes
  <2> QED BY <1>2, <2>1, <2>2
<1>7. HeldBytes'
  BY <1>2, <1>4 DEF HeldBytes
<1> QED BY <1>5, <1>6, <1>7 DEF Histories

LEMMA ResetBytes ==
  ASSUME BytesInv, UsbReset
  PROVE  HeldBytes' /\ Histories' /\ Held(ep') = <<>>
<1>1. ep.mem \in [0..MemSize-1 -> Nat] /\ ep' = ResetData(ep.mem)
  BY DEF BytesInv, IInv, InStep, Sound, Record, UsbReset
<1>2. Held(ep') = <<>> /\ ep'.mem = ep.mem
  BY <1>1, ResetContent
<1>3. HeldBytes'
  BY <1>2 DEF HeldBytes
<1>4. Histories'
  BY <1>2 DEF UsbReset, BytesInv, Histories, appVars
<1> QED BY <1>2, <1>3, <1>4

LEMMA BytesStep == ASSUME BytesInv, [Next]_vars PROVE BytesInv'
<1>1. IInv'
  BY StepInv DEF BytesInv
<1>2. CASE HostSends
  BY <1>1, <1>2, HostBytes DEF BytesInv
<1>3. CASE OepIsr
  BY <1>1, <1>3, KeepBytes DEF BytesInv, IInv, OepIsr, appVars, busVars
<1>4. CASE EnterActive \/ TakeEvent \/ UNCHANGED vars
  BY <1>1, <1>4, KeepBytes DEF BytesInv, EnterActive, TakeEvent, vars, appVars, busVars
<1>5. CASE Count
  BY <1>1, <1>5, CountBytes DEF BytesInv
<1>6. CASE Receive
  BY <1>1, <1>6, ReceiveBytes DEF BytesInv
<1>7. CASE UsbReset
  BY <1>1, <1>7, ResetBytes DEF BytesInv
<1>8. CASE VbusOff \/ Enumerate \/ Suspend \/ Resume
  BY <1>1, <1>8, KeepBytes DEF BytesInv, VbusOff, Enumerate, Suspend, Resume, appVars
<1> QED BY <1>2, <1>3, <1>4, <1>5, <1>6, <1>7, <1>8 DEF Next, Bus, BusReset, VbusOn

LEMMA BytesInit == Init => BytesInv
<1> SUFFICES ASSUME Init PROVE BytesInv
  OBVIOUS
<1>1. IInv
  BY InitInv
<1>2. Held(ep) = <<>> /\ ep.mem = Cleared
  BY EmptyMemory, ResetContent DEF Init
<1>3. HeldBytes
  BY <1>2 DEF HeldBytes
<1>4. Histories
  BY <1>2, EmptyMemory DEF Histories, Init
<1> QED BY <1>1, <1>3, <1>4 DEF BytesInv

\* The invariant with the bytes holds in every reachable state.
THEOREM BytesInvariance == Spec => []BytesInv
  BY BytesInit, BytesStep, PTL DEF Spec
-----------------------------------------------------------------------------
(* The path as a channel.                                                  *)

\* The queue stays as it is.
Idle == UNCHANGED <<Queue, stored, usb = "configured">>

LEMMA IdleStep == Idle => UNCHANGED Channel!vars
  BY DEF Idle, Channel!vars

LEMMA SameQueue ==
  ASSUME Held(ep') = Held(ep), UNCHANGED <<stored, usb>> PROVE Idle
  BY DEF Idle, Queue

LEMMA ChannelInit == Init => Channel!Init
  BY DEF Init, Channel!Init, Queue

\* A packet from the host is put into the channel.
LEMMA HostPuts == ASSUME BytesInv, HostSends PROVE Channel!Put
<1>1. PICK n \in 1..EpSize :
        /\ ep' = Accept(ep, [i \in 1..n |-> sent + i]) /\ sent' = sent + n
  BY DEF HostSends
<1> DEFINE packet == [i \in 1..n |-> sent + i]
<1>2. n \in Nat /\ n > 0 /\ sent \in Nat /\ Aligned(ep) /\ Held(ep) \in Seq(Nat)
  BY SizeAssumption, StepIsAligned, AlignedType DEF BytesInv, IInv, Counters
<1>3. packet \in Seq(Nat) /\ Len(packet) = n
  BY <1>2
<1>4. CanAccept(ep) /\ usb = "configured" /\ usb' = "configured" /\ UNCHANGED <<stored, usb>>
  BY DEF HostSends, BusUp, busVars
<1> HIDE DEF packet
<1>5. Held(ep') = Held(ep) \o packet
  <2>1. ep' = Accept(ep, packet)
    BY <1>1 DEF packet
  <2> QED BY <1>2, <1>3, <1>4, <2>1, AcceptContent
<1>6. Queue = Held(ep) /\ Queue' = Held(ep')
  BY <1>4 DEF Queue
<1>7. Held(ep') \in Seq(Byte)
  BY HostBytes DEF HeldBytes
<1>8. /\ Len(Queue') = Len(Queue) + Len(packet) /\ SubSeq(Queue', 1, Len(Queue)) = Queue
      /\ Len(Queue) \in Nat
  <2>1. Queue' = Queue \o packet /\ Queue \in Seq(Nat)
    BY <1>2, <1>5, <1>6
  <2> QED BY <1>3, <2>1, TwoParts
<1>9. Len(Queue') > Len(Queue)
  BY <1>2, <1>3, <1>8
<1> QED BY <1>4, <1>6, <1>7, <1>8, <1>9 DEF Channel!Put

\* A receive delivers the oldest bytes, or does nothing.
LEMMA ReceiveDelivers == ASSUME BytesInv, Receive PROVE Channel!Deliver \/ Idle
<1>0. /\ RxCount \in Nat /\ cur \in Nat /\ cur + RxCount <= MemSize /\ Aligned(Read)
      /\ Read.mem \in [0..MemSize-1 -> Nat]
      /\ May => /\ RxCount > 0 /\ BusUp
                /\ StoredFrom(cur, Read) = Slice(Read.mem, cur, RxCount)
                /\ Held(ep) = Slice(Read.mem, cur, RxCount) \o Held(Read)
  BY ReceiveMoves DEF Receive, BytesInv
<1>1. /\ Held(ep') = Held(Read) /\ UNCHANGED usb
      /\ stored' = IF May THEN stored \o StoredFrom(cur, Read) ELSE stored
  BY ReceiveResult
<1>2. CASE ~May
  <2>1. Held(ep') = Held(ep) /\ UNCHANGED <<stored, usb>>
    BY <1>1, <1>2 DEF Read
  <2> QED BY <2>1, SameQueue
<1>3. CASE May
  <2> DEFINE p == Slice(Read.mem, cur, RxCount)
             q == Held(Read)
  <2>1. p \in Seq(Nat) /\ Len(p) = RxCount /\ q \in Seq(Nat)
    BY <1>0, SliceFacts, AlignedType
  <2>2. Queue = p \o q /\ Queue' = q /\ stored' = stored \o p /\ UNCHANGED usb
    BY <1>0, <1>1, <1>3 DEF Queue, BusUp
  <2> HIDE DEF p, q
  <2>3. /\ Len(Queue) = Len(p) + Len(q) /\ Len(p) \in Nat /\ Len(q) \in Nat
        /\ SubSeq(Queue, 1, Len(p)) = p /\ SubSeq(Queue, Len(p) + 1, Len(Queue)) = q
    BY <2>1, <2>2, TwoParts, ZenonT(60)
  <2>4. Len(p) \in 1..Len(Queue)
    BY <1>0, <1>3, <2>1, <2>3
  <2> QED BY <2>2, <2>3, <2>4 DEF Channel!Deliver
<1> QED BY <1>2, <1>3

\* A step out of the configured state loses what the endpoint holds; a step
\* into it finds nothing there.
LEMMA BusLosesOrKeeps ==
  ASSUME BytesInv, Bus PROVE Channel!LinkDown \/ Channel!LinkUp \/ Idle
<1>0. Held(ep) \in Seq(Byte) /\ (usb = "default" => Held(ep) = <<>>)
  BY DEF BytesInv, HeldBytes
<1>1. CASE UsbReset \/ VbusOff
  <2>1. usb' # "configured" /\ Queue' = <<>> /\ stored' = stored
    BY <1>1 DEF UsbReset, VbusOff, Queue
  <2>2. CASE usb = "configured"
    <3>1. Queue = Held(ep) /\ Len(Queue) \in Nat
      BY <1>0, <2>2 DEF Queue
    <3>2. Len(Queue) \in 0..Len(Queue) /\ SubSeq(Queue, Len(Queue) + 1, Len(Queue)) = <<>>
      BY <3>1, SubSeqEmpty
    <3> QED BY <2>1, <2>2, <3>2 DEF Channel!LinkDown
  <2>3. CASE usb # "configured"
    BY <2>1, <2>3 DEF Idle, Queue
  <2> QED BY <2>2, <2>3
<1>2. CASE Enumerate
  <2>1. usb = "default" /\ usb' = "configured" /\ UNCHANGED <<ep, stored>>
    BY <1>2 DEF Enumerate
  <2>2. Queue' = Queue
    BY <1>0, <2>1 DEF Queue
  <2> QED BY <2>1, <2>2 DEF Channel!LinkUp
<1>3. CASE Suspend \/ Resume
  BY <1>3 DEF Suspend, Resume, Idle, Queue
<1> QED BY <1>1, <1>2, <1>3 DEF Bus, BusReset, VbusOn

\* Every step of the firmware is a step of the channel or leaves it alone.
LEMMA ChannelStep == ASSUME BytesInv, [Next]_vars PROVE [Channel!Next]_Channel!vars
<1>1. CASE HostSends
  BY <1>1, HostPuts DEF Channel!Next
<1>2. CASE Receive
  BY <1>2, ReceiveDelivers, IdleStep DEF Channel!Next
<1>3. CASE Bus
  BY <1>3, BusLosesOrKeeps, IdleStep DEF Channel!Next
<1>4. CASE Count
  <2>1. Held(ep') = Held(ep) /\ UNCHANGED <<stored, usb>>
    BY <1>4, CountBytes DEF Count, busVars
  <2> QED BY <2>1, SameQueue, IdleStep
<1>5. CASE OepIsr
  <2>1. UNCHANGED <<ep, stored, usb>>
    BY <1>5 DEF OepIsr, BytesInv, IInv, busVars
  <2> QED BY <2>1, SameQueue, IdleStep
<1>6. CASE EnterActive \/ TakeEvent \/ UNCHANGED vars
  <2>1. UNCHANGED <<ep, stored, usb>>
    BY <1>6 DEF EnterActive, TakeEvent, vars, busVars
  <2> QED BY <2>1, SameQueue, IdleStep
<1> QED BY <1>1, <1>2, <1>3, <1>4, <1>5, <1>6 DEF Next

\* The host-to-application path (UsbHid.c, hidReceiveDataInBuffer) implements a
\* first-in first-out channel, for every size of packets and of the buffer:
\* what the host sends is stored for the application in order and once, and
\* only a step out of the configured state loses any.
THEOREM HidPathIsChannel == Spec => ImplementsChannel
<1>1. Init => Channel!Init
  BY ChannelInit
<1>2. BytesInv /\ [Next]_vars => [Channel!Next]_Channel!vars
  BY ChannelStep
<1> QED BY <1>1, <1>2, BytesInvariance, PTL DEF Spec, ImplementsChannel, Channel!Spec
-----------------------------------------------------------------------------
(* What hidReceiveDataInBuffer counts.                                     *)

LEMMA CountedIsSlice ==
  ASSUME BytesInv
  PROVE  /\ Counted = got \o Slice(ep.mem, 0, cur) /\ Slice(ep.mem, 0, cur) \in Seq(Nat)
         /\ Counted \in Seq(Nat)
<1>1. /\ cur \in Nat /\ 0 + cur <= MemSize /\ ep.mem \in [0..MemSize-1 -> Nat]
      /\ got \in Seq(Nat)
  BY DEF BytesInv, IInv, Counters, Histories, InStep, Sound, Record
<1>2. Slice(ep.mem, 0, cur) \in Seq(Nat)
  BY <1>1, SliceFacts
<1>3. [i \in 1..cur |-> ep.mem[i - 1]] = Slice(ep.mem, 0, cur)
  BY <1>1, FirstBytes
<1> QED BY <1>1, <1>2, <1>3, ConcatProperties DEF Counted

\* Nothing is added to what is the same.
LEMMA NothingAdded ==
  ASSUME NEW s \in Seq(Nat), NEW t, t = s
  PROVE  AddedTo(s, t) = <<>> /\ SubSeq(t, 1, Len(s)) = s
  BY SubSeqEmpty, SubSeqFull DEF AddedTo

CountsWhatIsStored ==
  /\ SubSeq(Counted', 1, Len(Counted)) = Counted
  /\ BusUp => AddedTo(Counted, Counted') = AddedTo(stored, stored')
  /\ ~BusUp => \A i \in DOMAIN AddedTo(Counted, Counted') :
                 AddedTo(Counted, Counted')[i] = Junk

LEMMA SameCounted ==
  ASSUME BytesInv, Counted' = Counted, stored' = stored PROVE CountsWhatIsStored
<1>1. Counted \in Seq(Nat) /\ stored \in Seq(Nat)
  BY CountedIsSlice DEF BytesInv, Histories
<1>2. /\ AddedTo(Counted, Counted') = <<>> /\ SubSeq(Counted', 1, Len(Counted)) = Counted
      /\ AddedTo(stored, stored') = <<>>
  BY <1>1, NothingAdded
<1> QED BY <1>2 DEF CountsWhatIsStored

\* hidReceiveDataInBuffer returns what it has counted.
LEMMA ReturnCounts ==
  ASSUME NEW e, Aligned(e), NEW n \in Nat, n <= MemSize, Return(e, n), got \in Seq(Nat)
  PROVE  Counted' = got \o Slice(e.mem, 0, n)
<1>1. got' = got \o Slice(e.mem, 0, n) /\ got' \in Seq(Nat) /\ cur' = 0
  BY ReturnBytes
<1>2. [i \in 1..0 |-> ep'.mem[i - 1]] = <<>>
  OBVIOUS
<1>3. Counted' = got' \o <<>>
  BY <1>1, <1>2 DEF Counted
<1> QED BY <1>1, <1>3, ConcatEmptySeq

\* A receive that finds the bus counts what it has stored, and one that does
\* not counts bytes nobody has written.
LEMMA ReceiveCounts == ASSUME BytesInv, Receive PROVE CountsWhatIsStored
<1> DEFINE had == Slice(ep.mem, 0, cur)
           new == Slice(Read.mem, cur, RxCount)
<1>0. /\ RxCount \in Nat /\ cur \in Nat /\ cur + RxCount <= MemSize /\ Aligned(Read)
      /\ ep.mem \in [0..MemSize-1 -> Nat] /\ Read.mem \in [0..MemSize-1 -> Nat]
      /\ \A i \in 0..MemSize-1 : i < cur \/ i >= cur + RxCount => Read.mem[i] = ep.mem[i]
      /\ May => /\ RxCount > 0 /\ BusUp /\ StoredFrom(cur, Read) = new
      /\ BusUp => May \/ RxCount = 0
  BY ReceiveMoves DEF Receive, BytesInv
<1>1. /\ stored' = IF May THEN stored \o StoredFrom(cur, Read) ELSE stored
      /\ \/ ep' = Read /\ cur' = cur + RxCount /\ got' = got
         \/ Return(Read, cur + RxCount)
  BY ReceiveResult
<1>2. /\ Counted = got \o had /\ had \in Seq(Nat) /\ got \in Seq(Nat) /\ Counted \in Seq(Nat)
      /\ stored \in Seq(Nat) /\ \A i \in 0..MemSize-1 : i >= cur => ep.mem[i] = Junk
  BY CountedIsSlice DEF BytesInv, Histories
<1>3. /\ new \in Seq(Nat) /\ Len(new) = RxCount
      /\ \A i \in 1..RxCount : new[i] = Read.mem[cur + i - 1]
  BY <1>0, SliceFacts
<1>4. Slice(Read.mem, 0, cur + RxCount) = had \o new
  <2>1. Slice(Read.mem, 0, cur + RxCount) = Slice(Read.mem, 0, cur) \o Slice(Read.mem, 0 + cur, RxCount)
    <3>1. 0 + cur + RxCount <= MemSize /\ 0 \in Nat
      BY <1>0
    <3> QED BY <1>0, <3>1, SliceJoin
  <2>2. Slice(Read.mem, 0, cur) = had
    <3> DEFINE start == 0
    <3>1. /\ \A i \in 0..MemSize-1 : start <= i /\ i < start + cur => Read.mem[i] = ep.mem[i]
          /\ start + cur <= MemSize /\ start \in Nat
      BY <1>0, SizeAssumption
    <3> HIDE DEF start
    <3>2. Slice(Read.mem, start, cur) = Slice(ep.mem, start, cur)
      BY <1>0, <3>1, SliceSame, ZenonT(60)
    <3> QED BY <3>2 DEF start
  <2>3. 0 + cur = cur
    BY <1>0
  <2> QED BY <2>1, <2>2, <2>3
<1>5. Counted' = got \o Slice(Read.mem, 0, cur + RxCount)
  <2>1. CASE ep' = Read /\ cur' = cur + RxCount /\ got' = got
    <3>1. cur + RxCount \in Nat
      BY <1>0
    <3>2. [i \in 1..cur + RxCount |-> Read.mem[i - 1]] = Slice(Read.mem, 0, cur + RxCount)
      BY <3>1, FirstBytes
    <3> QED BY <2>1, <3>2 DEF Counted
  <2>2. CASE Return(Read, cur + RxCount)
    <3>1. cur + RxCount \in Nat
      BY <1>0
    <3> QED BY <1>0, <1>2, <2>2, <3>1, ReturnCounts
  <2> QED BY <1>1, <2>1, <2>2
<1> HIDE DEF had, new
<1>6. Counted' = Counted \o new
  <2>1. Counted' = got \o (had \o new)
    BY <1>4, <1>5
  <2>2. got \o (had \o new) = (got \o had) \o new
    BY <1>2, <1>3, Regroup, ZenonT(60)
  <2> QED BY <1>2, <2>1, <2>2
<1>7. AddedTo(Counted, Counted') = new /\ SubSeq(Counted', 1, Len(Counted)) = Counted
  BY <1>2, <1>3, <1>6, TwoParts, SMTT(60) DEF AddedTo
<1>8. CASE May
  <2>1. stored' = stored \o new
    BY <1>0, <1>1, <1>8
  <2>2. AddedTo(stored, stored') = new
    BY <1>2, <1>3, <2>1, TwoParts DEF AddedTo
  <2> QED BY <1>0, <1>7, <1>8, <2>2 DEF CountsWhatIsStored
<1>9. CASE ~May
  <2>1. stored' = stored /\ Read = ep
    BY <1>1, <1>9 DEF Read
  <2>2. AddedTo(stored, stored') = <<>>
    BY <1>2, <2>1, NothingAdded
  <2>3. BusUp => new = <<>>
    BY <1>0, <1>3, <1>9, EmptySeq
  <2>4. ASSUME NEW i \in DOMAIN new PROVE new[i] = Junk
    <3>1. i \in 1..RxCount
      BY <1>3, <2>4
    <3>2. cur + i - 1 \in 0..MemSize-1 /\ cur + i - 1 >= cur
      BY <1>0, <3>1, SizeAssumption
    <3>3. ep.mem[cur + i - 1] = Junk
      BY <1>2, <3>2
    <3> QED BY <1>3, <2>1, <3>1, <3>3
  <2> QED BY <1>7, <2>2, <2>3, <2>4 DEF CountsWhatIsStored
<1> QED BY <1>8, <1>9

\* What hidReceiveDataInBuffer counts as received is what the driver has stored,
\* and only a receive that finds the bus gone adds anything else
\* (usbConstructs.c:183 and 187).
THEOREM JunkOnlyAfterCut == Spec => JunkOnlyWhenCut
<1>1. ASSUME BytesInv, [Next]_vars PROVE [CountsWhatIsStored]_vars
  <2>0. got \in Seq(Nat) /\ Aligned(ep) /\ cur \in Nat /\ cur <= MemSize
    BY StepIsAligned, <1>1 DEF BytesInv, Histories, IInv, Counters
  <2>1. CASE Receive
    BY <1>1, <2>1, ReceiveCounts
  <2>2. CASE Count
    <3>1. CASE UNCHANGED <<ep, cur, got>>
      <4>1. Counted' = Counted /\ stored' = stored
        BY <2>2, <3>1 DEF Counted, Count
      <4> QED BY <1>1, <4>1, SameCounted
    <3>2. CASE Return(ep, cur)
      <4>1. Counted' = got \o Slice(ep.mem, 0, cur)
        BY <2>0, <3>2, ReturnCounts
      <4>2. Counted' = Counted /\ stored' = stored
        BY <1>1, <2>2, <4>1, CountedIsSlice DEF Count
      <4> QED BY <1>1, <4>2, SameCounted
    <3> QED BY <2>2, <3>1, <3>2 DEF Count
  <2>3. CASE HostSends
    <3>1. ep'.mem = ep.mem
      <4>1. PICK n \in 1..EpSize : ep' = Accept(ep, [i \in 1..n |-> sent + i])
        BY <2>3 DEF HostSends
      <4>2. [i \in 1..n |-> sent + i] \in Seq(Nat) /\ CanAccept(ep)
        BY <1>1, <2>3, SizeAssumption DEF BytesInv, IInv, Counters, HostSends
      <4> QED BY <2>0, <4>1, <4>2, AcceptContent
    <3>2. Counted' = Counted /\ stored' = stored
      BY <2>3, <3>1 DEF Counted, HostSends, appVars
    <3> QED BY <1>1, <3>2, SameCounted
  <2>4. CASE UsbReset
    <3>1. ep'.mem = ep.mem
      BY <2>4 DEF UsbReset, ResetData
    <3>2. Counted' = Counted /\ stored' = stored
      BY <2>4, <3>1 DEF Counted, UsbReset, appVars
    <3> QED BY <1>1, <3>2, SameCounted
  <2>5. CASE OepIsr \/ EnterActive \/ TakeEvent \/ VbusOff \/ Enumerate \/ Suspend \/ Resume
    <3>1. UNCHANGED <<ep, got, cur, stored>>
      BY <1>1, <2>5 DEF OepIsr, EnterActive, TakeEvent, VbusOff, Enumerate, Suspend, Resume,
                        BytesInv, IInv, appVars
    <3>2. Counted' = Counted
      BY <3>1 DEF Counted
    <3> QED BY <1>1, <3>1, <3>2, SameCounted
  <2> QED BY <1>1, <2>1, <2>2, <2>3, <2>4, <2>5 DEF Next, Bus, BusReset, VbusOn
<1>2. BytesInv /\ [Next]_vars => [CountsWhatIsStored]_vars
  BY <1>1
<1> QED BY <1>2, BytesInvariance, PTL DEF Spec, JunkOnlyWhenCut, CountsWhatIsStored
=============================================================================
