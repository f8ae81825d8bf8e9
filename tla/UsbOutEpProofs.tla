---------------------------- MODULE UsbOutEpProofs ----------------------------
(***************************************************************************)
(* What the receive functions of UsbHid.c and UsbCdc.c do to an endpoint,  *)
(* for every size of packets and buffers: the fields that the drivers keep *)
(* about a buffer that was read in part stay true, in both classes; in the *)
(* HID class the buffers stay in step and a receive of what is there is    *)
(* carried out at once.                                                    *)
(***************************************************************************)
EXTENDS UsbOutEp, SequenceTheorems, TLAPS

\* An endpoint, with its numbers unbounded.
Record ==
  [full : [Buf -> BOOLEAN], data : [Buf -> Seq(Nat)], hw : Buf,
   xy : Buf, ct1 : Buf \cup {"NULL"}, ct2 : Buf \cup {"NULL"},
   pos : [buf : Buf, off : Nat], inEp : Nat,
   open : BOOLEAN, dst : Nat, want : Nat, mem : [0..MemSize-1 -> Nat]]

\* A buffer that was read in part is full, is the one pCT1 and pCurrentEpPos
\* point at, and nBytesInEp is the length of what is left in it; pCT2 points at
\* a buffer as well, and nobody waits for more.
Rest(e, b) == e.pos.buf = b /\ e.full[b] /\ e.pos.off + e.inEp = Len(e.data[b])
Sound(e) == e \in Record /\ (e.inEp > 0 => Rest(e, e.ct1) /\ e.ct2 \in Buf /\ e.want = 0)

\* What a receive does not touch.
SameRest(r, e) == r.data = e.data /\ r.hw = e.hw /\ r.open = e.open

\* What e becomes when the len bytes from p on are read, all of them or not.
ReadWhole(e, len, r, p) ==
  /\ len <= e.want /\ r.inEp = 0 /\ r.want = e.want - len
  /\ r.full = [e.full EXCEPT ![p.buf] = FALSE] /\ r.xy = Other(e.xy)
ReadPart(e, len, r, p) ==
  /\ len > e.want /\ r.inEp = len - e.want /\ r.want = 0
  /\ r.full = e.full /\ r.xy = e.xy
  /\ r.pos = [buf |-> p.buf, off |-> p.off + e.want]

\* The bytes from p on that it takes off what is wanted are in the memory.
Copied(e, p, r) ==
  LET n == e.want - r.want
  IN  /\ n \in Nat /\ n <= e.inEp /\ r.dst = e.dst + n
      /\ \A i \in 0..MemSize-1 :
           r.mem[i] = IF i >= e.dst /\ i < e.dst + n
                      THEN e.data[p.buf][p.off + 1 + i - e.dst] ELSE e.mem[i]

LEMMA BufFacts == \A b \in Buf : Other(b) \in Buf /\ Other(b) # b /\ Other(Other(b)) = b
                                 /\ (\A c \in Buf : c = b \/ c = Other(b))
  BY DEF Buf, Other

LEMMA Lengths == ASSUME NEW e \in Record, NEW b \in Buf
                 PROVE  Len(e.data[b]) \in Nat
  BY DEF Record

LEMMA GiveBackFacts ==
  ASSUME NEW e \in Record, NEW ct \in Buf, NEW r, r = GiveBack(e, ct)
  PROVE  /\ r \in Record /\ SameRest(r, e) /\ r.ct1 = e.ct1 /\ r.ct2 = e.ct2 /\ r.inEp = 0
         /\ r.want = e.want /\ r.xy = Other(e.xy) /\ r.full = [e.full EXCEPT ![ct] = FALSE]
         /\ r.mem = e.mem /\ r.dst = e.dst
<1>1. r \in Record
  BY DEF GiveBack, Record, Buf, Other
<1>2. /\ SameRest(r, e) /\ r.ct1 = e.ct1 /\ r.ct2 = e.ct2 /\ r.inEp = 0
      /\ r.want = e.want /\ r.xy = Other(e.xy) /\ r.full = [e.full EXCEPT ![ct] = FALSE]
      /\ r.mem = e.mem /\ r.dst = e.dst
  BY DEF GiveBack, Record, SameRest
<1> QED BY <1>1, <1>2

LEMMA KeepRestFacts ==
  ASSUME NEW e \in Record, NEW p \in [buf : Buf, off : Nat], NEW n \in Nat,
         n <= e.inEp, NEW r, r = KeepRest(e, p, n)
  PROVE  /\ r \in Record /\ SameRest(r, e) /\ r.ct1 = e.ct1 /\ r.ct2 = e.ct2
         /\ r.inEp = e.inEp - n /\ r.want = e.want /\ r.xy = e.xy
         /\ r.full = e.full /\ r.pos = [buf |-> p.buf, off |-> p.off + n]
         /\ r.mem = e.mem /\ r.dst = e.dst
<1>1. e.inEp - n \in Nat /\ p.off + n \in Nat
  BY SMTT(60) DEF Record
<1>2. r \in Record
  BY <1>1 DEF KeepRest, Record
<1>3. /\ SameRest(r, e) /\ r.ct1 = e.ct1 /\ r.ct2 = e.ct2
      /\ r.inEp = e.inEp - n /\ r.want = e.want /\ r.xy = e.xy
      /\ r.full = e.full /\ r.pos = [buf |-> p.buf, off |-> p.off + n]
      /\ r.mem = e.mem /\ r.dst = e.dst
  BY DEF KeepRest, Record, SameRest
<1> QED BY <1>2, <1>3

\* Copying from position p of a buffer with inEp bytes behind it: to the end of
\* the buffer, which is given back, or to the end of what is wanted.
LEMMA CopyFacts ==
  ASSUME NEW e \in Record, NEW p \in [buf : Buf, off : Nat],
         p.off + e.inEp = Len(e.data[p.buf]),
         NEW r, r = CopyUsbToBuff(e, p, p.buf)
  PROVE  /\ r \in Record /\ SameRest(r, e) /\ r.ct1 = e.ct1 /\ r.ct2 = e.ct2
         /\ ReadWhole(e, e.inEp, r, p) \/ ReadPart(e, e.inEp, r, p)
         /\ Copied(e, p, r)
<1> DEFINE n == SmallerOf(e.want, e.inEp)
           memory == [i \in DOMAIN e.mem |->
                        IF i >= e.dst /\ i < e.dst + n
                        THEN e.data[p.buf][p.off + 1 + i - e.dst] ELSE e.mem[i]]
           copied == [e EXCEPT !.mem = memory, !.want = @ - n, !.dst = @ + n]
<1>0. e.want \in Nat /\ e.inEp \in Nat /\ e.dst \in Nat /\ p.off \in Nat /\ p.buf \in Buf
  BY DEF Record
<1>1. n \in Nat /\ n <= e.want /\ n <= e.inEp /\ (n = e.want \/ n = e.inEp)
  BY <1>0 DEF SmallerOf
<1>2. memory \in [0..MemSize-1 -> Nat]
  <2>1. DOMAIN e.mem = 0..MemSize-1 /\ \A i \in 0..MemSize-1 : e.mem[i] \in Nat
    BY DEF Record
  <2>2. e.data[p.buf] \in Seq(Nat)
    BY DEF Record
  <2>3. ASSUME NEW i \in 0..MemSize-1, i >= e.dst, i < e.dst + n
        PROVE  e.data[p.buf][p.off + 1 + i - e.dst] \in Nat
    <3> DEFINE s == e.data[p.buf]
               k == p.off + 1 + i - e.dst
    <3>1. k \in 1..Len(s)
      BY <1>0, <1>1, <2>2, <2>3, SizeAssumption, SMTT(60)
    <3> HIDE DEF s, k
    <3>2. s \in Seq(Nat)
      BY <2>2 DEF s
    <3>3. s[k] \in Nat
      BY <3>1, <3>2
    <3> QED BY <3>3 DEF s, k
  <2> QED BY <2>1, <2>3
<1>3. /\ copied \in Record /\ SameRest(copied, e) /\ copied.ct1 = e.ct1 /\ copied.ct2 = e.ct2
      /\ copied.want = e.want - n /\ copied.inEp = e.inEp /\ copied.full = e.full
      /\ copied.xy = e.xy /\ copied.mem = memory /\ copied.dst = e.dst + n
  <2> HIDE DEF memory, n
  <2>1. e.want - n \in Nat /\ e.dst + n \in Nat
    BY <1>0, <1>1
  <2> QED BY <1>2, <2>1 DEF Record, SameRest
<1>4. r = IF n = e.inEp THEN GiveBack(copied, p.buf) ELSE KeepRest(copied, p, n)
  BY DEF CopyUsbToBuff
<1> HIDE DEF copied
<1>7. ASSUME r.want = copied.want, r.mem = copied.mem, r.dst = copied.dst PROVE Copied(e, p, r)
  <2>1. e.want - r.want = n
    BY <1>0, <1>1, <1>3, <1>7
  <2>2. DOMAIN e.mem = 0..MemSize-1
    BY DEF Record
  <2>3. \A i \in 0..MemSize-1 :
          memory[i] = IF i >= e.dst /\ i < e.dst + n
                      THEN e.data[p.buf][p.off + 1 + i - e.dst] ELSE e.mem[i]
    BY <2>2
  <2> HIDE DEF memory, n
  <2> QED BY <1>1, <1>3, <1>7, <2>1, <2>3 DEF Copied
<1> HIDE DEF n, memory
<1>5. CASE n = e.inEp
  <2>1. /\ r \in Record /\ SameRest(r, copied) /\ r.ct1 = copied.ct1 /\ r.ct2 = copied.ct2
        /\ r.inEp = 0 /\ r.want = copied.want /\ r.xy = Other(copied.xy)
        /\ r.full = [copied.full EXCEPT ![p.buf] = FALSE]
        /\ r.mem = copied.mem /\ r.dst = copied.dst
    <3>1. r = GiveBack(copied, p.buf)
      BY <1>4, <1>5
    <3>2. copied \in Record /\ p.buf \in Buf
      BY <1>0, <1>3
    <3> QED BY <3>1, <3>2, GiveBackFacts
  <2>2. ReadWhole(e, e.inEp, r, p)
    BY <1>0, <1>1, <1>3, <1>5, <2>1 DEF ReadWhole
  <2> QED BY <1>3, <1>7, <2>1, <2>2 DEF SameRest
<1>6. CASE n # e.inEp
  <2>1. /\ r \in Record /\ SameRest(r, copied) /\ r.ct1 = copied.ct1 /\ r.ct2 = copied.ct2
        /\ r.inEp = copied.inEp - n /\ r.want = copied.want /\ r.xy = copied.xy
        /\ r.full = copied.full /\ r.pos = [buf |-> p.buf, off |-> p.off + n]
        /\ r.mem = copied.mem /\ r.dst = copied.dst
    <3>1. r = KeepRest(copied, p, n)
      BY <1>4, <1>6
    <3>2. copied \in Record /\ n <= copied.inEp
      BY <1>1, <1>3
    <3> QED BY <1>1, <3>1, <3>2, KeepRestFacts
  <2>2. ReadPart(e, e.inEp, r, p)
    BY <1>0, <1>1, <1>3, <1>6, <2>1 DEF ReadPart
  <2> QED BY <1>3, <1>7, <2>1, <2>2 DEF SameRest
<1> QED BY <1>5, <1>6

LEMMA ReadBufferFacts ==
  ASSUME NEW e \in Record, NEW b \in Buf, NEW r, r = ReadBuffer(e, b)
  PROVE  /\ r \in Record /\ SameRest(r, e) /\ r.ct1 = e.ct1 /\ r.ct2 = e.ct2
         /\ \/ ReadWhole(e, Len(e.data[b]), r, Start(b))
            \/ ReadPart(e, Len(e.data[b]), r, Start(b))
<1> DEFINE d == [e EXCEPT !.inEp = Len(e.data[b])]
           p == Start(b)
<1>1. /\ d \in Record /\ SameRest(d, e) /\ d.ct1 = e.ct1 /\ d.ct2 = e.ct2 /\ d.full = e.full
      /\ d.xy = e.xy /\ d.want = e.want /\ d.inEp = Len(e.data[b])
  BY Lengths DEF Record, SameRest
<1>2. p \in [buf : Buf, off : Nat] /\ p.buf = b /\ p.off = 0
  BY DEF Start
<1>3. r = CopyUsbToBuff(d, p, p.buf)
  BY <1>2 DEF ReadBuffer
<1>4. p.off + d.inEp = Len(d.data[p.buf])
  BY <1>1, <1>2, Lengths DEF SameRest
<1> HIDE DEF d, p
<1>5. /\ r \in Record /\ SameRest(r, d) /\ r.ct1 = d.ct1 /\ r.ct2 = d.ct2
      /\ ReadWhole(d, d.inEp, r, p) \/ ReadPart(d, d.inEp, r, p)
  BY <1>1, <1>2, <1>3, <1>4, CopyFacts
<1>6. p = Start(b)
  BY DEF p
<1> QED BY <1>1, <1>5, <1>6 DEF SameRest, ReadWhole, ReadPart

\* Which buffer is the current one.
LEMMA PointAtFacts ==
  ASSUME NEW e \in Record, NEW b \in Buf
  PROVE  /\ PointAt(e, b) \in Record /\ SameRest(PointAt(e, b), e)
         /\ PointAt(e, b).ct1 = b /\ PointAt(e, b).ct2 = Other(b)
         /\ PointAt(e, b).full = e.full /\ PointAt(e, b).xy = e.xy
         /\ PointAt(e, b).inEp = e.inEp /\ PointAt(e, b).want = e.want
         /\ PointAt(e, b).pos = e.pos
         /\ PointAt(e, b).mem = e.mem /\ PointAt(e, b).dst = e.dst
  BY BufFacts DEF PointAt, Record, SameRest

LEMMA PosFacts ==
  ASSUME NEW e \in Record, NEW q \in [buf : Buf, off : Nat],
         NEW r, r = [e EXCEPT !.pos = q]
  PROVE  /\ r \in Record /\ SameRest(r, e) /\ r.ct1 = e.ct1 /\ r.ct2 = e.ct2
         /\ r.full = e.full /\ r.xy = e.xy /\ r.inEp = e.inEp /\ r.want = e.want
         /\ r.mem = e.mem /\ r.dst = e.dst
  BY DEF Record, SameRest

LEMMA SecondReadFacts ==
  ASSUME NEW e \in Record, NEW r, r = SecondRead(e) \/ r = CdcSecondRead(e)
  PROVE  /\ r \in Record /\ SameRest(r, e) /\ r.ct1 = e.ct2
         /\ r.full = e.full /\ r.xy = e.xy /\ r.inEp = e.inEp /\ r.want = e.want
         /\ r.pos = e.pos /\ r.mem = e.mem /\ r.dst = e.dst
         /\ r.ct2 \in {e.ct1, e.ct2}
         /\ Class = "HID" /\ r = SecondRead(e) => r.ct2 = e.ct1
<1>1. CASE r = HidSecondRead(e)
  BY <1>1 DEF HidSecondRead, Record, SameRest
<1>2. CASE r = CdcSecondRead(e) /\ ~(Class = "HID" /\ r = SecondRead(e))
  BY <1>2 DEF CdcSecondRead, Record, SameRest
<1>3. CASE r = CdcSecondRead(e) /\ Class = "HID" /\ r = SecondRead(e)
  BY <1>1, <1>3 DEF SecondRead
<1>4. r = HidSecondRead(e) \/ r = CdcSecondRead(e)
  BY DEF SecondRead
<1> QED BY <1>1, <1>2, <1>3, <1>4

LEMMA OtherBufferFacts ==
  ASSUME NEW e \in Record, e.ct1 \in Buf, NEW r, r = OtherBuffer(e)
  PROVE  /\ r \in Record /\ SameRest(r, e) /\ r.ct1 = Other(e.ct1)
         /\ r.full = e.full /\ r.xy = e.xy /\ r.inEp = e.inEp /\ r.want = e.want
         /\ r.pos = Start(Other(e.ct1)) /\ r.mem = e.mem /\ r.dst = e.dst
         /\ r.ct2 \in {e.ct1, e.ct2}
         /\ Class = "HID" => r.ct2 = e.ct1
<1>1. Start(Other(e.ct1)) \in [buf : Buf, off : Nat] /\ Other(e.ct1) \in Buf
  BY BufFacts DEF Start
<1> QED BY <1>1 DEF OtherBuffer, Record, SameRest

LEMMA CloseFacts ==
  ASSUME NEW e \in Record, NEW r, r = Close(e)
  PROVE  /\ r \in Record /\ r.data = e.data /\ r.hw = e.hw /\ r.ct1 = e.ct1 /\ r.ct2 = e.ct2
         /\ r.full = e.full /\ r.xy = e.xy /\ r.inEp = e.inEp /\ r.want = e.want
         /\ r.pos = e.pos /\ (e.want = 0 => ~r.open) /\ (e.want # 0 => r.open = e.open)
         /\ r.mem = e.mem /\ r.dst = e.dst
  BY DEF Close, Record

LEMMA BeginFacts ==
  ASSUME NEW e \in Record, NEW at \in Nat, NEW size \in Nat, NEW r, r = Begin(e, at, size)
  PROVE  /\ r \in Record /\ r.data = e.data /\ r.hw = e.hw /\ r.ct1 = e.ct1 /\ r.ct2 = e.ct2
         /\ r.full = e.full /\ r.xy = e.xy /\ r.inEp = e.inEp /\ r.want = size
         /\ r.pos = e.pos /\ r.mem = e.mem /\ r.dst = at /\ r.open
  BY DEF Begin, Record

LEMMA ReadPosition ==
  ASSUME NEW e \in Record, NEW r \in Record, SameRest(r, e), NEW p \in [buf : Buf, off : Nat],
         NEW len \in Nat, p.off + len = Len(e.data[p.buf]), e.full[p.buf],
         ReadWhole(e, len, r, p) \/ ReadPart(e, len, r, p)
  PROVE  r.inEp > 0 => Rest(r, p.buf) /\ r.want = 0
<1> SUFFICES ASSUME r.inEp > 0 PROVE Rest(r, p.buf) /\ r.want = 0
  OBVIOUS
<1>1. ReadPart(e, len, r, p)
  BY DEF ReadWhole
<1>2. /\ r.pos.buf = p.buf /\ r.pos.off = p.off + e.want /\ r.inEp = len - e.want
      /\ r.full = e.full /\ r.data = e.data /\ r.want = 0
  BY <1>1 DEF ReadPart, SameRest
<1>3. e.want \in Nat /\ p.off \in Nat
  BY DEF Record
<1> QED BY <1>2, <1>3 DEF Rest

\* ReadBuffer leaves a true position.
LEMMA ReadBufferSound ==
  ASSUME NEW e \in Record, NEW b \in Buf, e.full[b], NEW r, r = ReadBuffer(e, b)
  PROVE  r \in Record /\ (r.inEp > 0 => Rest(r, b) /\ r.want = 0)
<1>1. Start(b) \in [buf : Buf, off : Nat] /\ Start(b).buf = b /\ Start(b).off = 0
  BY DEF Start
<1>2. Len(e.data[b]) \in Nat
  BY Lengths
<1>3. /\ r \in Record /\ SameRest(r, e)
      /\ ReadWhole(e, Len(e.data[b]), r, Start(b)) \/ ReadPart(e, Len(e.data[b]), r, Start(b))
  BY ReadBufferFacts
<1> QED BY <1>1, <1>2, <1>3, ReadPosition

LEMMA ResetSound ==
  ASSUME NEW m \in [0..MemSize-1 -> Nat] PROVE Sound(ResetData(m))
  BY DEF ResetData, Sound, Record, Buf

LEMMA AcceptSound ==
  ASSUME NEW e, Sound(e), CanAccept(e), NEW packet \in Seq(Nat)
  PROVE  Sound(Accept(e, packet))
<1> DEFINE r == Accept(e, packet)
<1>0. e \in Record /\ e.hw \in Buf /\ e.full \in [Buf -> BOOLEAN] /\ e.data \in [Buf -> Seq(Nat)]
  BY DEF Sound, Record
<1>1. r = [e EXCEPT !.full[e.hw] = TRUE, !.data[e.hw] = packet, !.hw = Other(e.hw)]
  BY DEF Accept
<1>2. r \in Record
  <2>1. /\ Other(e.hw) \in Buf /\ [e.full EXCEPT ![e.hw] = TRUE] \in [Buf -> BOOLEAN]
        /\ [e.data EXCEPT ![e.hw] = packet] \in [Buf -> Seq(Nat)]
    BY <1>0, BufFacts
  <2>2. r = [e EXCEPT !.full = [e.full EXCEPT ![e.hw] = TRUE],
                      !.data = [e.data EXCEPT ![e.hw] = packet], !.hw = Other(e.hw)]
    BY <1>1
  <2> QED BY <1>0, <2>1, <2>2 DEF Record
<1>3. /\ r.full = [e.full EXCEPT ![e.hw] = TRUE] /\ r.data = [e.data EXCEPT ![e.hw] = packet]
      /\ r.ct1 = e.ct1 /\ r.ct2 = e.ct2 /\ r.pos = e.pos /\ r.inEp = e.inEp
      /\ r.want = e.want
  BY <1>0, <1>1 DEF Record
<1>4. ASSUME e.inEp > 0 PROVE Rest(r, r.ct1) /\ r.ct2 \in Buf /\ r.want = 0
  <2>1. Rest(e, e.ct1) /\ e.ct2 \in Buf /\ e.want = 0 /\ e.ct1 \in Buf /\ e.ct1 # e.hw
    BY <1>0, <1>4 DEF Sound, Rest, CanAccept, Record
  <2> QED BY <1>0, <1>3, <2>1 DEF Rest
<1> HIDE DEF r
<1> QED BY <1>2, <1>3, <1>4 DEF r, Sound

\* The application empties its buffer.
LEMMA EmptySound == ASSUME NEW e, Sound(e) PROVE Sound([e EXCEPT !.mem = Cleared])
<1> DEFINE r == [e EXCEPT !.mem = Cleared]
<1>1. e \in Record /\ Cleared \in [0..MemSize-1 -> Nat]
  BY DEF Sound, Cleared, Junk
<1>2. /\ r \in Record /\ r.data = e.data /\ r.ct1 = e.ct1 /\ r.ct2 = e.ct2
      /\ r.full = e.full /\ r.inEp = e.inEp /\ r.want = e.want /\ r.pos = e.pos
  BY <1>1 DEF Record
<1> HIDE DEF r
<1>3. Sound(r)
  BY <1>2 DEF Sound, Rest
<1> QED BY <1>3 DEF r

\* The rest of a started buffer, then the other one.
LEMMA ReadRestSound ==
  ASSUME NEW e \in Record, Rest(e, e.ct1), e.ct2 \in Buf, NEW r, r = ReadRest(e)
  PROVE  Sound(r)
<1> DEFINE rest == CopyUsbToBuff(e, e.pos, e.ct1)
           next == OtherBuffer(rest)
<1>0. e.pos \in [buf : Buf, off : Nat] /\ e.ct1 = e.pos.buf /\ e.ct1 \in Buf /\ e.inEp \in Nat
  BY DEF Record, Rest
<1>1. /\ rest \in Record /\ SameRest(rest, e) /\ rest.ct1 = e.ct1 /\ rest.ct2 = e.ct2
      /\ ReadWhole(e, e.inEp, rest, e.pos) \/ ReadPart(e, e.inEp, rest, e.pos)
  BY <1>0, CopyFacts DEF Rest
<1>2. rest.inEp > 0 => Rest(rest, rest.ct1) /\ rest.want = 0
  BY <1>0, <1>1, ReadPosition DEF Rest
<1>3. r = IF rest.want = 0 THEN rest
          ELSE IF next.full[next.ct1] THEN ReadBuffer(next, next.ct1) ELSE next
  BY DEF ReadRest
<1> HIDE DEF rest
<1>4. /\ next \in Record /\ next.ct1 = Other(e.ct1) /\ next.inEp = rest.inEp
      /\ next.want = rest.want /\ next.ct2 \in Buf
  BY <1>0, <1>1, OtherBufferFacts
<1> HIDE DEF next
<1>5. CASE rest.want = 0
  BY <1>1, <1>2, <1>3, <1>5 DEF Sound
<1>6. CASE rest.want # 0 /\ next.full[next.ct1]
  <2>1. r = ReadBuffer(next, next.ct1) /\ next.ct1 \in Buf
    BY <1>0, <1>3, <1>4, <1>6, BufFacts
  <2>2. r \in Record /\ r.ct1 = next.ct1 /\ r.ct2 = next.ct2
    BY <1>4, <2>1, ReadBufferFacts
  <2> QED BY <1>4, <1>6, <2>1, <2>2, ReadBufferSound DEF Sound
<1>7. CASE rest.want # 0 /\ ~next.full[next.ct1]
  <2>1. r = next /\ rest.inEp \in Nat
    BY <1>1, <1>3, <1>7 DEF Record
  <2> QED BY <1>2, <1>4, <1>7, <2>1 DEF Sound
<1> QED BY <1>5, <1>6, <1>7

\* Two buffers one after the other, as ReadFresh and ToBufferFromHost do it.
LEMMA TwoReads ==
  ASSUME NEW e \in Record, e.full[e.xy], NEW d \in Record, d.full = e.full,
         d.ct1 = e.xy, d.ct2 = Other(e.xy), NEW first, first = ReadBuffer(d, e.xy)
  PROVE  /\ Sound(first) /\ first.ct1 = e.xy /\ first.ct2 = Other(e.xy)
         /\ first.full[first.ct2] =>
              LET third == ReadBuffer(first, first.ct2)
              IN  Sound(SecondRead(third)) /\ Sound(CdcSecondRead(third))
<1>0. e.xy \in Buf /\ Other(e.xy) \in Buf
  BY BufFacts DEF Record
<1>1. first \in Record /\ first.ct1 = e.xy /\ first.ct2 = Other(e.xy)
  BY <1>0, ReadBufferFacts
<1>2. first.inEp > 0 => Rest(first, e.xy) /\ first.want = 0
  BY <1>0, ReadBufferSound
<1>3. ASSUME first.full[first.ct2], NEW third, third = ReadBuffer(first, first.ct2),
             NEW r, r = SecondRead(third) \/ r = CdcSecondRead(third)
      PROVE  Sound(r)
  <2>1. third \in Record /\ third.ct1 = first.ct1 /\ third.ct2 = first.ct2
    BY <1>0, <1>1, <1>3, ReadBufferFacts
  <2>2. third.inEp > 0 => Rest(third, first.ct2) /\ third.want = 0
    BY <1>0, <1>1, <1>3, ReadBufferSound
  <2>3. /\ r \in Record /\ SameRest(r, third) /\ r.ct1 = third.ct2 /\ r.full = third.full
        /\ r.inEp = third.inEp /\ r.want = third.want /\ r.pos = third.pos
        /\ r.ct2 \in {third.ct1, third.ct2}
    BY <1>3, <2>1, SecondReadFacts
  <2> QED BY <1>0, <1>1, <2>1, <2>2, <2>3 DEF Sound, Rest, SameRest
<1> QED BY <1>0, <1>1, <1>2, <1>3 DEF Sound

LEMMA ReadFreshSound == ASSUME NEW e, Sound(e), NEW r, r = ReadFresh(e) PROVE Sound(r)
<1> DEFINE d == [PointAt(e, e.xy) EXCEPT !.pos = Start(e.xy)]
           first == ReadBuffer(d, e.xy)
           second == SecondRead(ReadBuffer(first, first.ct2))
<1>0. e \in Record /\ e.xy \in Buf /\ Start(e.xy) \in [buf : Buf, off : Nat]
  BY DEF Sound, Record, Start
<1>1. d \in Record /\ d.full = e.full /\ d.ct1 = e.xy /\ d.ct2 = Other(e.xy)
  <2>1. /\ PointAt(e, e.xy) \in Record /\ PointAt(e, e.xy).full = e.full
        /\ PointAt(e, e.xy).ct1 = e.xy /\ PointAt(e, e.xy).ct2 = Other(e.xy)
    BY <1>0, PointAtFacts
  <2> QED BY <1>0, <2>1, PosFacts
<1>2. r = CASE ~e.full[e.xy] -> e
            [] e.full[e.xy] /\ (first.want = 0 \/ ~first.full[first.ct2]) -> first
            [] OTHER -> second
  BY DEF ReadFresh
<1> HIDE DEF d
<1>3. CASE ~e.full[e.xy]
  BY <1>2, <1>3
<1>4. CASE e.full[e.xy]
  <2>1. /\ Sound(first)
        /\ first.full[first.ct2] => Sound(second)
    BY <1>0, <1>1, <1>4, TwoReads
  <2> HIDE DEF first, second
  <2>2. r = first \/ (r = second /\ first.full[first.ct2])
    BY <1>2, <1>4
  <2> QED BY <2>1, <2>2
<1> QED BY <1>3, <1>4

LEMMA CloseSound == ASSUME NEW e, Sound(e), NEW r, r = Close(e) PROVE Sound(r)
<1>1. e \in Record
  BY DEF Sound
<1>2. /\ r \in Record /\ r.data = e.data /\ r.ct1 = e.ct1 /\ r.ct2 = e.ct2 /\ r.full = e.full
      /\ r.inEp = e.inEp /\ r.want = e.want /\ r.pos = e.pos
  BY <1>1, CloseFacts
<1> QED BY <1>2 DEF Sound, Rest

\* USBHID_receiveData and USBCDC_receiveData.
LEMMA ReceiveSound ==
  ASSUME NEW e, Sound(e), NEW at \in Nat, NEW size \in Nat
  PROVE  Sound(ReceiveData(e, at, size))
<1> DEFINE begun == Begin(e, at, size)
           rest  == IF begun.inEp > 0 THEN ReadRest(begun) ELSE begun
<1>1. e \in Record
  BY DEF Sound
<1>2. /\ begun \in Record /\ begun.data = e.data /\ begun.ct1 = e.ct1 /\ begun.ct2 = e.ct2
      /\ begun.full = e.full /\ begun.inEp = e.inEp /\ begun.pos = e.pos
  BY <1>1, BeginFacts
<1> HIDE DEF begun
<1>3. Sound(rest)
  <2>1. CASE begun.inEp > 0
    <3>1. Rest(begun, begun.ct1) /\ begun.ct2 \in Buf
      BY <1>2, <2>1 DEF Sound, Rest
    <3> QED BY <1>2, <2>1, <3>1, ReadRestSound
  <2>2. CASE ~(begun.inEp > 0)
    BY <1>2, <2>2 DEF Sound
  <2> QED BY <2>1, <2>2
<1> HIDE DEF rest
<1>4. ReceiveData(e, at, size) = Close(IF rest.want = 0 THEN rest ELSE ReadFresh(rest))
  BY DEF ReceiveData, rest, begun
<1>5. Sound(ReadFresh(rest))
  BY <1>3, ReadFreshSound
<1> QED BY <1>3, <1>4, <1>5, CloseSound

\* The interrupt with an open receive.
LEMMA InterruptSound ==
  ASSUME NEW e, Sound(e) PROVE Sound(ToBufferFromHost(e))
<1> DEFINE d == PointAt(e, e.xy)
           first == ReadBuffer(d, e.xy)
           second == CdcSecondRead(ReadBuffer(first, first.ct2))
           r == ToBufferFromHost(e)
<1>0. e \in Record /\ e.xy \in Buf /\ e.inEp \in Nat /\ e.want \in Nat
  BY DEF Sound, Record
<1>1. /\ d \in Record /\ d.full = e.full /\ d.ct1 = e.xy /\ d.ct2 = Other(e.xy)
      /\ d.inEp = e.inEp
  BY <1>0, PointAtFacts
<1>2. CASE e.want = 0
  <2>1. r = [e EXCEPT !.open = FALSE]
    BY <1>2 DEF ToBufferFromHost
  <2>2. /\ r \in Record /\ r.data = e.data /\ r.ct1 = e.ct1 /\ r.ct2 = e.ct2
        /\ r.full = e.full
        /\ r.inEp = e.inEp /\ r.want = e.want /\ r.pos = e.pos
    BY <1>0, <2>1 DEF Record
  <2> HIDE DEF r
  <2> QED BY <2>2 DEF Sound, Rest, r
<1>3. CASE e.want > 0
  <2>1. ~(e.inEp > 0)
    BY <1>0, <1>3 DEF Sound
  <2>2. \/ r = e \/ r = d
        \/ /\ e.full[e.xy]
           /\ r = Close(first) \/ (first.full[first.ct2] /\ r = Close(second))
    <3>1. NothingArrived(e) \/ e.full[e.xy] \/ (~e.full[e.xy] /\ e.full[Other(e.xy)])
      BY <1>0, BufFacts DEF NothingArrived
    <3> QED BY <1>3, <3>1 DEF ToBufferFromHost
  <2> HIDE DEF r, d
  <2>3. CASE e.full[e.xy] /\ (r = Close(first) \/ (first.full[first.ct2] /\ r = Close(second)))
    <3>1. Sound(first) /\ (first.full[first.ct2] => Sound(second))
      BY <1>0, <1>1, <2>3, TwoReads
    <3> HIDE DEF first, second
    <3>2. Sound(r)
      BY <2>3, <3>1, CloseSound
    <3> QED BY <3>2 DEF r
  <2>4. Sound(d)
    BY <1>1, <2>1 DEF Sound
  <2> QED BY <2>2, <2>3, <2>4 DEF r
<1> QED BY <1>0, <1>2, <1>3

\* What the count returns is a number.
LEMMA CountType == ASSUME NEW e, Sound(e) PROVE BytesInUSBBuffer(e) \in Nat
<1> DEFINE held(b) == IF e.full[b] THEN Len(e.data[b]) ELSE 0
<1>1. e \in Record /\ e.inEp \in Nat
  BY DEF Sound, Record
<1>2. ASSUME NEW b \in Buf PROVE held(b) \in Nat
  BY <1>1, Lengths
<1>3. "X" \in Buf /\ "Y" \in Buf
  BY DEF Buf
<1>4. e.inEp > 0 => e.ct2 \in Buf
  BY DEF Sound
<1>5. BytesInUSBBuffer(e)
        = IF e.inEp > 0 THEN e.inEp + held(e.ct2) ELSE held("X") + held("Y")
  BY DEF BytesInUSBBuffer
<1> HIDE DEF held
<1>6. CASE e.inEp > 0
  <2>1. held(e.ct2) \in Nat
    BY <1>2, <1>4, <1>6
  <2> QED BY <1>1, <1>5, <1>6, <2>1
<1>7. CASE ~(e.inEp > 0)
  <2>1. held("X") \in Nat /\ held("Y") \in Nat
    BY <1>2, <1>3
  <2> QED BY <1>5, <1>7, <2>1
<1> QED BY <1>6, <1>7
-----------------------------------------------------------------------------
(* Whole buffers.                                                          *)

\* Driver and hardware agree on the current buffer (the part of BuffersInStep
\* about whole buffers).
Toggles(e) ==
  /\ e.full[e.xy] = e.full[Other(e.xy)] => e.hw = e.xy
  /\ e.full[e.xy] # e.full[Other(e.xy)] => e.full[e.xy] /\ e.hw = Other(e.xy)

\* The bytes in the current buffer, in the other one, and in both.
Front(e)  == IF e.inEp > 0 THEN e.inEp
             ELSE IF e.full[e.xy] THEN Len(e.data[e.xy]) ELSE 0
Behind(e) == IF e.full[Other(e.xy)] THEN Len(e.data[Other(e.xy)]) ELSE 0
Amount(e) == Front(e) + Behind(e)

LEMMA AmountType ==
  ASSUME NEW e \in Record
  PROVE  /\ e.xy \in Buf /\ Other(e.xy) \in Buf /\ Other(e.xy) # e.xy
         /\ Front(e) \in Nat /\ Behind(e) \in Nat /\ Amount(e) \in Nat
<1>1. e.xy \in Buf /\ Other(e.xy) \in Buf /\ Other(e.xy) # e.xy /\ e.inEp \in Nat
  BY BufFacts DEF Record
<1>2. Len(e.data[e.xy]) \in Nat /\ Len(e.data[Other(e.xy)]) \in Nat
  BY <1>1, Lengths
<1>3. Front(e) \in Nat /\ Behind(e) \in Nat
  BY <1>1, <1>2 DEF Front, Behind
<1> QED BY <1>1, <1>3 DEF Amount

\* Reading the len bytes that are left in the current buffer keeps the balance
\* of bytes held and bytes wanted.
LEMMA CurrentRead ==
  ASSUME NEW e \in Record, Toggles(e), e.full[e.xy], NEW r \in Record, SameRest(r, e),
         NEW p \in [buf : Buf, off : Nat], p.buf = e.xy, NEW len \in Nat,
         ReadWhole(e, len, r, p) \/ ReadPart(e, len, r, p)
  PROVE  /\ Toggles(r)
         /\ r.inEp > 0 => r.xy = e.xy /\ r.want = 0
         /\ r.want > 0 => r.xy = Other(e.xy) /\ r.inEp = 0 /\ ~r.full[e.xy]
         /\ r.full[Other(e.xy)] = e.full[Other(e.xy)]
         /\ Amount(r) - r.want = len + Behind(e) - e.want
<1> DEFINE c == e.xy
           o == Other(e.xy)
<1>1. c \in Buf /\ o \in Buf /\ o # c /\ Other(o) = c /\ e.want \in Nat
      /\ e.full \in [Buf -> BOOLEAN] /\ r.data = e.data /\ r.hw = e.hw
  BY BufFacts DEF Record, SameRest
<1>2. Behind(e) \in Nat /\ Behind(r) \in Nat /\ Front(r) \in Nat
  BY AmountType
<1>3. CASE ReadWhole(e, len, r, p)
  <2>1. /\ r.inEp = 0 /\ r.want = e.want - len /\ r.xy = o /\ len <= e.want
        /\ r.full = [e.full EXCEPT ![c] = FALSE]
    BY <1>3 DEF ReadWhole
  <2>2. ~r.full[c] /\ r.full[o] = e.full[o]
    BY <1>1, <2>1
  <2>3. Front(r) = Behind(e) /\ Behind(r) = 0
    BY <1>1, <2>1, <2>2 DEF Front, Behind
  <2>4. Toggles(r)
    BY <1>1, <2>1, <2>2, ZenonT(60) DEF Toggles
  <2> QED BY <1>1, <1>2, <2>1, <2>2, <2>3, <2>4 DEF Amount
<1>4. CASE ReadPart(e, len, r, p)
  <2>1. r.inEp = len - e.want /\ r.want = 0 /\ r.xy = c /\ len > e.want /\ r.full = e.full
    BY <1>4 DEF ReadPart
  <2>2. Front(r) = len - e.want /\ Behind(r) = Behind(e)
    BY <1>1, <2>1 DEF Front, Behind
  <2>3. Toggles(r)
    BY <1>1, <2>1 DEF Toggles
  <2> QED BY <1>1, <1>2, <2>1, <2>2, <2>3 DEF Amount
<1> QED BY <1>3, <1>4

\* Reading the current buffer from its beginning.
LEMMA FreshRead ==
  ASSUME NEW e \in Record, Toggles(e), e.full[e.xy], e.inEp = 0,
         NEW r, r = ReadBuffer(e, e.xy)
  PROVE  /\ r \in Record /\ Toggles(r) /\ r.ct1 = e.ct1 /\ r.ct2 = e.ct2
         /\ r.inEp > 0 => r.xy = e.xy /\ r.want = 0 /\ Rest(r, e.xy)
         /\ r.want > 0 => r.xy = Other(e.xy) /\ r.inEp = 0 /\ ~r.full[e.xy]
         /\ r.full[Other(e.xy)] = e.full[Other(e.xy)]
         /\ Amount(r) - r.want = Amount(e) - e.want
<1> DEFINE len == Len(e.data[e.xy])
           p == Start(e.xy)
<1>1. e.xy \in Buf /\ Behind(e) \in Nat /\ len \in Nat /\ e.want \in Nat
  BY AmountType, Lengths DEF Record
<1>2. p \in [buf : Buf, off : Nat] /\ p.buf = e.xy
  BY <1>1 DEF Start
<1>3. Amount(e) = len + Behind(e)
  BY DEF Amount, Front
<1>4. /\ r \in Record /\ SameRest(r, e) /\ r.ct1 = e.ct1 /\ r.ct2 = e.ct2
      /\ ReadWhole(e, len, r, p) \/ ReadPart(e, len, r, p)
  BY <1>1, ReadBufferFacts
<1>5. r.inEp > 0 => Rest(r, e.xy)
  BY <1>1, ReadBufferSound
<1> HIDE DEF len, p
<1>6. /\ Toggles(r)
      /\ r.inEp > 0 => r.xy = e.xy /\ r.want = 0
      /\ r.want > 0 => r.xy = Other(e.xy) /\ r.inEp = 0 /\ ~r.full[e.xy]
      /\ r.full[Other(e.xy)] = e.full[Other(e.xy)]
      /\ Amount(r) - r.want = len + Behind(e) - e.want
  BY <1>1, <1>2, <1>4, CurrentRead
<1>7. Amount(r) - r.want = Amount(e) - e.want
  BY <1>1, <1>3, <1>6
<1> QED BY <1>4, <1>5, <1>6, <1>7

\* Which of its fields a driver changes between two reads does not matter for
\* the balance.
SameBuffers(r, e) ==
  /\ r \in Record /\ r.full = e.full /\ r.data = e.data /\ r.hw = e.hw /\ r.xy = e.xy
  /\ r.inEp = e.inEp

LEMMA Unmoved ==
  ASSUME NEW e \in Record, NEW r, SameBuffers(r, e)
  PROVE  Toggles(r) = Toggles(e) /\ Amount(r) = Amount(e)
  BY DEF SameBuffers, Toggles, Amount, Front, Behind
-----------------------------------------------------------------------------
(* The bytes themselves.                                                   *)

Packet(e, b) == IF e.full[b] THEN e.data[b] ELSE <<>>
Current(e) == IF e.inEp > 0
              THEN SubSeq(e.data[e.pos.buf], e.pos.off + 1, e.pos.off + e.inEp)
              ELSE Packet(e, e.xy)

\* The n bytes of a memory from place at on.
Slice(m, at, n) == [i \in 1..n |-> m[at + i - 1]]

\* A receive has taken the oldest of the bytes s, as many as it takes off what
\* is wanted, and stored them where they belong and nothing elsewhere; the rest
\* of s it holds.
Takes(e, s, r) ==
  LET k == e.want - r.want
  IN  /\ k \in Nat /\ r.dst = e.dst + k
      /\ s = Slice(r.mem, e.dst, k) \o Held(r)
      /\ \A i \in 0..MemSize-1 : i < e.dst \/ i >= r.dst => r.mem[i] = e.mem[i]
Reads(e, r) == Takes(e, Held(e), r)

LEMMA Regroup == \A s, t, c \in Seq(Nat) : s \o (t \o c) = (s \o t) \o c
  BY ConcatAssociative

\* The two parts of a sequence that was put together.
LEMMA TwoParts ==
  ASSUME NEW p \in Seq(Nat), NEW q \in Seq(Nat), NEW s, s = p \o q
  PROVE  /\ s \in Seq(Nat) /\ Len(s) = Len(p) + Len(q) /\ Len(p) \in Nat /\ Len(q) \in Nat
         /\ SubSeq(s, 1, Len(p)) = p /\ SubSeq(s, Len(p) + 1, Len(s)) = q
<1>1. s \in Seq(Nat) /\ Len(p) \in Nat /\ Len(q) \in Nat /\ Len(s) = Len(p) + Len(q)
  BY ConcatProperties
<1>2. SubSeq(p, 1, Len(p)) = p /\ SubSeq(q, 1, Len(q)) = q
  BY SubSeqFull
<1>3. SubSeq(s, 1, Len(p)) = p
  <2>1. CASE Len(p) = 0
    BY <1>1, <2>1, SubSeqEmpty, EmptySeq
  <2>2. CASE Len(p) # 0
    <3>1. 1 \in 1..Len(p) /\ Len(p) \in 1..Len(p)
      BY <1>1, <2>2
    <3> QED BY <1>2, <3>1, SubSeqOfConcat1
  <2> QED BY <2>1, <2>2
<1>4. SubSeq(s, Len(p) + 1, Len(s)) = q
  <2>1. CASE Len(q) = 0
    <3>1. Len(s) < Len(p) + 1 /\ Len(p) + 1 \in Int /\ Len(s) \in Int
      BY <1>1, <2>1
    <3> QED BY <2>1, <3>1, SubSeqEmpty, EmptySeq
  <2>2. CASE Len(q) # 0
    <3>1. /\ Len(p) + 1 \in Len(p)+1..Len(p)+Len(q)
          /\ Len(p) + Len(q) \in Len(p)+1..Len(p)+Len(q)
          /\ Len(p) + 1 - Len(p) = 1 /\ Len(p) + Len(q) - Len(p) = Len(q)
      BY <1>1, <2>2
    <3> QED BY <1>1, <1>2, <3>1, SubSeqOfConcat2
  <2> QED BY <2>1, <2>2
<1> QED BY <1>1, <1>3, <1>4

LEMMA PartsOver ==
  ASSUME NEW S, NEW p \in Seq(Nat), NEW q \in Seq(Nat), NEW s \in Seq(S), s = p \o q
  PROVE  p \in Seq(S) /\ q \in Seq(S)
<1>1. /\ Len(s) = Len(p) + Len(q) /\ Len(p) \in Nat /\ Len(q) \in Nat
      /\ SubSeq(s, 1, Len(p)) = p /\ SubSeq(s, Len(p) + 1, Len(s)) = q
  BY TwoParts
<1>2. \A i \in 1..Len(s) : s[i] \in S
  OBVIOUS
<1>3. SubSeq(s, 1, Len(p)) \in Seq(S)
  <2>1. \A i \in 1..Len(p) : s[i] \in S
    BY <1>1, <1>2
  <2> QED BY <1>1, <2>1, SubSeqProperties
<1>4. SubSeq(s, Len(p) + 1, Len(s)) \in Seq(S)
  <2>1. \A i \in Len(p) + 1 .. Len(s) : s[i] \in S
    BY <1>1, <1>2
  <2> QED BY <1>1, <2>1, SubSeqProperties
<1> QED BY <1>1, <1>3, <1>4

LEMMA SliceFacts ==
  ASSUME NEW m \in [0..MemSize-1 -> Nat], NEW at \in Nat, NEW n \in Nat, at + n <= MemSize
  PROVE  /\ Slice(m, at, n) \in Seq(Nat) /\ Len(Slice(m, at, n)) = n
         /\ \A i \in 1..n : Slice(m, at, n)[i] = m[at + i - 1]
<1>1. ASSUME NEW i \in 1..n PROVE m[at + i - 1] \in Nat
  <2>1. at + i - 1 \in 0..MemSize-1
    BY SizeAssumption
  <2> QED BY <2>1
<1>2. [i \in 1..n |-> m[at + i - 1]] \in [1..n -> Nat]
  <2>1. \A i \in 1..n : m[at + i - 1] \in Nat
    BY <1>1
  <2> QED BY <2>1
<1>3. Slice(m, at, n) \in [1..n -> Nat]
  BY <1>2 DEF Slice
<1>4. Slice(m, at, n) \in Seq(Nat)
  BY <1>3, SeqDef
<1>5. Len(Slice(m, at, n)) = n
  BY <1>3, <1>4
<1> QED BY <1>4, <1>5 DEF Slice

\* Memories that agree from place at on have the same slice there.
LEMMA SliceSame ==
  ASSUME NEW m, NEW o, NEW at \in Nat, NEW n \in Nat,
         \A i \in 0..MemSize-1 : at <= i /\ i < at + n => m[i] = o[i], at + n <= MemSize
  PROVE  Slice(m, at, n) = Slice(o, at, n)
<1>1. ASSUME NEW i \in 1..n PROVE m[at + i - 1] = o[at + i - 1]
  <2>1. at + i - 1 \in 0..MemSize-1 /\ at <= at + i - 1 /\ at + i - 1 < at + n
    BY SizeAssumption
  <2> QED BY <2>1
<1> QED BY <1>1 DEF Slice

LEMMA SliceJoin ==
  ASSUME NEW m \in [0..MemSize-1 -> Nat], NEW at \in Nat, NEW j \in Nat, NEW k \in Nat,
         at + j + k <= MemSize
  PROVE  Slice(m, at, j + k) = Slice(m, at, j) \o Slice(m, at + j, k)
<1> DEFINE s == Slice(m, at, j)
           t == Slice(m, at + j, k)
           u == Slice(m, at, j + k)
<1>0. /\ MemSize \in Nat /\ at + j <= MemSize /\ at + j \in Nat /\ (at + j) + k <= MemSize
      /\ j + k \in Nat /\ at + (j + k) <= MemSize
  BY SizeAssumption
<1>1. s \in Seq(Nat) /\ Len(s) = j /\ \A i \in 1..j : s[i] = m[at + i - 1]
  BY <1>0, SliceFacts
<1>2. t \in Seq(Nat) /\ Len(t) = k /\ \A i \in 1..k : t[i] = m[(at + j) + i - 1]
  BY <1>0, SliceFacts
<1>3. u \in Seq(Nat) /\ Len(u) = j + k /\ \A i \in 1..j + k : u[i] = m[at + i - 1]
  BY <1>0, SliceFacts
<1> HIDE DEF s, t, u
<1>4. /\ s \o t \in Seq(Nat) /\ Len(s \o t) = j + k
      /\ \A i \in 1..j + k : (s \o t)[i] = IF i <= j THEN s[i] ELSE t[i - j]
  BY <1>1, <1>2, ConcatProperties, ZenonT(60)
<1>5. ASSUME NEW i \in 1..j + k PROVE u[i] = (s \o t)[i]
  <2>1. (s \o t)[i] = (IF i <= j THEN s[i] ELSE t[i - j]) /\ u[i] = m[at + i - 1] /\ i \in Int
    BY <1>3, <1>4, <1>5
  <2>2. CASE i <= j
    <3>1. i \in 1..j
      BY <1>5, <2>2
    <3> QED BY <1>1, <2>1, <2>2, <3>1
  <2>3. CASE ~(i <= j)
    <3>1. i - j \in 1..k /\ (at + j) + (i - j) - 1 = at + i - 1
      BY <1>5, <2>1, <2>3
    <3>2. t[i - j] = m[(at + j) + (i - j) - 1]
      BY <1>2, <3>1
    <3> QED BY <2>1, <2>3, <3>1, <3>2
  <2> QED BY <2>2, <2>3
<1>6. u = s \o t
  BY <1>3, <1>4, <1>5, SeqEqual
<1> QED BY <1>6 DEF s, t, u

LEMMA HeldParts ==
  ASSUME NEW e \in Record, e.inEp > 0 => Rest(e, e.xy)
  PROVE  /\ Current(e) \in Seq(Nat) /\ Held(e) \in Seq(Nat)
         /\ \A b \in Buf : Packet(e, b) \in Seq(Nat)
         /\ Held(e) = Current(e) \o Packet(e, Other(e.xy))
<1>1. e.xy \in Buf /\ Other(e.xy) \in Buf /\ e.data \in [Buf -> Seq(Nat)] /\ e.inEp \in Nat
  BY BufFacts DEF Record
<1>2. \A b \in Buf : Packet(e, b) \in Seq(Nat)
  BY <1>1 DEF Packet
<1>3. Current(e) \in Seq(Nat)
  <2>1. CASE e.inEp > 0
    <3> DEFINE s == e.data[e.pos.buf]
    <3>1. s \in Seq(Nat) /\ e.pos.off \in Nat /\ e.pos.off + e.inEp = Len(s)
      BY <1>1, <2>1 DEF Rest, Record
    <3> HIDE DEF s
    <3>2. \A i \in e.pos.off + 1 .. e.pos.off + e.inEp : s[i] \in Nat
      BY <1>1, <3>1
    <3>3. SubSeq(s, e.pos.off + 1, e.pos.off + e.inEp) \in Seq(Nat)
      BY <1>1, <3>1, <3>2, SubSeqProperties
    <3> QED BY <2>1, <3>3 DEF Current, s
  <2>2. CASE ~(e.inEp > 0)
    BY <1>1, <1>2, <2>2 DEF Current
  <2> QED BY <2>1, <2>2
<1>4. Held(e) = Current(e) \o Packet(e, Other(e.xy))
  BY DEF Held, Current, Packet
<1> QED BY <1>1, <1>2, <1>3, <1>4

\* Two reads, one after the other.
LEMMA ReadsTwice ==
  ASSUME NEW e \in Record, NEW r \in Record, NEW t \in Record,
         Held(t) \in Seq(Nat), e.dst + e.want <= MemSize, Reads(e, r), Reads(r, t)
  PROVE  Reads(e, t)
<1> DEFINE j == e.want - r.want
           k == r.want - t.want
<1>1. /\ e.want \in Nat /\ r.want \in Nat /\ t.want \in Nat /\ e.dst \in Nat
      /\ t.mem \in [0..MemSize-1 -> Nat]
  BY DEF Record
<1>2. /\ j \in Nat /\ k \in Nat /\ r.dst = e.dst + j /\ t.dst = r.dst + k
      /\ Held(e) = Slice(r.mem, e.dst, j) \o Held(r)
      /\ Held(r) = Slice(t.mem, e.dst + j, k) \o Held(t)
      /\ \A i \in 0..MemSize-1 : i < e.dst \/ i >= r.dst => r.mem[i] = e.mem[i]
      /\ \A i \in 0..MemSize-1 : i < r.dst \/ i >= t.dst => t.mem[i] = r.mem[i]
  BY DEF Reads, Takes
<1>3. /\ e.want - t.want = j + k /\ j + k \in Nat /\ MemSize \in Nat
      /\ e.dst + j + k <= MemSize /\ e.dst + j <= MemSize /\ e.dst + j \in Nat
  <2>1. j + k <= e.want /\ j + k = e.want - t.want
    BY <1>1
  <2>2. e.dst \in Nat /\ e.want \in Nat /\ j \in Nat /\ k \in Nat /\ MemSize \in Nat
        /\ e.dst + e.want <= MemSize
    BY <1>1, <1>2, SizeAssumption
  <2>3. ASSUME NEW d \in Nat, NEW w \in Nat, NEW a \in Nat, NEW b \in Nat, NEW m \in Nat,
               d + w <= m, a + b <= w
        PROVE  d + a + b <= m /\ d + a <= m /\ d + a \in Nat
    BY <2>3
  <2> HIDE DEF j, k
  <2>4. e.dst + j + k <= MemSize /\ e.dst + j <= MemSize /\ e.dst + j \in Nat
    BY <2>1, <2>2, <2>3
  <2> QED BY <2>1, <2>2, <2>4
<1> HIDE DEF j, k
<1>4. Slice(r.mem, e.dst, j) = Slice(t.mem, e.dst, j)
  <2>1. \A i \in 0..MemSize-1 : e.dst <= i /\ i < e.dst + j => r.mem[i] = t.mem[i]
    BY <1>2
  <2>2. e.dst \in Nat /\ j \in Nat /\ e.dst + j <= MemSize
    BY <1>1, <1>2, <1>3
  <2> QED BY <2>1, <2>2, SliceSame
<1>5. Slice(t.mem, e.dst, j + k) = Slice(t.mem, e.dst, j) \o Slice(t.mem, e.dst + j, k)
  <2>1. e.dst \in Nat /\ j \in Nat /\ k \in Nat /\ t.mem \in [0..MemSize-1 -> Nat]
    BY <1>1, <1>2
  <2> QED BY <1>3, <2>1, SliceJoin, ZenonT(60)
<1>6. Slice(t.mem, e.dst, j) \in Seq(Nat) /\ Slice(t.mem, e.dst + j, k) \in Seq(Nat)
  BY <1>1, <1>2, <1>3, SliceFacts
<1>7. Held(e) = Slice(t.mem, e.dst, j + k) \o Held(t)
  <2> DEFINE a == Slice(t.mem, e.dst, j)
             b == Slice(t.mem, e.dst + j, k)
             h == Held(t)
  <2>1. Held(e) = a \o (b \o h) /\ Slice(t.mem, e.dst, j + k) = a \o b
    BY <1>2, <1>4, <1>5
  <2>2. a \in Seq(Nat) /\ b \in Seq(Nat) /\ h \in Seq(Nat)
    BY <1>6
  <2> HIDE DEF a, b, h
  <2>3. a \o (b \o h) = (a \o b) \o h
    BY <2>2, Regroup
  <2> QED BY <2>1, <2>3 DEF h
<1>8. \A i \in 0..MemSize-1 : i < e.dst \/ i >= t.dst => t.mem[i] = e.mem[i]
  BY <1>1, <1>2
<1>9. t.dst = e.dst + (j + k) /\ j + k \in Nat
  BY <1>1, <1>2
<1> QED BY <1>3, <1>7, <1>8, <1>9 DEF Reads, Takes

\* The n bytes that follow place off of a packet d are in a memory from at on.
InPlace(m, at, n, d, off) ==
  \A i \in 0..MemSize-1 : i >= at /\ i < at + n => m[i] = d[off + 1 + i - at]

\* What follows place off of a packet d.
After(d, off) == SubSeq(d, off + 1, Len(d))

LEMMA AfterFacts ==
  ASSUME NEW d \in Seq(Nat), NEW off \in Nat
  PROVE  After(d, off) \in Seq(Nat) /\ (off = Len(d) => After(d, off) = <<>>)
<1>1. \A i \in off + 1 .. Len(d) : d[i] \in Nat
  OBVIOUS
<1>2. After(d, off) \in Seq(Nat)
  BY <1>1, SubSeqProperties DEF After
<1> QED BY <1>2, SubSeqEmpty DEF After

LEMMA SplitPacket ==
  ASSUME NEW d \in Seq(Nat), NEW off \in Nat, NEW n \in Nat, NEW at \in Nat,
         off + n <= Len(d), at + n <= MemSize,
         NEW m \in [0..MemSize-1 -> Nat], InPlace(m, at, n, d, off)
  PROVE  /\ Slice(m, at, n) \in Seq(Nat) /\ After(d, off + n) \in Seq(Nat)
         /\ After(d, off) = Slice(m, at, n) \o After(d, off + n)
<1> DEFINE t == Slice(m, at, n)
           u == SubSeq(d, off + 1, off + n)
<1>1. t \in Seq(Nat) /\ Len(t) = n /\ \A i \in 1..n : t[i] = m[at + i - 1]
  BY SliceFacts
<1>2. \A i \in 1..Len(d) : d[i] \in Nat
  OBVIOUS
<1>3. u \in Seq(Nat) /\ Len(u) = n /\ \A i \in 1..n : u[i] = d[off + i]
  <2>1. \A i \in off + 1 .. off + n : d[i] \in Nat
    BY <1>2
  <2>2. /\ u \in Seq(Nat)
        /\ Len(u) = IF off + 1 <= off + n THEN (off + n) - (off + 1) + 1 ELSE 0
        /\ \A i \in 1..(off + n) - (off + 1) + 1 : u[i] = d[(off + 1) + i - 1]
    BY <2>1, SubSeqProperties
  <2> HIDE DEF u
  <2>3. (off + n) - (off + 1) + 1 = n
    OBVIOUS
  <2>4. \A i \in 1..n : (off + 1) + i - 1 = off + i
    OBVIOUS
  <2> QED BY <2>2, <2>3, <2>4
<1>4. ASSUME NEW i \in 1..n PROVE t[i] = u[i]
  <2>1. at + i - 1 \in 0..MemSize-1 /\ at + i - 1 >= at /\ at + i - 1 < at + n
    BY SizeAssumption
  <2>2. off + 1 + (at + i - 1) - at = off + i
    OBVIOUS
  <2>3. m[at + i - 1] = d[off + i]
    BY <2>1, <2>2 DEF InPlace
  <2> HIDE DEF t, u
  <2> QED BY <1>1, <1>3, <2>3
<1>5. t = u
  <2> HIDE DEF t, u
  <2> QED BY <1>1, <1>3, <1>4, SeqEqual
<1>6. After(d, off + n) \in Seq(Nat)
  BY AfterFacts
<1>7. u \o SubSeq(d, off + n + 1, Len(d)) = SubSeq(d, off + 1, Len(d))
  <2>1. /\ off + 1 \in 1..Len(d)+1 /\ off + n \in (off + 1) - 1 .. Len(d)
        /\ Len(d) \in off + n .. Len(d)
    OBVIOUS
  <2> QED BY <2>1, ConcatAdjacentSubSeq
<1> QED BY <1>1, <1>5, <1>6, <1>7 DEF After

\* Copying what is left of the current buffer from position p on.
LEMMA CopyReads ==
  ASSUME NEW e \in Record, NEW p \in [buf : Buf, off : Nat], p.buf = e.xy, e.full[e.xy],
         p.off + e.inEp = Len(e.data[p.buf]), e.dst + e.want <= MemSize,
         NEW r, r = CopyUsbToBuff(e, p, p.buf)
  PROVE  Takes(e, After(e.data[p.buf], p.off) \o Packet(e, Other(e.xy)), r)
<1> DEFINE d == e.data[p.buf]
           off == p.off
           len == e.inEp
           at == e.dst
           want == e.want
           n == e.want - r.want
           m == r.mem
           behind == Packet(e, Other(e.xy))
           left == After(d, off + n)
<1>1. /\ r \in Record /\ SameRest(r, e)
      /\ ReadWhole(e, e.inEp, r, p) \/ ReadPart(e, e.inEp, r, p)
      /\ Copied(e, p, r)
  BY CopyFacts
<1>2. /\ d \in Seq(Nat) /\ off \in Nat /\ len \in Nat /\ at \in Nat /\ want \in Nat
      /\ r.want \in Nat /\ m \in [0..MemSize-1 -> Nat] /\ behind \in Seq(Nat)
      /\ off + len = Len(d) /\ at + want <= MemSize /\ r.data = e.data
      /\ e.xy \in Buf /\ Other(e.xy) \in Buf /\ Other(e.xy) # e.xy
      /\ Other(Other(e.xy)) = e.xy /\ e.full \in [Buf -> BOOLEAN]
  <2>1. /\ d \in Seq(Nat) /\ off \in Nat /\ len \in Nat /\ at \in Nat /\ want \in Nat
        /\ e.xy \in Buf /\ e.full \in [Buf -> BOOLEAN] /\ e.data \in [Buf -> Seq(Nat)]
    BY DEF Record
  <2>2. r.want \in Nat /\ m \in [0..MemSize-1 -> Nat] /\ r.data = e.data
    BY <1>1 DEF Record, SameRest
  <2>3. /\ Other(e.xy) \in Buf /\ Other(e.xy) # e.xy /\ Other(Other(e.xy)) = e.xy
    BY <2>1, BufFacts
  <2>4. behind \in Seq(Nat)
    BY <2>1, <2>3 DEF Packet
  <2> QED BY <2>1, <2>2, <2>3, <2>4
<1>3. /\ n \in Nat /\ n <= len /\ r.dst = at + n
      /\ \A i \in 0..MemSize-1 :
           m[i] = IF i >= at /\ i < at + n THEN d[off + 1 + i - at] ELSE e.mem[i]
  BY <1>1 DEF Copied
<1>4. (n = len /\ Held(r) = behind) \/ Held(r) = left \o behind
  <2>1. CASE ReadWhole(e, e.inEp, r, p)
    <3>1. /\ len <= want /\ r.want = want - len /\ r.inEp = 0 /\ r.xy = Other(e.xy)
          /\ r.full = [e.full EXCEPT ![p.buf] = FALSE]
      BY <2>1 DEF ReadWhole
    <3>2. ~r.full[e.xy] /\ r.full[Other(e.xy)] = e.full[Other(e.xy)]
      BY <1>2, <3>1
    <3>3. Current(r) = behind /\ Packet(r, Other(r.xy)) = <<>>
      BY <1>2, <3>1, <3>2 DEF Current, Packet
    <3>4. Held(r) = Current(r) \o Packet(r, Other(r.xy))
      BY DEF Held, Current, Packet
    <3> HIDE DEF behind
    <3>5. Held(r) = behind
      BY <1>2, <3>3, <3>4, ConcatEmptySeq
    <3>6. n = len
      BY <1>2, <3>1
    <3> QED BY <3>5, <3>6
  <2>2. CASE ReadPart(e, e.inEp, r, p)
    <3>1. /\ r.want = 0 /\ len > want /\ r.inEp = len - want /\ r.xy = e.xy
          /\ r.full = e.full /\ r.pos.buf = p.buf /\ r.pos.off = off + want
      BY <2>2 DEF ReadPart
    <3>2. n = want /\ r.inEp > 0 /\ r.pos.off + r.inEp = off + len
      BY <1>2, <3>1
    <3>3. r.data[r.pos.buf] = d /\ r.pos.off + 1 = off + n + 1
      BY <1>2, <3>1, <3>2
    <3>4. Packet(r, Other(r.xy)) = behind
      BY <1>2, <3>1 DEF Packet
    <3>5. Current(r) = left
      BY <1>2, <3>2, <3>3 DEF Current, After
    <3>6. Held(r) = Current(r) \o Packet(r, Other(r.xy))
      BY DEF Held, Current, Packet
    <3> QED BY <3>4, <3>5, <3>6
  <2> QED BY <1>1, <2>1, <2>2
<1>5. want - r.want = n
  OBVIOUS
<1> HIDE DEF d, off, len, at, want, n, m, behind
<1>6. at + n <= MemSize
  <2>1. n <= want
    BY <1>2, <1>5
  <2> QED BY <1>2, <1>3, <2>1, SizeAssumption
<1>7. /\ Slice(m, at, n) \in Seq(Nat) /\ left \in Seq(Nat)
      /\ After(d, off) = Slice(m, at, n) \o left
      /\ n = len => left = <<>>
  <2>1. /\ d \in Seq(Nat) /\ off \in Nat /\ n \in Nat /\ at \in Nat
        /\ off + n <= Len(d) /\ m \in [0..MemSize-1 -> Nat]
    BY <1>2, <1>3
  <2>2. InPlace(m, at, n, d, off)
    BY <1>3 DEF InPlace
  <2>3. /\ Slice(m, at, n) \in Seq(Nat) /\ left \in Seq(Nat)
        /\ After(d, off) = Slice(m, at, n) \o left
    <3>1. Slice(m, at, n) \in Seq(Nat)
      BY <1>6, <2>1, <2>2, SplitPacket
    <3>2. left \in Seq(Nat)
      BY <1>6, <2>1, <2>2, SplitPacket
    <3>3. After(d, off) = Slice(m, at, n) \o left
      BY <1>6, <2>1, <2>2, SplitPacket, SMTT(60)
    <3> QED BY <3>1, <3>2, <3>3
  <2>4. n = len => left = <<>>
    BY <1>2, <2>1, AfterFacts
  <2> QED BY <2>3, <2>4
<1> HIDE DEF left
<1>8. Held(r) = left \o behind
  <2>1. behind \in Seq(Nat)
    BY <1>2
  <2>2. <<>> \o behind = behind
    BY <2>1, ConcatEmptySeq
  <2> QED BY <1>4, <1>7, <2>2
<1>9. After(d, off) \o behind = Slice(m, at, n) \o Held(r)
  <2> DEFINE t == Slice(m, at, n)
             u == After(d, off)
  <2>1. t \in Seq(Nat) /\ left \in Seq(Nat) /\ behind \in Seq(Nat)
    BY <1>2, <1>7
  <2>2. u = t \o left
    BY <1>7
  <2> HIDE DEF t, u
  <2>3. u \o behind = t \o (left \o behind)
    BY <2>1, <2>2, Regroup
  <2> QED BY <1>8, <2>3 DEF t, u
<1>10. \A i \in 0..MemSize-1 : i < at \/ i >= r.dst => m[i] = e.mem[i]
  BY <1>2, <1>3
<1> QED BY <1>3, <1>9, <1>10 DEF Takes, d, off, len, at, n, m, behind

\* Reading the current buffer from its beginning.
LEMMA BufferReads ==
  ASSUME NEW e \in Record, e.full[e.xy], e.inEp = 0, e.dst + e.want <= MemSize,
         NEW r, r = ReadBuffer(e, e.xy)
  PROVE  Reads(e, r)
<1> DEFINE d == [e EXCEPT !.inEp = Len(e.data[e.xy])]
           p == Start(e.xy)
<1>1. /\ d \in Record /\ d.data = e.data /\ d.full = e.full /\ d.xy = e.xy
      /\ d.want = e.want /\ d.inEp = Len(e.data[e.xy]) /\ d.dst = e.dst /\ d.mem = e.mem
  BY Lengths DEF Record
<1>2. p \in [buf : Buf, off : Nat] /\ p.buf = e.xy /\ p.off = 0
  BY DEF Start, Record
<1>3. r = CopyUsbToBuff(d, p, p.buf)
  BY <1>2 DEF ReadBuffer
<1>4. e.data[e.xy] \in Seq(Nat)
  BY DEF Record
<1>5. After(e.data[e.xy], 0) = e.data[e.xy]
  BY <1>4, SubSeqFull DEF After
<1> HIDE DEF d, p
<1>6. p.off + d.inEp = Len(d.data[p.buf])
  BY <1>1, <1>2, <1>4
<1>7. Takes(d, After(d.data[p.buf], p.off) \o Packet(d, Other(d.xy)), r)
  BY <1>1, <1>2, <1>3, <1>6, CopyReads
<1>8. Held(e) = After(d.data[p.buf], p.off) \o Packet(d, Other(d.xy))
  <2>1. Packet(d, Other(d.xy)) = Packet(e, Other(e.xy))
    BY <1>1 DEF Packet
  <2>2. Held(e) = e.data[e.xy] \o Packet(e, Other(e.xy))
    <3>1. Held(e) = Current(e) \o Packet(e, Other(e.xy))
      BY DEF Held, Current, Packet
    <3>2. Current(e) = e.data[e.xy]
      BY DEF Current, Packet
    <3> QED BY <3>1, <3>2
  <2> QED BY <1>1, <1>2, <1>5, <2>1, <2>2
<1> QED BY <1>1, <1>7, <1>8 DEF Reads, Takes

\* Reading what is left of a started buffer.
LEMMA RestReads ==
  ASSUME NEW e \in Record, e.inEp > 0, Rest(e, e.xy), e.dst + e.want <= MemSize,
         NEW r, r = CopyUsbToBuff(e, e.pos, e.xy)
  PROVE  Reads(e, r)
<1>1. e.pos \in [buf : Buf, off : Nat] /\ e.pos.buf = e.xy /\ e.full[e.xy]
      /\ e.pos.off + e.inEp = Len(e.data[e.pos.buf])
  BY DEF Record, Rest
<1>2. Takes(e, After(e.data[e.pos.buf], e.pos.off) \o Packet(e, Other(e.xy)), r)
  BY <1>1, CopyReads
<1>3. Held(e) = After(e.data[e.pos.buf], e.pos.off) \o Packet(e, Other(e.xy))
  BY <1>1 DEF Held, Packet, After
<1> QED BY <1>2, <1>3 DEF Reads

\* A driver that only changes where it points at keeps what it holds.
SameBytes(r, e) ==
  /\ SameBuffers(r, e) /\ r.mem = e.mem /\ r.dst = e.dst /\ r.want = e.want
  /\ e.inEp > 0 => r.pos = e.pos

LEMMA HeldSame ==
  ASSUME NEW e \in Record, NEW r, SameBuffers(r, e), e.inEp > 0 => r.pos = e.pos
  PROVE  Held(r) = Held(e)
<1>1. r.full = e.full /\ r.data = e.data /\ r.xy = e.xy /\ r.inEp = e.inEp
  BY DEF SameBuffers
<1>2. CASE e.inEp > 0
  BY <1>1, <1>2 DEF Held
<1>3. CASE ~(e.inEp > 0)
  BY <1>1, <1>3 DEF Held
<1> QED BY <1>2, <1>3

LEMMA NoneTaken ==
  ASSUME NEW e \in Record, NEW r, SameBytes(r, e), Held(e) \in Seq(Nat)
  PROVE  Reads(e, r)
<1>1. e.want - r.want = 0 /\ r.dst = e.dst + 0 /\ r.mem = e.mem /\ Held(r) = Held(e)
  <2>1. Held(r) = Held(e)
    BY HeldSame DEF SameBytes
  <2>2. e.want \in Nat /\ e.dst \in Nat
    BY DEF Record
  <2>3. r.mem = e.mem /\ r.dst = e.dst /\ r.want = e.want
    BY DEF SameBytes
  <2> QED BY <2>1, <2>2, <2>3
<1>2. Slice(r.mem, e.dst, 0) = <<>>
  BY DEF Slice
<1> QED BY <1>1, <1>2, ConcatEmptySeq DEF Reads, Takes
-----------------------------------------------------------------------------
(* A whole receive.                                                        *)

\* A started buffer is the current one.
Aligned(e) == Sound(e) /\ Toggles(e) /\ (e.inEp > 0 => e.ct1 = e.xy)

LEMMA AlignedType ==
  ASSUME NEW e, Aligned(e)
  PROVE  /\ e \in Record /\ Held(e) \in Seq(Nat) /\ (e.inEp > 0 => Rest(e, e.xy))
         /\ e.want \in Nat /\ e.dst \in Nat /\ e.inEp \in Nat
<1>1. e \in Record /\ (e.inEp > 0 => Rest(e, e.xy))
  BY DEF Aligned, Sound
<1>2. Held(e) \in Seq(Nat)
  BY <1>1, HeldParts
<1> QED BY <1>1, <1>2 DEF Record

LEMMA ReadsFrom ==
  ASSUME NEW e \in Record, NEW d, SameBytes(d, e), NEW r, Reads(d, r)
  PROVE  Reads(e, r)
<1>1. Held(d) = Held(e)
  BY HeldSame DEF SameBytes
<1> QED BY <1>1 DEF Reads, Takes, SameBytes

LEMMA ReadsTo ==
  ASSUME NEW e, NEW r \in Record, NEW t, SameBytes(t, r), Reads(e, r)
  PROVE  Reads(e, t)
<1>1. Held(t) = Held(r)
  BY HeldSame DEF SameBytes
<1> QED BY <1>1 DEF Reads, Takes, SameBytes

LEMMA RoomKept ==
  ASSUME NEW e \in Record, NEW r \in Record, Reads(e, r)
  PROVE  r.dst + r.want = e.dst + e.want
<1>1. e.want \in Nat /\ e.dst \in Nat /\ r.want \in Nat
  BY DEF Record
<1>2. r.dst = e.dst + (e.want - r.want)
  BY DEF Reads, Takes
<1> QED BY <1>1, <1>2

\* With both buffers free nothing is held.
LEMMA NothingHeld ==
  ASSUME NEW e, Aligned(e), e.inEp = 0, ~e.full[e.xy], ~e.full[Other(e.xy)]
  PROVE  Held(e) = <<>>
<1>1. Current(e) = <<>> /\ Packet(e, Other(e.xy)) = <<>>
  BY DEF Current, Packet
<1>2. Held(e) = Current(e) \o Packet(e, Other(e.xy))
  BY AlignedType, HeldParts
<1>3. <<>> \in Seq(Nat)
  OBVIOUS
<1> QED BY <1>1, <1>2, <1>3, ConcatEmptySeq

\* "read 'fresh' data": whatever is still wanted afterwards is not there.
LEMMA FreshContent ==
  ASSUME NEW e, Aligned(e), e.inEp = 0, e.dst + e.want <= MemSize,
         NEW r, r = ReadFresh(e)
  PROVE  Aligned(r) /\ Reads(e, r) /\ (r.want > 0 => Held(r) = <<>> /\ r.inEp = 0)
<1> DEFINE d == [PointAt(e, e.xy) EXCEPT !.pos = Start(e.xy)]
           first == ReadBuffer(d, e.xy)
           third == ReadBuffer(first, first.ct2)
           second == SecondRead(third)
<1>0. e \in Record /\ Toggles(e) /\ e.xy \in Buf /\ e.full \in [Buf -> BOOLEAN]
      /\ Start(e.xy) \in [buf : Buf, off : Nat] /\ e.want \in Nat /\ Held(e) \in Seq(Nat)
      /\ Other(e.xy) \in Buf /\ Other(Other(e.xy)) = e.xy
  BY AlignedType, BufFacts DEF Aligned, Record, Start
<1>1. Sound(r)
  BY ReadFreshSound DEF Aligned
<1>2. SameBytes(d, e) /\ d.ct1 = e.xy /\ d.ct2 = Other(e.xy)
  <2>1. /\ PointAt(e, e.xy) \in Record /\ SameRest(PointAt(e, e.xy), e)
        /\ PointAt(e, e.xy).ct1 = e.xy /\ PointAt(e, e.xy).ct2 = Other(e.xy)
        /\ PointAt(e, e.xy).full = e.full /\ PointAt(e, e.xy).xy = e.xy
        /\ PointAt(e, e.xy).inEp = e.inEp /\ PointAt(e, e.xy).want = e.want
        /\ PointAt(e, e.xy).mem = e.mem /\ PointAt(e, e.xy).dst = e.dst
    BY <1>0, PointAtFacts
  <2> QED BY <1>0, <2>1, PosFacts DEF SameBytes, SameBuffers, SameRest
<1>3. r = CASE ~e.full[e.xy] -> e
            [] e.full[e.xy] /\ (first.want = 0 \/ ~first.full[first.ct2]) -> first
            [] OTHER -> second
  BY DEF ReadFresh
<1>4. CASE ~e.full[e.xy]
  <2>1. r = e /\ ~e.full[Other(e.xy)]
    BY <1>0, <1>3, <1>4 DEF Toggles
  <2>2. Held(e) = <<>>
    BY <1>4, <2>1, NothingHeld
  <2>3. SameBytes(e, e)
    BY <1>0 DEF SameBytes, SameBuffers
  <2>4. Reads(e, e)
    BY <1>0, <2>3, NoneTaken
  <2> QED BY <2>1, <2>2, <2>4
<1>5. CASE e.full[e.xy]
  <2>1. /\ d \in Record /\ Toggles(d) /\ d.full[d.xy] /\ d.inEp = 0 /\ d.xy = e.xy
        /\ d.dst + d.want <= MemSize
    BY <1>0, <1>2, <1>5, Unmoved DEF SameBytes, SameBuffers
  <2> HIDE DEF d
  <2>2. /\ first \in Record /\ Toggles(first)
        /\ first.ct1 = e.xy /\ first.ct2 = Other(e.xy)
        /\ first.inEp > 0 => first.xy = e.xy /\ first.want = 0
        /\ first.want > 0 => first.xy = Other(e.xy) /\ first.inEp = 0 /\ ~first.full[e.xy]
    BY <1>2, <2>1, FreshRead
  <2>3. Reads(e, first)
    <3>1. Reads(d, first)
      BY <2>1, BufferReads
    <3> QED BY <1>0, <1>2, <3>1, ReadsFrom
  <2> HIDE DEF first
  <2>4. /\ first.want \in Nat /\ first.full \in [Buf -> BOOLEAN]
        /\ first.dst + first.want <= MemSize
    BY <1>0, <2>2, <2>3, RoomKept DEF Record
  <2>5. CASE first.want = 0 \/ ~first.full[first.ct2]
    <3>1. r = first
      BY <1>3, <1>5, <2>5
    <3>2. Aligned(first)
      BY <1>1, <2>2, <3>1 DEF Aligned
    <3>3. first.want > 0 => Held(first) = <<>> /\ first.inEp = 0
      BY <1>0, <2>2, <2>5, <3>2, NothingHeld
    <3> QED BY <2>3, <3>1, <3>2, <3>3
  <2>6. CASE first.want # 0 /\ first.full[first.ct2]
    <3>1. r = second
      BY <1>3, <1>5, <2>6
    <3>2. /\ first.want > 0 /\ first.xy = first.ct2 /\ first.inEp = 0 /\ ~first.full[e.xy]
          /\ first.full[first.xy] /\ Other(first.xy) = e.xy
      BY <1>0, <2>2, <2>4, <2>6
    <3>3. /\ third \in Record /\ Toggles(third) /\ third.ct1 = first.ct1
          /\ third.ct2 = first.ct2
          /\ third.inEp > 0 => third.xy = first.xy /\ third.want = 0 /\ Rest(third, first.xy)
          /\ third.want > 0 => third.xy = Other(first.xy) /\ third.inEp = 0
                               /\ ~third.full[first.xy]
          /\ third.full[Other(first.xy)] = first.full[Other(first.xy)]
      BY <2>2, <3>2, FreshRead
    <3>4. Reads(first, third)
      BY <2>2, <2>4, <3>2, BufferReads
    <3> HIDE DEF third
    <3>5. SameBytes(second, third) /\ second.ct1 = third.ct2
      BY <3>3, SecondReadFacts DEF SameBytes, SameBuffers, SameRest
    <3> HIDE DEF second
    <3>6. Toggles(second)
      BY <3>3, <3>5, Unmoved DEF SameBytes
    <3>7. second.inEp > 0 => second.ct1 = second.xy
      BY <1>0, <2>2, <3>2, <3>3, <3>5 DEF SameBytes, SameBuffers
    <3>8. Aligned(second)
      BY <1>1, <3>1, <3>6, <3>7 DEF Aligned
    <3>9. Reads(e, second)
      <4>1. Reads(first, second)
        BY <3>3, <3>4, <3>5, ReadsTo
      <4>2. Held(second) \in Seq(Nat) /\ second \in Record
        BY <3>8, AlignedType
      <4> QED BY <1>0, <2>2, <2>3, <4>1, <4>2, ReadsTwice
    <3>10. second.want > 0 => Held(second) = <<>> /\ second.inEp = 0
      <4> SUFFICES ASSUME second.want > 0 PROVE Held(second) = <<>> /\ second.inEp = 0
        OBVIOUS
      <4>1. /\ third.want > 0 /\ second.xy = third.xy /\ second.full = third.full
            /\ second.inEp = third.inEp
        BY <3>5 DEF SameBytes, SameBuffers
      <4>2. /\ third.xy = e.xy /\ third.inEp = 0 /\ ~third.full[first.xy]
            /\ ~third.full[e.xy] /\ Other(e.xy) = first.xy
        BY <1>0, <2>2, <3>2, <3>3, <4>1
      <4> QED BY <3>8, <4>1, <4>2, NothingHeld
    <3> QED BY <3>1, <3>8, <3>9, <3>10
  <2> QED BY <2>5, <2>6
<1> QED BY <1>4, <1>5

\* "read rest of data from buffer", then the other buffer.
LEMMA RestContent ==
  ASSUME NEW e \in Record, e.inEp > 0, Toggles(e), Rest(e, e.xy), e.ct1 = e.xy,
         e.ct2 \in Buf, e.dst + e.want <= MemSize, NEW r, r = ReadRest(e)
  PROVE  Aligned(r) /\ Reads(e, r) /\ (r.want > 0 => r.inEp = 0)
<1> DEFINE rest == CopyUsbToBuff(e, e.pos, e.ct1)
           next == OtherBuffer(rest)
<1>0. /\ e.xy \in Buf /\ Other(e.xy) \in Buf /\ Other(Other(e.xy)) = e.xy
      /\ e.pos \in [buf : Buf, off : Nat] /\ e.pos.buf = e.xy /\ e.full[e.xy]
      /\ e.pos.off + e.inEp = Len(e.data[e.xy]) /\ e.inEp \in Nat /\ e.want \in Nat
  BY BufFacts DEF Record, Rest
<1>1. Sound(r)
  BY ReadRestSound
<1>2. Reads(e, rest)
  BY RestReads
<1>3. /\ rest \in Record /\ SameRest(rest, e) /\ rest.ct1 = e.ct1
      /\ ReadWhole(e, e.inEp, rest, e.pos) \/ ReadPart(e, e.inEp, rest, e.pos)
  BY <1>0, CopyFacts
<1>4. r = IF rest.want = 0 THEN rest
          ELSE IF next.full[next.ct1] THEN ReadBuffer(next, next.ct1) ELSE next
  BY DEF ReadRest
<1> HIDE DEF rest
<1>5. /\ Toggles(rest)
      /\ rest.inEp > 0 => rest.xy = e.xy /\ rest.want = 0
      /\ rest.want > 0 => rest.xy = Other(e.xy) /\ rest.inEp = 0 /\ ~rest.full[e.xy]
  BY <1>0, <1>3, CurrentRead
<1>6. rest.want \in Nat /\ rest.dst + rest.want <= MemSize
  BY <1>2, <1>3, RoomKept DEF Record
<1>7. CASE rest.want = 0
  <2>1. r = rest
    BY <1>4, <1>7
  <2> QED BY <1>1, <1>2, <1>3, <1>5, <1>7, <2>1 DEF Aligned
<1>8. CASE rest.want # 0
  <2>1. rest.want > 0 /\ rest.xy = Other(e.xy) /\ rest.inEp = 0 /\ rest.ct1 = e.xy
    BY <1>3, <1>5, <1>6, <1>8
  <2>2. SameBytes(next, rest) /\ next.ct1 = rest.xy
    BY <1>0, <1>3, <2>1, OtherBufferFacts DEF SameBytes, SameBuffers, SameRest
  <2> HIDE DEF next
  <2>3. Toggles(next) /\ next \in Record /\ next.dst + next.want <= MemSize
    BY <1>3, <1>5, <1>6, <2>2, Unmoved DEF SameBytes, SameBuffers
  <2>4. CASE next.full[next.ct1]
    <3>1. next.xy = next.ct1 /\ next.inEp = 0 /\ next.xy = Other(e.xy)
      BY <2>1, <2>2 DEF SameBytes, SameBuffers
    <3>2. r = ReadBuffer(next, next.xy)
      BY <1>4, <1>8, <2>4, <3>1
    <3>3. /\ r \in Record /\ Toggles(r) /\ r.ct1 = next.ct1
          /\ r.inEp > 0 => r.xy = next.xy
          /\ r.want > 0 => r.inEp = 0
      BY <2>3, <2>4, <3>1, <3>2, FreshRead
    <3>4. Aligned(r)
      BY <1>1, <3>1, <3>3 DEF Aligned
    <3>5. Reads(next, r)
      BY <2>3, <2>4, <3>1, <3>2, BufferReads
    <3>6. Reads(rest, r)
      BY <1>3, <2>2, <3>5, ReadsFrom
    <3>7. Reads(e, r)
      BY <1>2, <1>3, <3>4, <3>6, AlignedType, ReadsTwice
    <3> QED BY <3>3, <3>4, <3>7
  <2>5. CASE ~next.full[next.ct1]
    <3>1. r = next
      BY <1>4, <1>8, <2>5
    <3>2. r.inEp = 0
      BY <2>1, <2>2, <3>1 DEF SameBytes, SameBuffers
    <3>3. Aligned(r)
      BY <1>1, <2>3, <3>1, <3>2 DEF Aligned
    <3> QED BY <1>2, <1>3, <2>2, <3>1, <3>2, <3>3, ReadsTo
  <2> QED BY <2>4, <2>5
<1> QED BY <1>6, <1>7, <1>8

\* pUserBuffer stays while a receive reads.
LEMMA OpenKept ==
  ASSUME NEW e \in Record, e.xy \in Buf
  PROVE  /\ ReadFresh(e).open = e.open
         /\ Rest(e, e.ct1) /\ e.ct1 \in Buf => ReadRest(e).open = e.open
<1>1. ReadFresh(e).open = e.open
  <2> DEFINE d == [PointAt(e, e.xy) EXCEPT !.pos = Start(e.xy)]
             first == ReadBuffer(d, e.xy)
             third == ReadBuffer(first, first.ct2)
             second == SecondRead(third)
  <2>0. Start(e.xy) \in [buf : Buf, off : Nat] /\ Other(e.xy) \in Buf
    BY BufFacts DEF Start
  <2>1. d \in Record /\ d.open = e.open /\ d.ct2 = Other(e.xy)
    <3>1. /\ PointAt(e, e.xy) \in Record /\ SameRest(PointAt(e, e.xy), e)
          /\ PointAt(e, e.xy).ct2 = Other(e.xy)
      BY PointAtFacts
    <3> QED BY <2>0, <3>1, PosFacts DEF SameRest
  <2>2. ReadFresh(e) = CASE ~e.full[e.xy] -> e
            [] e.full[e.xy] /\ (first.want = 0 \/ ~first.full[first.ct2]) -> first
            [] OTHER -> second
    BY DEF ReadFresh
  <2> HIDE DEF d
  <2>3. first \in Record /\ first.open = d.open /\ first.ct2 \in Buf
    BY <2>0, <2>1, ReadBufferFacts, SMTT(60) DEF SameRest
  <2> HIDE DEF first
  <2>4. third \in Record /\ third.open = first.open
    BY <2>3, ReadBufferFacts DEF SameRest
  <2> HIDE DEF third
  <2>5. second.open = third.open
    BY <2>4, SecondReadFacts DEF SameRest
  <2> HIDE DEF second
  <2>6. ReadFresh(e) = e \/ ReadFresh(e) = first \/ ReadFresh(e) = second
    BY <2>2
  <2> QED BY <2>1, <2>3, <2>4, <2>5, <2>6
<1>2. ASSUME Rest(e, e.ct1), e.ct1 \in Buf PROVE ReadRest(e).open = e.open
  <2> DEFINE rest == CopyUsbToBuff(e, e.pos, e.ct1)
             next == OtherBuffer(rest)
  <2>1. rest \in Record /\ rest.open = e.open /\ rest.ct1 = e.ct1
    <3>1. e.pos \in [buf : Buf, off : Nat] /\ e.ct1 = e.pos.buf
      BY <1>2 DEF Record, Rest
    <3> QED BY <1>2, <3>1, CopyFacts DEF Rest, SameRest
  <2>2. ReadRest(e) = IF rest.want = 0 THEN rest
            ELSE IF next.full[next.ct1] THEN ReadBuffer(next, next.ct1) ELSE next
    BY DEF ReadRest
  <2> HIDE DEF rest
  <2>3. next \in Record /\ next.open = rest.open /\ next.ct1 \in Buf
    BY <1>2, <2>1, BufFacts, OtherBufferFacts DEF SameRest
  <2> HIDE DEF next
  <2>4. ReadBuffer(next, next.ct1).open = next.open
    BY <2>3, ReadBufferFacts DEF SameRest
  <2> QED BY <2>1, <2>2, <2>3, <2>4
<1> QED BY <1>1, <1>2

\* USBHID_receiveData and USBCDC_receiveData with size bytes for address at: the
\* oldest bytes held are there, all that was asked for or all there are, and
\* the rest stays held.
LEMMA ReceiveContent ==
  ASSUME NEW e, Aligned(e), NEW at \in Nat, NEW size \in Nat, at + size <= MemSize,
         NEW r, r = ReceiveData(e, at, size)
  PROVE  /\ Aligned(r) /\ Takes(Begin(e, at, size), Held(e), r)
         /\ r.want > 0 => Held(r) = <<>> /\ r.open
         /\ r.want = 0 => ~r.open
<1> DEFINE begun == Begin(e, at, size)
           rest  == IF begun.inEp > 0 THEN ReadRest(begun) ELSE begun
           last  == IF rest.want = 0 THEN rest ELSE ReadFresh(rest)
<1>0. e \in Record /\ Held(e) \in Seq(Nat) /\ e.inEp \in Nat
  BY AlignedType
<1>1. /\ SameBuffers(begun, e) /\ begun.want = size /\ begun.dst = at
      /\ begun.ct1 = e.ct1 /\ begun.ct2 = e.ct2 /\ begun.pos = e.pos /\ begun.open
  BY <1>0, BeginFacts DEF SameBuffers
<1> HIDE DEF begun
<1>2. Toggles(begun) /\ begun \in Record /\ Held(begun) = Held(e)
      /\ begun.dst + begun.want <= MemSize
  BY <1>0, <1>1, Unmoved, HeldSame DEF Aligned, SameBuffers
<1>3. Aligned(rest) /\ Reads(begun, rest) /\ (rest.want > 0 => rest.inEp = 0) /\ rest.open
  <2>1. CASE begun.inEp > 0
    <3>1. Rest(begun, begun.xy) /\ begun.ct1 = begun.xy /\ begun.ct2 \in Buf
      BY <1>1, <2>1 DEF Aligned, Sound, Rest, SameBuffers
    <3>2. rest = ReadRest(begun)
      BY <2>1
    <3> HIDE DEF rest
    <3>3. begun.xy \in Buf /\ begun.open
      BY <1>1, <1>2 DEF Record
    <3>4. rest.open
      BY <1>2, <3>1, <3>2, <3>3, OpenKept
    <3> QED BY <1>2, <2>1, <3>1, <3>2, <3>4, RestContent
  <2>2. CASE ~(begun.inEp > 0)
    <3>1. rest = begun /\ begun.inEp = 0
      BY <1>0, <1>1, <2>2 DEF SameBuffers
    <3> HIDE DEF rest
    <3>2. Aligned(begun)
      BY <1>2, <2>2 DEF Sound, Aligned
    <3>3. SameBytes(begun, begun)
      BY <1>2 DEF SameBytes, SameBuffers
    <3> QED BY <1>0, <1>1, <1>2, <3>1, <3>2, <3>3, NoneTaken
  <2> QED BY <2>1, <2>2
<1>4. r = Close(last)
  BY DEF ReceiveData, begun
<1> HIDE DEF rest
<1>5. rest \in Record /\ rest.want \in Nat /\ rest.dst + rest.want <= MemSize
  BY <1>2, <1>3, AlignedType, RoomKept
<1>6. /\ Aligned(last) /\ Reads(begun, last)
      /\ last.want > 0 => Held(last) = <<>> /\ last.open
  <2>1. CASE rest.want = 0
    BY <1>3, <2>1
  <2>2. CASE rest.want # 0
    <3>1. last = ReadFresh(rest) /\ rest.inEp = 0
      BY <1>3, <1>5, <2>2
    <3> HIDE DEF last
    <3>2. Aligned(last) /\ Reads(rest, last) /\ (last.want > 0 => Held(last) = <<>>)
      BY <1>3, <1>5, <3>1, FreshContent
    <3>3. Reads(begun, last)
      BY <1>2, <1>3, <1>5, <3>2, AlignedType, ReadsTwice
    <3>4. last.open
      BY <1>3, <1>5, <3>1, OpenKept DEF Record
    <3> QED BY <3>2, <3>3, <3>4
  <2> QED BY <2>1, <2>2
<1> HIDE DEF last
<1>7. last \in Record /\ last.want \in Nat
  BY <1>6, AlignedType
<1>8. /\ SameBytes(r, last) /\ r.ct1 = last.ct1 /\ (last.want = 0 => ~r.open)
      /\ (last.want # 0 => r.open = last.open)
  BY <1>4, <1>7, CloseFacts DEF SameBytes, SameBuffers
<1>9. Sound(r)
  BY <1>4, <1>6, CloseSound DEF Aligned
<1>10. Toggles(r)
  BY <1>6, <1>7, <1>8, Unmoved DEF Aligned, SameBytes
<1>11. Aligned(r)
  BY <1>6, <1>8, <1>9, <1>10 DEF Aligned, SameBytes, SameBuffers
<1>12. Reads(begun, r)
  BY <1>6, <1>7, <1>8, ReadsTo
<1>13. Held(r) = Held(last)
  BY <1>7, <1>8, HeldSame DEF SameBytes
<1>14. r.want = last.want /\ r.want \in Nat
  BY <1>7, <1>8 DEF SameBytes
<1>15. Takes(Begin(e, at, size), Held(e), r)
  BY <1>2, <1>12 DEF Reads, begun
<1> QED BY <1>6, <1>8, <1>11, <1>13, <1>14, <1>15

\* A reset forgets what the endpoint holds.
LEMMA ResetContent ==
  ASSUME NEW m \in [0..MemSize-1 -> Nat], NEW r, r = ResetData(m)
  PROVE  /\ Aligned(r) /\ Held(r) = <<>>
         /\ ~r.open /\ r.want = 0 /\ r.dst = 0 /\ r.mem = m
<1>1. Sound(r)
  BY ResetSound
<1>2. /\ Toggles(r) /\ r.inEp = 0 /\ ~r.open /\ r.want = 0 /\ r.dst = 0 /\ r.mem = m
      /\ ~r.full[r.xy] /\ ~r.full[Other(r.xy)]
  BY DEF ResetData, Toggles, Buf, Other
<1>3. Aligned(r)
  BY <1>1, <1>2 DEF Aligned
<1> QED BY <1>2, <1>3, NothingHeld

\* The application empties its buffer.
LEMMA EmptyContent ==
  ASSUME NEW e, Aligned(e), NEW r, r = [e EXCEPT !.mem = Cleared]
  PROVE  /\ Aligned(r) /\ Held(r) = Held(e) /\ r.open = e.open /\ r.want = e.want
         /\ r.mem = Cleared
<1>1. e \in Record /\ Sound(r)
  BY EmptySound DEF Aligned, Sound
<1>2. /\ SameBuffers(r, e) /\ r.ct1 = e.ct1 /\ r.open = e.open /\ r.pos = e.pos
      /\ r.want = e.want /\ r.mem = Cleared
  BY <1>1 DEF SameBuffers, Record, Sound
<1>3. Toggles(r)
  BY <1>1, <1>2, Unmoved DEF Aligned
<1>4. Held(r) = Held(e)
  BY <1>1, <1>2, HeldSame
<1> QED BY <1>1, <1>2, <1>3, <1>4 DEF Aligned, SameBuffers

\* A packet goes behind what is held.
LEMMA AcceptContent ==
  ASSUME NEW e, Aligned(e), CanAccept(e), NEW packet \in Seq(Nat), NEW r, r = Accept(e, packet)
  PROVE  /\ Aligned(r) /\ Held(r) = Held(e) \o packet
         /\ r.open = e.open /\ r.want = e.want /\ r.mem = e.mem /\ r.dst = e.dst
         /\ r.ct2 = e.ct2
<1>0. /\ e \in Record /\ e.hw \in Buf /\ e.xy \in Buf /\ e.full \in [Buf -> BOOLEAN]
      /\ e.data \in [Buf -> Seq(Nat)] /\ e.inEp \in Nat /\ ~e.full[e.hw]
      /\ Other(e.xy) \in Buf /\ Other(e.xy) # e.xy /\ Other(Other(e.xy)) = e.xy
      /\ (e.hw = e.xy \/ e.hw = Other(e.xy))
  BY BufFacts DEF Aligned, Sound, Record, CanAccept
<1>1. Sound(r)
  BY AcceptSound DEF Aligned
<1>2. r = [e EXCEPT !.full[e.hw] = TRUE, !.data[e.hw] = packet, !.hw = Other(e.hw)]
  BY DEF Accept
<1>3. /\ r.full = [e.full EXCEPT ![e.hw] = TRUE] /\ r.data = [e.data EXCEPT ![e.hw] = packet]
      /\ r.ct1 = e.ct1 /\ r.ct2 = e.ct2 /\ r.inEp = e.inEp /\ r.xy = e.xy /\ r.pos = e.pos
      /\ r.hw = Other(e.hw) /\ r.open = e.open /\ r.want = e.want /\ r.mem = e.mem
      /\ r.dst = e.dst
  BY <1>0, <1>2 DEF Record
<1>4. Toggles(e) /\ (e.inEp > 0 => e.full[e.xy] /\ e.pos.buf = e.xy)
  BY DEF Aligned, Sound, Rest
<1>5. /\ Held(e) = Current(e) \o Packet(e, Other(e.xy)) /\ Held(e) \in Seq(Nat)
      /\ Held(r) = Current(r) \o Packet(r, Other(e.xy))
      /\ Current(e) \in Seq(Nat) /\ <<>> \in Seq(Nat)
  <2>1. Held(r) = Current(r) \o Packet(r, Other(r.xy))
    BY DEF Held, Current, Packet
  <2> QED BY <1>3, <2>1, AlignedType, HeldParts
<1>6. CASE e.hw = e.xy
  <2>1. ~e.full[e.xy] /\ ~e.full[Other(e.xy)] /\ e.inEp = 0
    BY <1>0, <1>4, <1>6 DEF Toggles
  <2>2. /\ r.full[r.xy] /\ ~r.full[Other(r.xy)] /\ r.hw = Other(r.xy)
        /\ r.data[r.xy] = packet
    BY <1>0, <1>3, <1>6, <2>1
  <2>3. Toggles(r)
    BY <2>2 DEF Toggles
  <2>4. Current(r) = packet /\ Packet(r, Other(e.xy)) = <<>>
    BY <1>3, <2>1, <2>2 DEF Current, Packet
  <2>5. Held(e) = <<>>
    BY <2>1, NothingHeld
  <2>6. packet \o <<>> = packet /\ <<>> \o packet = packet
    BY ConcatEmptySeq
  <2>7. Held(r) = Held(e) \o packet
    BY <1>5, <2>4, <2>5, <2>6
  <2> QED BY <1>1, <1>3, <2>1, <2>3, <2>7 DEF Aligned
<1>7. CASE e.hw = Other(e.xy)
  <2>1. e.full[e.xy] /\ ~e.full[Other(e.xy)]
    BY <1>0, <1>4, <1>7 DEF Toggles
  <2>2. /\ r.full[r.xy] /\ r.full[Other(r.xy)] /\ r.hw = r.xy
        /\ r.data[r.xy] = e.data[e.xy] /\ r.data[Other(e.xy)] = packet
    BY <1>0, <1>3, <1>7, <2>1
  <2>3. Toggles(r)
    BY <2>2 DEF Toggles
  <2>4. Packet(r, Other(e.xy)) = packet /\ Packet(e, Other(e.xy)) = <<>>
    BY <1>3, <2>1, <2>2 DEF Packet
  <2>5. Current(r) = Current(e)
    BY <1>3, <1>4, <2>1, <2>2 DEF Current, Packet
  <2>6. Current(e) \o <<>> = Current(e)
    BY <1>5, ConcatEmptySeq
  <2>7. Held(r) = Held(e) \o packet
    BY <1>5, <2>4, <2>5, <2>6
  <2> QED BY <1>1, <1>3, <2>3, <2>7 DEF Aligned
<1> QED BY <1>0, <1>6, <1>7
===============================================================================
