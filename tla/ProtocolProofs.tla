--------------------------- MODULE ProtocolProofs ---------------------------
(***************************************************************************)
(* The two protocols the host speaks with the device.                      *)
(*                                                                         *)
(* The USB Blaster protocol, for buffers and shifts of every size and      *)
(* streams of every length: buffers cut anywhere, results written over the *)
(* input, and pins that go to the SPI unit and back make no difference to  *)
(* the JTAG chain or to the host.                                          *)
(*                                                                         *)
(* Control transfers on endpoint 0, for packets and descriptors of every   *)
(* size and any number of transfers: the host knows the settings, and a    *)
(* read brings what was asked for.                                         *)
(***************************************************************************)
EXTENDS UsbBlaster, UsbControl, SequenceTheorems, TLAPS

Level == Nat
Result == [tdo : Nat]
Cell == Byte \cup Result
Port == [tck : Level, tdi : Level, sel : BOOLEAN, sck : Level, simo : Level,
         clocks : Seq(Level)]
Device == [left : Nat, read : BOOLEAN, tck : Level, clocks : Seq(Level),
           out : Seq(Cell)]

BlasterTypes ==
  /\ bytes_to_shift \in Nat /\ read \in BOOLEAN
  /\ buf \in Seq(Cell) /\ len \in Nat
  /\ i \in Nat /\ o \in Nat /\ ret \in Nat /\ done \in Nat
  /\ port \in Port
  /\ stream \in Seq(Byte) /\ returned \in Seq(Cell)
  /\ ref \in Device

\* The input not used yet is still what the host sent, and the results have
\* room before it.
InputKept ==
  /\ len = Len(buf) /\ len <= Len(stream)
  /\ i + ret <= len /\ o <= i /\ done <= ret /\ ret <= bytes_to_shift
  /\ \A k \in 1..len : k > i + done => buf[k] = stream[Len(stream) - len + k]

\* The device without buffers is where this one is, pin by pin: TCK is compared
\* only when a shift has not just taken the pins.
InStep ==
  /\ ref.left = bytes_to_shift - done /\ ref.read = read
  /\ ref.clocks = port.clocks
  /\ port.sel <=> ret > 0
  /\ ret > 0 => port.sck = 0
  /\ ret = 0 \/ done > 0 => ref.tck = TckLevel(port)
  /\ ref.out = returned \o SubSeq(buf, 1, Produced(done))

BlasterInv == BlasterTypes /\ InputKept /\ InStep
-----------------------------------------------------------------------------
(* The pins.                                                               *)

LEMMA BitType == ASSUME NEW b \in Byte PROVE Tck(b) \in Level /\ Tdi(b) \in Level
BY SizeAssumption DEF Byte, Tck, Tdi, Bit, Level

\* A change of a port that is no rise of TCK is no clock.
LEMMA SeenType ==
  ASSUME NEW p \in Port, NEW q \in Port
  PROVE  /\ Seen(p, q) \in Port
         /\ Seen(p, q) = [q EXCEPT !.clocks = Seen(p, q).clocks]
         /\ Seen(p, q).clocks =
              IF TckLevel(p) = 0 /\ TckLevel(q) = 1 THEN Append(q.clocks, TdiLevel(q))
              ELSE q.clocks
<1>1. CASE TckLevel(p) = 0 /\ TckLevel(q) = 1
  <2>1. TdiLevel(q) \in Level
    BY DEF TdiLevel, Port
  <2>2. Seen(p, q) = [q EXCEPT !.clocks = Append(q.clocks, TdiLevel(q))]
    BY <1>1 DEF Seen
  <2>3. Append(q.clocks, TdiLevel(q)) \in Seq(Level)
    BY <2>1 DEF Port
  <2> QED BY <1>1, <2>2, <2>3 DEF Port
<1>2. CASE ~(TckLevel(p) = 0 /\ TckLevel(q) = 1)
  <2>1. Seen(p, q) = q
    BY <1>2 DEF Seen
  <2> QED BY <1>2, <2>1 DEF Port
<1> QED BY <1>1, <1>2

\* The SPI unit takes the pins with its clock low: no clock.
LEMMA SpiOnClocks ==
  ASSUME NEW p \in Port
  PROVE  /\ SpiOn(p) \in Port
         /\ SpiOn(p).sel /\ SpiOn(p).sck = 0
         /\ SpiOn(p).clocks = p.clocks
<1> DEFINE q == [p EXCEPT !.sel = TRUE, !.sck = 0]
<1>1. q \in Port /\ q.sel /\ q.sck = 0 /\ q.clocks = p.clocks /\ TckLevel(q) = 0
  BY DEF Port, Level, TckLevel
<1>2. SpiOn(p) = Seen(p, q)
  BY DEF SpiOn
<1> HIDE DEF q
<1> QED BY <1>1, <1>2 DEF Seen

\* A byte is its bits as clocks, and leaves TCK low.
LEMMA SpiByteClocks ==
  ASSUME NEW p \in Port, NEW b \in Byte, p.sel, p.sck = 0
  PROVE  /\ SpiByte(p, b) \in Port
         /\ SpiByte(p, b).sel /\ SpiByte(p, b).sck = 0
         /\ SpiByte(p, b).clocks = p.clocks \o Bits(b)
<1> DEFINE Up(q, bit) == [q EXCEPT !.sck = 1, !.simo = bit]
           Clock(q, bit) == [Seen(q, Up(q, bit)) EXCEPT !.sck = 0]
<1>1. ASSUME NEW q \in Port, NEW bit \in Level, q.sel, q.sck = 0
      PROVE  /\ Clock(q, bit) \in Port
             /\ Clock(q, bit).sel /\ Clock(q, bit).sck = 0
             /\ Clock(q, bit).clocks = Append(q.clocks, bit)
  <2>1. /\ Up(q, bit) \in Port
        /\ TckLevel(q) = 0 /\ TckLevel(Up(q, bit)) = 1 /\ TdiLevel(Up(q, bit)) = bit
        /\ Up(q, bit).clocks = q.clocks /\ Up(q, bit).sel
    BY <1>1 DEF Port, Level, TckLevel, TdiLevel
  <2>2. Seen(q, Up(q, bit)) = [Up(q, bit) EXCEPT !.clocks = Append(@, bit)]
    BY <2>1 DEF Seen
  <2>4. Append(q.clocks, bit) \in Seq(Level)
    BY <1>1 DEF Port
  <2>3. Seen(q, Up(q, bit)) \in Port /\ Seen(q, Up(q, bit)).sel
        /\ Seen(q, Up(q, bit)).clocks = Append(q.clocks, bit)
    <3> DEFINE up == Up(q, bit)
               cs == Append(q.clocks, bit)
    <3>1. up \in Port /\ up.sel /\ cs \in Seq(Level) /\ Seen(q, up) = [up EXCEPT !.clocks = cs]
      BY <2>1, <2>2, <2>4
    <3> HIDE DEF up, cs
    <3>2. Seen(q, up) \in Port /\ Seen(q, up).sel /\ Seen(q, up).clocks = cs
      BY <3>1 DEF Port
    <3> QED BY <3>2 DEF up, cs
  <2> HIDE DEF Up
  <2> QED BY <2>3 DEF Port, Level
<1>2. SpiByte(p, b) = Clock(Clock(p, Bit(b, 1)), Bit(b, 2))
  BY DEF SpiByte
<1>3. Bit(b, 1) \in Level /\ Bit(b, 2) \in Level
  BY BitType DEF Tck, Tdi
<1> HIDE DEF Clock
<1>4. /\ Clock(p, Bit(b, 1)) \in Port /\ Clock(p, Bit(b, 1)).sel
      /\ Clock(p, Bit(b, 1)).sck = 0
      /\ Clock(p, Bit(b, 1)).clocks = Append(p.clocks, Bit(b, 1))
  BY <1>1, <1>3
<1>5. /\ SpiByte(p, b) \in Port /\ SpiByte(p, b).sel /\ SpiByte(p, b).sck = 0
      /\ SpiByte(p, b).clocks = Append(Append(p.clocks, Bit(b, 1)), Bit(b, 2))
  <2> DEFINE q == Clock(p, Bit(b, 1))
  <2>1. q \in Port /\ q.sel /\ q.sck = 0 /\ q.clocks = Append(p.clocks, Bit(b, 1))
    BY <1>4
  <2>2. SpiByte(p, b) = Clock(q, Bit(b, 2))
    BY <1>2
  <2> HIDE DEF q
  <2>3. /\ Clock(q, Bit(b, 2)) \in Port
        /\ Clock(q, Bit(b, 2)).sel /\ Clock(q, Bit(b, 2)).sck = 0
        /\ Clock(q, Bit(b, 2)).clocks = Append(q.clocks, Bit(b, 2))
    BY <1>1, <1>3, <2>1
  <2> QED BY <2>1, <2>2, <2>3
<1>6. Append(Append(p.clocks, Bit(b, 1)), Bit(b, 2)) = p.clocks \o Bits(b)
  <2>1. ASSUME NEW s \in Seq(Nat), NEW x \in Nat, NEW y \in Nat
        PROVE  Append(Append(s, x), y) = s \o <<x, y>>
    <3>1. /\ Append(Append(s, x), y) \in Seq(Nat) /\ s \o <<x, y>> \in Seq(Nat)
          /\ Len(Append(Append(s, x), y)) = Len(s \o <<x, y>>)
      OBVIOUS
    <3>2. ASSUME NEW k \in 1..Len(Append(Append(s, x), y))
          PROVE  Append(Append(s, x), y)[k] = (s \o <<x, y>>)[k]
      OBVIOUS
    <3> QED BY <3>1, <3>2, SeqEqual
  <2>2. p.clocks \in Seq(Nat)
    BY DEF Port, Level
  <2> QED BY <2>1, <2>2, <1>3 DEF Bits, Level
<1> QED BY <1>5, <1>6

\* P4OUT takes over the levels of the pins before they are given back: no clock.
LEMMA SpiOffClocks ==
  ASSUME NEW p \in Port, p.sel
  PROVE  /\ SpiOff(p) \in Port
         /\ ~SpiOff(p).sel
         /\ SpiOff(p).clocks = p.clocks
         /\ TckLevel(SpiOff(p)) = TckLevel(p)
<1> DEFINE held == [p EXCEPT !.tck = TckLevel(p), !.tdi = TdiLevel(p)]
           q == [held EXCEPT !.sel = FALSE]
<1>1. /\ held \in Port /\ q \in Port /\ ~q.sel /\ q.clocks = p.clocks
      /\ TckLevel(held) = TckLevel(p) /\ TckLevel(q) = TckLevel(p)
  BY DEF Port, Level, TckLevel, TdiLevel
<1>2. SpiOff(p) = Seen(held, q)
  BY DEF SpiOff
<1> HIDE DEF held, q
<1> QED BY <1>1, <1>2 DEF Seen

\* A pins command sets TCK, and is a clock if that raises it.
LEMMA SetPinsClocks ==
  ASSUME NEW p \in Port, NEW b \in Byte, ~p.sel
  PROVE  /\ SetPins(p, b) \in Port
         /\ ~SetPins(p, b).sel
         /\ TckLevel(SetPins(p, b)) = Tck(b)
         /\ SetPins(p, b).clocks =
              IF TckLevel(p) = 0 /\ Tck(b) = 1 THEN Append(p.clocks, Tdi(b))
              ELSE p.clocks
<1> DEFINE q == [p EXCEPT !.tck = Tck(b), !.tdi = Tdi(b)]
<1>0. Tck(b) \in Level /\ Tdi(b) \in Level
  BY BitType
<1>1. /\ q \in Port /\ ~q.sel /\ q.clocks = p.clocks
      /\ TckLevel(q) = Tck(b) /\ TdiLevel(q) = Tdi(b)
  BY <1>0 DEF Port, TckLevel, TdiLevel
<1>2. SetPins(p, b) = Seen(p, q)
  BY DEF SetPins
<1> HIDE DEF q
<1>3. /\ SetPins(p, b) \in Port
      /\ SetPins(p, b) = [q EXCEPT !.clocks = SetPins(p, b).clocks]
      /\ SetPins(p, b).clocks =
           IF TckLevel(p) = 0 /\ Tck(b) = 1 THEN Append(p.clocks, Tdi(b)) ELSE p.clocks
  BY <1>1, <1>2, SeenType
<1>4. TckLevel(SetPins(p, b)) = Tck(b) /\ ~SetPins(p, b).sel
  BY <1>1, <1>3 DEF TckLevel, Port
<1> QED BY <1>3, <1>4
-----------------------------------------------------------------------------
(* The device without buffers, field by field.                             *)

\* A byte of a shift: one byte less, a clock for each bit, TCK low, and TDO if
\* the shift was asked for its results.
LEMMA BlasterShifts ==
  ASSUME NEW s \in Device, NEW b \in Byte, s.left > 0
  PROVE  /\ Blaster(s, b) \in Device
         /\ Blaster(s, b).left = s.left - 1 /\ Blaster(s, b).read = s.read
         /\ Blaster(s, b).tck = 0 /\ Blaster(s, b).clocks = s.clocks \o Bits(b)
         /\ Blaster(s, b).out =
              IF s.read THEN Append(s.out, Sample(Len(s.clocks))) ELSE s.out
<1> DEFINE cs == s.clocks \o Bits(b)
           os == IF s.read THEN Append(s.out, Sample(Len(s.clocks))) ELSE s.out
<1>1. Blaster(s, b) = [s EXCEPT !.left = s.left - 1, !.tck = 0, !.clocks = cs,
                                !.out = os]
  BY DEF Blaster
<1>2. cs \in Seq(Level)
  BY BitType DEF Bits, Device, Tck, Tdi
<1>3. os \in Seq(Cell)
  <2>1. Sample(Len(s.clocks)) \in Cell
    BY DEF Sample, Cell, Result, Device
  <2> QED BY <2>1 DEF Device
<1>4. s.left - 1 \in Nat /\ 0 \in Level
  BY DEF Device, Level
<1> HIDE DEF cs, os
<1>5. /\ Blaster(s, b) \in Device
      /\ Blaster(s, b).left = s.left - 1 /\ Blaster(s, b).read = s.read
      /\ Blaster(s, b).tck = 0 /\ Blaster(s, b).clocks = cs /\ Blaster(s, b).out = os
  BY <1>1, <1>2, <1>3, <1>4 DEF Device
<1> QED BY <1>5 DEF cs, os

\* Byte mode: so many bytes to come, and a zero if there are none and the
\* command wants a result.
LEMMA BlasterBegins ==
  ASSUME NEW s \in Device, NEW b \in Byte, s.left = 0, b.shift
  PROVE  /\ Blaster(s, b) \in Device
         /\ Blaster(s, b).left = b.low /\ Blaster(s, b).read = b.read
         /\ Blaster(s, b).tck = s.tck /\ Blaster(s, b).clocks = s.clocks
         /\ Blaster(s, b).out =
              IF b.read /\ b.low = 0 THEN Append(s.out, Zero) ELSE s.out
<1> DEFINE os == IF b.read /\ b.low = 0 THEN Append(s.out, Zero) ELSE s.out
<1>1. Blaster(s, b) = [s EXCEPT !.left = b.low, !.read = b.read, !.out = os]
  BY DEF Blaster, Device
<1>2. os \in Seq(Cell)
  <2>1. Zero \in Cell
    BY DEF Zero, Cell, Result
  <2> QED BY <2>1 DEF Device
<1>3. b.low \in Nat /\ b.read \in BOOLEAN
  BY SizeAssumption DEF Byte
<1> HIDE DEF os
<1>4. /\ Blaster(s, b) \in Device
      /\ Blaster(s, b).left = b.low /\ Blaster(s, b).read = b.read
      /\ Blaster(s, b).tck = s.tck /\ Blaster(s, b).clocks = s.clocks
      /\ Blaster(s, b).out = os
  BY <1>1, <1>2, <1>3 DEF Device
<1> QED BY <1>4 DEF os

\* Pins: a clock if TCK rises, and TDO if the command wants a result.
LEMMA BlasterSetsPins ==
  ASSUME NEW s \in Device, NEW b \in Byte, s.left = 0, ~b.shift
  PROVE  /\ Blaster(s, b) \in Device
         /\ Blaster(s, b).left = 0 /\ Blaster(s, b).read = b.read
         /\ Blaster(s, b).tck = Tck(b)
         /\ Blaster(s, b).clocks =
              IF s.tck = 0 /\ Tck(b) = 1 THEN Append(s.clocks, Tdi(b)) ELSE s.clocks
         /\ Blaster(s, b).out =
              IF b.read THEN Append(s.out, Sample(Len(s.clocks))) ELSE s.out
<1> DEFINE cs == IF s.tck = 0 /\ Tck(b) = 1 THEN Append(s.clocks, Tdi(b)) ELSE s.clocks
           os == IF b.read THEN Append(s.out, Sample(Len(s.clocks))) ELSE s.out
<1>1. Blaster(s, b) = [s EXCEPT !.read = b.read, !.tck = Tck(b), !.clocks = cs,
                                !.out = os]
  BY DEF Blaster, Device
<1>2. cs \in Seq(Level)
  BY BitType DEF Device
<1>3. os \in Seq(Cell)
  <2>1. Sample(Len(s.clocks)) \in Cell
    BY DEF Sample, Cell, Result, Device
  <2> QED BY <2>1 DEF Device
<1>4. Tck(b) \in Level /\ b.read \in BOOLEAN
  BY BitType DEF Byte
<1> HIDE DEF cs, os
<1>5. /\ Blaster(s, b) \in Device
      /\ Blaster(s, b).left = 0 /\ Blaster(s, b).read = b.read
      /\ Blaster(s, b).tck = Tck(b) /\ Blaster(s, b).clocks = cs
      /\ Blaster(s, b).out = os
  BY <1>1, <1>2, <1>3, <1>4 DEF Device
<1> QED BY <1>5 DEF cs, os
-----------------------------------------------------------------------------
(* The buffer.                                                             *)

\* A result written at its place joins the results before it.
LEMMA ResultJoins ==
  ASSUME NEW S, NEW r \in Seq(S), NEW s \in Seq(S), NEW m \in Nat, m < Len(s), NEW v \in S,
         NEW w, w = [s EXCEPT ![m+1] = v]
  PROVE  /\ w \in Seq(S) /\ Len(w) = Len(s)
         /\ \A k \in 1..Len(s) : k # m + 1 => w[k] = s[k]
         /\ r \o SubSeq(w, 1, m+1) = Append(r \o SubSeq(s, 1, m), v)
<1>1. /\ w \in Seq(S) /\ Len(w) = Len(s) /\ w[m+1] = v
      /\ \A k \in 1..Len(s) : k # m + 1 => w[k] = s[k]
  BY ExceptSeq
<1>2. SubSeq(w, 1, m) = SubSeq(s, 1, m)
  <2>1. /\ SubSeq(w, 1, m) \in Seq(S) /\ Len(SubSeq(w, 1, m)) = m
        /\ SubSeq(s, 1, m) \in Seq(S) /\ Len(SubSeq(s, 1, m)) = m
    BY <1>1
  <2>2. ASSUME NEW k \in 1..m PROVE SubSeq(w, 1, m)[k] = SubSeq(s, 1, m)[k]
    BY <1>1
  <2> QED BY <2>1, <2>2, SeqEqual
<1>3. SubSeq(w, 1, m+1) = SubSeq(w, 1, m) \o <<w[m+1]>>
  BY <1>1, SubSeqRecursiveSecond
<1> DEFINE t == SubSeq(s, 1, m)
<1>4. t \in Seq(S) /\ <<v>> \in Seq(S)
  OBVIOUS
<1>5. SubSeq(w, 1, m+1) = t \o <<v>>
  BY <1>1, <1>2, <1>3
<1> HIDE DEF t
<1>6. r \o (t \o <<v>>) = (r \o t) \o <<v>>
  BY <1>4, ConcatAssociative
<1>7. (r \o t) \o <<v>> = Append(r \o t, v)
  BY <1>4, AppendIsConcat, ConcatProperties
<1> QED BY <1>1, <1>5, <1>6, <1>7 DEF t
-----------------------------------------------------------------------------
(* The steps.                                                              *)

LEMMA InitIInv == Init => BlasterInv
<1> SUFFICES ASSUME Init PROVE BlasterInv
  OBVIOUS
<1> USE DEF Init
<1>1. PICK p \in {JtagInit, PulseTck(JtagInit, 0)} : port = [p EXCEPT !.clocks = <<>>]
  OBVIOUS
<1>2. JtagInit \in Port /\ ~JtagInit.sel
  BY DEF JtagInit, Port, Level
<1>3. PulseTck(JtagInit, 0) \in Port /\ ~PulseTck(JtagInit, 0).sel
  <2> DEFINE down == [JtagInit EXCEPT !.tdi = 0, !.tck = 0]
             low == Seen(JtagInit, down)
             high == Seen(low, [low EXCEPT !.tck = 1])
  <2>1. down \in Port /\ ~down.sel
    BY <1>2 DEF Port, Level
  <2>2. low \in Port /\ ~low.sel
    <3> HIDE DEF down
    <3>1. low \in Port /\ low = [down EXCEPT !.clocks = low.clocks]
      BY <1>2, <2>1, SeenType
    <3> QED BY <2>1, <3>1 DEF Port
  <2>3. [low EXCEPT !.tck = 1] \in Port /\ ~[low EXCEPT !.tck = 1].sel
    <3> HIDE DEF low
    <3> QED BY <2>2 DEF Port, Level
  <2>4. high \in Port /\ ~high.sel
    <3> DEFINE up == [low EXCEPT !.tck = 1]
    <3> HIDE DEF low, up
    <3>1. high \in Port /\ high = [up EXCEPT !.clocks = high.clocks]
      BY <2>2, <2>3, SeenType DEF up
    <3> QED BY <2>3, <3>1 DEF Port, up
  <2> QED BY <2>4 DEF PulseTck
<1>4. port \in Port /\ ~port.sel /\ port.clocks = <<>>
  <2>1. p \in Port /\ ~p.sel
    BY <1>1, <1>2, <1>3
  <2>2. <<>> \in Seq(Level)
    OBVIOUS
  <2> QED BY <1>1, <2>1, <2>2 DEF Port
<1>5. TckLevel(port) \in Level
  BY <1>4 DEF TckLevel, Port
<1>6. BlasterTypes
  <2>1. <<>> \in Seq(Level) /\ <<>> \in Seq(Cell) /\ <<>> \in Seq(Byte)
    OBVIOUS
  <2>2. ref \in Device
    BY <1>5, <2>1 DEF Device
  <2> QED BY <1>4, <2>1, <2>2 DEF BlasterTypes
<1>7. InputKept
  BY DEF InputKept
<1>8. InStep
  <2>1. Produced(done) = 0
    BY DEF Produced
  <2>2. returned \o SubSeq(buf, 1, 0) = <<>>
    OBVIOUS
  <2>3. ref.out = <<>> /\ ref.left = 0 /\ ref.read = read /\ ref.clocks = <<>>
        /\ ref.tck = TckLevel(port)
    OBVIOUS
  <2>4. ref.left = bytes_to_shift - done /\ ~(ret > 0)
    BY <2>3
  <2> QED BY <1>4, <2>1, <2>2, <2>3, <2>4 DEF InStep
<1> QED BY <1>6, <1>7, <1>8 DEF BlasterInv

\* The reference takes the same byte as the code, wherever results have been
\* written.
LEMMA SameByte ==
  ASSUME BlasterInv, i + done < len
  PROVE  /\ buf[i+done+1] = stream[Len(stream) - len + i + done + 1]
         /\ buf[i+done+1] \in Byte
<1>1. i + done + 1 \in 1..len /\ Len(stream) - len + (i + done + 1) \in 1..Len(stream)
  BY DEF BlasterInv, BlasterTypes, InputKept
<1>2. buf[i+done+1] = stream[Len(stream) - len + (i + done + 1)]
  <2>1. i + done + 1 > i + done
    BY DEF BlasterInv, BlasterTypes
  <2>2. \A k \in 1..len : k > i + done => buf[k] = stream[Len(stream) - len + k]
    BY DEF BlasterInv, InputKept
  <2> QED BY <1>1, <2>1, <2>2
<1>3. Len(stream) - len + (i + done + 1) = Len(stream) - len + i + done + 1
  BY DEF BlasterInv, BlasterTypes
<1> QED BY <1>1, <1>2, <1>3 DEF BlasterInv, BlasterTypes

LEMMA NextBufferStep == ASSUME BlasterInv, NextBuffer PROVE BlasterInv'
<1> USE DEF NextBuffer
<1>1. PICK n \in 1..BufSize : \E b \in [1..n -> Byte] :
        buf' = b /\ len' = n /\ stream' = stream \o b
  OBVIOUS
<1>2. PICK b \in [1..n -> Byte] : buf' = b /\ len' = n /\ stream' = stream \o b
  BY <1>1
<1>3. n \in Nat /\ b \in Seq(Byte) /\ Len(b) = n
  BY SizeAssumption
<1>4. b \in Seq(Cell)
  BY <1>3 DEF Cell
<1>5. done = 0 /\ ret = 0
  BY DEF BlasterInv, BlasterTypes, InputKept
<1>6. returned' \in Seq(Cell)
  <2>1. SubSeq(buf, 1, o) \in Seq(Cell)
    BY DEF BlasterInv, BlasterTypes, InputKept
  <2> QED BY <2>1 DEF BlasterInv, BlasterTypes
<1>7. /\ stream' \in Seq(Byte) /\ Len(stream') = Len(stream) + n
      /\ \A k \in 1..n : stream'[Len(stream) + k] = b[k]
  BY <1>2, <1>3 DEF BlasterInv, BlasterTypes
<1>8. BlasterTypes'
  BY <1>2, <1>3, <1>4, <1>6, <1>7 DEF BlasterInv, BlasterTypes
<1>9. InputKept'
  <2>1. \A k \in 1..n : buf'[k] = stream'[Len(stream') - n + k]
    <3>1. Len(stream') - n = Len(stream)
      BY <1>3, <1>7 DEF BlasterInv, BlasterTypes
    <3> QED BY <1>2, <1>7, <3>1
  <2>2. len' = Len(buf') /\ len' <= Len(stream')
    BY <1>2, <1>3, <1>7 DEF BlasterInv, BlasterTypes
  <2> QED BY <1>2, <1>3, <1>5, <2>1, <2>2 DEF InputKept, BlasterInv, BlasterTypes
<1>10. InStep'
  <2>1. Produced(done) = o /\ Produced(done)' = 0
    BY <1>5 DEF Produced, BlasterInv, BlasterTypes
  <2>2. returned' \o SubSeq(buf', 1, 0) = returned'
    BY <1>6, ConcatEmptySeq, SubSeqEmpty
  <2>3. (returned \o SubSeq(buf, 1, Produced(done)))' = ref.out
    BY <2>1, <2>2 DEF BlasterInv, InStep
  <2> QED BY <2>3, <1>5 DEF BlasterInv, InStep, TckLevel
<1> QED BY <1>8, <1>9, <1>10 DEF BlasterInv

LEMMA StartShiftStep == ASSUME BlasterInv, StartShift PROVE BlasterInv'
<1> USE DEF StartShift
<1>1. /\ port' \in Port /\ port'.sel /\ port'.sck = 0 /\ port'.clocks = port.clocks
  BY SpiOnClocks DEF BlasterInv, BlasterTypes
<1>2. ret' \in Nat \ {0} /\ i + ret' <= len /\ ret' <= bytes_to_shift /\ done = 0
  BY DEF ShiftSize, SmallerOf, BlasterInv, BlasterTypes, InputKept
<1>3. BlasterTypes'
  BY <1>1, <1>2 DEF BlasterInv, BlasterTypes
<1>4. InputKept'
  BY <1>2 DEF BlasterInv, InputKept, BlasterTypes
<1>5. InStep'
  BY <1>1, <1>2 DEF BlasterInv, InStep, Produced, BlasterTypes
<1> QED BY <1>3, <1>4, <1>5 DEF BlasterInv

LEMMA ShiftByteStep == ASSUME BlasterInv, ShiftByte PROVE BlasterInv'
<1> USE DEF ShiftByte
<1> DEFINE b == buf[i+done+1]
           v == Sample(Len(port.clocks))
           place == o + done
<1>1. i + done < len /\ place < Len(buf) /\ place \in Nat /\ done + 1 <= ret /\ ret > 0
  BY DEF BlasterInv, BlasterTypes, InputKept
<1>2. b \in Byte /\ ref' = Blaster(ref, b)
  BY <1>1, SameByte DEF FollowReference
<1>3. /\ port' \in Port /\ port'.sel /\ port'.sck = 0
      /\ port'.clocks = port.clocks \o Bits(b)
  BY <1>1, <1>2, SpiByteClocks DEF BlasterInv, BlasterTypes, InStep
<1>4. ref \in Device /\ ref.left > 0
  BY <1>1 DEF BlasterInv, BlasterTypes, InStep, InputKept
<1>5. /\ ref' \in Device /\ ref'.left = ref.left - 1 /\ ref'.read = ref.read
      /\ ref'.tck = 0 /\ ref'.clocks = ref.clocks \o Bits(b)
      /\ ref'.out = IF ref.read THEN Append(ref.out, Sample(Len(ref.clocks))) ELSE ref.out
  BY <1>2, <1>4, BlasterShifts
<1>6. v \in Cell
  BY DEF v, Sample, Cell, Result, BlasterInv, BlasterTypes, Port
<1>7. /\ buf' \in Seq(Cell) /\ Len(buf') = Len(buf)
      /\ \A k \in 1..Len(buf) : k # place + 1 => buf'[k] = buf[k]
      /\ returned \o SubSeq(buf', 1, place+1) = Append(returned \o SubSeq(buf, 1, place), v)
  <2>1. buf \in Seq(Cell) /\ returned \in Seq(Cell)
    BY DEF BlasterInv, BlasterTypes
  <2>2. buf' = [buf EXCEPT ![place+1] = v]
    OBVIOUS
  <2> HIDE DEF ShiftByte, place, v
  <2> QED BY <1>1, <1>6, <2>1, <2>2, ResultJoins
<1>8. BlasterTypes'
  BY <1>3, <1>5, <1>7 DEF BlasterInv, BlasterTypes
<1>9. InputKept'
  <2>1. \A k \in 1..len : k > i + done + 1 => buf'[k] = buf[k]
    BY <1>7 DEF BlasterInv, BlasterTypes, InputKept
  <2> QED BY <1>1, <1>7, <2>1 DEF BlasterInv, BlasterTypes, InputKept
<1>10. InStep'
  <2>1. ref'.left = bytes_to_shift' - done' /\ ref'.read = read'
    BY <1>5 DEF BlasterInv, BlasterTypes, InStep
  <2>2. ref'.clocks = port'.clocks
    BY <1>3, <1>5 DEF BlasterInv, InStep
  <2>3. ref'.tck = TckLevel(port')
    BY <1>3, <1>5 DEF TckLevel
  <2>4. ref'.out = (returned \o SubSeq(buf, 1, Produced(done)))'
    <3>1. CASE read
      <4>1. Produced(done) = place /\ Produced(done)' = place + 1
        BY <3>1 DEF Produced, BlasterInv, BlasterTypes
      <4>2. ref'.out = Append(ref.out, v)
        BY <1>5, <3>1 DEF BlasterInv, InStep
      <4>3. ref.out = returned \o SubSeq(buf, 1, place)
        BY <4>1 DEF BlasterInv, InStep
      <4> QED BY <1>7, <4>1, <4>2, <4>3
    <3>2. CASE ~read
      <4>1. Produced(done) = o /\ Produced(done)' = o
        BY <3>2 DEF Produced
      <4>2. ref'.out = returned \o SubSeq(buf, 1, o)
        BY <1>5, <3>2, <4>1 DEF BlasterInv, InStep, BlasterTypes
      <4>3. SubSeq(buf', 1, o) = SubSeq(buf, 1, o)
        <5>1. /\ SubSeq(buf', 1, o) \in Seq(Cell) /\ Len(SubSeq(buf', 1, o)) = o
              /\ SubSeq(buf, 1, o) \in Seq(Cell) /\ Len(SubSeq(buf, 1, o)) = o
          BY <1>7 DEF BlasterInv, BlasterTypes, InputKept
        <5>2. ASSUME NEW k \in 1..o PROVE SubSeq(buf', 1, o)[k] = SubSeq(buf, 1, o)[k]
          BY <1>7, <1>1 DEF BlasterInv, BlasterTypes, InputKept
        <5> QED BY <5>1, <5>2, SeqEqual
      <4> QED BY <4>1, <4>2, <4>3
    <3> QED BY <3>1, <3>2 DEF BlasterInv, BlasterTypes
  <2> QED BY <1>1, <1>3, <2>1, <2>2, <2>3, <2>4 DEF InStep, BlasterInv, BlasterTypes
<1> QED BY <1>8, <1>9, <1>10 DEF BlasterInv

LEMMA FinishShiftStep == ASSUME BlasterInv, FinishShift PROVE BlasterInv'
<1> USE DEF FinishShift
<1>1. /\ port' \in Port /\ ~port'.sel /\ port'.clocks = port.clocks
      /\ TckLevel(port') = TckLevel(port)
  BY SpiOffClocks DEF BlasterInv, BlasterTypes, InStep
<1>2. o' = Produced(done) /\ o' \in Nat /\ o' <= i + ret /\ Produced(done)' = o'
  BY DEF Produced, BlasterInv, BlasterTypes, InputKept
<1>3. BlasterTypes'
  BY <1>1, <1>2 DEF BlasterInv, BlasterTypes, InputKept
<1>4. InputKept'
  BY <1>2 DEF BlasterInv, BlasterTypes, InputKept
<1>5. InStep'
  BY <1>1, <1>2 DEF BlasterInv, BlasterTypes, InputKept, InStep
<1> QED BY <1>3, <1>4, <1>5 DEF BlasterInv

LEMMA CommandByteStep == ASSUME BlasterInv, CommandByte PROVE BlasterInv'
<1> USE DEF CommandByte
<1> DEFINE b == buf[i+1]
           v == IF b.shift THEN Zero ELSE Sample(Len(port.clocks))
<1>1. ret = 0 /\ done = 0 /\ i + done < len /\ o < Len(buf)
  BY DEF BlasterInv, BlasterTypes, InputKept
<1>2. b \in Byte /\ ref' = Blaster(ref, b)
  <2>1. i + done + 1 = i + 1
    BY <1>1 DEF BlasterInv, BlasterTypes
  <2> QED BY <1>1, <2>1, SameByte DEF FollowReference
<1>3. ref \in Device /\ ref.left = 0 /\ ref.tck = TckLevel(port) /\ ~port.sel
      /\ ref.clocks = port.clocks /\ ref.out = returned \o SubSeq(buf, 1, o)
  <2>1. ref \in Device /\ ref.tck = TckLevel(port) /\ ~port.sel /\ ref.clocks = port.clocks
    BY <1>1 DEF BlasterInv, BlasterTypes, InStep
  <2>2. ref.left = 0
    BY <1>1 DEF BlasterInv, BlasterTypes, InStep
  <2>3. Produced(done) = o
    BY <1>1 DEF BlasterInv, BlasterTypes, Produced
  <2>4. ref.out = returned \o SubSeq(buf, 1, o)
    BY <2>3 DEF BlasterInv, InStep
  <2> QED BY <2>1, <2>2, <2>4
<1>4. b.low \in Nat /\ b.read \in BOOLEAN /\ b.shift \in BOOLEAN
  BY <1>2, SizeAssumption DEF Byte
<1>5. /\ ref' \in Device /\ ref'.left = bytes_to_shift' /\ ref'.read = read'
      /\ port' \in Port /\ ~port'.sel
      /\ ref'.tck = TckLevel(port') /\ ref'.clocks = port'.clocks
      /\ ref'.out = IF Returns(b) THEN Append(ref.out, v) ELSE ref.out
      /\ bytes_to_shift' \in Nat /\ read' \in BOOLEAN
  <2>1. CASE b.shift
    <3>1. /\ ref' \in Device
          /\ ref'.left = b.low /\ ref'.read = b.read
          /\ ref'.tck = ref.tck /\ ref'.clocks = ref.clocks
          /\ ref'.out = IF b.read /\ b.low = 0 THEN Append(ref.out, Zero) ELSE ref.out
      BY <1>2, <1>3, <2>1, BlasterBegins
    <3>2. Returns(b) = (b.read /\ b.low = 0)
      BY <1>4, <2>1 DEF Returns
    <3>3. v = Zero
      BY <2>1
    <3>4. port' = port /\ bytes_to_shift' = b.low /\ read' = b.read
      BY <2>1
    <3> HIDE DEF b, v
    <3> QED BY <1>3, <1>4, <2>1, <3>1, <3>2, <3>3, <3>4 DEF BlasterInv, BlasterTypes
  <2>2. CASE ~b.shift
    <3>1. /\ ref' \in Device
          /\ ref'.left = 0 /\ ref'.read = b.read /\ ref'.tck = Tck(b)
          /\ ref'.clocks = IF ref.tck = 0 /\ Tck(b) = 1 THEN Append(ref.clocks, Tdi(b))
                           ELSE ref.clocks
          /\ ref'.out = IF b.read THEN Append(ref.out, Sample(Len(ref.clocks))) ELSE ref.out
      BY <1>2, <1>3, <2>2, BlasterSetsPins
    <3>2. Returns(b) = b.read
      BY <1>4, <2>2 DEF Returns
    <3>3. v = Sample(Len(ref.clocks))
      BY <1>3, <2>2
    <3>4. port' = SetPins(port, b) /\ bytes_to_shift' = 0 /\ read' = b.read
      BY <2>2
    <3>5. /\ SetPins(port, b) \in Port /\ ~SetPins(port, b).sel
          /\ TckLevel(SetPins(port, b)) = Tck(b)
          /\ SetPins(port, b).clocks =
               IF TckLevel(port) = 0 /\ Tck(b) = 1 THEN Append(port.clocks, Tdi(b))
               ELSE port.clocks
      BY <1>2, <1>3, SetPinsClocks DEF BlasterInv, BlasterTypes
    <3> HIDE DEF b, v
    <3> QED BY <1>3, <1>4, <3>1, <3>2, <3>3, <3>4, <3>5
  <2> QED BY <1>4, <2>1, <2>2
<1>6. v \in Cell
  BY DEF Zero, Sample, Cell, Result, BlasterInv, BlasterTypes, Port
<1>7. /\ buf' \in Seq(Cell) /\ Len(buf') = Len(buf) /\ o' \in Nat /\ o' <= i + 1
      /\ \A k \in 1..Len(buf) : k > i + 1 => buf'[k] = buf[k]
      /\ returned \o SubSeq(buf', 1, o') = ref'.out
  <2>1. CASE Returns(b)
    <3>1. buf' = [buf EXCEPT ![o+1] = v] /\ o' = o + 1
      BY <2>1
    <3>2. /\ buf' \in Seq(Cell) /\ Len(buf') = Len(buf)
          /\ \A k \in 1..Len(buf) : k # o + 1 => buf'[k] = buf[k]
          /\ returned \o SubSeq(buf', 1, o+1) = Append(returned \o SubSeq(buf, 1, o), v)
      <4>1. buf \in Seq(Cell) /\ returned \in Seq(Cell) /\ o \in Nat
        BY DEF BlasterInv, BlasterTypes
      <4>2. o < Len(buf) /\ buf' = [buf EXCEPT ![o+1] = v]
        BY <1>1, <3>1
      <4> HIDE DEF CommandByte, b, v
      <4> QED BY <1>6, <4>1, <4>2, ResultJoins
    <3>3. returned \o SubSeq(buf', 1, o') = ref'.out
      BY <1>3, <1>5, <2>1, <3>1, <3>2
    <3> QED BY <3>1, <3>2, <3>3 DEF BlasterInv, BlasterTypes, InputKept
  <2>2. CASE ~Returns(b)
    <3>1. buf' = buf /\ o' = o
      BY <2>2
    <3>2. ref'.out = ref.out
      BY <1>5, <2>2
    <3> QED BY <1>3, <3>1, <3>2 DEF BlasterInv, BlasterTypes, InputKept
  <2> QED BY <2>1, <2>2
<1>8. BlasterTypes'
  BY <1>5, <1>7 DEF BlasterInv, BlasterTypes
<1>9. InputKept'
  BY <1>1, <1>5, <1>7 DEF BlasterInv, BlasterTypes, InputKept
<1>10. InStep'
  <2>1. done' = 0 /\ ret' = 0 /\ returned' = returned
    BY <1>1
  <2>2. Produced(done)' = o'
    <3>1. o' \in Nat /\ done' = 0 /\ read' \in BOOLEAN
      BY <1>5, <1>7, <2>1
    <3>2. ASSUME NEW m \in Nat, NEW n, n = 0 PROVE m + n = m
      BY <3>2
    <3>3. Produced(done)' = IF read' THEN o' + done' ELSE o'
      BY DEF Produced
    <3> HIDE DEF CommandByte
    <3>4. o' + done' = o'
      BY <3>1, <3>2
    <3> QED BY <3>3, <3>4
  <2>3. ref'.out = returned' \o SubSeq(buf', 1, Produced(done)')
    BY <1>7, <2>1, <2>2
  <2>4. bytes_to_shift' = bytes_to_shift' - done' /\ ~(ret' > 0)
    BY <1>5, <2>1
  <2> QED BY <1>5, <2>1, <2>3, <2>4 DEF InStep
<1> QED BY <1>8, <1>9, <1>10 DEF BlasterInv

LEMMA StepIInv == BlasterInv /\ [Next]_vars => BlasterInv'
<1> SUFFICES ASSUME BlasterInv, [Next]_vars PROVE BlasterInv'
  OBVIOUS
<1>1. CASE NextBuffer
  BY <1>1, NextBufferStep
<1>2. CASE CommandByte
  BY <1>2, CommandByteStep
<1>3. CASE StartShift
  BY <1>3, StartShiftStep
<1>4. CASE ShiftByte
  BY <1>4, ShiftByteStep
<1>5. CASE FinishShift
  BY <1>5, FinishShiftStep
<1>6. CASE UNCHANGED vars
  BY <1>6 DEF vars, BlasterInv, BlasterTypes, InputKept, InStep, Produced, TckLevel
<1> QED BY <1>1, <1>2, <1>3, <1>4, <1>5, <1>6 DEF Next

\* The state stays in its types, the input not used yet is as the host sent it,
\* and a device without buffers is in step, of every run of
\* usbblaster_process_buffer.
THEOREM BlasterInStep == Spec => []BlasterInv
<1>1. Init => BlasterInv
  BY InitIInv
<1>2. BlasterInv /\ [Next]_vars => BlasterInv'
  BY StepIInv
<1> QED BY <1>1, <1>2, PTL DEF Spec

\* However the stream is cut and however long it is, the JTAG chain sees the
\* clocks of the byte-by-byte protocol.
THEOREM ClocksAreTheProtocols == Spec => []SameClocks
<1>1. BlasterInv => SameClocks
  BY DEF BlasterInv, InStep, SameClocks
<1> QED BY <1>1, BlasterInStep, PTL

\* And the host gets the results of the byte-by-byte protocol.
THEOREM ResultsAreTheProtocols == Spec => []SameResults
<1>1. BlasterInv => SameResults
  <2> SUFFICES ASSUME BlasterInv, ret = 0 PROVE returned \o SubSeq(buf, 1, o) = ref.out
    BY DEF SameResults
  <2>1. Produced(done) = o
    BY DEF Produced, BlasterInv, BlasterTypes, InputKept
  <2> QED BY <2>1 DEF BlasterInv, InStep
<1> QED BY <1>1, BlasterInStep, PTL
----------------------------------------------------------------------------
(* Control transfers.  While no setup packet has met an interrupt of an     *)
(* earlier transfer or the handling of another packet, and the boot loader *)
(* has not been called, one request at a time is carried out.              *)
Calm == ~late /\ ~overrun /\ power # "bsl"

Handling == isr \in {"decode", "process"}

\* A setup packet whose request has not been carried out.
Fresh == Handling \/ (setupIfg /\ isr \in {"none", "vector"})

\* Settings as the host has them, against those of the device.
Match(s, x, anyLine) ==
  /\ s.cfg = x.cfg /\ s.enum = x.enum /\ s.ifn = x.ifn /\ s.halted = x.halted
  /\ s.latency = x.latency /\ s.rwu = x.rwu /\ s.addr = x.addr
  /\ anyLine \/ s.line = x.line
Agrees(s) == Match(s, d.set, armed)

\* A SET_LINE_CODING whose data the device gets.
Lining == setup.kind = "SetLineCoding" /\ ~armed /\ power = "on"

IsSettings(s) ==
  s = [cfg |-> s.cfg, enum |-> s.enum, ifn |-> s.ifn, halted |-> s.halted, line |-> s.line,
       latency |-> s.latency, rwu |-> s.rwu, addr |-> s.addr]
DeviceFields ==
  {"nakIn", "nakOut", "stallIn", "stallOut", "dataIn", "dataOut", "action", "left", "src",
   "more", "outLeft", "incoming", "set"}
IsDevice(dev) == dev = [f \in DeviceFields |-> dev[f]] /\ IsSettings(dev.set)

ControlValues ==
  /\ IsDevice(d) /\ \A s \in believes : IsSettings(s)
  /\ setup \in Requests /\ power \in {"off", "on", "bsl"} /\ armed \in BOOLEAN
  /\ isr \in {"none", "decode", "process", "recheck", "clear", "vector"} /\ host \in {"idle", "data", "status"}
  /\ d.set.rwu = FALSE

\* One setup packet at a time: it is the one that is handled.
OnePacket ==
  /\ ~stpowIfg /\ (isr = "process" => fn = Entry(setup)) /\ (power = "off" => isr = "none")
  /\ isr \in {"decode", "process", "recheck", "clear"} => (nested <=> ~setupIfg)
  /\ isr = "clear" => ~nested

\* Nothing happens on endpoint 0 before the request is carried out.
Closed ==
  Fresh => /\ ~iepIfg /\ ~oepIfg /\ (nested /\ Handling => d.nakIn /\ d.nakOut)
           /\ (setup.len > 0 => host # "status")

\* The host is to send data of a SET_LINE_CODING only.
DataStage ==
  (host = "data" /\ ~IsRead(setup) /\ power = "on")
    => ~oepIfg /\ ~iepIfg /\ setup.kind = "SetLineCoding"

\* Its data is waited for, and kept until it has been read.
LineWaits ==
  (Lining /\ (host = "data" \/ (host = "status" /\ oepIfg))) =>
    /\ d.nakIn /\ ~d.stallIn /\ ~iepIfg
    /\ ~Fresh => d.action = "out" /\ d.outLeft = LineSize /\ d.incoming = <<>>
    /\ host = "status" => d.dataOut = LineBytes(setup.val)
LineNotLeft == (Lining /\ oepIfg /\ host = "idle") => d.action # "out"

Known ==
  \E s \in believes : /\ Agrees(s)
                      /\ (power = "on" /\ (Fresh \/ host # "idle")) => Applied(setup, s) \in believes
Carried ==
  (power = "on" /\ ~Fresh /\ ~IsRead(setup) /\ host = "status" /\ ~(Lining /\ oepIfg))
    => \E s \in believes : Agrees(Applied(setup, s))

ControlInv ==
  Calm => /\ ControlValues /\ OnePacket /\ Closed /\ DataStage /\ LineWaits /\ LineNotLeft
          /\ Known /\ Carried
----------------------------------------------------------------------------
ReadKinds ==
  DescriptorKinds \cup {"GetConfiguration", "GetInterface", "GetDeviceStatus",
    "GetInterfaceStatus", "GetLineCoding", "GetLatencyTimer", "OtherRead", "GetEndpointStatus"}

LEMMA ReadShapes == ASSUME NEW r \in Reads PROVE r.kind \in ReadKinds /\ r.len \in Nat \ {0}
BY ControlSizes DEF Reads, Req, ReadKinds

LEMMA WriteShapes ==
  ASSUME NEW r \in Writes
  PROVE  /\ r.kind \in {"SetAddress", "SetConfiguration", "SetLatencyTimer", "SetInterface",
              "SetVendor", "SetControlLineState", "ClearDeviceFeature", "OtherWrite",
              "SetDeviceFeature", "SetEndpointFeature", "ClearEndpointFeature", "SetLineCoding"}
         /\ r.len > 0 => r.kind = "SetLineCoding"
         /\ r.kind = "SetLineCoding" => r.len = LineSize /\ r.len > 0
         /\ r.kind = "SetInterface" => r.idx \in {"in", "ep0"}
         /\ r.kind = "ClearDeviceFeature" => r.val = 1
         /\ r.kind = "SetDeviceFeature" => r.val \in 1..2 /\ r = Req(r.kind, r.val, "ep0", 0)
         /\ r.kind \in {"SetEndpointFeature", "ClearEndpointFeature"} =>
              r.idx \in Endpoints \cup {"none"}
BY ControlSizes DEF Writes, Req, Endpoints

LEMMA WriteIsNoRead == ASSUME NEW r \in Writes PROVE ~IsRead(r)
BY WriteShapes, ReadShapes DEF IsRead, ReadKinds, DescriptorKinds

LEMMA AppliedSettings ==
  ASSUME NEW r, NEW s, IsSettings(s)
  PROVE  IsSettings(Applied(r, s)) /\ Applied(r, Applied(r, s)) = Applied(r, s)
<1>1. IsSettings(Applied(r, s))
  BY DEF IsSettings, Applied
<1>2. CASE r.kind \in {"SetEndpointFeature", "ClearEndpointFeature"}
  <2>1. Applied(r, Applied(r, s)) = Applied(r, s)
    BY <1>2 DEF IsSettings, Applied
  <2> QED BY <1>1, <2>1
<1>3. CASE r.kind = "SetConfiguration"
  <2>1. Applied(r, Applied(r, s)) = Applied(r, s)
    BY <1>3 DEF IsSettings, Applied
  <2> QED BY <1>1, <2>1
<1>4. CASE r.kind \in {"SetAddress", "SetInterface", "SetLatencyTimer", "SetLineCoding"}
  <2>1. Applied(r, Applied(r, s)) = Applied(r, s)
    BY <1>4 DEF IsSettings, Applied
  <2> QED BY <1>1, <2>1
<1>5. CASE r.kind \notin {"SetEndpointFeature", "ClearEndpointFeature", "SetConfiguration",
                         "SetAddress", "SetInterface", "SetLatencyTimer", "SetLineCoding"}
  <2>1. \A x : Applied(r, x) = x
    BY <1>5 DEF Applied
  <2> QED BY <1>1, <2>1
<1> QED BY <1>2, <1>3, <1>4, <1>5

LEMMA AppliedMatches ==
  ASSUME NEW r, NEW s, NEW x, NEW any \in BOOLEAN, IsSettings(s), IsSettings(x), Match(s, x, any)
  PROVE  Match(Applied(r, s), Applied(r, x), any)
BY DEF IsSettings, Applied, Match
----------------------------------------------------------------------------
\* The operations on endpoint 0 keep the settings.
LEMMA Stalls ==
  ASSUME NEW dev, IsDevice(dev)
  PROVE  /\ IsDevice(StallOEP0(dev)) /\ StallOEP0(dev).set = dev.set
         /\ IsDevice(StallEndpoint0(dev)) /\ StallEndpoint0(dev).set = dev.set
BY DEF IsDevice, DeviceFields, StallOEP0, StallEndpoint0

LEMMA Clears ==
  ASSUME NEW dev, IsDevice(dev)
  PROVE  IsDevice(ClearOEP0(dev)) /\ ClearOEP0(dev).set = dev.set
BY DEF IsDevice, DeviceFields, ClearOEP0

LEMMA Acknowledges ==
  ASSUME NEW dev, IsDevice(dev)
  PROVE  IsDevice(Acknowledge(dev)) /\ Acknowledge(dev).set = dev.set
BY DEF IsDevice, DeviceFields, Acknowledge

LEMMA SendsNext ==
  ASSUME NEW dev, IsDevice(dev)
  PROVE  IsDevice(SendNextPacket(dev)) /\ SendNextPacket(dev).set = dev.set
BY DEF IsDevice, DeviceFields, SendNextPacket

LEMMA Sends ==
  ASSUME NEW dev, NEW data, IsDevice(dev)
  PROVE  IsDevice(SendData(dev, data)) /\ SendData(dev, data).set = dev.set
<1> DEFINE begun == [dev EXCEPT !.src = data, !.left = LesserOf(Len(data), setup.len),
                                !.more = Len(data) < setup.len]
<1>1. IsDevice(begun) /\ begun.set = dev.set
  BY DEF IsDevice, DeviceFields
<1> QED BY <1>1, SendsNext DEF SendData

LEMMA Replies ==
  ASSUME NEW dev, NEW data, IsDevice(dev)
  PROVE  IsDevice(Reply(dev, data)) /\ Reply(dev, data).set = dev.set
BY Clears, Sends DEF Reply

LEMMA Receives ==
  ASSUME IsDevice(d)
  PROVE  /\ IsDevice(ReceiveData(d)) /\ ReceiveData(d).set = d.set
         /\ ReceiveData(d).nakIn = d.nakIn /\ ReceiveData(d).stallIn = d.stallIn
         /\ ReceiveData(d).action = "out" /\ ReceiveData(d).outLeft = setup.len
         /\ ReceiveData(d).incoming = <<>>
BY DEF IsDevice, DeviceFields, ReceiveData, ClearOEP0

LEMMA Sets ==
  ASSUME NEW dev, NEW x, IsDevice(dev), IsSettings(x)
  PROVE  LET new == Acknowledge([dev EXCEPT !.set = x]) IN IsDevice(new) /\ new.set = x
<1> DEFINE new == [dev EXCEPT !.set = x]
<1>1. IsDevice(new) /\ new.set = x
  BY DEF IsDevice, DeviceFields
<1> QED BY <1>1, Acknowledges

\* usbDecodeAndProcessUsbRequest does to the settings what the host expects.
LEMMA ProcessApplies ==
  ASSUME IsDevice(d), setup \in Requests, fn = Entry(setup), fn # "DisconnectThenBSL",
         setup.kind # "SetLineCoding", d.set.rwu = FALSE
  PROVE  /\ IsDevice(Process(d)) /\ Process(d).set = Applied(setup, d.set)
         /\ Process(d).set.rwu = FALSE
<1> DEFINE x == d.set
           Becomes(dev, s) == IsDevice(dev) /\ dev.set = s
<1>1. IsSettings(x) /\ fn = setup.kind
  BY DEF IsDevice, Entry
<1>2. CASE setup \in Reads
  <2>1. setup.kind \in ReadKinds /\ setup.kind \in {r.kind : r \in Reads}
    BY <1>2, ReadShapes
  <2>2. Applied(setup, x) = x
    BY <2>1 DEF Applied, ReadKinds, DescriptorKinds
  <2>3. CASE fn = "GetLineCoding"
    BY <2>2, <2>3, Sends DEF Process
  <2>4. CASE fn = "GetLatencyTimer"
    BY <2>2, <2>4, Replies DEF Process, GetLatencyTimer
  <2>5. CASE fn = "OtherRead"
    <3>1. Process(d) = InvalidRequest(d)
      BY <2>5 DEF Process
    <3> QED BY <2>2, <3>1, Stalls DEF InvalidRequest
  <2>6. CASE fn \notin {"GetLineCoding", "GetLatencyTimer", "OtherRead"}
    <3>1. Process(d) = Reply(d, Answer(d, fn))
      BY <1>1, <2>1, <2>6 DEF Process, ReadKinds, DescriptorKinds
    <3> QED BY <2>2, <3>1, Replies
  <2> QED BY <2>3, <2>4, <2>5, <2>6
<1>3. CASE setup \in Writes
  <2>1. fn \notin {r.kind : r \in Reads}
    BY <1>1, <1>3, WriteShapes, ReadShapes DEF ReadKinds, DescriptorKinds
  <2>2. CASE fn = "SetAddress"
    <3>1. Process(d) = SetAddress(d)
      BY <2>1, <2>2 DEF Process
    <3>2. CASE setup.val < 2
      <4> DEFINE dev == StallOEP0(d)
                 y == [dev.set EXCEPT !.addr = setup.val]
      <4>1. IsDevice(dev) /\ dev.set = x
        BY Stalls
      <4>2. IsSettings(y) /\ y = Applied(setup, x) /\ y.rwu = FALSE
        BY <1>1, <2>2, <3>2, <4>1 DEF IsSettings, Applied
      <4>3. SetAddress(d) = Acknowledge([dev EXCEPT !.set = y])
        BY <3>2 DEF SetAddress
      <4> HIDE DEF dev, y
      <4> QED BY <3>1, <4>1, <4>2, <4>3, Sets
    <3>3. CASE ~(setup.val < 2)
      BY <1>1, <2>2, <3>1, <3>3, Stalls DEF SetAddress, Applied
    <3> QED BY <3>2, <3>3
  <2>3. CASE fn = "SetConfiguration"
    <3> DEFINE dev == StallOEP0(d)
               y == [dev.set EXCEPT !.cfg = setup.val, !.enum = (setup.val = 1)]
    <3>1. Process(d) = Acknowledge([dev EXCEPT !.set = y])
      BY <2>1, <2>3 DEF Process, SetConfiguration
    <3>2. IsDevice(dev) /\ dev.set = x
      BY Stalls
    <3>3. y = Applied(setup, x)
      BY <1>1, <2>3, <3>2 DEF Applied
    <3>4. IsSettings(y)
      BY <1>1, <3>3, AppliedSettings
    <3>5. y.rwu = FALSE
      BY <1>1, <3>2 DEF IsSettings
    <3> HIDE DEF dev, y
    <3> QED BY <3>1, <3>2, <3>3, <3>4, <3>5, Sets
  <2>4. CASE fn = "SetInterface"
    <3> DEFINE dev == StallOEP0(d)
               y == [dev.set EXCEPT !.ifn = IF setup.idx = "in" THEN "in" ELSE "ep0"]
    <3>1. Process(d) = Acknowledge([dev EXCEPT !.set = y])
      BY <2>1, <2>4 DEF Process, SetInterface
    <3>2. IsDevice(dev) /\ dev.set = x
      BY Stalls
    <3>3. setup.idx \in {"in", "ep0"}
      BY <1>1, <1>3, <2>4, WriteShapes
    <3>4. IsSettings(y) /\ y = Applied(setup, x) /\ y.rwu = FALSE
      BY <1>1, <2>4, <3>2, <3>3 DEF IsSettings, Applied
    <3> HIDE DEF dev, y
    <3> QED BY <3>1, <3>2, <3>4, Sets
  <2>5. CASE fn = "SetLatencyTimer"
    <3> DEFINE y == [d.set EXCEPT !.latency = setup.val]
    <3>1. Process(d) = Acknowledge([d EXCEPT !.set = y])
      BY <2>1, <2>5 DEF Process, SetLatencyTimer
    <3>2. IsSettings(y) /\ y = Applied(setup, x) /\ y.rwu = FALSE
      BY <1>1, <2>5 DEF IsSettings, Applied
    <3> HIDE DEF y
    <3> QED BY <3>1, <3>2, Sets
  <2>6. CASE fn \in {"SetVendor", "SetControlLineState"}
    <3>1. Process(d) = Acknowledge(d) /\ Applied(setup, x) = x
      BY <1>1, <2>1, <2>6 DEF Process, SetVendor, Applied
    <3> QED BY <3>1, Acknowledges
  <2>7. CASE fn = "OtherWrite"
    <3>1. Process(d) = StallEndpoint0(d) /\ Applied(setup, x) = x
      BY <1>1, <2>1, <2>7 DEF Process, InvalidRequest, Applied
    <3> QED BY <3>1, Stalls
  <2>8. CASE fn = "SetDeviceFeature"
    <3>1. setup.val # 1
      BY <1>1, <1>3, <2>8, WriteShapes DEF Entry
    <3>2. Process(d) = StallEndpoint0(d) /\ Applied(setup, x) = x
      BY <1>1, <2>1, <2>8, <3>1 DEF Process, DeviceFeature, Applied
    <3> QED BY <3>2, Stalls
  <2>9. CASE fn = "ClearDeviceFeature"
    <3> DEFINE y == [d.set EXCEPT !.rwu = FALSE]
    <3>1. Process(d) = Acknowledge([d EXCEPT !.set = y])
      BY <1>1, <1>3, <2>1, <2>9, WriteShapes DEF Process, DeviceFeature
    <3>2. IsSettings(y) /\ y = Applied(setup, x) /\ y.rwu = FALSE
      BY <1>1, <2>9 DEF IsSettings, Applied
    <3> HIDE DEF y
    <3> QED BY <3>1, <3>2, Sets
  <2>10. CASE fn = "SetEndpointFeature"
    <3> DEFINE y == [d.set EXCEPT !.halted = d.set.halted \cup {setup.idx}]
    <3>1. setup.idx \in {"ep0", "in", "out", "none"}
      BY <1>1, <1>3, <2>10, WriteShapes DEF Endpoints
    <3>2. Process(d) = IF setup.val = 0 THEN EndpointFeature(d, d.set.halted \cup {setup.idx})
                       ELSE StallEndpoint0(d)
      BY <2>1, <2>10 DEF Process
    <3>3. CASE setup.val = 0 /\ setup.idx \in {"in", "out"}
      <4>1. Process(d) = Acknowledge([d EXCEPT !.set = y])
        BY <3>2, <3>3 DEF EndpointFeature
      <4>2. IsSettings(y) /\ y = Applied(setup, x) /\ y.rwu = FALSE
        BY <1>1, <2>10, <3>3 DEF IsSettings, Applied
      <4> HIDE DEF y
      <4> QED BY <4>1, <4>2, Sets
    <3>4. CASE ~(setup.val = 0 /\ setup.idx \in {"in", "out"})
      <4>1. Applied(setup, x) = x
        BY <1>1, <2>10, <3>4 DEF Applied
      <4>2. Process(d) \in {StallEndpoint0(d), Acknowledge(d), d}
        BY <3>1, <3>2, <3>4 DEF EndpointFeature
      <4> QED BY <4>1, <4>2, Stalls, Acknowledges
    <3> QED BY <3>3, <3>4
  <2>11. CASE fn = "ClearEndpointFeature"
    <3> DEFINE y == [d.set EXCEPT !.halted = d.set.halted \ {setup.idx}]
    <3>1. setup.idx \in {"ep0", "in", "out", "none"}
      BY <1>1, <1>3, <2>11, WriteShapes DEF Endpoints
    <3>2. Process(d) = EndpointFeature(d, d.set.halted \ {setup.idx})
      BY <2>1, <2>11 DEF Process
    <3>3. CASE setup.idx \in {"in", "out"}
      <4>1. Process(d) = Acknowledge([d EXCEPT !.set = y])
        BY <3>2, <3>3 DEF EndpointFeature
      <4>2. IsSettings(y) /\ y = Applied(setup, x) /\ y.rwu = FALSE
        BY <1>1, <2>11, <3>3 DEF IsSettings, Applied
      <4> HIDE DEF y
      <4> QED BY <4>1, <4>2, Sets
    <3>4. CASE setup.idx \in {"ep0", "none"}
      <4>1. Applied(setup, x) = x
        BY <1>1, <2>11, <3>4 DEF Applied
      <4>2. Process(d) \in {Acknowledge(d), d}
        BY <3>2, <3>4 DEF EndpointFeature
      <4> QED BY <4>1, <4>2, Acknowledges
    <3> QED BY <3>1, <3>3, <3>4
  <2> QED BY <1>1, <1>3, <2>2, <2>3, <2>4, <2>5, <2>6, <2>7, <2>8, <2>9, <2>10, <2>11, WriteShapes
<1> QED BY <1>2, <1>3 DEF Requests
----------------------------------------------------------------------------
LEMMA InitControlInv == ControlInit => ControlInv
<1> SUFFICES ASSUME ControlInit PROVE ControlInv
  OBVIOUS
<1>1. IsSettings(ResetSettings(0)) /\ IsDevice(d) /\ d.set = ResetSettings(0) /\ ~d.set.rwu
  BY DEF ControlInit, ResetDevice, ResetSettings, IsSettings, IsDevice, DeviceFields
<1>2. setup \in Requests
  BY DEF ControlInit, Requests, Writes
<1>3. ControlValues
  <2>1. d.set.rwu = FALSE
    BY <1>1 DEF ResetSettings
  <2> QED BY <1>1, <1>2, <2>1 DEF ControlInit, ControlValues
<1>4. Known
  BY <1>1 DEF ControlInit, Known, Agrees, Match
<1> QED BY <1>3, <1>4 DEF ControlInit, ControlInv, OnePacket, Closed, DataStage, LineWaits,
     LineNotLeft, Carried, Fresh, Handling, Lining

LEMMA CalmBefore == ASSUME ControlNext, Calm' PROVE Calm
<1>1. CASE Isr
  BY <1>1 DEF Calm, Isr, EnterIsr, Decode, CallFunction, Recheck, ClearSetup, Vector, hostVars
<1>2. CASE HostIn \/ HostOut
  BY <1>2 DEF Calm, HostIn, HostOut
<1>3. CASE BusReset \/ VbusOn \/ VbusOff
  BY <1>3 DEF Calm, BusReset, VbusOn, VbusOff, UsbReset
<1>4. CASE \E r \in Requests : HostSetup(r)
  BY <1>4 DEF Calm, HostSetup
<1> QED BY <1>1, <1>2, <1>3, <1>4 DEF ControlNext

LEMMA EnterIsrStep == ASSUME ControlInv, EnterIsr, Calm', Calm PROVE ControlInv'
<1>1. ControlValues'
  BY DEF ControlInv, ControlValues, EnterIsr, hostVars
<1>2. OnePacket' /\ Closed'
  BY DEF ControlInv, OnePacket, Closed, EnterIsr, Fresh, Handling, hostVars, flagVars
<1>3. DataStage' /\ LineWaits' /\ LineNotLeft'
  BY DEF ControlInv, DataStage, LineWaits, LineNotLeft, Closed, EnterIsr, Fresh, Handling, Lining,
         hostVars, flagVars
<1>4. Known' /\ Carried'
  BY DEF ControlInv, Known, Carried, EnterIsr, Fresh, Handling, Lining, Agrees, hostVars, flagVars
<1> QED BY <1>1, <1>2, <1>3, <1>4 DEF ControlInv

LEMMA DecodeStep == ASSUME ControlInv, Decode, Calm', Calm PROVE ControlInv'
<1>1. ControlValues' /\ d'.set = d.set /\ d'.nakIn = d.nakIn /\ d'.nakOut = d.nakOut
        /\ d'.stallIn = d.stallIn
  BY DEF ControlInv, ControlValues, IsDevice, DeviceFields, Decode, hostVars
<1>2. OnePacket' /\ Closed'
  BY <1>1 DEF ControlInv, OnePacket, Closed, Decode, Fresh, Handling, hostVars, flagVars
<1>3. DataStage' /\ LineWaits' /\ LineNotLeft'
  BY <1>1 DEF ControlInv, DataStage, LineWaits, LineNotLeft, Closed, Decode, Fresh, Handling, Lining,
         hostVars, flagVars
<1>4. Known' /\ Carried'
  BY <1>1 DEF ControlInv, Known, Carried, Decode, Fresh, Handling, Lining, Agrees, hostVars, flagVars
<1> QED BY <1>1, <1>2, <1>3, <1>4 DEF ControlInv

LEMMA RecheckStep == ASSUME ControlInv, Recheck, Calm', Calm PROVE ControlInv'
<1>1. ControlValues'
  BY DEF ControlInv, ControlValues, Recheck, hostVars
<1>2. OnePacket' /\ Closed'
  BY DEF ControlInv, OnePacket, Closed, Recheck, Fresh, Handling, hostVars, flagVars
<1>3. DataStage' /\ LineWaits' /\ LineNotLeft'
  BY DEF ControlInv, OnePacket, DataStage, LineWaits, LineNotLeft, Closed, Recheck, Fresh, Handling,
         Lining, hostVars, flagVars
<1>4. Known' /\ Carried'
  BY DEF ControlInv, OnePacket, Known, Carried, Recheck, Fresh, Handling, Lining, Agrees, hostVars,
         flagVars
<1> QED BY <1>1, <1>2, <1>3, <1>4 DEF ControlInv

LEMMA ClearSetupStep == ASSUME ControlInv, ClearSetup, Calm', Calm PROVE ControlInv'
<1>1. ControlValues'
  BY DEF ControlInv, ControlValues, ClearSetup, hostVars
<1>2. OnePacket' /\ Closed'
  BY DEF ControlInv, OnePacket, Closed, ClearSetup, Fresh, Handling, hostVars, flagVars
<1>3. DataStage' /\ LineWaits' /\ LineNotLeft'
  BY DEF ControlInv, OnePacket, DataStage, LineWaits, LineNotLeft, Closed, ClearSetup, Fresh,
         Handling, Lining, hostVars, flagVars
<1>4. Known' /\ Carried'
  BY DEF ControlInv, OnePacket, Known, Carried, ClearSetup, Fresh, Handling, Lining, Agrees, hostVars,
         flagVars
<1> QED BY <1>1, <1>2, <1>3, <1>4 DEF ControlInv

LEMMA CallFunctionStep == ASSUME ControlInv, CallFunction, Calm', Calm PROVE ControlInv'
<1>1. /\ ControlValues /\ ~stpowIfg /\ isr = "process" /\ isr' = "recheck" /\ fn = Entry(setup)
      /\ Fresh /\ ~Fresh' /\ power = "on" /\ fn # "DisconnectThenBSL" /\ d' = Process(d)
      /\ UNCHANGED <<setup, setupIfg, stpowIfg, iepIfg, oepIfg, fn, nested, power, host, believes,
                     armed>>
  BY DEF ControlInv, ControlValues, OnePacket, Calm, CallFunction, Fresh, Handling, hostVars, flagVars
<1>2. OnePacket' /\ Closed' /\ ~iepIfg /\ ~oepIfg
  BY <1>1 DEF ControlInv, OnePacket, Closed
<1>3. PICK s \in believes : Agrees(s) /\ Applied(setup, s) \in believes
  BY <1>1 DEF ControlInv, Known
<1>4. IsSettings(s) /\ IsSettings(d.set) /\ IsDevice(d) /\ setup \in Requests /\ d.set.rwu = FALSE
  BY <1>1, <1>3 DEF ControlValues, IsDevice
<1>5. DataStage' /\ LineNotLeft'
  BY <1>1, <1>2 DEF ControlInv, DataStage, LineNotLeft
<1>6. CASE setup.kind = "SetLineCoding"
  <2>1. setup \in Writes /\ setup.len = LineSize /\ setup.len > 0
    BY <1>4, <1>6, WriteShapes, ReadShapes DEF Requests, ReadKinds, DescriptorKinds
  <2>2. d' = ReceiveData(d)
    <3>1. fn = "SetLineCoding"
      BY <1>1, <1>6 DEF Entry, Req
    <3> QED BY <1>1, <2>1, <3>1, ReadShapes DEF Process, ReadKinds, DescriptorKinds
  <2>3. /\ IsDevice(d') /\ d'.set = d.set /\ d'.nakIn = d.nakIn /\ d'.stallIn = d.stallIn
        /\ d'.action = "out" /\ d'.outLeft = LineSize /\ d'.incoming = <<>>
    BY <1>4, <2>1, <2>2, Receives
  <2>4. ControlValues' /\ LineWaits'
    BY <1>1, <1>2, <1>6, <2>1, <2>3 DEF ControlInv, ControlValues, LineWaits, Closed, Lining
  <2>5. Known' /\ Carried'
    BY <1>1, <1>3, <2>1, <2>3 DEF ControlInv, Closed, Known, Carried, Agrees
  <2> QED BY <1>2, <1>5, <2>4, <2>5 DEF ControlInv
<1>7. CASE setup.kind # "SetLineCoding"
  <2>1. IsDevice(d') /\ d'.set = Applied(setup, d.set) /\ d'.set.rwu = FALSE
    BY <1>1, <1>4, <1>7, ProcessApplies
  <2>2. ControlValues' /\ LineWaits'
    BY <1>1, <1>7, <2>1 DEF ControlInv, ControlValues, LineWaits, Lining
  <2>3. Match(Applied(setup, s), d'.set, armed)
    BY <1>1, <1>3, <1>4, <2>1, AppliedMatches DEF Agrees, ControlValues
  <2>4. Applied(setup, Applied(setup, s)) = Applied(setup, s)
    BY <1>4, AppliedSettings
  <2>5. Known' /\ Carried'
    BY <1>1, <1>3, <2>3, <2>4 DEF Known, Carried, Agrees
  <2> QED BY <1>2, <1>5, <2>2, <2>5 DEF ControlInv
<1> QED BY <1>6, <1>7

LEMMA HostSetupStep ==
  ASSUME ControlInv, NEW r \in Requests, HostSetup(r), Calm', Calm PROVE ControlInv'
<1>1. /\ power = "on" /\ power' = "on" /\ setup' = r /\ setupIfg' /\ ~stpowIfg'
      /\ ~iepIfg /\ ~oepIfg /\ ~setupIfg /\ isr \in {"none", "vector"} /\ Fresh'
      /\ host' = (IF r.len > 0 THEN "data" ELSE "status")
      /\ UNCHANGED <<iepIfg, oepIfg, isr, fn, nested>>
      /\ believes' = believes \cup {Applied(r, s) : s \in believes}
      /\ armed' = (armed \/ ~d.nakIn)
      /\ ControlValues
  BY DEF ControlInv, ControlValues, Calm, HostSetup, OnePacket, Fresh, Handling, isrVars
<1>2. IsDevice(d') /\ d'.set = d.set /\ ~d'.stallIn /\ d'.nakIn = d.nakIn
  BY <1>1 DEF ControlValues, IsDevice, DeviceFields, HostSetup
<1>3. ControlValues'
  BY <1>1, <1>2, AppliedSettings DEF ControlValues
<1>4. OnePacket' /\ Closed'
  BY <1>1 DEF ControlInv, OnePacket, Closed, Handling
<1>5. DataStage'
  BY <1>1, WriteShapes DEF DataStage, IsRead, Requests
<1>6. LineWaits' /\ LineNotLeft'
  BY <1>1, <1>2 DEF LineWaits, LineNotLeft, Lining
<1>7. Known'
  <2>1. PICK s \in believes : Agrees(s)
    BY DEF ControlInv, Known
  <2>2. s \in believes' /\ Applied(r, s) \in believes' /\ Agrees(s)'
    BY <1>1, <1>2, <2>1 DEF Agrees, Match
  <2> QED BY <1>1, <2>2 DEF Known
<1>8. Carried'
  BY <1>1 DEF Carried
<1> QED BY <1>3, <1>4, <1>5, <1>6, <1>7, <1>8 DEF ControlInv

LEMMA InInterrupts ==
  ASSUME NEW dev, IsDevice(dev)
  PROVE  IsDevice(InInterrupt(dev)) /\ InInterrupt(dev).set = dev.set
<1> DEFINE open == ClearOEP0(dev)
<1>1. IsDevice(open) /\ open.set = dev.set
  BY Clears
<1>2. IsDevice([open EXCEPT !.stallIn = TRUE]) /\ [open EXCEPT !.stallIn = TRUE].set = dev.set
  BY <1>1 DEF IsDevice, DeviceFields
<1>3. IsDevice(SendNextPacket(open)) /\ SendNextPacket(open).set = dev.set
  BY <1>1, SendsNext
<1> HIDE DEF open
<1> QED BY <1>2, <1>3 DEF InInterrupt, open

\* What an OUT interrupt does to the settings: nothing but for the data of a
\* SET_LINE_CODING, which it takes whole.
LEMMA OutInterrupts ==
  ASSUME IsDevice(d)
  PROVE  /\ IsDevice(OutInterrupt(d)) /\ Match(OutInterrupt(d).set, d.set, TRUE)
         /\ (d.action # "out" \/ setup.kind # "SetLineCoding") => OutInterrupt(d).set = d.set
         /\ (/\ d.action = "out" /\ setup.kind = "SetLineCoding" /\ d.outLeft = LineSize
             /\ d.incoming = <<>> /\ d.dataOut = LineBytes(setup.val))
              => OutInterrupt(d).set = [d.set EXCEPT !.line = setup.val]
<1> DEFINE open  == [d EXCEPT !.nakIn = FALSE, !.dataIn = <<>>]
           bytes == open.incoming \o open.dataOut
           rest  == open.outLeft - Len(open.dataOut)
           taken == [open EXCEPT !.incoming = bytes, !.outLeft = rest]
           next  == ReceiveNextPacket(open)
<1>1. /\ IsDevice(open) /\ open.set = d.set /\ open.action = d.action /\ open.outLeft = d.outLeft
      /\ open.incoming = d.incoming /\ open.dataOut = d.dataOut
  BY DEF IsDevice, DeviceFields
<1>2. IsDevice(taken) /\ taken.set = d.set /\ taken.incoming = bytes
  <2> HIDE DEF open, bytes, rest
  <2> QED BY <1>1 DEF IsDevice, DeviceFields
<1>3. next = IF rest > 0 THEN ClearOEP0(taken)
             ELSE StallOEP0([(IF rest = 0 THEN taken ELSE open) EXCEPT !.action = "nothing"])
  BY DEF ReceiveNextPacket
<1> HIDE DEF open, bytes, rest, taken, next
<1>4. \A dev : IsDevice(dev) /\ dev.set = d.set => LET over == [dev EXCEPT !.action = "nothing"]
           IN  IsDevice(over) /\ over.set = d.set /\ over.incoming = dev.incoming
  BY DEF IsDevice, DeviceFields
<1>5. IsDevice(next) /\ next.set = d.set
  <2>1. CASE rest > 0
    BY <1>2, <1>3, <2>1, Clears
  <2>2. CASE ~(rest > 0)
    <3> DEFINE last == IF rest = 0 THEN taken ELSE open
               idle == [last EXCEPT !.action = "nothing"]
    <3>1. IsDevice(last) /\ last.set = d.set
      BY <1>1, <1>2
    <3>2. next = StallOEP0(idle)
      BY <1>3, <2>2
    <3> HIDE DEF last
    <3>3. IsDevice(idle) /\ idle.set = d.set
      BY <1>4, <3>1
    <3> HIDE DEF idle
    <3> QED BY <3>2, <3>3, Stalls
  <2> QED BY <2>1, <2>2
<1>6. /\ IsDevice(SetLine(next)) /\ SetLine(next).set = [d.set EXCEPT !.line = next.incoming[1]]
      /\ Match(SetLine(next).set, d.set, TRUE)
  <2> DEFINE b == next.incoming[1]
  <2>1. SetLine(next) = [next EXCEPT !.set = [next.set EXCEPT !.line = b]]
    BY DEF SetLine
  <2> HIDE DEF b
  <2>2. IsDevice(SetLine(next)) /\ SetLine(next).set = [d.set EXCEPT !.line = b]
    BY <1>5, <2>1 DEF IsDevice, DeviceFields, IsSettings
  <2>3. Match([d.set EXCEPT !.line = b], d.set, TRUE)
    BY DEF IsDevice, IsSettings, Match
  <2> QED BY <2>2, <2>3 DEF b
<1>7. IsDevice(StallOEP0(open)) /\ StallOEP0(open).set = d.set /\ Match(d.set, d.set, TRUE)
  BY <1>1, Stalls DEF Match
<1>8. OutInterrupt(d) = IF open.action # "out" THEN StallOEP0(open)
                        ELSE IF next.action = "nothing" /\ setup.kind = "SetLineCoding"
                        THEN SetLine(next) ELSE next
  BY DEF OutInterrupt, open, next
<1>9. ASSUME d.action = "out", setup.kind = "SetLineCoding", d.outLeft = LineSize,
             d.incoming = <<>>, d.dataOut = LineBytes(setup.val)
      PROVE  OutInterrupt(d).set = [d.set EXCEPT !.line = setup.val]
  <2>1. Len(LineBytes(setup.val)) = LineSize /\ LineBytes(setup.val)[1] = setup.val
    BY ControlSizes DEF LineBytes
  <2>2. rest = 0
    BY <1>1, <1>9, <2>1, ControlSizes DEF rest
  <2>3. bytes = LineBytes(setup.val)
    BY <1>1, <1>9, ControlSizes DEF bytes, LineBytes
  <2>4. next = StallOEP0([taken EXCEPT !.action = "nothing"])
    BY <1>3, <2>2
  <2>5. next.action = "nothing" /\ next.incoming = bytes
    BY <1>2, <2>4 DEF IsDevice, DeviceFields, StallOEP0
  <2> QED BY <1>1, <1>6, <1>8, <1>9, <2>1, <2>3, <2>5
<1> QED BY <1>1, <1>5, <1>6, <1>7, <1>8, <1>9

LEMMA VectorStep == ASSUME ControlInv, Vector, Calm', Calm PROVE ControlInv'
<1>1. /\ ControlValues /\ OnePacket /\ Closed /\ DataStage /\ LineWaits /\ LineNotLeft /\ Known
      /\ Carried /\ isr = "vector" /\ IsDevice(d) /\ power # "bsl"
      /\ UNCHANGED <<setup, stpowIfg, fn, power, host, believes, armed>>
      /\ (setup.kind = "SetLineCoding" => ~IsRead(setup)) /\ power = "on"
  BY ReadShapes DEF Calm, ControlInv, ControlValues, OnePacket, Vector, hostVars, IsRead, ReadKinds, DescriptorKinds
<1>2. CASE iepIfg /\ iepIfg' = FALSE /\ d' = InInterrupt(d) /\ isr' = "none"
           /\ UNCHANGED <<setupIfg, oepIfg, nested>>
  <2>1. ~Fresh /\ ~Fresh' /\ ~setupIfg
    BY <1>1, <1>2 DEF Closed, Fresh, Handling
  <2>2. IsDevice(d') /\ d'.set = d.set
    BY <1>1, <1>2, InInterrupts
  <2>3. ControlValues' /\ OnePacket' /\ Closed'
    BY <1>1, <1>2, <2>1, <2>2 DEF ControlValues, OnePacket, Closed
  <2>4. DataStage' /\ LineWaits'
    BY <1>1, <1>2, <2>1 DEF DataStage, LineWaits, Lining
  <2>5. LineNotLeft'
    <3> SUFFICES ASSUME Lining, oepIfg, host = "idle" PROVE d'.action # "out"
      BY <1>1, <1>2 DEF LineNotLeft, Lining
    <3>1. d.action # "out"
      BY <1>1 DEF LineNotLeft
    <3> QED BY <1>1, <1>2, <3>1 DEF InInterrupt, SendNextPacket, ClearOEP0, IsDevice, DeviceFields
  <2>6. Known' /\ Carried'
    BY <1>1, <1>2, <2>1, <2>2 DEF Known, Carried, Agrees, Lining
  <2> QED BY <2>3, <2>4, <2>5, <2>6 DEF ControlInv
<1>3. CASE ~iepIfg /\ oepIfg /\ oepIfg' = FALSE /\ d' = OutInterrupt(d) /\ isr' = "none"
           /\ UNCHANGED <<setupIfg, iepIfg, nested>>
  <2>1. ~Fresh /\ ~Fresh' /\ ~setupIfg
    BY <1>1, <1>3 DEF Closed, Fresh, Handling
  <2>2. IsDevice(d') /\ Match(d'.set, d.set, TRUE)
    BY <1>1, <1>3, OutInterrupts
  <2>3. OnePacket' /\ Closed'
    BY <1>1, <1>3, <2>1 DEF OnePacket, Closed
  <2>4. ControlValues' /\ LineNotLeft'
    BY <1>1, <1>3, <2>1, <2>2 DEF ControlValues, LineNotLeft, Match
  <2>5. DataStage' /\ LineWaits'
    BY <1>1, <1>3, <2>1 DEF DataStage, LineWaits, Lining
  <2>6. ASSUME d'.set = d.set, ~(Lining /\ host = "status") PROVE Known' /\ Carried'
    BY <1>1, <1>3, <2>1, <2>6 DEF Known, Carried, Agrees, Lining
  <2>7. ASSUME armed PROVE Known' /\ Carried'
    <3>1. \A s : Agrees(s) => Agrees(s)'
      BY <1>1, <2>2, <2>7 DEF Agrees, Match
    <3>2. \A s : Agrees(Applied(setup, s)) => Agrees(Applied(setup, s))'
      BY <1>1, <3>1
    <3> QED BY <1>1, <1>3, <2>1, <2>7, <3>1, <3>2 DEF Known, Carried, Lining
  <2>8. ASSUME Lining, host = "status" PROVE Known' /\ Carried'
    <3>1. d'.set = [d.set EXCEPT !.line = setup.val]
      BY <1>1, <1>3, <2>1, <2>8, OutInterrupts DEF LineWaits, Lining
    <3>2. PICK s \in believes : Agrees(s) /\ Applied(setup, s) \in believes
      BY <1>1, <2>8 DEF Known, Lining
    <3>3. IsSettings(s) /\ IsSettings(d.set)
      BY <1>1, <3>2 DEF ControlValues, IsDevice
    <3>4. Applied(setup, d.set) = d'.set
      BY <2>8, <3>1, <3>3 DEF Applied, Lining
    <3>5. Match(Applied(setup, s), d'.set, armed)
      BY <1>1, <3>2, <3>3, <3>4, AppliedMatches DEF Agrees, ControlValues
    <3>6. Applied(setup, Applied(setup, s)) = Applied(setup, s)
      BY <3>3, AppliedSettings
    <3> QED BY <1>1, <3>2, <3>5, <3>6 DEF Known, Carried, Agrees
  <2>9. d'.set = d.set \/ armed \/ (Lining /\ host = "status")
    <3> SUFFICES ASSUME ~armed, setup.kind = "SetLineCoding", d.action = "out",
                        host # "status"
                 PROVE  FALSE
      BY <1>1, <1>3, OutInterrupts DEF Lining
    <3> QED BY <1>1, <1>3 DEF ControlValues, LineNotLeft, Lining, DataStage
  <2> QED BY <2>3, <2>4, <2>5, <2>6, <2>7, <2>8, <2>9 DEF ControlInv
<1>4. CASE ~iepIfg /\ ~oepIfg /\ setupIfg /\ setupIfg' = FALSE
           /\ d' = [d EXCEPT !.nakIn = TRUE, !.nakOut = TRUE] /\ isr' = "decode"
           /\ nested' = TRUE /\ UNCHANGED <<iepIfg, oepIfg>>
  <2>1. Fresh /\ Fresh'
    BY <1>1, <1>4 DEF Fresh, Handling
  <2>2. /\ IsDevice(d') /\ d'.set = d.set /\ d'.nakIn /\ d'.nakOut /\ d'.stallIn = d.stallIn
        /\ d'.dataOut = d.dataOut
    BY <1>1, <1>4 DEF IsDevice, DeviceFields
  <2>3. ControlValues' /\ OnePacket' /\ Closed' /\ DataStage'
    BY <1>1, <1>4, <2>1, <2>2 DEF ControlValues, OnePacket, Closed, DataStage
  <2>4. LineWaits' /\ LineNotLeft'
    BY <1>1, <1>4, <2>1, <2>2 DEF LineWaits, LineNotLeft, Lining
  <2>5. Known' /\ Carried'
    BY <1>1, <2>1, <2>2 DEF Known, Carried, Agrees
  <2> QED BY <2>3, <2>4, <2>5 DEF ControlInv
<1>5. CASE ~iepIfg /\ ~oepIfg /\ ~setupIfg /\ isr' = "none"
           /\ UNCHANGED <<d, setupIfg, iepIfg, oepIfg, nested>>
  <2>1. ~Fresh /\ ~Fresh'
    BY <1>1, <1>5 DEF Fresh, Handling
  <2>2. ControlValues' /\ OnePacket' /\ Closed' /\ DataStage'
    BY <1>1, <1>5, <2>1 DEF ControlValues, OnePacket, Closed, DataStage
  <2>3. LineWaits' /\ LineNotLeft'
    BY <1>1, <1>5, <2>1 DEF LineWaits, LineNotLeft, Lining
  <2>4. Known' /\ Carried'
    BY <1>1, <1>5, <2>1 DEF Known, Carried, Agrees, Lining
  <2> QED BY <2>2, <2>3, <2>4 DEF ControlInv
<1> QED BY <1>2, <1>3, <1>4, <1>5 DEF Vector

LEMMA HostInStep == ASSUME ControlInv, HostIn, Calm', Calm PROVE ControlInv'
<1>1. /\ ControlValues /\ OnePacket /\ Closed /\ DataStage /\ LineWaits /\ LineNotLeft /\ Known
      /\ Carried /\ IsDevice(d) /\ power = "on" /\ ~setupIfg /\ (d.stallIn \/ ~d.nakIn)
      /\ host = (IF IsRead(setup) THEN "data" ELSE "status")
      /\ UNCHANGED <<setup, setupIfg, stpowIfg, oepIfg, isr, fn, nested, power, armed>>
      /\ Fresh' = Fresh
  BY DEF ControlInv, ControlValues, HostIn, Answers, isrVars, Fresh, Handling
<1>2. IsRead(setup) => setup.kind # "SetLineCoding"
  BY ReadShapes DEF IsRead, ReadKinds, DescriptorKinds
<1>3. Lining /\ oepIfg => d.nakIn /\ ~d.stallIn
  BY <1>1, <1>2 DEF LineWaits, Lining
<1>4. OnePacket'
  BY <1>1 DEF OnePacket
<1>5. CASE d.stallIn /\ host' = "idle" /\ UNCHANGED <<d, iepIfg, got, believes>>
  <2>1. ControlValues' /\ Closed' /\ DataStage'
    BY <1>1, <1>5 DEF ControlValues, Closed, DataStage, Handling
  <2>2. LineWaits' /\ LineNotLeft'
    BY <1>1, <1>3, <1>5 DEF LineWaits, LineNotLeft, Lining
  <2>3. Known' /\ Carried'
    BY <1>1, <1>5 DEF Known, Carried, Agrees
  <2> QED BY <1>4, <2>1, <2>2, <2>3 DEF ControlInv
<1>6. ASSUME ~d.stallIn, d' = [d EXCEPT !.nakIn = TRUE], iepIfg' = TRUE PROVE
        ~Fresh /\ ~Fresh' /\ IsDevice(d') /\ d'.set = d.set
  <2>1. ~Fresh
    BY <1>1, <1>6 DEF OnePacket, Closed, Fresh, Handling
  <2>2. IsDevice(d') /\ d'.set = d.set
    BY <1>1, <1>6 DEF IsDevice, DeviceFields
  <2> QED BY <1>1, <2>1, <2>2
<1>7. CASE /\ ~d.stallIn /\ d' = [d EXCEPT !.nakIn = TRUE] /\ iepIfg' = TRUE
           /\ ~IsRead(setup) /\ host' = "idle"
           /\ believes' = (IF d.dataIn = <<>> THEN {Applied(setup, s) : s \in believes}
                           ELSE believes)
  <2>1. ControlValues' /\ Closed' /\ DataStage'
    BY <1>1, <1>6, <1>7, AppliedSettings DEF ControlValues, Closed, DataStage
  <2>2. LineWaits' /\ LineNotLeft'
    BY <1>1, <1>3, <1>7 DEF LineWaits, LineNotLeft, Lining
  <2>3. Carried'
    BY <1>7 DEF Carried
  <2>4. Known'
    <3>1. ~(Lining /\ oepIfg)
      BY <1>1, <1>3, <1>7
    <3>2. PICK s \in believes : Agrees(Applied(setup, s))
      BY <1>1, <1>6, <1>7, <3>1 DEF Carried
    <3>3. CASE d.dataIn = <<>>
      BY <1>1, <1>6, <1>7, <3>2, <3>3 DEF Known, Agrees
    <3>4. CASE d.dataIn # <<>>
      BY <1>1, <1>6, <1>7, <3>4 DEF Known, Agrees
    <3> QED BY <3>3, <3>4
  <2> QED BY <1>4, <2>1, <2>2, <2>3, <2>4 DEF ControlInv
<1>8. CASE /\ ~d.stallIn /\ d' = [d EXCEPT !.nakIn = TRUE] /\ iepIfg' = TRUE
           /\ IsRead(setup) /\ UNCHANGED believes /\ host' \in {"status", "data"}
  <2>1. ControlValues' /\ Closed' /\ DataStage'
    BY <1>1, <1>6, <1>8 DEF ControlValues, Closed, DataStage
  <2>2. LineWaits' /\ LineNotLeft'
    BY <1>1, <1>2, <1>8 DEF LineWaits, LineNotLeft, Lining
  <2>3. Known' /\ Carried'
    BY <1>1, <1>6, <1>8 DEF Known, Carried, Agrees
  <2> QED BY <1>4, <2>1, <2>2, <2>3 DEF ControlInv
<1> QED BY <1>5, <1>7, <1>8 DEF HostIn

LEMMA HostOutStep == ASSUME ControlInv, HostOut, Calm', Calm PROVE ControlInv'
<1>1. /\ ControlValues /\ OnePacket /\ Closed /\ DataStage /\ LineWaits /\ LineNotLeft /\ Known
      /\ Carried /\ IsDevice(d) /\ power = "on" /\ ~setupIfg /\ (d.stallOut \/ ~d.nakOut)
      /\ host = (IF IsRead(setup) THEN "status" ELSE "data")
      /\ UNCHANGED <<setup, setupIfg, stpowIfg, iepIfg, isr, fn, nested, power, believes, armed>>
      /\ Fresh' = Fresh
  BY DEF ControlInv, ControlValues, HostOut, Answers, isrVars, Fresh, Handling
<1>2. IsRead(setup) => setup.kind # "SetLineCoding"
  BY ReadShapes DEF IsRead, ReadKinds, DescriptorKinds
<1>3. OnePacket'
  BY <1>1 DEF OnePacket
<1>4. CASE d.stallOut /\ host' = "idle" /\ UNCHANGED <<d, oepIfg>>
  <2>1. ControlValues' /\ Closed' /\ DataStage'
    BY <1>1, <1>4 DEF ControlValues, Closed, DataStage, Handling
  <2>2. LineWaits' /\ LineNotLeft'
    BY <1>1, <1>2, <1>4 DEF LineWaits, LineNotLeft, Lining, DataStage
  <2>3. Known' /\ Carried'
    BY <1>1, <1>4 DEF Known, Carried, Agrees
  <2> QED BY <1>3, <2>1, <2>2, <2>3 DEF ControlInv
<1>5. CASE /\ ~d.stallOut /\ oepIfg' = TRUE
           /\ d' = [d EXCEPT !.nakOut = TRUE,
                             !.dataOut = IF IsRead(setup) THEN <<>> ELSE LineBytes(setup.val)]
           /\ host' = (IF IsRead(setup) THEN "idle" ELSE "status")
  <2>1. ~Fresh /\ ~Fresh'
    BY <1>1, <1>5 DEF OnePacket, Closed, Fresh, Handling
  <2>2. /\ IsDevice(d') /\ d'.set = d.set /\ d'.nakIn = d.nakIn /\ d'.stallIn = d.stallIn
        /\ d'.action = d.action /\ d'.outLeft = d.outLeft /\ d'.incoming = d.incoming
        /\ ~IsRead(setup) => d'.dataOut = LineBytes(setup.val)
    <3> DEFINE bytes == IF IsRead(setup) THEN <<>> ELSE LineBytes(setup.val)
    <3>1. d' = [d EXCEPT !.nakOut = TRUE, !.dataOut = bytes]
      BY <1>5
    <3>2. ~IsRead(setup) => bytes = LineBytes(setup.val)
      OBVIOUS
    <3> HIDE DEF bytes
    <3> QED BY <1>1, <3>1, <3>2 DEF IsDevice, DeviceFields
  <2>3. ControlValues' /\ Closed' /\ DataStage'
    BY <1>1, <1>5, <2>1, <2>2 DEF ControlValues, Closed, DataStage
  <2>4. LineWaits' /\ LineNotLeft'
    BY <1>1, <1>2, <1>5, <2>1, <2>2 DEF LineWaits, LineNotLeft, Lining
  <2>5. Known'
    BY <1>1, <1>5, <2>1, <2>2 DEF Known, Agrees
  <2>6. Carried'
    <3> SUFFICES ASSUME ~IsRead(setup), armed PROVE \E s \in believes : Agrees(Applied(setup, s))'
      BY <1>1, <1>5 DEF Carried, Lining, DataStage
    <3>1. PICK s \in believes : Agrees(s)
      BY <1>1 DEF Known
    <3>2. IsSettings(s) /\ setup.kind = "SetLineCoding"
      BY <1>1, <3>1 DEF ControlValues, DataStage
    <3>3. Match(Applied(setup, s), s, TRUE)
      BY <3>2 DEF Applied, IsSettings, Match
    <3>4. Match(Applied(setup, s), d.set, TRUE)
      BY <3>1, <3>3 DEF Agrees, Match
    <3>5. Agrees(Applied(setup, s))'
      BY <1>1, <2>2, <3>4 DEF Agrees, Match
    <3> QED BY <3>1, <3>5
  <2> QED BY <1>3, <2>3, <2>4, <2>5, <2>6 DEF ControlInv
<1> QED BY <1>4, <1>5 DEF HostOut

LEMMA UsbResetStep == ASSUME ControlInv, UsbReset, Calm', Calm PROVE ControlInv'
<1>1. /\ ControlValues /\ OnePacket /\ Known /\ IsDevice(d) /\ isr = "none" /\ power' = "on"
      /\ d' = ResetDevice(d.set.latency) /\ ~setupIfg' /\ ~stpowIfg' /\ host' = "idle"
      /\ believes' = {ResetSettings(s.latency) : s \in believes}
      /\ UNCHANGED <<setup, iepIfg, oepIfg, isr, fn, nested, armed>> /\ ~Fresh'
  BY DEF ControlInv, ControlValues, UsbReset, isrVars, Fresh, Handling
<1>2. \A n : IsSettings(ResetSettings(n)) /\ ResetSettings(n).rwu = FALSE
  BY DEF IsSettings, ResetSettings
<1>3. IsDevice(d') /\ d'.set = ResetSettings(d.set.latency) /\ d'.action = "nothing"
  BY <1>1, <1>2 DEF IsDevice, DeviceFields, ResetDevice
<1>4. ControlValues' /\ OnePacket' /\ Closed' /\ DataStage'
  BY <1>1, <1>2, <1>3 DEF ControlValues, OnePacket, Closed, DataStage
<1>5. LineWaits' /\ LineNotLeft' /\ Carried'
  BY <1>1, <1>3 DEF LineWaits, LineNotLeft, Carried
<1>6. Known'
  <2>1. PICK s \in believes : Agrees(s)
    BY <1>1 DEF Known
  <2>2. s.latency = d.set.latency
    BY <2>1 DEF Agrees, Match
  <2>3. ResetSettings(s.latency) \in believes' /\ Agrees(ResetSettings(s.latency))'
    BY <1>1, <1>3, <2>1, <2>2 DEF Agrees, Match
  <2> QED BY <1>1, <2>3 DEF Known
<1> QED BY <1>4, <1>5, <1>6 DEF ControlInv

LEMMA VbusOffStep == ASSUME ControlInv, VbusOff, Calm', Calm PROVE ControlInv'
<1>1. /\ ControlValues /\ OnePacket /\ Closed /\ Known /\ IsDevice(d) /\ isr = "none"
      /\ power' = "off" /\ d' = [d EXCEPT !.set.enum = FALSE] /\ host' = "idle"
      /\ believes' = {[s EXCEPT !.enum = FALSE] : s \in believes}
      /\ UNCHANGED <<setup, setupIfg, stpowIfg, iepIfg, oepIfg, isr, fn, nested, armed>>
      /\ Fresh' = Fresh
  BY DEF ControlInv, ControlValues, VbusOff, isrVars, flagVars, Fresh, Handling
<1>2. ASSUME NEW s, IsSettings(s)
      PROVE  IsSettings([s EXCEPT !.enum = FALSE]) /\ [s EXCEPT !.enum = FALSE].rwu = s.rwu
  <2>1. \A v : IsSettings([s EXCEPT !.enum = v]) /\ [s EXCEPT !.enum = v].rwu = s.rwu
    BY <1>2 DEF IsSettings
  <2> QED BY <2>1
<1>3. IsDevice(d') /\ d'.set = [d.set EXCEPT !.enum = FALSE]
  <2> DEFINE x == [d.set EXCEPT !.enum = FALSE]
  <2>1. IsSettings(x) /\ d' = [d EXCEPT !.set = x]
    BY <1>1, <1>2 DEF IsDevice
  <2> HIDE DEF x
  <2>2. IsDevice(d') /\ d'.set = x
    BY <1>1, <2>1 DEF IsDevice, DeviceFields
  <2> QED BY <2>2 DEF x
<1>4. ControlValues' /\ OnePacket' /\ Closed' /\ DataStage'
  <2>1. d'.set.rwu = FALSE
    BY <1>1, <1>2, <1>3 DEF ControlValues, IsDevice
  <2>2. \A s \in believes' : IsSettings(s)
    BY <1>1, <1>2 DEF ControlValues
  <2>3. ControlValues'
    BY <1>1, <1>3, <2>1, <2>2 DEF ControlValues
  <2> QED BY <1>1, <2>3 DEF OnePacket, Closed, DataStage, Handling
<1>5. LineWaits' /\ LineNotLeft' /\ Carried'
  BY <1>1 DEF LineWaits, LineNotLeft, Carried, Lining
<1>6. Known'
  <2>1. PICK s \in believes : Agrees(s)
    BY <1>1 DEF Known
  <2>2. IsSettings(s) /\ IsSettings(d.set)
    BY <1>1, <2>1 DEF ControlValues, IsDevice
  <2>3. Match([s EXCEPT !.enum = FALSE], [d.set EXCEPT !.enum = FALSE], armed)
    BY <2>1, <2>2 DEF Agrees, Match, IsSettings
  <2> QED BY <1>1, <1>3, <2>1, <2>3 DEF Known, Agrees
<1> QED BY <1>4, <1>5, <1>6 DEF ControlInv

LEMMA ControlStep == ASSUME ControlInv, [ControlNext]_controlVars PROVE ControlInv'
<1> SUFFICES ASSUME Calm' PROVE ControlInv'
  BY DEF ControlInv
<1>1. CASE UNCHANGED controlVars
  BY <1>1 DEF controlVars, flagVars, isrVars, hostVars, ControlInv, Calm, ControlValues, OnePacket,
     Closed, DataStage, LineWaits, LineNotLeft, Known, Carried, Fresh, Handling, Lining, Agrees
<1>2. CASE ControlNext
  <2>1. Calm
    BY <1>2, CalmBefore
  <2> QED BY <1>2, <2>1, EnterIsrStep, DecodeStep, CallFunctionStep, RecheckStep, ClearSetupStep,
        VectorStep, HostInStep, HostOutStep, UsbResetStep, VbusOffStep, HostSetupStep
        DEF ControlNext, Isr, BusReset, VbusOn
<1> QED BY <1>1, <1>2

\* The inductive invariant behind the settings holds in every behaviour of
\* endpoint 0, whatever transfers the host gives up, for every size of packets
\* and descriptors and any number of transfers.
THEOREM ControlInvariance == ControlSpec => []ControlInv
<1> QED BY InitControlInv, ControlStep, PTL DEF ControlSpec

\* The host knows the settings: a write it has finished is in force (usb.c and
\* descriptors.c carry it out before they open the status stage), one it gave
\* up may be, and nothing else changes them.
THEOREM SettingsAreKnown == ControlSpec => []HostKnowsSettings
<1>1. ControlInv => HostKnowsSettings
  <2> SUFFICES ASSUME ControlInv, Calm PROVE HostKnowsSettings
    BY DEF HostKnowsSettings, Calm
  <2>1. PICK s \in believes : Agrees(s)
    BY DEF ControlInv, Known
  <2>2. IsSettings(s) /\ IsSettings(d.set)
    BY <2>1 DEF ControlInv, ControlValues, IsDevice
  <2>3. [s EXCEPT !.line = d.set.line] = d.set
    BY <2>1, <2>2 DEF Agrees, Match, IsSettings
  <2> QED BY <2>1, <2>3 DEF HostKnowsSettings, Agrees, Match
<1> QED BY <1>1, ControlInvariance, PTL
----------------------------------------------------------------------------
\* What a read is to bring.
Wanted == Answer(d, setup.kind)

\* The driver has k bytes of s behind it, and the others before it.
Coming(dev, s, k) ==
  /\ k \in Nat /\ dev.left \in Nat /\ k + dev.left = LesserOf(Len(s), setup.len)
  /\ dev.src = SubSeq(s, k + 1, Len(s)) /\ (dev.more <=> Len(s) < setup.len)
  /\ dev.left = 0 => Len(s) < setup.len

\* The packet behind the first k bytes of s is in the endpoint: the last one,
\* which the host knows it by, or a full one.
Offering(dev, s, k) ==
  LET n == k + Len(dev.dataIn)
  IN  /\ k \in Nat /\ Len(dev.dataIn) \in Nat /\ n <= Len(s)
      /\ dev.dataIn = SubSeq(s, k + 1, n)
      /\ \/ /\ dev.action = "nothing" /\ n = LesserOf(Len(s), setup.len)
            /\ Len(dev.dataIn) < PacketSize \/ n = setup.len
         \/ /\ dev.action = "in" /\ Len(dev.dataIn) = PacketSize /\ n < setup.len
            /\ Coming(dev, s, n)

Reading ==
  power = "on" /\ IsRead(setup) /\ setup.kind # "OtherRead" /\ ~Fresh /\ host = "data"

Begins ==
  (power = "on" /\ Fresh) => ~d.stallIn /\ (IsRead(setup) => host = "data" /\ got = <<>>)

ReadGoesOn ==
  Reading =>
    /\ ~oepIfg /\ ~d.stallIn /\ Len(got) \in Nat /\ got = SubSeq(Wanted, 1, Len(got))
    /\ \/ ~d.nakIn /\ ~iepIfg /\ Offering(d, Wanted, Len(got))
       \/ d.nakIn /\ iepIfg /\ d.action = "in" /\ Coming(d, Wanted, Len(got))

ReadInv == ControlInv /\ (Calm => Begins /\ ReadGoesOn)
----------------------------------------------------------------------------
LEMMA Pieces ==
  ASSUME NEW S, NEW s \in Seq(S), NEW g \in Nat, NEW p \in Nat, g + p <= Len(s),
         NEW rest, rest = SubSeq(s, g + 1, Len(s))
  PROVE  /\ SubSeq(rest, 1, p) = SubSeq(s, g + 1, g + p)
         /\ Len(SubSeq(s, g + 1, g + p)) = p /\ Len(SubSeq(s, 1, g)) = g
         /\ SubSeq(rest, p + 1, Len(rest)) = SubSeq(s, g + p + 1, Len(s))
         /\ SubSeq(s, 1, g) \o SubSeq(s, g + 1, g + p) = SubSeq(s, 1, g + p)
<1> DEFINE n == Len(s)
<1>1. n \in Nat /\ g + 1 \in 1..n+1 /\ Len(rest) = n - g
  BY SubSeqProperties
<1>2. Len(SubSeq(s, g + 1, g + p)) = p /\ Len(SubSeq(s, 1, g)) = g
  BY <1>1, SubSeqProperties
<1>3. SubSeq(rest, 1, p) = SubSeq(s, g + 1, g + p)
  <2>1. CASE p = 0
    <3>1. SubSeq(rest, 1, p) = <<>> /\ SubSeq(s, g + 1, g + p) = <<>>
      BY <2>1, <1>1
    <3> QED BY <3>1
  <2>2. CASE p > 0
    <3>1. SubSeq(SubSeq(s, g+1, n), 1, p) = SubSeq(s, (g+1) + 1 - 1, (g+1) + p - 1)
      BY <1>1, <2>2, SubSeqOfSubSeq
    <3> QED BY <3>1
  <2> QED BY <2>1, <2>2
<1>4. SubSeq(rest, p + 1, Len(rest)) = SubSeq(s, g + p + 1, n)
  <2>1. CASE g + p = n
    <3>1. SubSeq(rest, p + 1, Len(rest)) = <<>> /\ SubSeq(s, g + p + 1, n) = <<>>
      BY <2>1, <1>1
    <3> QED BY <3>1
  <2>2. CASE g + p < n
    <3>1. SubSeq(SubSeq(s, g+1, n), p+1, n-g) = SubSeq(s, (g+1) + (p+1) - 1, (g+1) + (n-g) - 1)
      BY <1>1, <2>2, SubSeqOfSubSeq
    <3> QED BY <1>1, <3>1
  <2> QED BY <2>1, <2>2, <1>1
<1>5. SubSeq(s, 1, g) \o SubSeq(s, g + 1, g + p) = SubSeq(s, 1, g + p)
  BY <1>1, ConcatAdjacentSubSeq
<1> QED BY <1>2, <1>3, <1>4, <1>5

Octets == Nat \cup {d.set.cfg, d.set.line, d.set.latency}

LEMMA AnswerType ==
  ASSUME IsRead(setup), setup.kind # "OtherRead"
  PROVE  Wanted \in Seq(Octets) /\ Len(Wanted) > 0
<1> DEFINE k == setup.kind
<1>1. k \in ReadKinds
  BY ReadShapes DEF IsRead
<1>2. CASE k \in DescriptorKinds
  <2>1. Wanted = Descriptor(k)
    BY <1>2 DEF Wanted, Answer, DescriptorKinds
  <2>2. DescriptorSize[k] \in Nat \ {0}
    BY <1>2, ControlSizes
  <2>3. Descriptor(k) \in Seq(Octets) /\ Len(Descriptor(k)) = DescriptorSize[k]
    BY <2>2 DEF Descriptor, Octets
  <2> QED BY <2>1, <2>2, <2>3
<1>3. \A b : AsBit(b) \in Nat /\ 2 * AsBit(b) \in Nat /\ AsByte(b) \in Nat
  BY DEF AsBit, AsByte
<1>4. CASE k = "GetConfiguration"
  BY <1>4 DEF Wanted, Answer, Octets, DescriptorKinds
<1>5. CASE k = "GetInterface" \/ k = "GetInterfaceStatus"
  <2>1. Wanted = <<0, AsByte(d.set.ifn)>>
    BY <1>5 DEF Wanted, Answer, DescriptorKinds
  <2> QED BY <1>3, <2>1 DEF Octets
<1>6. CASE k = "GetDeviceStatus"
  BY <1>3, <1>6 DEF Wanted, Answer, Octets, DescriptorKinds
<1>7. CASE k = "GetEndpointStatus"
  BY <1>3, <1>7 DEF Wanted, Answer, Octets, DescriptorKinds
<1>8. CASE k = "GetLineCoding"
  <2>1. Wanted = LineBytes(d.set.line)
    BY <1>8 DEF Wanted, Answer, DescriptorKinds
  <2>2. LineBytes(d.set.line) \in Seq(Octets) /\ Len(LineBytes(d.set.line)) = LineSize
    BY ControlSizes DEF LineBytes, Octets
  <2> QED BY <2>1, <2>2, ControlSizes
<1>9. CASE k = "GetLatencyTimer"
  BY <1>9 DEF Wanted, Answer, Octets, DescriptorKinds
<1> QED BY <1>1, <1>2, <1>4, <1>5, <1>6, <1>7, <1>8, <1>9 DEF ReadKinds

LEMMA SameAnswer ==
  ASSUME d'.set = d.set, d'.stallIn = d.stallIn, setup' = setup
  PROVE  Wanted' = Wanted
BY DEF Wanted, Answer, Halted

\* usbSendNextPacketOnIEP0 offers the next packet of what is to come.
LEMMA NextPiece ==
  ASSUME NEW dev, IsDevice(dev), NEW S, NEW s \in Seq(S), NEW k, Coming(dev, s, k),
         setup.len \in Nat
  PROVE  LET new == SendNextPacket(dev)
         IN  /\ Offering(new, s, k) /\ ~new.nakIn /\ new.stallIn = dev.stallIn
<1> DEFINE n    == LesserOf(dev.left, PacketSize)
           lastp == LastPacket(dev)
           data == SubSeq(dev.src, 1, n)
           rest == SubSeq(dev.src, n + 1, Len(dev.src))
           left == IF lastp THEN NoData ELSE dev.left - n
           act  == IF lastp THEN "nothing" ELSE "in"
           new  == SendNextPacket(dev)
<1>1. /\ k \in Nat /\ dev.left \in Nat /\ Len(s) \in Nat /\ k + dev.left <= Len(s) /\ n \in Nat
      /\ n <= dev.left /\ n <= PacketSize /\ PacketSize \in Nat /\ k + n <= Len(s)
  BY ControlSizes DEF Coming, LesserOf
<1>2. new = [dev EXCEPT !.left = left, !.action = act, !.nakIn = FALSE, !.dataIn = data, !.src = rest]
  BY <1>1 DEF SendNextPacket, NoData
<1>3. /\ data = SubSeq(s, k + 1, k + n) /\ Len(data) = n
      /\ rest = SubSeq(s, k + n + 1, Len(s))
  <2>1. dev.src = SubSeq(s, k + 1, Len(s)) /\ n \in Nat /\ k \in Nat /\ k + n <= Len(s)
    BY <1>1 DEF Coming
  <2> HIDE DEF n
  <2>2. /\ SubSeq(dev.src, 1, n) = SubSeq(s, k + 1, k + n)
        /\ Len(SubSeq(s, k + 1, k + n)) = n
        /\ SubSeq(dev.src, n + 1, Len(dev.src)) = SubSeq(s, k + n + 1, Len(s))
    BY <2>1, Pieces
  <2> QED BY <2>2
<1>4. lastp <=> (dev.left < PacketSize \/ (dev.left = PacketSize /\ ~dev.more))
  BY DEF LastPacket
<1> HIDE DEF n, lastp, data, rest, left, act, new
<1>5. /\ new.left = left /\ new.action = act /\ new.nakIn = FALSE /\ new.dataIn = data
      /\ new.src = rest /\ new.more = dev.more /\ new.stallIn = dev.stallIn
  BY <1>2 DEF IsDevice, DeviceFields
<1> DEFINE m == k + n
<1>8. m \in Nat /\ m <= Len(s) /\ k + Len(new.dataIn) = m /\ new.dataIn = SubSeq(s, k + 1, m)
        /\ Len(new.dataIn) = n
  <2>1. new.dataIn = SubSeq(s, k + 1, k + n) /\ Len(new.dataIn) = n
    BY <1>3, <1>5
  <2> QED BY <1>1, <2>1
<1>6. CASE lastp
  <2>1. m = LesserOf(Len(s), setup.len) /\ (n < PacketSize \/ m = setup.len)
    BY <1>1, <1>4, <1>6, ControlSizes DEF Coming, LesserOf, n
  <2>2. new.action = "nothing"
    BY <1>5, <1>6 DEF act
  <2> HIDE DEF m
  <2>3. Offering(new, s, k)
    BY <1>1, <1>8, <2>1, <2>2 DEF Offering
  <2> QED BY <1>5, <2>3 DEF new
<1>7. CASE ~lastp
  <2>1. n = PacketSize /\ m < setup.len /\ left \in Nat
          /\ m + left = LesserOf(Len(s), setup.len) /\ (left = 0 => Len(s) < setup.len)
    BY <1>1, <1>4, <1>7, ControlSizes DEF Coming, LesserOf, left, n
  <2>2. new.action = "in" /\ new.src = SubSeq(s, m + 1, Len(s))
    BY <1>3, <1>5, <1>7 DEF act
  <2> HIDE DEF m
  <2>3. Coming(new, s, m)
    BY <1>1, <1>5, <1>8, <2>1, <2>2 DEF Coming
  <2>4. Offering(new, s, k)
    BY <1>1, <1>8, <2>1, <2>2, <2>3 DEF Offering
  <2> QED BY <1>5, <2>4 DEF new
<1> QED BY <1>6, <1>7

LEMMA SendsFirst ==
  ASSUME NEW dev, IsDevice(dev), NEW S, NEW s \in Seq(S), Len(s) > 0, setup.len \in Nat \ {0},
         NEW k, k = 0
  PROVE  /\ Offering(SendData(dev, s), s, k) /\ ~SendData(dev, s).nakIn
         /\ SendData(dev, s).stallIn = dev.stallIn
<1> DEFINE left  == LesserOf(Len(s), setup.len)
           more  == Len(s) < setup.len
           begun == [dev EXCEPT !.src = s, !.left = left, !.more = more]
<1>1. left \in Nat /\ left > 0 /\ Len(s) \in Nat
  BY DEF LesserOf
<1>2. SendData(dev, s) = SendNextPacket(begun)
  BY DEF SendData
<1>3. SubSeq(s, 1, Len(s)) = s
  BY SubSeqFull
<1>4. IsDevice(begun) /\ begun.left = left /\ begun.src = s /\ begun.stallIn = dev.stallIn
  BY DEF IsDevice, DeviceFields
<1>5. begun.more <=> Len(s) < setup.len
  BY DEF IsDevice, DeviceFields
<1> HIDE DEF begun
<1>6. Coming(begun, s, k)
  BY <1>1, <1>3, <1>4, <1>5 DEF Coming
<1> QED BY <1>2, <1>4, <1>6, NextPiece

LEMMA AnswerSent ==
  ASSUME IsDevice(d), IsRead(setup), setup.kind # "OtherRead", fn = Entry(setup), NEW k, k = 0
  PROVE  /\ Offering(Process(d), Wanted, k) /\ ~Process(d).nakIn
         /\ Process(d).stallIn = d.stallIn /\ Process(d).set = d.set
<1>1. /\ setup.kind \in ReadKinds /\ setup.kind \in {r.kind : r \in Reads}
      /\ setup.len \in Nat \ {0} /\ Wanted \in Seq(Octets) /\ Len(Wanted) > 0
  BY ReadShapes, AnswerType DEF IsRead
<1>2. fn = setup.kind
  BY <1>1 DEF Entry, Req, ReadKinds, DescriptorKinds
<1>3. CASE fn = "GetLineCoding"
  <2>1. Process(d) = SendData(d, Wanted)
    BY <1>2, <1>3 DEF Process, Wanted
  <2> QED BY <1>1, <2>1, SendsFirst, Sends
<1>4. CASE fn # "GetLineCoding"
  <2>1. Process(d) = SendData(ClearOEP0(d), Wanted)
    BY <1>1, <1>2, <1>4 DEF Process, GetLatencyTimer, Reply, Wanted, ReadKinds, DescriptorKinds
  <2>2. IsDevice(ClearOEP0(d)) /\ ClearOEP0(d).set = d.set /\ ClearOEP0(d).stallIn = d.stallIn
    BY Clears DEF IsDevice, DeviceFields, ClearOEP0
  <2> QED BY <1>1, <2>1, <2>2, SendsFirst, Sends
<1> QED BY <1>3, <1>4

LEMMA ReadCallStep ==
  ASSUME ReadInv, CallFunction, Calm', Calm PROVE Begins' /\ ReadGoesOn'
<1>1. /\ ControlValues /\ ~stpowIfg /\ fn = Entry(setup) /\ Fresh /\ ~Fresh' /\ power = "on"
      /\ d' = Process(d) /\ UNCHANGED <<setup, iepIfg, oepIfg, host, got>>
      /\ ~iepIfg /\ ~oepIfg /\ IsDevice(d) /\ ~d.stallIn
      /\ (IsRead(setup) => host = "data" /\ got = <<>>)
  BY DEF ReadInv, ControlInv, ControlValues, OnePacket, Closed, Calm, CallFunction, Fresh, Handling,
         Begins, hostVars, flagVars
<1>2. ASSUME Reading' PROVE ReadGoesOn'
  <2> DEFINE k == Len(got)
  <2>1. IsRead(setup) /\ setup.kind # "OtherRead" /\ k = 0 /\ got = <<>>
    BY <1>1, <1>2 DEF Reading
  <2> HIDE DEF k
  <2>2. Offering(d', Wanted, k) /\ ~d'.nakIn /\ d'.stallIn = d.stallIn /\ d'.set = d.set
    BY <1>1, <2>1, AnswerSent
  <2>3. Wanted' = Wanted
    BY <1>1, <2>2, SameAnswer
  <2>4. Offering(d, Wanted, Len(got))'
    BY <1>1, <2>2, <2>3 DEF k, Offering, Coming
  <2>5. Len(got)' \in Nat /\ got' = SubSeq(Wanted', 1, Len(got'))
    BY <1>1, <2>1 DEF k
  <2> QED BY <1>1, <2>2, <2>4, <2>5 DEF ReadGoesOn
<1> QED BY <1>1, <1>2 DEF Begins, ReadGoesOn

\* Steps that leave the transfer alone.
LEMMA ReadKept ==
  ASSUME ReadInv, Calm, d'.set = d.set, d'.stallIn = d.stallIn, d'.nakIn = d.nakIn,
         d'.dataIn = d.dataIn, d'.action = d.action, d'.left = d.left, d'.src = d.src,
         d'.more = d.more, UNCHANGED <<setup, iepIfg, host, got>>,
         Reading' => Reading, Reading => oepIfg' = oepIfg
  PROVE  ReadGoesOn'
<1>1. Wanted' = Wanted
  BY SameAnswer
<1>2. Coming(d, Wanted, Len(got)) => Coming(d, Wanted, Len(got))'
  BY <1>1 DEF Coming
<1>3. Offering(d, Wanted, Len(got)) => Offering(d, Wanted, Len(got))'
  BY <1>1 DEF Offering, Coming
<1> QED BY <1>1, <1>2, <1>3 DEF ReadGoesOn, ReadInv

LEMMA ReadQuietStep ==
  ASSUME ReadInv, EnterIsr \/ Decode \/ Recheck \/ ClearSetup, Calm', Calm
  PROVE  Begins' /\ ReadGoesOn'
<1>1. IsDevice(d) /\ OnePacket /\ UNCHANGED <<setup, iepIfg, oepIfg, host, got>>
  BY DEF ReadInv, ControlInv, ControlValues, EnterIsr, Decode, Recheck, ClearSetup, hostVars, flagVars
<1>2. CASE EnterIsr \/ Recheck \/ ClearSetup
  <2>1. d' = d /\ (Fresh' => Fresh) /\ (Fresh => Fresh')
    BY <1>1, <1>2 DEF EnterIsr, Recheck, ClearSetup, OnePacket, Fresh, Handling, flagVars
  <2>2. power' = power
    BY <1>2 DEF EnterIsr, Recheck, ClearSetup
  <2>3. Begins'
    BY <1>1, <2>1, <2>2 DEF ReadInv, Begins
  <2>4. Reading' => Reading
    BY <1>1, <2>1, <2>2 DEF Reading
  <2> QED BY <1>1, <2>1, <2>3, <2>4, ReadKept
<1>3. CASE Decode
  <2>1. Fresh /\ Fresh' /\ power' = power /\ d'.stallIn = d.stallIn
    BY <1>1, <1>3 DEF Decode, Fresh, Handling, IsDevice, DeviceFields
  <2> QED BY <1>1, <2>1 DEF ReadInv, Begins, ReadGoesOn, Reading
<1> QED BY <1>2, <1>3

LEMMA ReadVectorStep ==
  ASSUME ReadInv, Vector, Calm', Calm PROVE Begins' /\ ReadGoesOn'
<1>1. /\ IsDevice(d) /\ OnePacket /\ Closed /\ isr = "vector" /\ Begins /\ ReadGoesOn
      /\ UNCHANGED <<setup, power, host, got>>
  BY DEF ReadInv, ControlInv, ControlValues, Vector, hostVars
<1>2. CASE iepIfg /\ iepIfg' = FALSE /\ d' = InInterrupt(d) /\ isr' = "none"
           /\ UNCHANGED <<setupIfg, oepIfg, nested>>
  <2>1. ~Fresh /\ ~Fresh'
    BY <1>1, <1>2 DEF Closed, Fresh, Handling
  <2>2. ASSUME Reading PROVE ReadGoesOn'
    <3> DEFINE open == ClearOEP0(d)
    <3>1. /\ ~oepIfg /\ ~d.stallIn /\ Len(got) \in Nat /\ got = SubSeq(Wanted, 1, Len(got))
          /\ d.action = "in" /\ Coming(d, Wanted, Len(got))
      BY <1>1, <1>2, <2>2 DEF ReadGoesOn
    <3>2. /\ IsDevice(open) /\ open.set = d.set /\ open.stallIn = d.stallIn /\ open.left = d.left
          /\ open.src = d.src /\ open.more = d.more
      BY <1>1, Clears DEF IsDevice, DeviceFields, ClearOEP0
    <3>3. Coming(open, Wanted, Len(got)) /\ d' = SendNextPacket(open)
      BY <1>2, <3>1, <3>2 DEF Coming, InInterrupt
    <3>4. Wanted \in Seq(Octets) /\ setup.len \in Nat
      BY <2>2, AnswerType, ReadShapes DEF Reading, IsRead
    <3> HIDE DEF open
    <3>5. Offering(d', Wanted, Len(got)) /\ ~d'.nakIn /\ d'.stallIn = d.stallIn /\ d'.set = d.set
      BY <3>2, <3>3, <3>4, NextPiece, SendsNext
    <3>6. Wanted' = Wanted
      BY <1>1, <3>5, SameAnswer
    <3>7. Offering(d, Wanted, Len(got))'
      BY <1>1, <3>5, <3>6 DEF Offering, Coming
    <3> QED BY <1>1, <1>2, <3>1, <3>5, <3>6, <3>7 DEF ReadGoesOn
  <2> QED BY <1>1, <2>1, <2>2 DEF Begins, ReadGoesOn, Reading
<1>3. CASE ~iepIfg /\ oepIfg /\ oepIfg' = FALSE /\ d' = OutInterrupt(d) /\ isr' = "none"
           /\ UNCHANGED <<setupIfg, iepIfg, nested>>
  <2>1. ~Fresh /\ ~Fresh'
    BY <1>1, <1>3 DEF Closed, Fresh, Handling
  <2>2. ~Reading
    BY <1>1, <1>3 DEF ReadGoesOn
  <2> QED BY <1>1, <2>1, <2>2 DEF Begins, ReadGoesOn, Reading
<1>4. CASE ~iepIfg /\ ~oepIfg /\ setupIfg /\ setupIfg' = FALSE
           /\ d' = [d EXCEPT !.nakIn = TRUE, !.nakOut = TRUE] /\ isr' = "decode"
           /\ nested' = TRUE /\ UNCHANGED <<iepIfg, oepIfg>>
  <2>1. Fresh /\ Fresh' /\ d'.stallIn = d.stallIn
    BY <1>1, <1>4 DEF Fresh, Handling, IsDevice, DeviceFields
  <2> QED BY <1>1, <2>1 DEF Begins, ReadGoesOn, Reading
<1>5. CASE ~iepIfg /\ ~oepIfg /\ ~setupIfg /\ isr' = "none"
           /\ UNCHANGED <<d, setupIfg, iepIfg, oepIfg, nested>>
  <2>1. ~Fresh /\ ~Fresh'
    BY <1>1, <1>5 DEF Fresh, Handling
  <2>2. Reading' => Reading
    BY <1>1, <2>1 DEF Reading
  <2> QED BY <1>1, <1>5, <2>1, <2>2, ReadKept DEF Begins
<1> QED BY <1>2, <1>3, <1>4, <1>5 DEF Vector

\* A read that the host is allowed to go on with is past its beginning.
LEMMA HostReads ==
  ASSUME ReadInv, Calm, Answers, d.stallIn \/ ~d.nakIn PROVE ~Fresh
BY DEF ReadInv, ControlInv, OnePacket, Closed, Begins, Fresh, Handling, Answers

\* The host has taken the packet that was offered.
LEMMA PacketTaken ==
  ASSUME NEW S, NEW s \in Seq(S), NEW g, g = SubSeq(s, 1, Len(g)), Len(g) \in Nat,
         Offering(d, s, Len(g)), NEW h, h = g \o d.dataIn
  PROVE  /\ Len(h) = Len(g) + Len(d.dataIn) /\ h = SubSeq(s, 1, Len(h)) /\ Len(h) \in Nat
         /\ Len(h) <= Len(s)
         /\ \/ /\ d.action = "nothing" /\ Len(h) = LesserOf(Len(s), setup.len)
               /\ Len(d.dataIn) < PacketSize \/ Len(h) = setup.len
            \/ /\ d.action = "in" /\ Len(d.dataIn) = PacketSize /\ Len(h) < setup.len
               /\ Coming(d, s, Len(h))
<1> DEFINE m == Len(g)
           p == Len(d.dataIn)
<1>1. /\ m \in Nat /\ p \in Nat /\ m + p <= Len(s) /\ d.dataIn = SubSeq(s, m + 1, m + p)
      /\ Len(s) \in Nat
  BY DEF Offering
<1>2. SubSeq(s, 1, m) \o SubSeq(s, m + 1, m + p) = SubSeq(s, 1, m + p)
        /\ Len(SubSeq(s, 1, m + p)) = m + p
  <2> HIDE DEF m, p
  <2>1. SubSeq(s, 1, m) \o SubSeq(s, m + 1, m + p) = SubSeq(s, 1, m + p)
    BY <1>1, Pieces
  <2>2. Len(SubSeq(s, 1, m + p)) = m + p
    BY <1>1, SubSeqProperties
  <2> QED BY <2>1, <2>2
<1>3. h = SubSeq(s, 1, m + p) /\ Len(h) = m + p
  BY <1>1, <1>2
<1> QED BY <1>1, <1>3 DEF Offering

LEMMA ReadHostInStep ==
  ASSUME ReadInv, HostIn, Calm', Calm PROVE Begins' /\ ReadGoesOn'
<1>1. /\ IsDevice(d) /\ ReadGoesOn /\ Answers /\ (d.stallIn \/ ~d.nakIn) /\ power = "on"
      /\ host = (IF IsRead(setup) THEN "data" ELSE "status")
      /\ UNCHANGED <<setup, oepIfg, power>> /\ Fresh' = Fresh
  BY DEF ReadInv, ControlInv, ControlValues, HostIn, Answers, isrVars, Fresh, Handling
<1>2. ~Fresh /\ ~Fresh'
  BY <1>1, HostReads
<1>3. ASSUME Reading' PROVE ReadGoesOn'
  <2>1. Reading /\ IsRead(setup) /\ host' = "data"
    BY <1>1, <1>2, <1>3 DEF Reading
  <2>2. /\ ~oepIfg /\ ~d.stallIn /\ ~d.nakIn /\ Len(got) \in Nat
        /\ got = SubSeq(Wanted, 1, Len(got)) /\ Offering(d, Wanted, Len(got))
    BY <1>1, <2>1 DEF ReadGoesOn
  <2>3. /\ d' = [d EXCEPT !.nakIn = TRUE] /\ iepIfg' = TRUE /\ got' = got \o d.dataIn
        /\ ~(Len(d.dataIn) < PacketSize) /\ ~(Len(got') >= setup.len)
    BY <2>1, <2>2 DEF HostIn
  <2>4. Wanted \in Seq(Octets) /\ setup.len \in Nat \ {0}
    BY <2>1, AnswerType, ReadShapes DEF Reading, IsRead
  <2>5. /\ got' = SubSeq(Wanted, 1, Len(got')) /\ Len(got') \in Nat
        /\ \/ /\ d.action = "nothing" /\ Len(got') = LesserOf(Len(Wanted), setup.len)
              /\ Len(d.dataIn) < PacketSize \/ Len(got') = setup.len
           \/ /\ d.action = "in" /\ Len(d.dataIn) = PacketSize /\ Len(got') < setup.len
              /\ Coming(d, Wanted, Len(got'))
    BY <2>2, <2>3, <2>4, PacketTaken
  <2>6. d.action = "in" /\ Coming(d, Wanted, Len(got'))
    BY <2>3, <2>4, <2>5
  <2>7. /\ d'.set = d.set /\ d'.stallIn = d.stallIn /\ d'.nakIn /\ d'.action = d.action
        /\ d'.left = d.left /\ d'.src = d.src /\ d'.more = d.more
    BY <1>1, <2>3 DEF IsDevice, DeviceFields
  <2>8. Wanted' = Wanted
    BY <1>1, <2>7, SameAnswer
  <2>9. Coming(d, Wanted, Len(got))'
    BY <1>1, <2>6, <2>7, <2>8 DEF Coming
  <2> QED BY <1>1, <2>2, <2>3, <2>5, <2>6, <2>7, <2>8, <2>9 DEF ReadGoesOn
<1> QED BY <1>2, <1>3 DEF Begins, ReadGoesOn

LEMMA ReadHostOutStep ==
  ASSUME ReadInv, HostOut, Calm', Calm PROVE Begins' /\ ReadGoesOn'
<1>1. /\ IsDevice(d) /\ Answers /\ power = "on" /\ Fresh' = Fresh /\ OnePacket /\ Closed /\ Begins
      /\ UNCHANGED <<setup, power, got>> /\ host = (IF IsRead(setup) THEN "status" ELSE "data")
      /\ host' \in {"idle", "status"}
  BY DEF ReadInv, ControlInv, ControlValues, HostOut, Answers, isrVars, Fresh, Handling
<1>2. ~Reading'
  BY <1>1 DEF Reading
<1>3. d'.stallIn = d.stallIn
  <2> DEFINE bytes == IF IsRead(setup) THEN <<>> ELSE LineBytes(setup.val)
  <2>1. d' = d \/ d' = [d EXCEPT !.nakOut = TRUE, !.dataOut = bytes]
    BY DEF HostOut
  <2> HIDE DEF bytes
  <2> QED BY <1>1, <2>1 DEF IsDevice, DeviceFields
<1> QED BY <1>1, <1>2, <1>3 DEF Begins, ReadGoesOn

LEMMA ReadOtherStep ==
  ASSUME ReadInv, Calm', Calm,
         BusReset \/ VbusOn \/ VbusOff \/ \E r \in Requests : HostSetup(r)
  PROVE  Begins' /\ ReadGoesOn'
<1>1. CASE UsbReset
  BY <1>1 DEF UsbReset, Begins, ReadGoesOn, Reading, Fresh, Handling, isrVars
<1>2. CASE VbusOff
  BY <1>2 DEF VbusOff, Begins, ReadGoesOn, Reading
<1>3. ASSUME NEW r \in Requests, HostSetup(r) PROVE Begins' /\ ReadGoesOn'
  <2>1. /\ IsDevice(d) /\ setupIfg' = TRUE /\ isr \in {"none", "vector"} /\ isr' = isr
        /\ setup' = r /\ host' = (IF r.len > 0 THEN "data" ELSE "status") /\ got' = <<>>
        /\ d' = [d EXCEPT !.stallIn = FALSE, !.stallOut = FALSE]
    BY <1>3 DEF ReadInv, ControlInv, ControlValues, Calm, HostSetup, isrVars
  <2>2. Fresh' /\ ~d'.stallIn
    BY <2>1 DEF Fresh, Handling, IsDevice, DeviceFields
  <2>3. IsRead(r) => r.len > 0
    BY ReadShapes DEF IsRead
  <2> QED BY <2>1, <2>2, <2>3 DEF Begins, ReadGoesOn, Reading, IsRead
<1> QED BY <1>1, <1>2, <1>3 DEF BusReset, VbusOn

LEMMA ReadStep == ASSUME ReadInv, [ControlNext]_controlVars PROVE ReadInv'
<1>1. ControlInv'
  BY ControlStep DEF ReadInv
<1>2. ASSUME Calm' PROVE Begins' /\ ReadGoesOn'
  <2>1. CASE UNCHANGED controlVars
    <3>1. Calm /\ Wanted' = Wanted
      BY <1>2, <2>1 DEF Calm, controlVars, hostVars, Wanted, Answer, Halted
    <3> QED BY <2>1, <3>1 DEF ReadInv, controlVars, flagVars, isrVars, hostVars, Begins, ReadGoesOn,
          Reading, Fresh, Handling, Offering, Coming
  <2>2. CASE ControlNext
    <3>1. Calm
      BY <1>2, <2>2, CalmBefore
    <3> QED BY <1>2, <2>2, <3>1, ReadQuietStep, ReadCallStep, ReadVectorStep, ReadHostInStep,
          ReadHostOutStep, ReadOtherStep DEF ControlNext, Isr
  <2> QED BY <2>1, <2>2
<1> QED BY <1>1, <1>2 DEF ReadInv

\* The inductive invariant of a control read: what the host has, what lies in
\* the endpoint and what the driver has before it are the answer, in order.
THEOREM ReadInvariance == ControlSpec => []ReadInv
<1>1. ControlInit => ReadInv
  BY InitControlInv DEF ControlInit, ReadInv, Begins, ReadGoesOn, Reading
<1> QED BY <1>1, ReadStep, PTL DEF ControlSpec

\* A read ends with the answer, or as much of it as the host asked for, and with
\* a packet the host knows the end by (LastPacket in usbSendNextPacketOnIEP0).
THEOREM ReadsComeWhole == ControlSpec => ReadsAreWhole
<1> DEFINE Ends == /\ HostIn /\ IsRead(setup) /\ setup.kind # "OtherRead" /\ host' # "data"
                   /\ ~late /\ ~overrun
           Whole == LET answer == Answer(d, setup.kind)
                    IN  /\ host' = "status" /\ SameStart(got', answer)
                        /\ Len(got') = LesserOf(Len(answer), setup.len)
<1>1. ReadInv /\ [ControlNext]_controlVars => [Ends => Whole]_controlVars
  <2> SUFFICES ASSUME ReadInv, Ends PROVE Whole
    OBVIOUS
  <2>1. Calm /\ ReadGoesOn /\ Answers /\ (d.stallIn \/ ~d.nakIn) /\ host = "data" /\ power = "on"
    BY DEF ReadInv, Calm, HostIn, Answers
  <2>2. Reading
    BY <2>1, HostReads DEF Reading
  <2>3. /\ ~d.stallIn /\ ~d.nakIn /\ Len(got) \in Nat /\ got = SubSeq(Wanted, 1, Len(got))
        /\ Offering(d, Wanted, Len(got))
    BY <2>1, <2>2 DEF ReadGoesOn
  <2>4. /\ got' = got \o d.dataIn /\ host' = "status"
        /\ Len(d.dataIn) < PacketSize \/ Len(got') >= setup.len
    BY <2>3 DEF HostIn
  <2>5. Wanted \in Seq(Octets) /\ setup.len \in Nat
    BY <2>2, AnswerType, ReadShapes DEF Reading, IsRead
  <2>6. /\ got' = SubSeq(Wanted, 1, Len(got')) /\ Len(got') \in Nat /\ Len(got') <= Len(Wanted)
        /\ \/ /\ d.action = "nothing" /\ Len(got') = LesserOf(Len(Wanted), setup.len)
              /\ Len(d.dataIn) < PacketSize \/ Len(got') = setup.len
           \/ /\ d.action = "in" /\ Len(d.dataIn) = PacketSize /\ Len(got') < setup.len
              /\ Coming(d, Wanted, Len(got'))
    BY <2>3, <2>4, <2>5, PacketTaken
  <2>7. Len(got') = LesserOf(Len(Wanted), setup.len)
    BY <2>4, <2>5, <2>6, ControlSizes
  <2>8. SameStart(got', Wanted)
    <3> DEFINE h == got'
               n == Len(h)
    <3>1. ASSUME NEW j \in 1..n PROVE SubSeq(Wanted, 1, n)[j] = Wanted[j] /\ j <= Len(Wanted)
      BY <2>5, <2>6, <3>1
    <3> QED BY <2>6, <3>1 DEF SameStart
  <2> QED BY <2>4, <2>7, <2>8 DEF Wanted
<1> QED BY <1>1, ReadInvariance, PTL DEF ControlSpec, ReadsAreWhole
============================================================================
