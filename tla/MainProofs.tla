----------------------------- MODULE MainProofs -----------------------------
(***************************************************************************)
(* Theorems about what main() does: it brings up the board's voltages over *)
(* I2C, raises the core voltage, programs the FPGA from the flash, and     *)
(* then attaches the USB and sleeps between events.  The parts have no     *)
(* variables in common.                                                    *)
(***************************************************************************)
EXTENDS MainLoop, BoardStart, TLAPS

-----------------------------------------------------------------------------
(* The I2C master, bit by bit: what its bytes and accesses come to, for    *)
(* every byte, register and place where the chip may refuse.               *)

\* The chip at the places of an access: receiving, after the last bit of a byte that
\* it acknowledges, sending bit i, not listening, waiting for a START.
Hearing(ph, n, x, k, t) == ChipAt(ph, n, x, 1, FALSE, k, t)
Acking(ph, x, k, t) == ChipAt(ph, 8, x, 0, TRUE, k, t)
Sending(i, x, k, t) == ChipAt("send", i, x, Bit(x, i), FALSE, k, t)
Deaf(x, k, t) == ChipAt("deaf", 8, x, 1, FALSE, k, t)
Sent(x, k, t) == ChipAt("send", 8, x, 1, TRUE, k, t)
Idle(k, t) == ChipAt("idle", 0, 0, 1, FALSE, k, t)
Less(k) == IF k > 0 THEN k - 1 ELSE 0
BitValues == {0, 1}

\* What the pin operations do between START and STOP, where SDA changes only while
\* SCL is low.
LEMMA SdaWhenLow ==
  ASSUME NEW sda, NEW v, NEW c, NEW in
  PROVE  SdaSet(Wires(0, sda, c, in), v) = Wires(0, v, c, in)
  BY DEF SdaSet, Wires, Sda
LEMMA SclUp ==
  ASSUME NEW sda, NEW c, NEW in
  PROVE  SclHi(Wires(0, sda, c, in))
           = Wires(1, sda, SclRises(c, IF sda = 0 \/ c.drive = 0 THEN 0 ELSE 1), in)
  BY DEF SclHi, Wires, Sda
LEMMA SclDown ==
  ASSUME NEW sda, NEW c, NEW in
  PROVE  SclLo(Wires(1, sda, c, in)) = Wires(0, sda, SclFalls(c), in)
  BY DEF SclLo, Wires, Sda
LEMMA BitOut ==
  ASSUME NEW sda, NEW v, NEW c, NEW in
  PROVE  WrBit(Wires(0, sda, c, in), v)
           = Wires(0, v, SclFalls(SclRises(c, IF v = 0 \/ c.drive = 0 THEN 0 ELSE 1)), in)
  BY SdaWhenLow, SclUp, SclDown DEF WrBit

\* A bit that does not complete a byte, and one that does.
LEMMA BitHeard ==
  ASSUME NEW ph \in Receiving, NEW n \in 0..7, NEW x \in Nat, NEW k \in 0..3, NEW t,
         NEW v \in BitValues, NEW sda, NEW in
  PROVE  /\ n < 7 => WrBit(Wires(0, sda, Hearing(ph, n, x, k, t), in), v)
                       = Wires(0, v, Hearing(ph, n + 1, 2 * x + v, k, t), in)
         /\ n = 7 => WrBit(Wires(0, sda, Hearing(ph, n, x, k, t), in), v)
                       = Wires(0, v, SclFalls(Hearing(ph, 8, 2 * x + v, k, t)), in)
<1>1. SclRises(Hearing(ph, n, x, k, t), v) = Hearing(ph, n + 1, 2 * x + v, k, t)
  BY DEF Hearing, ChipAt, SclRises, Receiving
<1>2. n < 7 => SclFalls(Hearing(ph, n + 1, 2 * x + v, k, t)) = Hearing(ph, n + 1, 2 * x + v, k, t)
  BY DEF Hearing, ChipAt, SclFalls, Receiving
<1>3. (IF v = 0 \/ Hearing(ph, n, x, k, t).drive = 0 THEN 0 ELSE 1) = v
  BY DEF Hearing, ChipAt, BitValues
<1>4. WrBit(Wires(0, sda, Hearing(ph, n, x, k, t), in), v)
        = Wires(0, v, SclFalls(Hearing(ph, n + 1, 2 * x + v, k, t)), in)
  BY <1>1, <1>3, BitOut
<1> QED BY <1>2, <1>4

\* Where the first i bits of a byte lead, for each i.
LEMMA BitsOfByte ==
  ASSUME NEW x \in Byte
  PROVE  /\ \A i \in 1..8 : Bit(x, i) \in BitValues
         /\ Bit(x, 1) = x \div 128
         /\ 2 * (x \div 128) + Bit(x, 2) = x \div 64
         /\ 2 * (x \div 64) + Bit(x, 3) = x \div 32
         /\ 2 * (x \div 32) + Bit(x, 4) = x \div 16
         /\ 2 * (x \div 16) + Bit(x, 5) = x \div 8
         /\ 2 * (x \div 8) + Bit(x, 6) = x \div 4
         /\ 2 * (x \div 4) + Bit(x, 7) = x \div 2
         /\ 2 * (x \div 2) + Bit(x, 8) = x
         /\ x \div 128 \in Nat /\ x \div 64 \in Nat /\ x \div 32 \in Nat /\ x \div 16 \in Nat
         /\ x \div 8 \in Nat /\ x \div 4 \in Nat /\ x \div 2 \in Nat
<1>1. /\ Bit(x, 1) = (x \div 128) % 2 /\ Bit(x, 2) = (x \div 64) % 2
      /\ Bit(x, 3) = (x \div 32) % 2  /\ Bit(x, 4) = (x \div 16) % 2
      /\ Bit(x, 5) = (x \div 8) % 2   /\ Bit(x, 6) = (x \div 4) % 2
      /\ Bit(x, 7) = (x \div 2) % 2   /\ Bit(x, 8) = (x \div 1) % 2
  BY DEF Bit, Weight
<1>2. \A i \in 1..8 : Bit(x, i) \in BitValues
  <2> TAKE i \in 1..8
  <2>1. i = 1 \/ i = 2 \/ i = 3 \/ i = 4 \/ i = 5 \/ i = 6 \/ i = 7 \/ i = 8
    OBVIOUS
  <2> QED BY <1>1, <2>1 DEF Byte, BitValues
<1> QED BY <1>1, <1>2 DEF Byte

\* The same as an equation that rewrites.
LEMMA NextBit ==
  ASSUME NEW ph \in Receiving, NEW n \in 0..6, NEW x \in Nat, NEW k \in 0..3, NEW t,
         NEW v \in BitValues, NEW sda, NEW in, NEW m, m = n + 1, NEW y, y = 2 * x + v
  PROVE  WrBit(Wires(0, sda, Hearing(ph, n, x, k, t), in), v)
           = Wires(0, v, Hearing(ph, m, y, k, t), in)
  BY BitHeard

LEMMA LastBit ==
  ASSUME NEW ph \in Receiving, NEW x \in Nat, NEW k \in 0..3, NEW t,
         NEW v \in BitValues, NEW sda, NEW in, NEW y, y = 2 * x + v
  PROVE  WrBit(Wires(0, sda, Hearing(ph, 7, x, k, t), in), v)
           = Wires(0, v, SclFalls(Hearing(ph, 8, y, k, t)), in)
  BY BitHeard

\* A byte is heard whole, from whatever level SDA had.
LEMMA WrByteHeard ==
  ASSUME NEW ph \in Receiving, NEW x \in Byte, NEW k \in 0..3, NEW t, NEW sda, NEW in
  PROVE  WrByte(Wires(0, sda, Hearing(ph, 0, 0, k, t), in), x)
           = Wires(0, 1, SclFalls(Hearing(ph, 8, x, k, t)), in)
<1> DEFINE W(v, n, y) == Wires(0, v, Hearing(ph, n, y, k, t), in)
<1>0. /\ Bit(x, 1) \in BitValues /\ Bit(x, 2) \in BitValues /\ Bit(x, 3) \in BitValues
      /\ Bit(x, 4) \in BitValues /\ Bit(x, 5) \in BitValues /\ Bit(x, 6) \in BitValues
      /\ Bit(x, 7) \in BitValues /\ Bit(x, 8) \in BitValues
  BY BitsOfByte
<1>1. WrTwo(W(sda, 0, 0), x, 1) = W(Bit(x, 2), 2, x \div 64)
  <2>1. x \div 128 = 2 * 0 + Bit(x, 1)
    BY BitsOfByte, <1>0 DEF BitValues
  <2>2. x \div 64 = 2 * (x \div 128) + Bit(x, 2)
    BY BitsOfByte, <1>0 DEF BitValues
  <2>3. WrBit(W(sda, 0, 0), Bit(x, 1)) = W(Bit(x, 1), 1, x \div 128)
    BY <1>0, <2>1, NextBit, BitsOfByte
  <2>4. WrBit(W(Bit(x, 1), 1, x \div 128), Bit(x, 2)) = W(Bit(x, 2), 2, x \div 64)
    BY <1>0, <2>2, NextBit, BitsOfByte
  <2> QED BY <2>3, <2>4 DEF WrTwo
<1>2. WrTwo(W(Bit(x, 2), 2, x \div 64), x, 3) = W(Bit(x, 4), 4, x \div 16)
  <2>1. x \div 32 = 2 * (x \div 64) + Bit(x, 3)
    BY BitsOfByte, <1>0 DEF BitValues
  <2>2. x \div 16 = 2 * (x \div 32) + Bit(x, 4)
    BY BitsOfByte, <1>0 DEF BitValues
  <2>3. WrBit(W(Bit(x, 2), 2, x \div 64), Bit(x, 3)) = W(Bit(x, 3), 3, x \div 32)
    BY <1>0, <2>1, NextBit, BitsOfByte
  <2>4. WrBit(W(Bit(x, 3), 3, x \div 32), Bit(x, 4)) = W(Bit(x, 4), 4, x \div 16)
    BY <1>0, <2>2, NextBit, BitsOfByte
  <2> QED BY <2>3, <2>4 DEF WrTwo
<1>3. WrTwo(W(Bit(x, 4), 4, x \div 16), x, 5) = W(Bit(x, 6), 6, x \div 4)
  <2>1. x \div 8 = 2 * (x \div 16) + Bit(x, 5)
    BY BitsOfByte, <1>0 DEF BitValues
  <2>2. x \div 4 = 2 * (x \div 8) + Bit(x, 6)
    BY BitsOfByte, <1>0 DEF BitValues
  <2>3. WrBit(W(Bit(x, 4), 4, x \div 16), Bit(x, 5)) = W(Bit(x, 5), 5, x \div 8)
    BY <1>0, <2>1, NextBit, BitsOfByte
  <2>4. WrBit(W(Bit(x, 5), 5, x \div 8), Bit(x, 6)) = W(Bit(x, 6), 6, x \div 4)
    BY <1>0, <2>2, NextBit, BitsOfByte
  <2> QED BY <2>3, <2>4 DEF WrTwo
<1>4. WrTwo(W(Bit(x, 6), 6, x \div 4), x, 7)
        = Wires(0, Bit(x, 8), SclFalls(Hearing(ph, 8, x, k, t)), in)
  <2>1. x \div 2 = 2 * (x \div 4) + Bit(x, 7)
    BY BitsOfByte, <1>0 DEF BitValues
  <2>2. x = 2 * (x \div 2) + Bit(x, 8)
    BY BitsOfByte, <1>0 DEF BitValues
  <2>3. WrBit(W(Bit(x, 6), 6, x \div 4), Bit(x, 7)) = W(Bit(x, 7), 7, x \div 2)
    BY <1>0, <2>1, NextBit, BitsOfByte
  <2>4. WrBit(W(Bit(x, 7), 7, x \div 2), Bit(x, 8))
          = Wires(0, Bit(x, 8), SclFalls(Hearing(ph, 8, x, k, t)), in)
    BY <1>0, <2>2, LastBit, BitsOfByte
  <2> QED BY <2>3, <2>4 DEF WrTwo
<1>5. WrTwo(WrTwo(WrTwo(WrTwo(W(sda, 0, 0), x, 1), x, 3), x, 5), x, 7)
        = Wires(0, Bit(x, 8), SclFalls(Hearing(ph, 8, x, k, t)), in)
  BY <1>1, <1>2, <1>3, <1>4
<1> QED BY <1>5, SdaWhenLow DEF WrByte

\* The acknowledge that follows a byte: given, with what the chip does with the byte,
\* or refused.
LEMMA AckedOrNot ==
  ASSUME NEW ph \in Receiving, NEW x \in Byte, NEW k \in 0..3, NEW t,
         ph = "addr" => x \div 2 = SlaveAddr
  PROVE  SclFalls(Hearing(ph, 8, x, k, t)) =
           IF k = 1 THEN Deaf(x, 0, t)
           ELSE Acking(ph, x, Less(k), Acknowledged(Hearing(ph, 8, x, k, t)))
<1> DEFINE c == Hearing(ph, 8, x, k, t)
<1>1. /\ c.ph = ph /\ c.acking = FALSE /\ c.n = 8 /\ c.refuse = k /\ c.byte = x /\ c.tps = t
  BY DEF Hearing, ChipAt
<1> HIDE DEF c
<1>2. Accepts(c) <=> k # 1
  BY <1>1 DEF Accepts
<1>3. CASE k = 1
  <2>1. ~Accepts(c) /\ (IF c.refuse > 0 THEN c.refuse - 1 ELSE 0) = 0
    BY <1>1, <1>2, <1>3
  <2>2. SclFalls(c) = ChipAt("deaf", 8, x, 1, FALSE, 0, t)
    BY <1>1, <2>1 DEF SclFalls, Receiving
  <2> QED BY <1>3, <2>2 DEF Deaf, c
<1>4. CASE k # 1
  <2>1. SclFalls(c) = ChipAt(c.ph, 8, c.byte, 0, TRUE, Less(k), Acknowledged(c))
    BY <1>1, <1>2, <1>4 DEF SclFalls, Receiving, Less
  <2> QED BY <1>1, <1>4, <2>1 DEF Acking, c
<1> QED BY <1>3, <1>4

\* Reading a bit of a chip that does not mind the clock going up, and so an acknowledge.
LEMMA BitRead ==
  ASSUME NEW c, NEW in, NEW v, v = (IF c.drive = 0 THEN 0 ELSE 1), SclRises(c, v) = c
  PROVE  RdBit(Wires(0, 1, c, in)) = Wires(0, 1, SclFalls(c), 2 * in + v)
<1>1. SclHi(Wires(0, 1, c, in)) = Wires(1, 1, c, in)
  BY SclUp
<1>2. Reads(Wires(1, 1, c, in), 2 * Wires(1, 1, c, in).in + Sda(Wires(1, 1, c, in)))
        = Wires(1, 1, c, 2 * in + v)
  BY DEF Reads, Wires, Sda
<1> QED BY <1>1, <1>2, SclDown DEF RdBit

LEMMA AckRead ==
  ASSUME NEW ph \in Receiving, NEW x, NEW k, NEW t, NEW in
  PROVE  RdAck(Wires(0, 1, Acking(ph, x, k, t), in))
           = Wires(0, 1, NextPhase(Acking(ph, x, k, t)), 0)
<1>1. SclRises(Acking(ph, x, k, t), 0) = Acking(ph, x, k, t)
  BY DEF SclRises, Acking, ChipAt, Receiving
<1>2. SclFalls(Acking(ph, x, k, t)) = NextPhase(Acking(ph, x, k, t))
  <2>1. Acking(ph, x, k, t).ph = ph /\ Acking(ph, x, k, t).acking = TRUE
    BY DEF Acking, ChipAt
  <2> QED BY <2>1 DEF SclFalls, Receiving
<1>3. Acking(ph, x, k, t).drive = 0
  BY DEF Acking, ChipAt
<1>4. Reads(Wires(0, 1, Acking(ph, x, k, t), in), 0) = Wires(0, 1, Acking(ph, x, k, t), 0)
  BY DEF Reads, Wires
<1> QED BY <1>1, <1>2, <1>3, <1>4, BitRead DEF RdAck

\* A chip that does not listen sees nothing and pulls nothing.
LEMMA DeafStays ==
  ASSUME NEW x, NEW k, NEW t, NEW v
  PROVE  /\ SclRises(Deaf(x, k, t), v) = Deaf(x, k, t)
         /\ SclFalls(Deaf(x, k, t)) = Deaf(x, k, t)
         /\ Deaf(x, k, t).drive = 1
  BY DEF SclRises, SclFalls, Deaf, ChipAt, Receiving

LEMMA DeafByte ==
  ASSUME NEW x, NEW k, NEW t, NEW y, NEW sda, NEW in
  PROVE  WrByte(Wires(0, sda, Deaf(x, k, t), in), y) = Wires(0, 1, Deaf(x, k, t), in)
<1> DEFINE D(v) == Wires(0, v, Deaf(x, k, t), in)
<1>1. ASSUME NEW s, NEW v PROVE WrBit(D(s), v) = D(v)
  BY BitOut, DeafStays
<1>2. ASSUME NEW s, NEW i PROVE WrTwo(D(s), y, i) = D(Bit(y, i + 1))
  BY <1>1 DEF WrTwo
<1>3. WrTwo(WrTwo(WrTwo(WrTwo(D(sda), y, 1), y, 3), y, 5), y, 7) = D(Bit(y, 7 + 1))
  BY <1>2
<1> QED BY <1>3, SdaWhenLow DEF WrByte

LEMMA DeafAck ==
  ASSUME NEW x, NEW k, NEW t, NEW in
  PROVE  RdAck(Wires(0, 1, Deaf(x, k, t), in)) = Wires(0, 1, Deaf(x, k, t), 1)
<1>1. Reads(Wires(0, 1, Deaf(x, k, t), in), 0) = Wires(0, 1, Deaf(x, k, t), 0)
  BY DEF Reads, Wires
<1>2. RdBit(Wires(0, 1, Deaf(x, k, t), 0)) = Wires(0, 1, Deaf(x, k, t), 2 * 0 + 1)
  BY BitRead, DeafStays
<1> QED BY <1>1, <1>2 DEF RdAck

\* The bytes of an access: its address, the number of a register, a value.
LEMMA AddressedToWrite ==
  ASSUME NEW k \in 0..3, NEW t, NEW in, NEW sda
  PROVE  RdAck(WrByte(Wires(0, sda, Hearing("addr", 0, 0, k, t), in), 2 * SlaveAddr))
           = IF k = 1 THEN Wires(0, 1, Deaf(72, 0, t), 1)
             ELSE Wires(0, 1, Hearing("reg", 0, 0, Less(k), t), 0)
<1>1. 2 * SlaveAddr = 72 /\ 72 \in Byte /\ 72 \div 2 = SlaveAddr /\ 72 % 2 = 0
  BY DEF SlaveAddr, Byte
<1>2. WrByte(Wires(0, sda, Hearing("addr", 0, 0, k, t), in), 72)
        = Wires(0, 1, SclFalls(Hearing("addr", 8, 72, k, t)), in)
  BY <1>1, WrByteHeard DEF Receiving
<1>3. Acknowledged(Hearing("addr", 8, 72, k, t)) = t
  BY DEF Acknowledged, Hearing, ChipAt
<1>4. CASE k = 1
  BY <1>1, <1>2, <1>4, AckedOrNot, DeafAck DEF Receiving
<1>5. CASE k # 1
  <2>1. SclFalls(Hearing("addr", 8, 72, k, t)) = Acking("addr", 72, Less(k), t)
    BY <1>1, <1>3, <1>5, AckedOrNot DEF Receiving
  <2>2. NextPhase(Acking("addr", 72, Less(k), t)) = Hearing("reg", 0, 0, Less(k), t)
    BY <1>1 DEF NextPhase, Acking, ChipAt, Receive, Hearing
  <2> QED BY <1>1, <1>2, <1>5, <2>1, <2>2, AckRead DEF Receiving
<1> QED BY <1>4, <1>5

LEMMA AddressedToRead ==
  ASSUME NEW k \in 0..3, NEW t, NEW in, NEW sda
  PROVE  RdAck(WrByte(Wires(0, sda, Hearing("addr", 0, 0, k, t), in), 2 * SlaveAddr + 1))
           = IF k = 1 THEN Wires(0, 1, Deaf(73, 0, t), 1)
             ELSE Wires(0, 1, Sending(1, ValueAt(t), Less(k), t), 0)
<1>1. 2 * SlaveAddr + 1 = 73 /\ 73 \in Byte /\ 73 \div 2 = SlaveAddr /\ 73 % 2 = 1
  BY DEF SlaveAddr, Byte
<1>2. WrByte(Wires(0, sda, Hearing("addr", 0, 0, k, t), in), 73)
        = Wires(0, 1, SclFalls(Hearing("addr", 8, 73, k, t)), in)
  BY <1>1, WrByteHeard DEF Receiving
<1>3. Acknowledged(Hearing("addr", 8, 73, k, t)) = t
  BY DEF Acknowledged, Hearing, ChipAt
<1>4. CASE k = 1
  BY <1>1, <1>2, <1>4, AckedOrNot, DeafAck DEF Receiving
<1>5. CASE k # 1
  <2>1. SclFalls(Hearing("addr", 8, 73, k, t)) = Acking("addr", 73, Less(k), t)
    BY <1>1, <1>3, <1>5, AckedOrNot DEF Receiving
  <2>2. NextPhase(Acking("addr", 73, Less(k), t)) = Sending(1, ValueAt(t), Less(k), t)
    BY <1>1 DEF NextPhase, Acking, ChipAt, SendBit, Sending
  <2> QED BY <1>1, <1>2, <1>5, <2>1, <2>2, AckRead DEF Receiving
<1> QED BY <1>4, <1>5

LEMMA RegisterNamed ==
  ASSUME NEW k \in 0..3, NEW t, NEW in, NEW sda, NEW x \in Byte
  PROVE  RdAck(WrByte(Wires(0, sda, Hearing("reg", 0, 0, k, t), in), x))
           = IF k = 1 THEN Wires(0, 1, Deaf(x, 0, t), 1)
             ELSE Wires(0, 1, Hearing("data", 0, 0, Less(k), [t EXCEPT !.ptr = x]), 0)
<1>1. WrByte(Wires(0, sda, Hearing("reg", 0, 0, k, t), in), x)
        = Wires(0, 1, SclFalls(Hearing("reg", 8, x, k, t)), in)
  BY WrByteHeard DEF Receiving
<1>2. Acknowledged(Hearing("reg", 8, x, k, t)) = [t EXCEPT !.ptr = x]
  BY DEF Acknowledged, Hearing, ChipAt
<1>3. CASE k = 1
  BY <1>1, <1>3, AckedOrNot, DeafAck DEF Receiving
<1>4. CASE k # 1
  <2>1. SclFalls(Hearing("reg", 8, x, k, t)) = Acking("reg", x, Less(k), [t EXCEPT !.ptr = x])
    BY <1>2, <1>4, AckedOrNot DEF Receiving
  <2> DEFINE e == [t EXCEPT !.ptr = x]
  <2> HIDE DEF e
  <2>2. NextPhase(Acking("reg", x, Less(k), e)) = Hearing("data", 0, 0, Less(k), e)
    BY DEF NextPhase, Acking, ChipAt, Receive, Hearing
  <2> QED BY <1>1, <1>4, <2>1, <2>2, AckRead DEF Receiving, e
<1> QED BY <1>3, <1>4

LEMMA ValueGiven ==
  ASSUME NEW k \in 0..3, NEW t, NEW in, NEW sda, NEW x \in Byte
  PROVE  RdAck(WrByte(Wires(0, sda, Hearing("data", 0, 0, k, t), in), x))
           = IF k = 1 THEN Wires(0, 1, Deaf(x, 0, t), 1)
             ELSE Wires(0, 1, Hearing("data", 0, 0, Less(k), WriteReg(t, t.ptr, x)), 0)
<1>1. WrByte(Wires(0, sda, Hearing("data", 0, 0, k, t), in), x)
        = Wires(0, 1, SclFalls(Hearing("data", 8, x, k, t)), in)
  BY WrByteHeard DEF Receiving
<1> DEFINE e == WriteReg(t, t.ptr, x)
<1>2. Acknowledged(Hearing("data", 8, x, k, t)) = e
  BY DEF Acknowledged, Hearing, ChipAt
<1> HIDE DEF e
<1>3. CASE k = 1
  BY <1>1, <1>3, AckedOrNot, DeafAck DEF Receiving
<1>4. CASE k # 1
  <2>1. SclFalls(Hearing("data", 8, x, k, t)) = Acking("data", x, Less(k), e)
    BY <1>2, <1>4, AckedOrNot DEF Receiving
  <2>2. NextPhase(Acking("data", x, Less(k), e)) = Hearing("data", 0, 0, Less(k), e)
    BY DEF NextPhase, Acking, ChipAt, Receive, Hearing
  <2> QED BY <1>1, <1>4, <2>1, <2>2, AckRead DEF Receiving, e
<1> QED BY <1>3, <1>4

\* The bits of a byte that the chip sends.
LEMMA SentBit ==
  ASSUME NEW x \in Byte, NEW i \in 1..8, NEW k, NEW t, NEW in
  PROVE  /\ i < 8 => RdBit(Wires(0, 1, Sending(i, x, k, t), in))
                       = Wires(0, 1, Sending(i + 1, x, k, t), 2 * in + Bit(x, i))
         /\ i = 8 => RdBit(Wires(0, 1, Sending(i, x, k, t), in))
                       = Wires(0, 1, Sent(x, k, t), 2 * in + Bit(x, i))
<1>1. Bit(x, i) \in BitValues
  BY BitsOfByte
<1>2. SclRises(Sending(i, x, k, t), Bit(x, i)) = Sending(i, x, k, t)
  BY DEF SclRises, Sending, ChipAt, Receiving
<1>3. Bit(x, i) = (IF Sending(i, x, k, t).drive = 0 THEN 0 ELSE 1)
  BY <1>1 DEF Sending, ChipAt, BitValues
<1>4. RdBit(Wires(0, 1, Sending(i, x, k, t), in))
        = Wires(0, 1, SclFalls(Sending(i, x, k, t)), 2 * in + Bit(x, i))
  BY <1>2, <1>3, BitRead
<1>5. i < 8 => SclFalls(Sending(i, x, k, t)) = Sending(i + 1, x, k, t)
  BY DEF SclFalls, Sending, ChipAt, Receiving, SendBit
<1>6. i = 8 => SclFalls(Sending(i, x, k, t)) = Sent(x, k, t)
  BY DEF SclFalls, Sending, ChipAt, Receiving, Sent
<1> QED BY <1>4, <1>5, <1>6

LEMMA NextSent ==
  ASSUME NEW x \in Byte, NEW i \in 1..7, NEW k, NEW t, NEW in, NEW m, m = i + 1,
         NEW y, y = 2 * in + Bit(x, i)
  PROVE  RdBit(Wires(0, 1, Sending(i, x, k, t), in)) = Wires(0, 1, Sending(m, x, k, t), y)
  BY SentBit
LEMMA LastSent ==
  ASSUME NEW x \in Byte, NEW k, NEW t, NEW in, NEW y, y = 2 * in + Bit(x, 8)
  PROVE  RdBit(Wires(0, 1, Sending(8, x, k, t), in)) = Wires(0, 1, Sent(x, k, t), y)
  BY SentBit

LEMMA ByteRead ==
  ASSUME NEW x \in Byte, NEW k, NEW t, NEW in
  PROVE  RdByte(Wires(0, 1, Sending(1, x, k, t), in)) = Wires(0, 1, Sent(x, k, t), x)
<1> DEFINE R(i, y) == Wires(0, 1, Sending(i, x, k, t), y)
<1>1. RdTwo(R(1, 0)) = R(3, x \div 64)
  <2>1. x \div 128 = 2 * 0 + Bit(x, 1)
    BY BitsOfByte DEF BitValues
  <2>2. x \div 64 = 2 * (x \div 128) + Bit(x, 2)
    BY BitsOfByte
  <2>3. RdBit(R(1, 0)) = R(2, x \div 128)
    BY <2>1, NextSent
  <2>4. RdBit(R(2, x \div 128)) = R(3, x \div 64)
    BY <2>2, NextSent
  <2> QED BY <2>3, <2>4 DEF RdTwo
<1>2. RdTwo(R(3, x \div 64)) = R(5, x \div 16)
  <2>1. x \div 32 = 2 * (x \div 64) + Bit(x, 3)
    BY BitsOfByte DEF BitValues
  <2>2. x \div 16 = 2 * (x \div 32) + Bit(x, 4)
    BY BitsOfByte
  <2>3. RdBit(R(3, x \div 64)) = R(4, x \div 32)
    BY <2>1, NextSent
  <2>4. RdBit(R(4, x \div 32)) = R(5, x \div 16)
    BY <2>2, NextSent
  <2> QED BY <2>3, <2>4 DEF RdTwo
<1>3. RdTwo(R(5, x \div 16)) = R(7, x \div 4)
  <2>1. x \div 8 = 2 * (x \div 16) + Bit(x, 5)
    BY BitsOfByte DEF BitValues
  <2>2. x \div 4 = 2 * (x \div 8) + Bit(x, 6)
    BY BitsOfByte
  <2>3. RdBit(R(5, x \div 16)) = R(6, x \div 8)
    BY <2>1, NextSent
  <2>4. RdBit(R(6, x \div 8)) = R(7, x \div 4)
    BY <2>2, NextSent
  <2> QED BY <2>3, <2>4 DEF RdTwo
<1>4. RdTwo(R(7, x \div 4)) = Wires(0, 1, Sent(x, k, t), x)
  <2>1. x \div 2 = 2 * (x \div 4) + Bit(x, 7)
    BY BitsOfByte DEF BitValues
  <2>2. x = 2 * (x \div 2) + Bit(x, 8)
    BY BitsOfByte
  <2>3. RdBit(R(7, x \div 4)) = R(8, x \div 2)
    BY <2>1, NextSent
  <2>4. RdBit(R(8, x \div 2)) = Wires(0, 1, Sent(x, k, t), x)
    BY <2>2, LastSent
  <2> QED BY <2>3, <2>4 DEF RdTwo
<1>5. Reads(Wires(0, 1, Sending(1, x, k, t), in), 0) = R(1, 0)
  BY DEF Reads, Wires
<1> QED BY <1>1, <1>2, <1>3, <1>4, <1>5 DEF RdByte

LEMMA NackGiven ==
  ASSUME NEW x, NEW k, NEW t, NEW in
  PROVE  WrNack(Wires(0, 1, Sent(x, k, t), in)) = Wires(0, 1, Deaf(x, k, t), in)
<1>1. SclRises(Sent(x, k, t), 1) = Deaf(x, k, t)
  BY DEF SclRises, Sent, Deaf, ChipAt, Receiving
<1>2. Sent(x, k, t).drive = 1
  BY DEF Sent, ChipAt
<1> QED BY <1>1, <1>2, BitOut, DeafStays DEF WrNack

\* Of a chip that does not listen, 255 is read.
LEMMA DeafRead ==
  ASSUME NEW x, NEW k, NEW t, NEW in
  PROVE  WrNack(RdByte(Wires(0, 1, Deaf(x, k, t), in))) = Wires(0, 1, Deaf(x, k, t), 255)
<1> DEFINE D(y) == Wires(0, 1, Deaf(x, k, t), y)
<1>1. ASSUME NEW y PROVE RdBit(D(y)) = D(2 * y + 1)
  BY BitRead, DeafStays
<1>2. Reads(Wires(0, 1, Deaf(x, k, t), in), 0) = D(0)
  BY DEF Reads, Wires
<1> HIDE DEF D
<1>3. /\ RdBit(D(0)) = D(1)   /\ RdBit(D(1)) = D(3)   /\ RdBit(D(3)) = D(7)
      /\ RdBit(D(7)) = D(15)  /\ RdBit(D(15)) = D(31) /\ RdBit(D(31)) = D(63)
      /\ RdBit(D(63)) = D(127) /\ RdBit(D(127)) = D(255)
  <2>1. /\ RdBit(D(0)) = D(2 * 0 + 1)   /\ RdBit(D(1)) = D(2 * 1 + 1)
        /\ RdBit(D(3)) = D(2 * 3 + 1)   /\ RdBit(D(7)) = D(2 * 7 + 1)
        /\ RdBit(D(15)) = D(2 * 15 + 1) /\ RdBit(D(31)) = D(2 * 31 + 1)
        /\ RdBit(D(63)) = D(2 * 63 + 1) /\ RdBit(D(127)) = D(2 * 127 + 1)
    BY <1>1
  <2> QED BY <2>1
<1>4. RdByte(Wires(0, 1, Deaf(x, k, t), in)) = D(255)
  BY <1>2, <1>3 DEF RdByte, RdTwo
<1>5. WrNack(D(255)) = D(255)
  BY BitOut, DeafStays DEF WrNack, D
<1> QED BY <1>4, <1>5 DEF D

\* START, on a free bus and again within an access, and STOP.
LEMMA SdaFallsWhenHigh ==
  ASSUME NEW c, NEW in, c.drive = 1
  PROVE  SdaSet(Wires(1, 1, c, in), 0) = Wires(1, 0, SdaFalls(c), in)
  BY DEF SdaSet, Wires, Sda
LEMMA SdaRisesWhenHigh ==
  ASSUME NEW c, NEW in, c.drive = 1
  PROVE  SdaSet(Wires(1, 0, c, in), 1) = Wires(1, 1, SdaRises(c), in)
  BY DEF SdaSet, Wires, Sda
LEMMA Addressed ==
  ASSUME NEW c, NEW in
  PROVE  SclLo(Wires(1, 0, SdaFalls(c), in))
           = Wires(0, 0, Hearing("addr", 0, 0, c.refuse, c.tps), in)
<1>1. SdaFalls(c) = Hearing("addr", 0, 0, c.refuse, c.tps)
  BY DEF SdaFalls, Receive, Hearing
<1>2. SclFalls(Hearing("addr", 0, 0, c.refuse, c.tps)) = Hearing("addr", 0, 0, c.refuse, c.tps)
  BY DEF SclFalls, Hearing, ChipAt
<1> QED BY <1>1, <1>2, SclDown

LEMMA StartOnFreeBus ==
  ASSUME NEW k, NEW t
  PROVE  SendStart(OnBus(Idle(k, t))) = Wires(0, 0, Hearing("addr", 0, 0, k, t), 0)
<1>1. SdaSet(OnBus(Idle(k, t)), 1) = Wires(1, 1, Idle(k, t), 0)
  BY DEF SdaSet, OnBus, Wires, Sda
<1>2. SclHi(Wires(1, 1, Idle(k, t), 0)) = Wires(1, 1, Idle(k, t), 0)
  BY DEF SclHi, Wires
<1>3. Idle(k, t).drive = 1 /\ Idle(k, t).refuse = k /\ Idle(k, t).tps = t
  BY DEF Idle, ChipAt
<1> QED BY <1>1, <1>2, <1>3, SdaFallsWhenHigh, Addressed DEF SendStart

LEMMA StartAgain ==
  ASSUME NEW k, NEW t, NEW x, NEW in,
         NEW c \in {Hearing("data", 0, 0, k, t), Deaf(x, k, t)}
  PROVE  SendStart(Wires(0, 1, c, in)) = Wires(0, 0, Hearing("addr", 0, 0, k, t), in)
<1> DEFINE d == SclRises(c, 1)
<1>1. c.drive = 1
  BY DEF Hearing, Deaf, ChipAt
<1>2. d.drive = 1 /\ d.refuse = k /\ d.tps = t
  <2>1. CASE c = Hearing("data", 0, 0, k, t)
    BY <2>1 DEF SclRises, Hearing, ChipAt, Receiving
  <2>2. CASE c = Deaf(x, k, t)
    BY <2>2, DeafStays DEF Deaf, ChipAt
  <2> QED BY <2>1, <2>2
<1>3. SclHi(Wires(0, 1, c, in)) = Wires(1, 1, d, in)
  BY <1>1, SclUp
<1> HIDE DEF d
<1>4. SdaSet(Wires(0, 1, c, in), 1) = Wires(0, 1, c, in)
  BY SdaWhenLow
<1> QED BY <1>2, <1>3, <1>4, SdaFallsWhenHigh, Addressed DEF SendStart

LEMMA StopFrees ==
  ASSUME NEW k, NEW t, NEW x, NEW in,
         NEW c \in {Hearing("data", 0, 0, k, t), Deaf(x, k, t)}
  PROVE  SendStop(Wires(0, 1, c, in)) = Wires(1, 1, Idle(0, t), in)
<1> DEFINE d == SclRises(c, 0)
<1>1. d.drive = 1 /\ d.tps = t
  <2>1. CASE c = Hearing("data", 0, 0, k, t)
    BY <2>1 DEF SclRises, Hearing, ChipAt, Receiving
  <2>2. CASE c = Deaf(x, k, t)
    BY <2>2, DeafStays DEF Deaf, ChipAt
  <2> QED BY <2>1, <2>2
<1>2. SclHi(Wires(0, 0, c, in)) = Wires(1, 0, d, in)
  BY SclUp
<1> HIDE DEF d
<1>3. SdaSet(Wires(0, 1, c, in), 0) = Wires(0, 0, c, in)
  BY SdaWhenLow
<1>4. SdaRises(d) = Idle(0, t)
  BY <1>1 DEF SdaRises, Idle
<1> QED BY <1>1, <1>2, <1>3, <1>4, SdaRisesWhenHigh DEF SendStop

-----------------------------------------------------------------------------
(* What an access does to the registers, whichever acknowledge is refused. *)

\* What a write leaves in the registers, and where a read finds them.
Written(t, k, reg, v) == CASE k = 0 -> WriteReg([t EXCEPT !.ptr = reg], reg, v)
                           [] k = 3 -> [t EXCEPT !.ptr = reg]
                           [] OTHER -> t
Pointed(t, k, reg) == IF k \in {0, 3} THEN [t EXCEPT !.ptr = reg] ELSE t

\* Where an access that goes past its first two bytes is.
LEMMA AfterTwoBytes ==
  ASSUME NEW k \in 0..3, NEW t, NEW reg \in Byte
  PROVE  LET a == RdAck(Address(OnBus(Idle(k, t)), 0))
             r == IF Goes(a) THEN RdAck(WrByte(a, reg)) ELSE a
         IN /\ Goes(r)
            /\ k = 0 => r = Wires(0, 1, Hearing("data", 0, 0, 0, [t EXCEPT !.ptr = reg]), 0)
            /\ k = 1 => r = Wires(0, 1, Deaf(72, 0, t), 1)
            /\ k = 2 => r = Wires(0, 1, Deaf(reg, 0, t), 1)
            /\ k = 3 => r = Wires(0, 1, Hearing("data", 0, 0, 1, [t EXCEPT !.ptr = reg]), 0)
<1> DEFINE a == RdAck(Address(OnBus(Idle(k, t)), 0))
           r == IF Goes(a) THEN RdAck(WrByte(a, reg)) ELSE a
<1>1. a = IF k = 1 THEN Wires(0, 1, Deaf(72, 0, t), 1)
                   ELSE Wires(0, 1, Hearing("reg", 0, 0, Less(k), t), 0)
  <2>1. Address(OnBus(Idle(k, t)), 0)
          = WrByte(Wires(0, 0, Hearing("addr", 0, 0, k, t), 0), 2 * SlaveAddr)
    BY StartOnFreeBus DEF Address, SlaveAddr
  <2> QED BY <2>1, AddressedToWrite
<1>2. Goes(a) /\ Goes(r)
  BY DEF Goes, IgnoreNak
<1>3. r = RdAck(WrByte(a, reg))
  BY <1>2
<1> HIDE DEF a, r
<1>4. CASE k = 1
  <2>1. r = RdAck(Wires(0, 1, Deaf(72, 0, t), 1))
    BY <1>1, <1>3, <1>4, DeafByte
  <2> QED BY <1>2, <1>4, <2>1, DeafAck DEF a, r
<1>5. CASE k # 1
  <2>1. Less(k) \in 0..3 /\ (k = 0 => Less(k) = 0) /\ (k = 2 => Less(k) = 1)
        /\ (k = 3 => Less(k) = 2) /\ Less(2) = 1 /\ Less(0) = 0
    BY <1>5 DEF Less
  <2>2. r = IF Less(k) = 1 THEN Wires(0, 1, Deaf(reg, 0, t), 1)
            ELSE Wires(0, 1, Hearing("data", 0, 0, Less(Less(k)), [t EXCEPT !.ptr = reg]), 0)
    BY <1>1, <1>3, <1>5, <2>1, RegisterNamed
  <2>3. k = 0 \/ k = 2 \/ k = 3
    BY <1>5
  <2> QED BY <1>2, <1>5, <2>1, <2>2, <2>3 DEF a, r
<1> QED BY <1>4, <1>5

\* swi2cmst_wr2 on a free bus: the value reaches the register just if no acknowledge
\* is refused, the result tells, and the bus is free again in any case.
THEOREM RegisterWrite ==
  ASSUME NEW k \in 0..3, NEW t, "ptr" \in DOMAIN t, NEW reg \in Byte, NEW v \in Byte
  PROVE  WrReg(Idle(k, t), reg, v) = [chip |-> Idle(0, Written(t, k, reg, v)),
                                      result |-> IF k = 0 THEN 0 ELSE 1]
<1> DEFINE a == RdAck(Address(OnBus(Idle(k, t)), 0))
           r == IF Goes(a) THEN RdAck(WrByte(a, reg)) ELSE a
           d == IF Goes(r) THEN RdAck(WrByte(r, v)) ELSE r
           e == [t EXCEPT !.ptr = reg]
<1>1. /\ Goes(r)
      /\ k = 0 => r = Wires(0, 1, Hearing("data", 0, 0, 0, e), 0)
      /\ k = 1 => r = Wires(0, 1, Deaf(72, 0, t), 1)
      /\ k = 2 => r = Wires(0, 1, Deaf(reg, 0, t), 1)
      /\ k = 3 => r = Wires(0, 1, Hearing("data", 0, 0, 1, e), 0)
  BY AfterTwoBytes
<1>2. d = RdAck(WrByte(r, v))
  BY <1>1
<1>3. WrReg(Idle(k, t), reg, v) = [chip |-> SendStop(d).chip, result |-> d.in]
  BY DEF WrReg, Wr2, Write, Finish
<1>4. e.ptr = reg
  OBVIOUS
<1> HIDE DEF a, r, d, e
<1> SUFFICES SendStop(d).chip = Idle(0, Written(t, k, reg, v)) /\ d.in = IF k = 0 THEN 0 ELSE 1
  BY <1>3
<1>5. CASE k = 0
  <2>1. d = Wires(0, 1, Hearing("data", 0, 0, 0, WriteReg(e, reg, v)), 0)
    BY <1>1, <1>2, <1>4, <1>5, ValueGiven DEF Less
  <2>2. SendStop(d) = Wires(1, 1, Idle(0, WriteReg(e, reg, v)), 0)
    BY <2>1, StopFrees
  <2> QED BY <1>5, <2>1, <2>2 DEF Wires, Written, e
<1>6. CASE k = 3
  <2>1. d = Wires(0, 1, Deaf(v, 0, e), 1)
    BY <1>1, <1>2, <1>6, ValueGiven
  <2>2. SendStop(d) = Wires(1, 1, Idle(0, e), 1)
    BY <2>1, StopFrees
  <2> QED BY <1>6, <2>1, <2>2 DEF Wires, Written, e
<1>7. CASE k = 1 \/ k = 2
  <2>1. PICK x : r = Wires(0, 1, Deaf(x, 0, t), 1)
    BY <1>1, <1>7
  <2>2. d = Wires(0, 1, Deaf(x, 0, t), 1)
    BY <1>2, <2>1, DeafByte, DeafAck
  <2>3. SendStop(d) = Wires(1, 1, Idle(0, t), 1)
    BY <2>2, StopFrees
  <2> QED BY <1>7, <2>2, <2>3 DEF Wires, Written
<1> QED BY <1>5, <1>6, <1>7

\* swi2cmst_wr1rd1 on a free bus: a refused address or register number is not
\* noticed, and the byte is then the one of the register pointed to before.
THEOREM RegisterRead ==
  ASSUME NEW k \in 0..3, NEW t, "ptr" \in DOMAIN t, NEW reg \in Byte,
         ValueAt(Pointed(t, k, reg)) \in Byte
  PROVE  RdReg(Idle(k, t), reg)
           = [chip |-> Idle(0, Pointed(t, k, reg)), result |-> IF k = 3 THEN 1 ELSE 0,
              data |-> IF k = 3 THEN 255 ELSE ValueAt(Pointed(t, k, reg))]
<1> DEFINE a == RdAck(Address(OnBus(Idle(k, t)), 0))
           r == IF Goes(a) THEN RdAck(WrByte(a, reg)) ELSE a
           s == IF Goes(r) THEN RdAck(Address(r, 1)) ELSE r
           d == IF Goes(s) THEN WrNack(RdByte(s)) ELSE s
           e == Pointed(t, k, reg)
<1>1. /\ Goes(r)
      /\ k = 0 => r = Wires(0, 1, Hearing("data", 0, 0, 0, [t EXCEPT !.ptr = reg]), 0)
      /\ k = 1 => r = Wires(0, 1, Deaf(72, 0, t), 1)
      /\ k = 2 => r = Wires(0, 1, Deaf(reg, 0, t), 1)
      /\ k = 3 => r = Wires(0, 1, Hearing("data", 0, 0, 1, [t EXCEPT !.ptr = reg]), 0)
  BY AfterTwoBytes
<1>2. s = RdAck(Address(r, 1)) /\ d = WrNack(RdByte(s))
  BY <1>1 DEF Goes, IgnoreNak
<1>3. RdReg(Idle(k, t), reg) = [chip |-> SendStop(d).chip, result |-> s.in, data |-> d.in]
  BY DEF RdReg, Wr1Rd1, Write, AddressAgain, ReadAndFinish
<1>4. \E l, x, in, c : /\ r = Wires(0, 1, c, in) /\ l = IF k = 3 THEN 1 ELSE 0
                       /\ c \in {Hearing("data", 0, 0, l, e), Deaf(x, l, e)}
  <2>1. k = 0 \/ k = 1 \/ k = 2 \/ k = 3
    OBVIOUS
  <2> QED BY <1>1, <2>1 DEF Pointed
<1> HIDE DEF a, r, s, d, e
<1>5. PICK l, x, in, c : /\ r = Wires(0, 1, c, in) /\ l = IF k = 3 THEN 1 ELSE 0
                         /\ c \in {Hearing("data", 0, 0, l, e), Deaf(x, l, e)}
  BY <1>4
<1>6. SendStart(r) = Wires(0, 0, Hearing("addr", 0, 0, l, e), in)
  BY <1>5, StartAgain
<1>7. s = IF l = 1 THEN Wires(0, 1, Deaf(73, 0, e), 1)
          ELSE Wires(0, 1, Sending(1, ValueAt(e), Less(l), e), 0)
  <2>1. Address(r, 1) = WrByte(Wires(0, 0, Hearing("addr", 0, 0, l, e), in), 2 * SlaveAddr + 1)
    BY <1>6 DEF Address, SlaveAddr
  <2>2. l \in 0..3
    BY <1>5
  <2> QED BY <1>2, <2>1, <2>2, AddressedToRead
<1> SUFFICES /\ SendStop(d).chip = Idle(0, e) /\ s.in = IF k = 3 THEN 1 ELSE 0
             /\ d.in = IF k = 3 THEN 255 ELSE ValueAt(e)
  BY <1>3 DEF e
<1>8. CASE k = 3
  <2>1. s = Wires(0, 1, Deaf(73, 0, e), 1)
    BY <1>5, <1>7, <1>8
  <2>2. d = Wires(0, 1, Deaf(73, 0, e), 255)
    BY <1>2, <2>1, DeafRead
  <2>3. SendStop(d) = Wires(1, 1, Idle(0, e), 255)
    BY <2>2, StopFrees
  <2> QED BY <1>8, <2>1, <2>2, <2>3 DEF Wires
<1>9. CASE k # 3
  <2>1. s = Wires(0, 1, Sending(1, ValueAt(e), 0, e), 0)
    BY <1>5, <1>7, <1>9 DEF Less
  <2>2. ValueAt(e) \in Byte
    BY DEF e
  <2>3. d = Wires(0, 1, Deaf(ValueAt(e), 0, e), ValueAt(e))
    BY <1>2, <2>1, <2>2, ByteRead, NackGiven
  <2>4. SendStop(d) = Wires(1, 1, Idle(0, e), ValueAt(e))
    BY <2>3, StopFrees
  <2> QED BY <1>9, <2>1, <2>3, <2>4 DEF Wires
<1> QED BY <1>8, <1>9

-----------------------------------------------------------------------------
(* swi2cmst_clrbus: each STOP brings a chip that is sending a bit further. *)

\* One round of the loop: a clock, and a STOP unless the chip holds SDA.
LEMMA StopOnce ==
  ASSUME NEW c, NEW e, e = SclRises(SclFalls(c), 0), NEW t, e.tps = t
  PROVE  ClearOnce(OnBus(c)) = OnBus(IF e.drive = 0 THEN e ELSE Idle(0, t))
<1> DEFINE f == SclFalls(c)
<1>1. SclLo(OnBus(c)) = Wires(0, 1, f, 0)
  BY SclDown DEF OnBus
<1> HIDE DEF f
<1>2. SdaSet(Wires(0, 1, f, 0), 0) = Wires(0, 0, f, 0)
  BY SdaWhenLow
<1>3. SclHi(Wires(0, 0, f, 0)) = Wires(1, 0, e, 0)
  BY SclUp DEF f
<1>4. ClearOnce(OnBus(c)) = SdaSet(Wires(1, 0, e, 0), 1)
  BY <1>1, <1>2, <1>3 DEF ClearOnce, SendStop
<1>5. CASE e.drive = 0
  <2>1. SdaSet(Wires(1, 0, e, 0), 1) = Wires(1, 1, e, 0)
    BY <1>5 DEF SdaSet, Wires, Sda
  <2> QED BY <1>4, <1>5, <2>1 DEF OnBus
<1>6. CASE e.drive # 0
  <2>1. SdaSet(Wires(1, 0, e, 0), 1) = Wires(1, 1, SdaRises(e), 0)
    BY <1>6 DEF SdaSet, Wires, Sda
  <2>2. SdaRises(e) = Idle(0, t)
    BY DEF SdaRises, Idle
  <2> QED BY <1>4, <1>6, <2>1, <2>2 DEF OnBus
<1> QED BY <1>5, <1>6

\* A chip that at most j more rounds free.
Clearable(j, t) ==
  {Idle(0, t)} \cup {Sending(i, x, 0, t) : i \in {n \in 1..8 : 9 - n <= j}, x \in Byte}
Turns(c, d) == ClearOnce(OnBus(c)) = OnBus(d)

\* A free chip stays free; one that sends goes on to its next bit or is free.
LEMMA IdleStays ==
  ASSUME NEW t
  PROVE  Turns(Idle(0, t), Idle(0, t))
<1>1. SclFalls(Idle(0, t)) = Idle(0, t)
  BY DEF SclFalls, Idle, ChipAt, Receiving
<1>2. SclRises(Idle(0, t), 0) = Idle(0, t)
  BY DEF SclRises, Idle, ChipAt, Receiving
<1>3. Idle(0, t).drive = 1 /\ Idle(0, t).tps = t
  BY DEF Idle, ChipAt
<1> QED BY <1>1, <1>2, <1>3, StopOnce DEF Turns

LEMMA SendingMovesOn ==
  ASSUME NEW t, NEW i \in 1..8, NEW x \in Byte
  PROVE  /\ i < 8 => \/ Turns(Sending(i, x, 0, t), Idle(0, t))
                     \/ Turns(Sending(i, x, 0, t), Sending(i + 1, x, 0, t))
         /\ i = 8 => Turns(Sending(i, x, 0, t), Idle(0, t))
<1>1. CASE i < 8
  <2> DEFINE e == Sending(i + 1, x, 0, t)
  <2>1. SclFalls(Sending(i, x, 0, t)) = e
    BY <1>1 DEF SclFalls, Sending, ChipAt, Receiving, SendBit
  <2>2. SclRises(e, 0) = e /\ e.tps = t
    BY DEF SclRises, Sending, ChipAt, Receiving
  <2> HIDE DEF e
  <2>3. ClearOnce(OnBus(Sending(i, x, 0, t))) = OnBus(IF e.drive = 0 THEN e ELSE Idle(0, t))
    BY <2>1, <2>2, StopOnce
  <2> QED BY <1>1, <2>3 DEF e, Turns
<1>2. CASE i = 8
  <2>1. SclFalls(Sending(i, x, 0, t)) = Sent(x, 0, t)
    BY <1>2 DEF SclFalls, Sending, ChipAt, Receiving, Sent
  <2>2. SclRises(Sent(x, 0, t), 0) = Sent(x, 0, t) /\ Sent(x, 0, t).tps = t
        /\ Sent(x, 0, t).drive = 1
    BY DEF SclRises, Sent, ChipAt, Receiving
  <2> QED BY <1>2, <2>1, <2>2, StopOnce DEF Turns
<1> QED BY <1>1, <1>2

LEMMA RoundTaken ==
  ASSUME NEW t, NEW j \in 0..7, NEW c \in Clearable(j + 1, t)
  PROVE  \E d \in Clearable(j, t) : Turns(c, d)
<1>1. CASE c = Idle(0, t)
  BY <1>1, IdleStays DEF Clearable
<1>2. CASE c # Idle(0, t)
  <2>1. PICK i \in {n \in 1..8 : 9 - n <= j + 1}, x \in Byte : c = Sending(i, x, 0, t)
    BY <1>2 DEF Clearable
  <2>2. Idle(0, t) \in Clearable(j, t)
    BY DEF Clearable
  <2>3. CASE i = 8
    BY <2>1, <2>2, <2>3, SendingMovesOn
  <2>4. CASE i < 8
    <3>1. i + 1 \in {n \in 1..8 : 9 - n <= j}
      BY <2>4
    <3>2. Sending(i + 1, x, 0, t) \in Clearable(j, t)
      BY <3>1 DEF Clearable
    <3> QED BY <2>1, <2>2, <2>4, <3>2, SendingMovesOn
  <2> QED BY <2>1, <2>3, <2>4
<1> QED BY <1>1, <1>2

LEMMA TwoRounds ==
  ASSUME NEW t, NEW j \in 0..6, NEW c \in Clearable(j + 2, t)
  PROVE  \E d \in Clearable(j, t) : ClearTwo(OnBus(c)) = OnBus(d)
<1>1. PICK e \in Clearable(j + 1, t) : Turns(c, e)
  <2>1. j + 1 \in 0..7 /\ (j + 1) + 1 = j + 2
    OBVIOUS
  <2> QED BY <2>1, RoundTaken
<1>2. PICK d \in Clearable(j, t) : Turns(e, d)
  BY RoundTaken
<1> QED BY <1>1, <1>2 DEF ClearTwo, Turns

\* A reset in the middle of a byte read: the rounds run through what is left of it.
LEMMA EightRounds ==
  ASSUME NEW t, NEW c \in Clearable(8, t)
  PROVE  ClearTwo(ClearTwo(ClearTwo(ClearTwo(OnBus(c))))) = OnBus(Idle(0, t))
<1>1. PICK d \in Clearable(6, t) : ClearTwo(OnBus(c)) = OnBus(d)
  BY TwoRounds
<1>2. PICK e \in Clearable(4, t) : ClearTwo(OnBus(d)) = OnBus(e)
  BY TwoRounds
<1>3. PICK f \in Clearable(2, t) : ClearTwo(OnBus(e)) = OnBus(f)
  BY TwoRounds
<1>4. PICK g \in Clearable(0, t) : ClearTwo(OnBus(f)) = OnBus(g)
  BY TwoRounds
<1>5. g = Idle(0, t)
  <2>1. {n \in 1..8 : 9 - n <= 0} = {}
    OBVIOUS
  <2> QED BY <2>1 DEF Clearable
<1> QED BY <1>1, <1>2, <1>3, <1>4, <1>5

\* Two rounds more than a byte has bits are enough: the loop makes ten.
LEMMA ClearedAfterTwo ==
  ASSUME NEW t, NEW c, NEW d, NEW e \in Clearable(8, t), Turns(c, d), Turns(d, e)
  PROVE  Cleared(c) = Idle(0, t)
<1>1. ClearTwo(OnBus(c)) = OnBus(e)
  BY DEF ClearTwo, Turns
<1>2. ClrBus(OnBus(c)) = OnBus(Idle(0, t))
  BY <1>1, EightRounds DEF ClrBus
<1> QED BY <1>2 DEF Cleared, OnBus, Wires

-----------------------------------------------------------------------------
(* The registers. *)
\* The values of the chip's registers that a run of either program leaves.
ChipValues ==
  [ptr : Byte, regs : [Registers -> Byte], unlocked : Int,
   pass : {<<>>} \cup (Registers \X Byte), active : [Converters -> Byte],
   rails : {"on", "off"}]
Sane(t) ==
  /\ t \in ChipValues
  /\ t.regs[CHIPID] = 242 /\ t.regs[PASSWORD] = 0 /\ t.regs[DEFSLEW] \in {0, 6}
  /\ t.regs[SEQ6] \in {0, SEQDWN, SEQUP}
  /\ \A reg \in Verified :
       t.regs[reg] \in {0, Wanted("firmware", reg), Wanted("bootstrapper", reg)}

\* What setting a register is for: it has its value, or, of DEFSLEW, the converters
\* have theirs.
Copied(t, p) == \A reg \in Converters : t.active[reg] = Wanted(p, reg)
Taken(t, p, reg) == IF reg = DEFSLEW THEN Copied(t, p) ELSE t.regs[reg] = Wanted(p, reg)

\* How far a setting is before its access number i, if no access was refused.
HalfDone(t, p, reg) == t.pass = <<reg, Wanted(p, reg)>> \/ Taken(t, p, reg)
OnTheWay(t, p, reg, i) ==
  /\ i \in {2, 4} => t.unlocked = reg
  /\ i \in {3, 4} => HalfDone(t, p, reg)
  /\ i = 5 => Taken(t, p, reg)

Both == {"firmware", "bootstrapper"}
Settings == DEFDCDC1..ENABLE
Kept(u, t) == u.regs = t.regs /\ u.active = t.active /\ u.rails = t.rails

\* The constants, as numbers.
LEMMA Numbers ==
  /\ CHIPID = 0 /\ PASSWORD = 11 /\ DEFDCDC1 = 14 /\ DEFDCDC2 = 15 /\ DEFDCDC3 = 16
  /\ DEFSLEW = 17 /\ DEFLDO1 = 18 /\ DEFLDO2 = 19 /\ DEFLS1 = 20 /\ DEFLS2 = 21
  /\ ENABLE = 22 /\ SEQ6 = 30 /\ GO = 128 /\ SEQDWN = 2 /\ SEQUP = 4
  BY DEF CHIPID, PASSWORD, DEFDCDC1, DEFDCDC2, DEFDCDC3, DEFSLEW, DEFLDO1, DEFLDO2,
         DEFLS1, DEFLS2, ENABLE, SEQ6, GO, SEQDWN, SEQUP

\* The password takes the place of the number of the register, and gives it back.
LEMMA KeyOpens ==
  ASSUME NEW reg \in Settings \cup {SEQ6}
  PROVE  Key(reg) \in Byte /\ Key(Key(reg)) = reg
<1>1. \/ reg = 14 \/ reg = 15 \/ reg = 16 \/ reg = 17 \/ reg = 18 \/ reg = 19 \/ reg = 20
      \/ reg = 21 \/ reg = 22 \/ reg = 30
  BY Numbers DEF Settings
<1>2. \A x \in Byte : Key(x) = LET f == (x \div 128) * 128 + 127 - (x % 128)
                               IN IF (x \div 2) % 2 = 1 THEN f + 2 ELSE f - 2
  BY DEF Key, Bit, Weight
<1>3. /\ Key(14) = 115 /\ Key(15) = 114 /\ Key(16) = 109 /\ Key(17) = 108 /\ Key(18) = 111
      /\ Key(19) = 110 /\ Key(20) = 105 /\ Key(21) = 104 /\ Key(22) = 107 /\ Key(30) = 99
  BY <1>2 DEF Byte
<1>4. /\ Key(115) = 14 /\ Key(114) = 15 /\ Key(109) = 16 /\ Key(108) = 17 /\ Key(111) = 18
      /\ Key(110) = 19 /\ Key(105) = 20 /\ Key(104) = 21 /\ Key(107) = 22 /\ Key(99) = 30
  BY <1>2 DEF Byte
<1> QED BY <1>1, <1>3, <1>4 DEF Byte

\* The sets of registers, as numbers.
LEMMA SettingNumbers ==
  /\ Settings = 14..22 /\ Verified = Settings \ {17} /\ Settings \subseteq Registers
  /\ Registers = {0, 11, 30} \cup 14..22 /\ Converters = 14..16 /\ Converters \subseteq Verified
  /\ Registers \subseteq Byte
  BY Numbers DEF Settings, Verified, Registers, Converters, Byte

\* The values wanted tell the settings apart from each other and from what the other
\* registers hold.
LEMMA WantedValues ==
  ASSUME NEW p \in Both
  PROVE  /\ Wanted(p, 14) = 24 /\ Wanted(p, 15) = 56 /\ Wanted(p, 16) = 8 /\ Wanted(p, 17) = 134
         /\ Wanted(p, 18) = 15 /\ Wanted(p, 19) = 1 /\ Wanted(p, 20) = 47 /\ Wanted(p, 21) = 31
         /\ Wanted(p, 22) = IF p = "firmware" THEN 127 ELSE 34
  BY Numbers DEF Wanted
LEMMA WantedIsByte ==
  ASSUME NEW p \in Both, NEW reg \in Settings
  PROVE  /\ Wanted(p, reg) \in Byte
         /\ reg # DEFSLEW => Wanted(p, reg) < GO
         /\ reg = DEFSLEW => Wanted(p, reg) = GO + 6
<1>1. \/ reg = 14 \/ reg = 15 \/ reg = 16 \/ reg = 17 \/ reg = 18 \/ reg = 19 \/ reg = 20
      \/ reg = 21 \/ reg = 22
  BY SettingNumbers
<1> QED BY <1>1, WantedValues, Numbers DEF Byte

\* The fields of the chip's registers, and what a register number does to them.
LEMMA PointerMoves ==
  ASSUME NEW t \in ChipValues, NEW x \in Byte
  PROVE  LET e == [t EXCEPT !.ptr = x]
         IN /\ e \in ChipValues /\ Kept(e, t)
            /\ e.ptr = x /\ e.unlocked = t.unlocked /\ e.pass = t.pass
  BY DEF ChipValues, Kept

LEMMA Pieces ==
  ASSUME NEW t \in ChipValues
  PROVE  /\ t.ptr \in Byte /\ t.regs \in [Registers -> Byte] /\ t.unlocked \in Int
         /\ t.pass \in {<<>>} \cup (Registers \X Byte) /\ t.active \in [Converters -> Byte]
         /\ t.rails \in {"on", "off"} /\ "ptr" \in DOMAIN t
  BY DEF ChipValues

\* A register takes a value.
LEMMA ValueTaken ==
  ASSUME NEW t \in ChipValues, NEW reg \in Registers, NEW v \in Byte
  PROVE  LET e == TakeValue(t, reg, v)
         IN /\ e \in ChipValues
            /\ e.ptr = t.ptr /\ e.unlocked = t.unlocked /\ e.pass = t.pass
            /\ reg # DEFSLEW => e.regs = [t.regs EXCEPT ![reg] = v] /\ e.active = t.active
            /\ reg = DEFSLEW /\ v >= GO => /\ e.regs = [t.regs EXCEPT ![reg] = v - GO]
                                           /\ e.active = [r \in Converters |-> t.regs[r]]
            /\ reg # SEQ6 => e.rails = t.rails
            /\ reg = SEQ6 /\ v = SEQUP => e.rails = "on"
            /\ reg = SEQ6 /\ v = SEQDWN => e.rails = "off"
<1> DEFINE e == [t EXCEPT !.regs[reg] = v]
<1>1. /\ e.ptr = t.ptr /\ e.unlocked = t.unlocked /\ e.pass = t.pass /\ e.active = t.active
      /\ e.rails = t.rails /\ e.regs = [t.regs EXCEPT ![reg] = v] /\ e \in ChipValues
  BY DEF ChipValues
<1> HIDE DEF e
<1>2. CASE reg = DEFSLEW /\ v >= GO
  <2> DEFINE a == [r \in Converters |-> t.regs[r]]
  <2>1. a \in [Converters -> Byte]
    BY Pieces, SettingNumbers
  <2>2. TakeValue(t, reg, v) = [e EXCEPT !.regs[reg] = v - GO, !.active = a]
    <3>1. TakeValue(t, reg, v)
            = CASE reg = DEFSLEW /\ v >= GO -> [e EXCEPT !.regs[reg] = v - GO, !.active = a]
                [] reg = SEQ6 /\ v = SEQUP  -> [e EXCEPT !.rails = "on"]
                [] reg = SEQ6 /\ v = SEQDWN -> [e EXCEPT !.rails = "off"]
                [] OTHER -> e
      BY Zenon DEF TakeValue, e
    <3> HIDE DEF a
    <3>2. reg # SEQ6
      BY <1>2, Numbers
    <3> QED BY <1>2, <3>1, <3>2, Zenon
  <2> HIDE DEF a
  <2>3. v - GO \in Byte
    BY <1>2, Numbers DEF Byte
  <2> DEFINE f == [e EXCEPT !.regs[reg] = v - GO, !.active = a]
  <2>4. /\ f.ptr = e.ptr /\ f.unlocked = e.unlocked /\ f.pass = e.pass /\ f.active = a
        /\ f.rails = e.rails /\ f.regs = [e.regs EXCEPT ![reg] = v - GO] /\ f \in ChipValues
    BY <1>1, <2>1, <2>3 DEF ChipValues
  <2> HIDE DEF f
  <2>5. [e.regs EXCEPT ![reg] = v - GO] = [t.regs EXCEPT ![reg] = v - GO]
    BY <1>1, Pieces
  <2>6. reg # SEQ6 /\ TakeValue(t, reg, v) = f
    BY <1>2, <2>2, Numbers DEF f
  <2> QED BY <1>1, <1>2, <2>4, <2>5, <2>6 DEF a
<1>3. CASE reg = SEQ6 /\ v = SEQUP
  <2>1. TakeValue(t, reg, v) = [e EXCEPT !.rails = "on"]
    BY <1>3, Numbers DEF TakeValue, e
  <2> DEFINE f == [e EXCEPT !.rails = "on"]
  <2>2. /\ f.ptr = e.ptr /\ f.unlocked = e.unlocked /\ f.pass = e.pass /\ f.active = e.active
        /\ f.rails = "on" /\ f.regs = e.regs /\ f \in ChipValues
    BY <1>1 DEF ChipValues
  <2> HIDE DEF f
  <2> QED BY <1>1, <1>3, <2>1, <2>2, Numbers DEF f
<1>4. CASE reg = SEQ6 /\ v = SEQDWN
  <2>1. TakeValue(t, reg, v) = [e EXCEPT !.rails = "off"]
    BY <1>4, Numbers DEF TakeValue, e
  <2> DEFINE f == [e EXCEPT !.rails = "off"]
  <2>2. /\ f.ptr = e.ptr /\ f.unlocked = e.unlocked /\ f.pass = e.pass /\ f.active = e.active
        /\ f.rails = "off" /\ f.regs = e.regs /\ f \in ChipValues
    BY <1>1 DEF ChipValues
  <2> HIDE DEF f
  <2> QED BY <1>1, <1>4, <2>1, <2>2, Numbers DEF f
<1>5. CASE ~(reg = DEFSLEW /\ v >= GO) /\ ~(reg = SEQ6 /\ v = SEQUP) /\ ~(reg = SEQ6 /\ v = SEQDWN)
  <2>1. TakeValue(t, reg, v) = e
    BY <1>5 DEF TakeValue, e
  <2> QED BY <1>1, <1>5, <2>1
<1> QED BY <1>2, <1>3, <1>4, <1>5

\* A write of the password.
LEMMA PasswordTaken ==
  ASSUME NEW t \in ChipValues, NEW reg \in Settings \cup {SEQ6}
  PROVE  LET e == WriteReg(t, PASSWORD, Key(reg))
         IN /\ e \in ChipValues /\ Kept(e, t) /\ e.ptr = t.ptr /\ e.unlocked = reg
            /\ e.pass \in {<<>>, t.pass}
            /\ \A v : t.pass = <<reg, v>> => e.pass = t.pass
<1> DEFINE pass == IF t.pass # <<>> /\ t.pass[1] = reg THEN t.pass ELSE <<>>
<1>1. WriteReg(t, PASSWORD, Key(reg)) = [t EXCEPT !.unlocked = reg, !.pass = pass]
  <2>1. WriteReg(t, PASSWORD, Key(reg))
          = [t EXCEPT !.unlocked = Key(Key(reg)),
                      !.pass = IF t.pass # <<>> /\ t.pass[1] = Key(Key(reg))
                               THEN t.pass ELSE <<>>]
    <3>1. PASSWORD # SEQ6 /\ PASSWORD \notin DEFDCDC1..ENABLE
      BY Numbers
    <3> QED BY <3>1, Zenon DEF WriteReg
  <2> QED BY <2>1, KeyOpens
<1>2. \A v : t.pass = <<reg, v>> => pass = t.pass
  OBVIOUS
<1>3. pass \in {<<>>, t.pass}
  OBVIOUS
<1> HIDE DEF pass
<1> DEFINE e == [t EXCEPT !.unlocked = reg, !.pass = pass]
<1>4. reg \in Int
  BY SettingNumbers, Numbers
<1>5. e \in ChipValues /\ Kept(e, t) /\ e.ptr = t.ptr /\ e.unlocked = reg /\ e.pass = pass
  BY <1>3, <1>4, Pieces DEF ChipValues, Kept
<1> HIDE DEF e
<1> QED BY <1>1, <1>2, <1>3, <1>5 DEF e

\* A write of a setting.
LEMMA SettingTaken ==
  ASSUME NEW t \in ChipValues, NEW reg \in Settings, NEW v \in Byte
  PROVE  LET e == WriteReg(t, reg, v)
         IN /\ e \in ChipValues /\ e.ptr = t.ptr /\ e.rails = t.rails
            /\ t.unlocked # reg => Kept(e, t)
            /\ t.unlocked = reg /\ t.pass # <<reg, v>> => Kept(e, t) /\ e.pass = <<reg, v>>
            /\ t.unlocked = reg /\ t.pass = <<reg, v>> =>
                 /\ reg # DEFSLEW => e.regs = [t.regs EXCEPT ![reg] = v] /\ e.active = t.active
                 /\ reg = DEFSLEW /\ v >= GO => /\ e.regs = [t.regs EXCEPT ![reg] = v - GO]
                                                /\ e.active = [r \in Converters |-> t.regs[r]]
<1> DEFINE shut == [t EXCEPT !.unlocked = -1]
           bare == [shut EXCEPT !.pass = <<>>]
           half == [shut EXCEPT !.pass = <<reg, v>>]
<1>1. reg # PASSWORD /\ reg # SEQ6 /\ reg \in DEFDCDC1..ENABLE /\ reg \in Registers
  BY SettingNumbers, Numbers DEF Settings
<1>2. shut \in ChipValues /\ Kept(shut, t) /\ shut.ptr = t.ptr
  BY DEF ChipValues, Kept
<1>3. WriteReg(t, reg, v) = IF t.unlocked = reg
                            THEN IF t.pass = <<reg, v>> THEN TakeValue(bare, reg, v) ELSE half
                            ELSE bare
  BY <1>1, Zenon DEF WriteReg
<1> HIDE DEF shut
<1>4. /\ bare \in ChipValues /\ bare.regs = shut.regs /\ bare.active = shut.active
      /\ bare.rails = shut.rails /\ bare.ptr = shut.ptr
  BY <1>2 DEF ChipValues
<1>5. /\ half \in ChipValues /\ half.regs = shut.regs /\ half.active = shut.active
      /\ half.rails = shut.rails /\ half.ptr = shut.ptr /\ half.pass = <<reg, v>>
  BY <1>1, <1>2 DEF ChipValues
<1> HIDE DEF bare, half
<1>6. Kept(bare, t) /\ bare.ptr = t.ptr /\ Kept(half, t) /\ half.ptr = t.ptr
  BY <1>2, <1>4, <1>5 DEF Kept
<1>7. CASE t.unlocked # reg
  BY <1>3, <1>4, <1>6, <1>7 DEF Kept
<1>8. CASE t.unlocked = reg /\ t.pass # <<reg, v>>
  BY <1>3, <1>5, <1>6, <1>8 DEF Kept
<1>9. CASE t.unlocked = reg /\ t.pass = <<reg, v>>
  <2> DEFINE f == TakeValue(bare, reg, v)
  <2>1. /\ f \in ChipValues /\ f.ptr = bare.ptr /\ f.rails = bare.rails
        /\ reg # DEFSLEW => f.regs = [bare.regs EXCEPT ![reg] = v] /\ f.active = bare.active
        /\ reg = DEFSLEW /\ v >= GO => /\ f.regs = [bare.regs EXCEPT ![reg] = v - GO]
                                       /\ f.active = [r \in Converters |-> bare.regs[r]]
    BY <1>1, <1>4, ValueTaken
  <2> HIDE DEF f
  <2> QED BY <1>3, <1>6, <1>9, <2>1 DEF f, Kept
<1> QED BY <1>7, <1>8, <1>9

\* A write of the sequencer's register.
LEMMA SequencerTaken ==
  ASSUME NEW t \in ChipValues, NEW do \in {SEQUP, SEQDWN}
  PROVE  LET e == WriteReg(t, SEQ6, do)
         IN /\ e \in ChipValues /\ e.active = t.active
            /\ e.regs = t.regs \/ e.regs = [t.regs EXCEPT ![SEQ6] = do]
            /\ t.unlocked = SEQ6 => e.rails = (IF do = SEQUP THEN "on" ELSE "off")
<1> DEFINE shut == [t EXCEPT !.unlocked = -1]
           bare == [shut EXCEPT !.pass = <<>>]
<1>1. /\ SEQ6 # PASSWORD /\ SEQ6 \notin DEFDCDC1..ENABLE /\ SEQ6 \in Registers /\ SEQ6 # DEFSLEW
      /\ do \in Byte /\ SEQUP # SEQDWN
  BY SettingNumbers, Numbers DEF Byte
<1>2. shut \in ChipValues /\ Kept(shut, t)
  BY DEF ChipValues, Kept
<1>3. WriteReg(t, SEQ6, do) = IF t.unlocked = SEQ6 THEN TakeValue(shut, SEQ6, do) ELSE bare
  BY <1>1, Zenon DEF WriteReg
<1> HIDE DEF shut
<1>4. bare \in ChipValues /\ Kept(bare, shut)
  BY <1>2 DEF ChipValues, Kept
<1> HIDE DEF bare
<1>5. CASE t.unlocked # SEQ6
  BY <1>2, <1>3, <1>4, <1>5 DEF Kept
<1>6. CASE t.unlocked = SEQ6
  <2> DEFINE f == TakeValue(shut, SEQ6, do)
  <2>1. /\ f \in ChipValues /\ f.regs = [shut.regs EXCEPT ![SEQ6] = do] /\ f.active = shut.active
        /\ do = SEQUP => f.rails = "on"
        /\ do = SEQDWN => f.rails = "off"
    BY <1>1, <1>2, ValueTaken
  <2> HIDE DEF f
  <2> QED BY <1>1, <1>2, <1>3, <1>6, <2>1, ZenonT(40) DEF f, Kept
<1> QED BY <1>5, <1>6

\* What keeps the registers among the values that a run of a program leaves.
LEMMA SaneKept ==
  ASSUME NEW t, Sane(t), NEW u \in ChipValues, u.regs = t.regs
  PROVE  Sane(u)
  BY DEF Sane

LEMMA SaneSet ==
  ASSUME NEW t, Sane(t), NEW u \in ChipValues, NEW reg \in Verified, NEW p \in Both,
         u.regs = [t.regs EXCEPT ![reg] = Wanted(p, reg)]
  PROVE  Sane(u)
<1>1. t.regs \in [Registers -> Byte] /\ reg \in Registers
  BY Pieces, SettingNumbers DEF Sane
<1>2. \A r \in Registers : u.regs[r] = IF r = reg THEN Wanted(p, reg) ELSE t.regs[r]
  BY <1>1
<1>3. {CHIPID, PASSWORD, DEFSLEW, SEQ6} \subseteq Registers \ {reg} /\ Verified \subseteq Registers
  BY SettingNumbers, Numbers
<1>4. \A r \in Verified : u.regs[r] \in {0, Wanted("firmware", r), Wanted("bootstrapper", r)}
  BY <1>2, <1>3 DEF Sane, Both
<1> QED BY <1>2, <1>3, <1>4 DEF Sane

LEMMA SaneOther ==
  ASSUME NEW t, Sane(t), NEW u \in ChipValues, NEW reg \in {DEFSLEW, SEQ6}, NEW v,
         u.regs = [t.regs EXCEPT ![reg] = v],
         reg = DEFSLEW => v = 6, reg = SEQ6 => v \in {SEQUP, SEQDWN}
  PROVE  Sane(u)
<1>1. t.regs \in [Registers -> Byte] /\ reg \in Registers
  BY Pieces, SettingNumbers, Numbers DEF Sane
<1>2. \A r \in Registers : u.regs[r] = IF r = reg THEN v ELSE t.regs[r]
  BY <1>1
<1>3. /\ CHIPID # reg /\ PASSWORD # reg /\ reg \notin Verified /\ DEFSLEW # SEQ6
      /\ Verified \subseteq Registers /\ {CHIPID, PASSWORD, DEFSLEW, SEQ6} \subseteq Registers
  BY SettingNumbers, Numbers
<1> QED BY <1>2, <1>3 DEF Sane

LEMMA ValueIsByte ==
  ASSUME NEW t \in ChipValues
  PROVE  ValueAt(t) \in Byte
<1>1. t.ptr \in Registers => t.regs[t.ptr] \in Byte
  BY Pieces
<1>2. 0 \in Byte
  BY DEF Byte
<1> QED BY <1>1, <1>2 DEF ValueAt

\* A value read tells the register that it came from.
LEMMA ValueTells ==
  ASSUME NEW p \in Both, NEW reg \in Verified, NEW t, Sane(t), ValueAt(t) = Wanted(p, reg)
  PROVE  t.regs[reg] = Wanted(p, reg)
<1>1. /\ reg \in Settings /\ reg # DEFSLEW
      /\ Registers = {CHIPID, PASSWORD, DEFSLEW, SEQ6} \cup Verified
  BY SettingNumbers, Numbers
<1>2. \/ reg = 14 \/ reg = 15 \/ reg = 16 \/ reg = 18 \/ reg = 19 \/ reg = 20
      \/ reg = 21 \/ reg = 22
  BY SettingNumbers
<1>3. Wanted(p, reg) \in {24, 56, 8, 15, 1, 47, 31, 127, 34}
  BY <1>2, WantedValues
<1>4. t.ptr \in Registers /\ t.regs[t.ptr] = Wanted(p, reg)
  BY <1>3 DEF ValueAt
<1>5. t.ptr \in Verified
  BY <1>1, <1>3, <1>4, Numbers DEF Sane
<1>6. \E q \in Both : Wanted(q, t.ptr) = Wanted(p, reg)
  <2>1. Wanted(p, reg) # 0
    BY <1>3
  <2>2. t.regs[t.ptr] \in {0, Wanted("firmware", t.ptr), Wanted("bootstrapper", t.ptr)}
    BY <1>5 DEF Sane
  <2> QED BY <1>4, <2>1, <2>2 DEF Both
<1>7. \/ t.ptr = 14 \/ t.ptr = 15 \/ t.ptr = 16 \/ t.ptr = 18 \/ t.ptr = 19 \/ t.ptr = 20
      \/ t.ptr = 21 \/ t.ptr = 22
  BY <1>5, SettingNumbers
<1>8. t.ptr = reg
  BY <1>2, <1>6, <1>7, WantedValues
<1> QED BY <1>4, <1>8

\* One access of a setting, whatever the chip refuses.
LEMMA PasswordAccess ==
  ASSUME NEW reg \in Settings \cup {SEQ6}, NEW t, Sane(t), NEW k \in 0..3
  PROVE  LET u == Written(t, k, PASSWORD, Key(reg))
         IN /\ Sane(u) /\ Kept(u, t)
            /\ k = 0 => u.unlocked = reg /\ \A v : t.pass = <<reg, v>> => u.pass = <<reg, v>>
<1> DEFINE e == [t EXCEPT !.ptr = PASSWORD]
           u == Written(t, k, PASSWORD, Key(reg))
<1>1. t \in ChipValues /\ PASSWORD \in Byte
  BY Numbers DEF Sane, Byte
<1>2. e \in ChipValues /\ Kept(e, t) /\ e.pass = t.pass
  BY <1>1, PointerMoves
<1> HIDE DEF e
<1>3. /\ k = 0 => u = WriteReg(e, PASSWORD, Key(reg))
      /\ k = 3 => u = e
      /\ k \in {1, 2} => u = t
  BY DEF Written, e
<1> HIDE DEF u
<1>4. CASE k = 0
  <2>1. /\ u \in ChipValues /\ Kept(u, e) /\ u.unlocked = reg
        /\ \A v : e.pass = <<reg, v>> => u.pass = e.pass
    BY <1>2, <1>3, <1>4, PasswordTaken
  <2>2. Kept(u, t)
    BY <1>2, <2>1 DEF Kept
  <2>3. Sane(u)
    BY <2>1, <2>2, SaneKept DEF Kept
  <2> QED BY <1>2, <2>1, <2>2, <2>3 DEF u
<1>5. CASE k = 3
  <2>1. Sane(u)
    BY <1>2, <1>3, <1>5, SaneKept DEF Kept
  <2> QED BY <1>2, <1>3, <1>5, <2>1 DEF u
<1>6. CASE k \in {1, 2}
  BY <1>3, <1>6 DEF u, Kept
<1>7. k = 0 \/ k = 3 \/ k \in {1, 2}
  OBVIOUS
<1> QED BY <1>4, <1>5, <1>6, <1>7

\* A write of a setting: the first of its two writes, or the one that takes effect.
LEMMA SettingAccess ==
  ASSUME NEW p \in Both, NEW reg \in Settings, NEW t, Sane(t), NEW k \in 0..3
  PROVE  LET u == Written(t, k, reg, Wanted(p, reg))
         IN /\ Sane(u) /\ u.rails = t.rails
            /\ \A r \in Registers \ {reg} : u.regs[r] = t.regs[r]
            /\ reg # DEFSLEW => u.active = t.active
            /\ k = 0 /\ t.unlocked = reg =>
                 \/ /\ Kept(u, t) /\ u.pass = <<reg, Wanted(p, reg)>>
                    /\ t.pass # <<reg, Wanted(p, reg)>>
                 \/ reg # DEFSLEW /\ u.regs[reg] = Wanted(p, reg)
                 \/ reg = DEFSLEW /\ u.active = [r \in Converters |-> t.regs[r]]
<1> DEFINE e == [t EXCEPT !.ptr = reg]
           v == Wanted(p, reg)
           u == Written(t, k, reg, v)
<1>1. t \in ChipValues /\ reg \in Byte /\ reg \in Registers
  BY SettingNumbers DEF Sane
<1>2. e \in ChipValues /\ Kept(e, t) /\ e.pass = t.pass /\ e.unlocked = t.unlocked
  BY <1>1, PointerMoves
<1> HIDE DEF e
<1>3. /\ v \in Byte
      /\ reg = DEFSLEW => v >= GO /\ v - GO = 6
  BY WantedIsByte, Numbers
<1> HIDE DEF v
<1>4. /\ k = 0 => u = WriteReg(e, reg, v)
      /\ k = 3 => u = e
      /\ k \in {1, 2} => u = t
  BY DEF Written, e
<1> HIDE DEF u
<1>5. CASE k = 0
  <2>1. /\ u \in ChipValues /\ u.rails = e.rails
        /\ e.unlocked # reg => Kept(u, e)
        /\ e.unlocked = reg /\ e.pass # <<reg, v>> => Kept(u, e) /\ u.pass = <<reg, v>>
        /\ e.unlocked = reg /\ e.pass = <<reg, v>> =>
             /\ reg # DEFSLEW => u.regs = [e.regs EXCEPT ![reg] = v] /\ u.active = e.active
             /\ reg = DEFSLEW /\ v >= GO => /\ u.regs = [e.regs EXCEPT ![reg] = v - GO]
                                            /\ u.active = [r \in Converters |-> e.regs[r]]
    BY <1>2, <1>3, <1>4, <1>5, SettingTaken
  <2>2. CASE e.unlocked # reg \/ e.pass # <<reg, v>>
    <3>1. Kept(u, t)
      BY <1>2, <2>1, <2>2 DEF Kept
    <3>2. Sane(u)
      BY <2>1, <3>1, SaneKept DEF Kept
    <3> QED BY <1>2, <2>1, <2>2, <3>1, <3>2 DEF u, v, Kept
  <2>3. CASE e.unlocked = reg /\ e.pass = <<reg, v>> /\ reg # DEFSLEW
    <3>1. u.regs = [t.regs EXCEPT ![reg] = v] /\ u.active = t.active /\ u.rails = t.rails
      BY <1>2, <2>1, <2>3 DEF Kept
    <3>2. reg \in Verified
      BY <2>3, SettingNumbers, Numbers
    <3>3. Sane(u)
      BY <2>1, <3>1, <3>2, SaneSet DEF v
    <3>4. u.regs[reg] = v /\ \A r \in Registers \ {reg} : u.regs[r] = t.regs[r]
      BY <1>1, <3>1, Pieces
    <3> QED BY <2>3, <3>1, <3>3, <3>4 DEF u, v
  <2>4. CASE e.unlocked = reg /\ e.pass = <<reg, v>> /\ reg = DEFSLEW
    <3>1. /\ u.regs = [t.regs EXCEPT ![reg] = 6] /\ u.rails = t.rails
          /\ u.active = [r \in Converters |-> t.regs[r]]
      BY <1>2, <1>3, <2>1, <2>4 DEF Kept
    <3>2. Sane(u)
      BY <2>1, <2>4, <3>1, SaneOther, Numbers
    <3>3. \A r \in Registers \ {reg} : u.regs[r] = t.regs[r]
      BY <1>1, <3>1, Pieces
    <3> QED BY <2>4, <3>1, <3>2, <3>3 DEF u, v
  <2> QED BY <2>2, <2>3, <2>4
<1>6. CASE k = 3
  <2>1. Sane(u)
    BY <1>2, <1>4, <1>6, SaneKept DEF Kept
  <2> QED BY <1>2, <1>4, <1>6, <2>1 DEF u, v, Kept
<1>7. CASE k \in {1, 2}
  BY <1>4, <1>7 DEF u, v
<1>8. k = 0 \/ k = 3 \/ k \in {1, 2}
  OBVIOUS
<1> QED BY <1>5, <1>6, <1>7, <1>8

\* The switch of the FPGA's power: two accesses.
LEMMA SequencerAccess ==
  ASSUME NEW do \in {SEQUP, SEQDWN}, NEW t, Sane(t), NEW k \in 0..3
  PROVE  LET u == Written(t, k, SEQ6, do)
         IN /\ Sane(u) /\ u.active = t.active
            /\ \A reg \in Verified : u.regs[reg] = t.regs[reg]
            /\ k = 0 /\ t.unlocked = SEQ6 => u.rails = (IF do = SEQUP THEN "on" ELSE "off")
<1> DEFINE e == [t EXCEPT !.ptr = SEQ6]
           u == Written(t, k, SEQ6, do)
<1>1. t \in ChipValues /\ SEQ6 \in Byte
  BY Numbers DEF Sane, Byte
<1>2. e \in ChipValues /\ Kept(e, t) /\ e.unlocked = t.unlocked
  BY <1>1, PointerMoves
<1> HIDE DEF e
<1>3. Sane(e)
  BY <1>2, SaneKept DEF Kept
<1>4. /\ k = 0 => u = WriteReg(e, SEQ6, do)
      /\ k = 3 => u = e
      /\ k \in {1, 2} => u = t
  BY DEF Written, e
<1> HIDE DEF u
<1>5. CASE k = 0
  <2>1. /\ u \in ChipValues /\ u.active = e.active
        /\ u.regs = e.regs \/ u.regs = [e.regs EXCEPT ![SEQ6] = do]
        /\ e.unlocked = SEQ6 => u.rails = (IF do = SEQUP THEN "on" ELSE "off")
    <3> DEFINE w == WriteReg(e, SEQ6, do)
    <3>1. /\ w \in ChipValues /\ w.active = e.active
          /\ w.regs = e.regs \/ w.regs = [e.regs EXCEPT ![SEQ6] = do]
          /\ e.unlocked = SEQ6 => w.rails = (IF do = SEQUP THEN "on" ELSE "off")
      BY <1>2, SequencerTaken
    <3> QED BY <1>4, <1>5, <3>1
  <2>2. Sane(u)
    BY <1>3, <2>1, SaneKept, SaneOther, Numbers
  <2>3. \A reg \in Verified : u.regs[reg] = e.regs[reg]
    <3>1. Verified \subseteq Registers \ {SEQ6}
      BY SettingNumbers, Numbers
    <3> QED BY <1>2, <2>1, <3>1, Pieces
  <2> QED BY <1>2, <1>5, <2>1, <2>2, <2>3 DEF u, Kept
<1>6. CASE k = 3
  BY <1>2, <1>3, <1>4, <1>6 DEF u, Kept
<1>7. CASE k \in {1, 2}
  BY <1>4, <1>7 DEF u
<1>8. k = 0 \/ k = 3 \/ k \in {1, 2}
  OBVIOUS
<1> QED BY <1>5, <1>6, <1>7, <1>8

\* Reading a register moves the pointer only.
LEMMA ReadAccess ==
  ASSUME NEW reg \in Byte, NEW t, Sane(t), NEW k \in 0..3
  PROVE  LET u == Pointed(t, k, reg)
         IN /\ Sane(u) /\ Kept(u, t) /\ u.unlocked = t.unlocked /\ u.pass = t.pass
            /\ ValueAt(u) \in Byte
            /\ k = 0 => u.ptr = reg
<1> DEFINE e == [t EXCEPT !.ptr = reg]
           u == Pointed(t, k, reg)
<1>1. e \in ChipValues /\ Kept(e, t) /\ e.ptr = reg /\ e.unlocked = t.unlocked /\ e.pass = t.pass
  BY PointerMoves DEF Sane
<1>2. ((k = 0 \/ k = 3) /\ u = e) \/ (k # 0 /\ u = t)
  BY DEF Pointed
<1> HIDE DEF e, u
<1>3. Sane(u) /\ Kept(u, t) /\ u.unlocked = t.unlocked /\ u.pass = t.pass /\ (k = 0 => u.ptr = reg)
  <2>1. CASE u = e /\ (k = 0 \/ k = 3)
    BY <1>1, <2>1, SaneKept DEF Kept
  <2>2. CASE u = t /\ k # 0
    BY <2>2 DEF Kept
  <2> QED BY <1>2, <2>1, <2>2
<1>4. ValueAt(u) \in Byte
  BY <1>3, ValueIsByte DEF Sane
<1> QED BY <1>3, <1>4 DEF u

-----------------------------------------------------------------------------
(* The chip as the last reset left it. *)

\* Every setting is made once.
LEMMA OrderOfSettings ==
  /\ Len(Order) = 9
  /\ \A i \in 1..9 : Order[i] \in Settings /\ (Order[i] = DEFSLEW <=> i = 8)
  /\ \A i, j \in 1..9 : Order[i] = Order[j] => i = j
  /\ \A r \in Verified : \E i \in 1..9 : Order[i] = r
  /\ Order[1] = DEFDCDC1 /\ Order[2] = DEFDCDC2 /\ Order[3] = DEFDCDC3 /\ Order[9] = ENABLE
<1>1. Order = <<14, 15, 16, 18, 19, 20, 21, 17, 22>>
  BY Numbers DEF Order
<1>2. /\ Order[1] = 14 /\ Order[2] = 15 /\ Order[3] = 16 /\ Order[4] = 18 /\ Order[5] = 19
      /\ Order[6] = 20 /\ Order[7] = 21 /\ Order[8] = 17 /\ Order[9] = 22
  BY <1>1
<1>3. \A i \in 1..9 : i = 1 \/ i = 2 \/ i = 3 \/ i = 4 \/ i = 5 \/ i = 6 \/ i = 7 \/ i = 8 \/ i = 9
  OBVIOUS
<1>4. Len(Order) = 9
  BY <1>1
<1> HIDE DEF Order
<1>5. \A i \in 1..9 : Order[i] \in Settings /\ (Order[i] = DEFSLEW <=> i = 8)
  BY <1>2, <1>3, SettingNumbers, Numbers
<1>6. \A i, j \in 1..9 : Order[i] = Order[j] => i = j
  BY <1>2, <1>3
<1>7. \A r \in Verified : \E i \in 1..9 : Order[i] = r
  <2> TAKE r \in Verified
  <2>1. \/ r = 14 \/ r = 15 \/ r = 16 \/ r = 18 \/ r = 19 \/ r = 20 \/ r = 21 \/ r = 22
    BY SettingNumbers
  <2> QED BY <1>2, <2>1
<1> QED BY <1>2, <1>4, <1>5, <1>6, <1>7, Numbers

\* The registers at the start of the program.
LEMMA LeftSane ==
  ASSUME NEW p \in Both, NEW m \in 0..10
  PROVE  Sane(Left(p, m)) /\ (m # 0 => Left(p, m).ptr \in Settings \cup {SEQ6})
         /\ (m \in 1..9 => Left(p, m).ptr = Order[m]) /\ (m = 10 => Left(p, m).ptr = SEQ6)
<1> DEFINE t == Left(p, m)
           vals == [r \in Registers |-> IF r = CHIPID THEN 240 + 2
                                        ELSE IF \E i \in 1..m - 1 : Order[i] = r
                                             THEN Wanted(p, r) % GO ELSE 0]
           pass == IF m \in {0, 10} THEN <<>> ELSE <<Order[m], Wanted(p, Order[m])>>
           active == [r \in Converters |-> IF m > 8 THEN Wanted(p, r) ELSE 0]
           ptr == Aim(m)
           unlocked == IF m = 0 THEN -1 ELSE Aim(m)
           rails == IF m = 10 THEN "on" ELSE "off"
<1>1. t = [ptr |-> ptr, regs |-> vals, unlocked |-> unlocked, pass |-> pass, active |-> active,
           rails |-> rails]
  BY DEF Left
<1>2. m \in 1..9 => Order[m] \in Settings /\ Order[m] \in Byte /\ Order[m] \in Registers
                    /\ Wanted(p, Order[m]) \in Byte
  BY OrderOfSettings, SettingNumbers, WantedIsByte
<1>3. /\ ptr \in Byte /\ unlocked \in Int /\ pass \in {<<>>} \cup (Registers \X Byte)
      /\ rails \in {"on", "off"}
      /\ (m \in 1..9 => ptr = Order[m]) /\ (m = 10 => ptr = SEQ6)
  <2>1. CASE m = 0
    BY <2>1, Numbers DEF Byte, Aim
  <2>2. CASE m = 10
    BY <2>2, Numbers DEF Byte, Aim
  <2>3. CASE m \in 1..9
    BY <1>2, <2>3, Numbers DEF Byte, Aim
  <2> QED BY <2>1, <2>2, <2>3
<1>4. active \in [Converters -> Byte]
  BY WantedIsByte, SettingNumbers DEF Byte
<1>5. \A r \in Registers : vals[r] = IF r = CHIPID THEN 242
                                     ELSE IF \E i \in 1..m - 1 : Order[i] = r
                                          THEN Wanted(p, r) % GO ELSE 0
  OBVIOUS
<1>6. DOMAIN vals = Registers /\ vals \in [Registers -> {vals[r] : r \in Registers}]
  OBVIOUS
<1> HIDE DEF vals, pass, active, ptr, unlocked, rails
<1>7. \A r \in Settings : /\ r # DEFSLEW => Wanted(p, r) % GO = Wanted(p, r)
                          /\ r = DEFSLEW => Wanted(p, r) % GO = 6
  BY WantedIsByte, Numbers DEF Byte
<1>8. \A r \in Registers : (\E i \in 1..m - 1 : Order[i] = r) => r \in Settings
  BY OrderOfSettings
<1>9. /\ vals[CHIPID] = 242 /\ vals[PASSWORD] = 0 /\ vals[SEQ6] = 0 /\ vals[DEFSLEW] \in {0, 6}
      /\ \A r \in Verified : vals[r] \in {0, Wanted(p, r)}
  <2>1. /\ CHIPID \in Registers
        /\ PASSWORD \in Registers \ Settings /\ SEQ6 \in Registers \ Settings
        /\ DEFSLEW \in Registers /\ Verified \subseteq Registers /\ CHIPID \notin Settings
        /\ Verified = Settings \ {DEFSLEW} /\ PASSWORD # CHIPID /\ SEQ6 # CHIPID /\ DEFSLEW # CHIPID
    BY SettingNumbers, Numbers
  <2> QED BY <1>5, <1>7, <1>8, <2>1
<1>10. \A r \in Registers : vals[r] \in Byte
  <2>1. \A r \in Verified : vals[r] \in Byte
    BY <1>9, WantedIsByte, SettingNumbers DEF Byte
  <2>2. Registers = {CHIPID, PASSWORD, DEFSLEW, SEQ6} \cup Verified
    BY SettingNumbers, Numbers
  <2> QED BY <1>9, <2>1, <2>2 DEF Byte
<1>11. vals \in [Registers -> Byte]
  BY <1>6, <1>10
<1>12. t \in ChipValues
  BY <1>1, <1>3, <1>4, <1>11 DEF ChipValues
<1>13. t.regs = vals /\ t.ptr = ptr
  BY <1>1
<1> HIDE DEF t
<1>14. \A r \in Verified : t.regs[r] \in {0, Wanted("firmware", r), Wanted("bootstrapper", r)}
  BY <1>9, <1>13 DEF Both
<1>15. Sane(t)
  BY <1>3, <1>9, <1>12, <1>13, <1>14 DEF Sane
<1> QED BY <1>2, <1>3, <1>13, <1>15 DEF t

\* A further round does no harm.
LEMMA MoreRounds ==
  ASSUME NEW t, NEW c \in Clearable(8, t)
  PROVE  \E d \in Clearable(8, t) : Turns(c, d)
<1>1. PICK d \in Clearable(7, t) : Turns(c, d)
  <2>1. 7 \in 0..7 /\ 7 + 1 = 8
    OBVIOUS
  <2> QED BY <2>1, RoundTaken
<1>2. Clearable(7, t) \subseteq Clearable(8, t)
  <2>1. {n \in 1..8 : 9 - n <= 7} \subseteq {n \in 1..8 : 9 - n <= 8}
    OBVIOUS
  <2> QED BY <2>1 DEF Clearable
<1> QED BY <1>1, <1>2

LEMMA ClearableFreed ==
  ASSUME NEW t, NEW c, NEW d \in Clearable(8, t), Turns(c, d)
  PROVE  Cleared(c) = Idle(0, t)
  BY MoreRounds, ClearedAfterTwo

\* What the first round brings a chip to that was cut off in each place of an access.
LEMMA SendingStart ==
  ASSUME NEW t, ValueAt(t) \in Byte, NEW c, NEW x,
         \/ SclFalls(c) = Sending(1, ValueAt(t), 0, t)
         \/ \E ph \in Receiving : SclFalls(c) = Hearing(ph, 0, 0, 0, t)
  PROVE  \E d \in Clearable(8, t) : Turns(c, d)
<1>1. Idle(0, t) \in Clearable(8, t)
  BY DEF Clearable
<1>2. CASE SclFalls(c) = Sending(1, ValueAt(t), 0, t)
  <2> DEFINE e == Sending(1, ValueAt(t), 0, t)
  <2>1. SclRises(e, 0) = e /\ e.tps = t
    BY DEF SclRises, Sending, ChipAt, Receiving
  <2>2. e \in Clearable(8, t)
    BY DEF Clearable
  <2> HIDE DEF e
  <2>3. ClearOnce(OnBus(c)) = OnBus(IF e.drive = 0 THEN e ELSE Idle(0, t))
    BY <1>2, <2>1, StopOnce DEF e
  <2> QED BY <1>1, <2>2, <2>3 DEF Turns
<1>3. ASSUME NEW ph \in Receiving, SclFalls(c) = Hearing(ph, 0, 0, 0, t)
      PROVE  \E d \in Clearable(8, t) : Turns(c, d)
  <2> DEFINE e == SclRises(Hearing(ph, 0, 0, 0, t), 0)
  <2>1. e.tps = t /\ e.drive = 1
    BY DEF SclRises, Hearing, ChipAt, Receiving
  <2> HIDE DEF e
  <2> QED BY <1>1, <1>3, <2>1, StopOnce DEF e, Turns
<1> QED BY <1>2, <1>3

LEMMA SentEnds ==
  ASSUME NEW t, ValueAt(t) \in Byte, NEW x
  PROVE  \E d \in Clearable(8, t) : Turns(Sent(x, 0, t), d)
<1>1. SclFalls(Sent(x, 0, t)) = Sending(1, ValueAt(t), 0, t)
  BY DEF SclFalls, Sent, Sending, SendBit, ChipAt, Receiving
<1> QED BY <1>1, SendingStart

LEMMA AckingEnds ==
  ASSUME NEW t, ValueAt(t) \in Byte, NEW ph \in Receiving, NEW x \in Byte
  PROVE  \E d \in Clearable(8, t) : Turns(Acking(ph, x, 0, t), d)
<1> DEFINE c == Acking(ph, x, 0, t)
<1>1. SclFalls(c) = NextPhase(c)
  <2>1. c.ph = ph /\ c.acking = TRUE
    BY DEF Acking, ChipAt
  <2> QED BY <2>1 DEF SclFalls, Receiving
<1>2. c.ph = ph /\ c.byte = x /\ c.tps = t /\ c.refuse = 0
  BY DEF Acking, ChipAt
<1>3. x % 2 = 1 \/ x % 2 = 0
  BY DEF Byte
<1> HIDE DEF c
<1>4. SendBit(c, ValueAt(t), 1) = Sending(1, ValueAt(t), 0, t)
  BY <1>2 DEF SendBit, Sending
<1>5. /\ Receive(c, "reg") = Hearing("reg", 0, 0, 0, t)
      /\ Receive(c, "data") = Hearing("data", 0, 0, 0, t)
  BY <1>2 DEF Receive, Hearing
<1>6. NextPhase(c) \in {SendBit(c, ValueAt(t), 1), Receive(c, "reg"), Receive(c, "data")}
  BY <1>2, <1>3 DEF NextPhase
<1>7. \/ SclFalls(c) = Sending(1, ValueAt(t), 0, t)
      \/ \E q \in Receiving : SclFalls(c) = Hearing(q, 0, 0, 0, t)
  BY <1>1, <1>4, <1>5, <1>6 DEF Receiving
<1> QED BY <1>7, SendingStart DEF c

\* A byte that is not complete is forgotten; one that is gets its acknowledge.
LEMMA PartHeard ==
  ASSUME NEW t, NEW ph \in Receiving, NEW n \in 0..7
  PROVE  Turns(Hearing(ph, n, 0, 0, t), Idle(0, t))
<1> DEFINE c == Hearing(ph, n, 0, 0, t)
           e == SclRises(c, 0)
<1>1. SclFalls(c) = c
  BY DEF SclFalls, Hearing, ChipAt, Receiving
<1>2. e.tps = t /\ e.drive = 1
  BY DEF SclRises, Hearing, ChipAt, Receiving
<1> HIDE DEF e
<1> QED BY <1>1, <1>2, StopOnce DEF e, Turns

LEMMA WholeHeard ==
  ASSUME NEW t, NEW ph \in Receiving, NEW x \in Byte, ph = "addr" => x \div 2 = SlaveAddr,
         NEW u, u = Acknowledged(Hearing(ph, 8, x, 0, t))
  PROVE  Turns(Hearing(ph, 8, x, 0, t), Acking(ph, x, 0, u))
<1> DEFINE e == Acking(ph, x, 0, u)
<1>1. SclFalls(Hearing(ph, 8, x, 0, t)) = e
  BY AckedOrNot DEF Less
<1>2. SclRises(e, 0) = e /\ e.tps = u /\ e.drive = 0
  BY DEF SclRises, Acking, ChipAt, Receiving
<1> HIDE DEF e
<1> QED BY <1>1, <1>2, StopOnce DEF e, Turns

\* The registers after a byte that the first round completes.
LEMMA CompletedSane ==
  ASSUME NEW p \in Both, NEW m \in 0..10, NEW ph \in Receiving, NEW x, NEW t, t = Left(p, m),
         ph = "reg" => x \in {PASSWORD, t.ptr},
         ph = "data" => \/ m \in 1..9 /\ x = Wanted(p, t.ptr)
                        \/ m = 10 /\ x \in {SEQDWN, SEQUP}
  PROVE  Sane(Acknowledged(Hearing(ph, 8, x, 0, t)))
<1>1. Sane(t) /\ (m \in 1..9 => t.ptr \in Settings) /\ (m = 10 => t.ptr = SEQ6)
  BY LeftSane, OrderOfSettings
<1>2. Acknowledged(Hearing(ph, 8, x, 0, t)) =
        CASE ph = "reg"  -> [t EXCEPT !.ptr = x]
          [] ph = "data" -> WriteReg(t, t.ptr, x)
          [] OTHER       -> t
  BY DEF Acknowledged, Hearing, ChipAt
<1>3. CASE ph = "reg"
  <2>1. x \in Byte
    <3>1. t.ptr \in Byte
      BY <1>1, Pieces DEF Sane
    <3>2. PASSWORD \in Byte
      BY Numbers DEF Byte
    <3> QED BY <1>3, <3>1, <3>2
  <2>2. [t EXCEPT !.ptr = x] \in ChipValues /\ Kept([t EXCEPT !.ptr = x], t)
    BY <1>1, <2>1, PointerMoves DEF Sane
  <2>3. Sane([t EXCEPT !.ptr = x])
    BY <1>1, <2>2, SaneKept DEF Kept
  <2> QED BY <1>2, <1>3, <2>3
<1>4. CASE ph = "data"
  <2>1. [t EXCEPT !.ptr = t.ptr] = t
    BY <1>1 DEF Sane, ChipValues
  <2>2. Written(t, 0, t.ptr, x) = WriteReg(t, t.ptr, x)
    BY <2>1 DEF Written
  <2>3. Sane(Written(t, 0, t.ptr, x))
    <3>1. CASE m \in 1..9 /\ x = Wanted(p, t.ptr)
      <4>1. t.ptr \in Settings /\ 0 \in 0..3
        BY <1>1, <3>1
      <4> QED BY <1>1, <3>1, <4>1, SettingAccess
    <3>2. CASE m = 10 /\ x \in {SEQDWN, SEQUP}
      <4>1. t.ptr = SEQ6 /\ 0 \in 0..3
        BY <1>1, <3>2
      <4> QED BY <1>1, <3>2, <4>1, SequencerAccess
    <3> QED BY <1>4, <3>1, <3>2
  <2> QED BY <1>2, <1>4, <2>2, <2>3
<1>5. CASE ph = "addr"
  BY <1>1, <1>2, <1>5
<1> QED BY <1>3, <1>4, <1>5 DEF Receiving

\* swi2cmst_clrbus frees the bus wherever the last reset cut an access off.
THEOREM BusCleared ==
  ASSUME NEW p \in Both, NEW m \in 0..10, NEW c \in FoundAt(p, m)
  PROVE  \E t : Sane(t) /\ Cleared(c) = Idle(0, t)
<1> DEFINE t == Left(p, m)
           W(ph) == Whole(p, m, ph)
<1>1. \/ c = Idle(0, t)
      \/ \E i \in 1..8, x \in Byte : c = Sending(i, x, 0, t)
      \/ \E x \in Byte : c = Sent(x, 0, t)
      \/ \E ph \in Receiving, i \in 0..7 : c = Hearing(ph, i, 0, 0, t)
      \/ \E ph \in Receiving : \E x \in W(ph) : c = Hearing(ph, 8, x, 0, t)
      \/ \E ph \in Receiving : \E x \in W(ph) : c = Acking(ph, x, 0, t)
  <2> HIDE DEF t
  <2>1. \/ c = Rest(t) \/ c \in CutSending(t) \/ c \in CutSent(t) \/ c \in CutHearing(t)
        \/ c \in CutHeard(p, m, t) \/ c \in CutAcking(p, m, t)
    BY DEF FoundAt, t
  <2>2. HungBytes \subseteq Byte
    BY PowerAssumption
  <2>3. Rest(t) = Idle(0, t)
    BY DEF Rest, Idle
  <2>4. ASSUME c \in CutSending(t) PROVE \E i \in 1..8, x \in Byte : c = Sending(i, x, 0, t)
    <3>1. \E i \in 1..8, x \in HungBytes : c = SendBit(Rest(t), x, i)
      BY <2>4 DEF CutSending
    <3>2. \A x, i : SendBit(Rest(t), x, i) = Sending(i, x, 0, t)
      BY DEF SendBit, Sending, Rest, ChipAt
    <3> QED BY <2>2, <3>1, <3>2
  <2>5. ASSUME c \in CutSent(t) PROVE \E x \in Byte : c = Sent(x, 0, t)
    BY <2>2, <2>5 DEF CutSent, Sent
  <2>6. ASSUME c \in CutHearing(t)
        PROVE  \E ph \in Receiving, i \in 0..7 : c = Hearing(ph, i, 0, 0, t)
    BY <2>6 DEF CutHearing, Hearing, ChipAt
  <2>7. ASSUME c \in CutHeard(p, m, t)
        PROVE  \E ph \in Receiving : \E x \in W(ph) : c = Hearing(ph, 8, x, 0, t)
    BY <2>7 DEF CutHeard, Hearing
  <2>8. ASSUME c \in CutAcking(p, m, t)
        PROVE  \E ph \in Receiving : \E x \in W(ph) : c = Acking(ph, x, 0, t)
    BY <2>8 DEF CutAcking, Acking
  <2> QED BY <2>1, <2>3, <2>4, <2>5, <2>6, <2>7, <2>8
<1>2. Sane(t) /\ ValueAt(t) \in Byte
      /\ (m \in 1..9 => t.ptr \in Settings /\ t.ptr = Order[m])
  BY LeftSane, OrderOfSettings, ValueIsByte DEF Sane
<1>3. ASSUME NEW ph \in Receiving, NEW x \in W(ph)
      PROVE  /\ x \in Byte /\ (ph = "addr" => x \div 2 = SlaveAddr)
             /\ (ph = "reg" => x \in {PASSWORD, t.ptr})
             /\ (ph = "data" => \/ m \in 1..9 /\ x = Wanted(p, t.ptr)
                                \/ m = 10 /\ x \in {SEQDWN, SEQUP})
  <2>1. CASE ph = "addr"
    BY <1>3, <2>1 DEF SlaveAddr, Byte, Whole
  <2>2. CASE ph = "reg"
    <3>1. t.ptr \in Byte
      BY <1>2, Pieces DEF Sane
    <3>2. PASSWORD \in Byte
      BY Numbers DEF Byte
    <3> QED BY <1>3, <2>2, <3>1, <3>2 DEF Whole
  <2>3. CASE ph = "data"
    <3>1. CASE m = 0
      BY <1>3, <2>3, <3>1 DEF Whole
    <3>2. CASE m = 10
      BY <1>3, <2>3, <3>2, Numbers DEF Whole, Byte
    <3>3. CASE m \in 1..9
      <4>1. x = Wanted(p, Order[m])
        BY <1>3, <2>3, <3>3 DEF Whole
      <4> QED BY <1>2, <2>3, <3>3, <4>1, WantedIsByte
    <3> QED BY <3>1, <3>2, <3>3
  <2> QED BY <2>1, <2>2, <2>3 DEF Receiving
<1> HIDE DEF t, W
<1>4. CASE c = Idle(0, t)
  <2>1. Idle(0, t) \in Clearable(8, t)
    BY DEF Clearable
  <2> QED BY <1>2, <1>4, <2>1, IdleStays, ClearableFreed
<1>5. CASE \E i \in 1..8, x \in Byte : c = Sending(i, x, 0, t)
  <2>1. \A i \in 1..8 : 9 - i <= 8
    OBVIOUS
  <2>2. c \in Clearable(8, t)
    BY <1>5, <2>1 DEF Clearable
  <2> QED BY <1>2, <2>2, MoreRounds, ClearableFreed
<1>6. CASE \E x \in Byte : c = Sent(x, 0, t)
  BY <1>2, <1>6, SentEnds, ClearableFreed
<1>7. CASE \E ph \in Receiving, i \in 0..7 : c = Hearing(ph, i, 0, 0, t)
  <2>1. Idle(0, t) \in Clearable(8, t)
    BY DEF Clearable
  <2> QED BY <1>2, <1>7, <2>1, PartHeard, ClearableFreed
<1>8. CASE \E ph \in Receiving : \E x \in W(ph) : c = Hearing(ph, 8, x, 0, t)
  <2>0. PICK ph \in Receiving : \E x \in W(ph) : c = Hearing(ph, 8, x, 0, t)
    BY <1>8
  <2>1. PICK x \in W(ph) : c = Hearing(ph, 8, x, 0, t)
    BY <2>0
  <2> DEFINE u == Acknowledged(Hearing(ph, 8, x, 0, t))
  <2>2. Sane(u)
    BY <1>3, CompletedSane DEF t
  <2> HIDE DEF u
  <2>3. Turns(c, Acking(ph, x, 0, u))
    BY <1>3, <2>1, WholeHeard DEF u
  <2>4. PICK d \in Clearable(8, u) : Turns(Acking(ph, x, 0, u), d)
    BY <1>3, <2>2, AckingEnds, ValueIsByte DEF Sane
  <2> QED BY <2>2, <2>3, <2>4, ClearedAfterTwo
<1>9. CASE \E ph \in Receiving : \E x \in W(ph) : c = Acking(ph, x, 0, t)
  BY <1>2, <1>3, <1>9, AckingEnds, ClearableFreed
<1> QED BY <1>1, <1>4, <1>5, <1>6, <1>7, <1>8, <1>9

-----------------------------------------------------------------------------
(* The inductive invariant of the board's start.  *)

PowerSpec == PowerInit /\ [][PowerNext]_powerVars

PowerValues ==
  /\ program \in Programs /\ result \in 0..1
  /\ stage \in {"clear", "identify", "access", "running"}
  /\ at \in 1..10 /\ part \in 1..5 /\ (at = 8 => part <= 4)
  /\ pwrEn \in BOOLEAN /\ powered \in BOOLEAN /\ refused \in BOOLEAN
  /\ restarts \in Nat /\ faults \in Nat
  /\ pwrEn => stage = "running"
  /\ stage = "identify" => at = 1 /\ part = 1

\* Only before the bus is cleared may the chip be in the middle of an access.
Free == chip = Idle(0, chip.tps) /\ Sane(chip.tps)
FreedInv ==
  /\ stage # "clear" => Free
  /\ stage = "clear" => Free \/ \E p \in Both, m \in 0..10 : chip \in FoundAt(p, m)

\* Settings that were verified stay; one that is being made is on its way, unless an
\* access of this round was refused.
SettingsInv ==
  /\ stage = "access" =>
       \A i \in 1..9 : i < at /\ i # 8 => chip.tps.regs[Order[i]] = Wanted(program, Order[i])
  /\ stage = "access" /\ at <= 9 /\ (restarts = faults \/ result = 0) =>
       OnTheWay(chip.tps, program, Order[at], part)
  /\ stage = "access" /\ at >= 9 /\ result = 0 => Copied(chip.tps, program)
  /\ restarts <= faults
RunningInv ==
  stage = "running" =>
    /\ \A reg \in Verified : chip.tps.regs[reg] = Wanted(program, reg)
    /\ result = 0 => Copied(chip.tps, program)
    /\ ~refused => chip.tps.rails = (IF powered THEN "on" ELSE "off")
PowerInv == PowerValues /\ FreedInv /\ SettingsInv /\ RunningInv

\* At the start.
LEMMA PowerInitInv == PowerInit => PowerInv
<1> SUFFICES ASSUME PowerInit PROVE PowerInv
  OBVIOUS
<1>1. Programs \subseteq Both /\ CutAt \subseteq 0..10
  BY PowerAssumption DEF Both
<1>2. PowerValues
  <2>1. pwrEn \in BOOLEAN /\ powered \in BOOLEAN /\ refused \in BOOLEAN /\ ~pwrEn
    BY Zenon DEF PowerInit
  <2> QED BY <2>1 DEF PowerInit, PowerValues
<1>3. FreedInv
  BY <1>1 DEF PowerInit, FreedInv
<1>4. SettingsInv /\ RunningInv
  BY DEF PowerInit, SettingsInv, RunningInv
<1> QED BY <1>2, <1>3, <1>4 DEF PowerInv

\* Between two accesses the chip is free, and stays so whatever it refuses.
LEMMA FreeParts ==
  ASSUME NEW k, NEW t
  PROVE  /\ Idle(k, t).tps = t /\ Idle(k, t).ph = "idle" /\ Idle(k, t).drive = 1
         /\ Refusing(Idle(0, t), k) = Idle(k, t)
  BY DEF Idle, ChipAt, Refusing

\* The first step frees the bus.
LEMMA ClearBusStep == PowerInv /\ ClearBus => PowerInv'
<1> SUFFICES ASSUME PowerInv, ClearBus PROVE PowerInv'
  OBVIOUS
<1>1. \E t : Sane(t) /\ chip' = Idle(0, t)
  <2>1. CASE Free
    <3>1. Idle(0, chip.tps) \in Clearable(8, chip.tps)
      BY DEF Clearable
    <3>2. Cleared(Idle(0, chip.tps)) = Idle(0, chip.tps)
      BY <3>1, IdleStays, ClearableFreed
    <3> QED BY <2>1, <3>2 DEF Free, ClearBus
  <2>2. CASE \E p \in Both, m \in 0..10 : chip \in FoundAt(p, m)
    BY <2>2, BusCleared DEF ClearBus
  <2> QED BY <2>1, <2>2 DEF PowerInv, FreedInv, ClearBus
<1>2. Free'
  BY <1>1, FreeParts DEF Free
<1>3. PowerValues'
  BY DEF PowerInv, PowerValues, ClearBus
<1>4. FreedInv'
  BY <1>2 DEF FreedInv, ClearBus
<1>5. SettingsInv' /\ RunningInv'
  BY DEF PowerInv, SettingsInv, RunningInv, ClearBus
<1> QED BY <1>3, <1>4, <1>5 DEF PowerInv

\* What the chip's number is read from cannot change.
LEMMA IdentifyStep == PowerInv /\ Identify => PowerInv'
<1> SUFFICES ASSUME PowerInv, Identify PROVE PowerInv'
  OBVIOUS
<1> DEFINE t == chip.tps
<1>1. chip = Idle(0, t) /\ Sane(t)
  BY DEF PowerInv, FreedInv, Free, Identify
<1>2. PICK k \in Refusals :
        LET r == RdReg(Refusing(chip, k), CHIPID)
            known == r.result = 0 /\ (r.data \div 16) * 16 \in ChipIds
        IN /\ chip' = r.chip /\ Count(k)
           /\ Proceed(known)
           /\ result' = (IF known THEN 0 ELSE 1)
  BY DEF Identify
<1> DEFINE r == RdReg(Refusing(chip, k), CHIPID)
           known == r.result = 0 /\ (r.data \div 16) * 16 \in ChipIds
           u == Pointed(t, k, CHIPID)
<1>3. k \in 0..3 /\ CHIPID \in Byte
  BY Numbers DEF Refusals, Byte
<1>4. Refusing(chip, k) = Idle(k, t)
  BY <1>1, FreeParts
<1> HIDE DEF t
<1>5. /\ Sane(u) /\ Kept(u, t) /\ ValueAt(u) \in Byte
      /\ k = 0 => u.ptr = CHIPID
  BY <1>1, <1>3, ReadAccess
<1>6. r = [chip |-> Idle(0, u), result |-> IF k = 3 THEN 1 ELSE 0,
           data |-> IF k = 3 THEN 255 ELSE ValueAt(u)]
  <2>1. "ptr" \in DOMAIN t
    BY <1>1, Pieces DEF Sane
  <2> QED BY <1>3, <1>4, <1>5, <2>1, RegisterRead
<1>7. k = 0 => known
  <2> SUFFICES ASSUME k = 0 PROVE known
    OBVIOUS
  <2>1. ValueAt(u) = 242
    BY <1>5, SettingNumbers, Numbers DEF ValueAt, Sane
  <2>2. r.result = 0 /\ r.data = 242
    BY <1>6, <2>1
  <2> QED BY <2>2 DEF ChipIds
<1>8. chip' = Idle(0, u) /\ Count(k) /\ Proceed(known)
  BY <1>2, <1>6
<1>9. result' = IF known THEN 0 ELSE 1
  BY <1>2
<1> HIDE DEF r, known, u
<1>10. Free'
  BY <1>5, <1>8, FreeParts DEF Free
<1>11. PowerValues'
  BY <1>3, <1>8, <1>9 DEF PowerInv, PowerValues, Identify, Count, Proceed
<1>12. FreedInv'
  BY <1>10 DEF FreedInv
<1>13. at' = 1 /\ part' = 1 /\ stage' # "running"
  BY <1>8 DEF PowerInv, PowerValues, Identify, Proceed
<1>14. restarts' <= faults'
  BY <1>7, <1>8 DEF PowerInv, PowerValues, SettingsInv, Identify, Count, Proceed
<1>15. SettingsInv'
  <2>1. OnTheWay(chip.tps, program, Order[at], part)'
    BY <1>13 DEF OnTheWay
  <2> QED BY <1>13, <1>14, <2>1 DEF SettingsInv
<1>16. RunningInv'
  BY <1>13 DEF RunningInv
<1> QED BY <1>11, <1>12, <1>15, <1>16 DEF PowerInv

\* How the error result and the counters relate to a refused acknowledge.
LEMMA Errors ==
  ASSUME NEW k \in 0..3, result \in 0..1, result' = AnyError(result, IF k = 0 THEN 0 ELSE 1),
         faults \in Nat, restarts \in Nat, Count(k), restarts <= faults
  PROVE  /\ result' \in 0..1 /\ faults' \in Nat /\ restarts <= faults' /\ faults <= faults'
         /\ result' = 0 => k = 0 /\ result = 0
         /\ restarts = faults' => k = 0 /\ restarts = faults
         /\ k # 0 => restarts + 1 <= faults'
  BY DEF AnyError, Count

\* One write brings a setting a step further if it is not refused.
LEMMA SettingGoesOn ==
  ASSUME NEW p \in Both, NEW reg \in Settings, NEW i \in 1..4, NEW t, Sane(t), NEW u,
         reg = DEFSLEW => \A r \in Converters : t.regs[r] = Wanted(p, r),
         OnTheWay(t, p, reg, i),
         i \in {1, 3} => u = Written(t, 0, PASSWORD, Key(reg)),
         i \in {2, 4} => u = Written(t, 0, reg, Wanted(p, reg))
  PROVE  /\ OnTheWay(u, p, reg, i + 1)
         /\ i = 4 => Taken(u, p, reg)
<1>1. 0 \in 0..3 /\ reg \in Registers
  BY SettingNumbers
<1>2. CASE i \in {1, 3}
  <2>1. /\ Kept(u, t) /\ u.unlocked = reg
        /\ \A v : t.pass = <<reg, v>> => u.pass = <<reg, v>>
    BY <1>1, <1>2, PasswordAccess
  <2>2. HalfDone(t, p, reg) => HalfDone(u, p, reg)
    BY <2>1 DEF HalfDone, Taken, Copied, Kept
  <2> QED BY <1>2, <2>1, <2>2 DEF OnTheWay
<1>3. CASE i \in {2, 4}
  <2>1. t.unlocked = reg
    BY <1>3 DEF OnTheWay
  <2>2. \/ /\ Kept(u, t) /\ u.pass = <<reg, Wanted(p, reg)>>
           /\ t.pass # <<reg, Wanted(p, reg)>>
        \/ reg # DEFSLEW /\ u.regs[reg] = Wanted(p, reg)
        \/ reg = DEFSLEW /\ u.active = [r \in Converters |-> t.regs[r]]
    BY <1>1, <1>3, <2>1, SettingAccess
  <2>3. \/ Taken(u, p, reg)
        \/ /\ Kept(u, t) /\ u.pass = <<reg, Wanted(p, reg)>>
           /\ t.pass # <<reg, Wanted(p, reg)>>
    BY <2>2 DEF Taken, Copied
  <2>4. HalfDone(u, p, reg)
    BY <2>3 DEF HalfDone
  <2>5. i = 4 => Taken(u, p, reg)
    BY <2>3 DEF OnTheWay, HalfDone, Taken, Copied, Kept
  <2> QED BY <1>3, <2>4, <2>5 DEF OnTheWay
<1> QED BY <1>2, <1>3

\* A write of a setting, which may be the last of DEFSLEW's.
LEMMA SetRegisterStep == PowerInv /\ SetRegister => PowerInv'
<1> SUFFICES ASSUME PowerInv, SetRegister PROVE PowerInv'
  OBVIOUS
<1> DEFINE t == chip.tps
           p == program
           reg == Order[at]
<1>1. /\ stage = "access" /\ at \in 1..9 /\ part \in 1..4 /\ p \in Both /\ reg \in Settings
      /\ (reg = DEFSLEW <=> at = 8)
  BY PowerAssumption, OrderOfSettings DEF PowerInv, PowerValues, SetRegister, Both
<1>2. chip = Idle(0, t) /\ Sane(t)
  BY <1>1 DEF PowerInv, FreedInv, Free
<1>3. PICK k \in Refusals :
        LET w == IF part \in {1, 3} THEN WrReg(Refusing(chip, k), PASSWORD, Key(reg))
                                    ELSE WrReg(Refusing(chip, k), reg, Wanted(program, reg))
        IN chip' = w.chip /\ result' = AnyError(result, w.result) /\ Count(k)
  BY DEF SetRegister
<1>4. k \in 0..3 /\ "ptr" \in DOMAIN t /\ Refusing(chip, k) = Idle(k, t)
  BY <1>2, FreeParts, Pieces DEF Refusals, Sane
<1> DEFINE u == IF part \in {1, 3} THEN Written(t, k, PASSWORD, Key(reg))
                                   ELSE Written(t, k, reg, Wanted(p, reg))
<1> HIDE DEF t, p, reg
<1>5. chip' = Idle(0, u) /\ result' = AnyError(result, IF k = 0 THEN 0 ELSE 1) /\ Count(k)
  <2>1. PASSWORD \in Byte /\ Key(reg) \in Byte /\ reg \in Byte /\ Wanted(p, reg) \in Byte
    BY <1>1, KeyOpens, SettingNumbers, WantedIsByte, Numbers DEF Byte
  <2>2. CASE part \in {1, 3}
    <3>1. WrReg(Idle(k, t), PASSWORD, Key(reg))
            = [chip |-> Idle(0, u), result |-> IF k = 0 THEN 0 ELSE 1]
      BY <1>4, <2>1, <2>2, RegisterWrite
    <3> QED BY <1>3, <1>4, <2>2, <3>1
  <2>3. CASE part \notin {1, 3}
    <3>1. WrReg(Idle(k, t), reg, Wanted(p, reg))
            = [chip |-> Idle(0, u), result |-> IF k = 0 THEN 0 ELSE 1]
      BY <1>4, <2>1, <2>3, RegisterWrite
    <3> QED BY <1>3, <1>4, <2>3, <3>1 DEF p
  <2> QED BY <2>2, <2>3
<1>6. /\ Sane(u) /\ u.rails = t.rails
      /\ \A r \in Registers \ {reg} : u.regs[r] = t.regs[r]
      /\ reg # DEFSLEW => u.active = t.active
  <2>1. CASE part \in {1, 3}
    BY <1>1, <1>2, <1>4, <2>1, PasswordAccess DEF Kept
  <2>2. CASE part \notin {1, 3}
    <3> DEFINE v == Written(t, k, reg, Wanted(p, reg))
    <3>1. u = v
      BY <2>2
    <3>2. /\ Sane(v) /\ v.rails = t.rails
          /\ \A r \in Registers \ {reg} : v.regs[r] = t.regs[r]
          /\ reg # DEFSLEW => v.active = t.active
          /\ k = 0 /\ t.unlocked = reg =>
               \/ /\ Kept(v, t) /\ v.pass = <<reg, Wanted(p, reg)>>
                  /\ t.pass # <<reg, Wanted(p, reg)>>
               \/ reg # DEFSLEW /\ v.regs[reg] = Wanted(p, reg)
               \/ reg = DEFSLEW /\ v.active = [r \in Converters |-> t.regs[r]]
      BY <1>1, <1>2, <1>4, SettingAccess
    <3> HIDE DEF v
    <3> QED BY <3>1, <3>2
  <2> QED BY <2>1, <2>2
<1>7. /\ result' \in 0..1 /\ faults' \in Nat /\ restarts <= faults' /\ faults <= faults'
      /\ result' = 0 => k = 0 /\ result = 0
      /\ restarts = faults' => k = 0 /\ restarts = faults
  BY <1>4, <1>5, Errors DEF PowerInv, PowerValues, SettingsInv
<1>8. (restarts = faults' \/ result' = 0) =>
        OnTheWay(u, p, reg, part + 1) /\ (part = 4 => Taken(u, p, reg))
  <2> SUFFICES ASSUME restarts = faults' \/ result' = 0
               PROVE  OnTheWay(u, p, reg, part + 1) /\ (part = 4 => Taken(u, p, reg))
    OBVIOUS
  <2>1. k = 0 /\ (restarts = faults \/ result = 0)
    BY <1>7
  <2>2. OnTheWay(t, p, reg, part)
    BY <1>1, <2>1 DEF PowerInv, SettingsInv, t, p, reg
  <2>3. reg = DEFSLEW => \A r \in Converters : t.regs[r] = Wanted(p, r)
    <3>1. at = 8 => \A i \in 1..3 : t.regs[Order[i]] = Wanted(p, Order[i])
      BY <1>1 DEF PowerInv, SettingsInv, t, p
    <3>2. \A r \in Converters : \E i \in 1..3 : r = Order[i]
      BY OrderOfSettings DEF Converters
    <3> QED BY <1>1, <3>1, <3>2
  <2>4. /\ part \in {1, 3} => u = Written(t, 0, PASSWORD, Key(reg))
        /\ part \in {2, 4} => u = Written(t, 0, reg, Wanted(p, reg))
    BY <2>1
  <2> HIDE DEF u
  <2> QED BY <1>1, <1>2, <2>2, <2>3, <2>4, SettingGoesOn
<1> HIDE DEF u
<1>9. Free' /\ chip'.tps = u
  BY <1>5, <1>6, FreeParts DEF Free
<1>10. /\ (part = 4 /\ at = 8) => at' = at + 1 /\ part' = 1
       /\ ~(part = 4 /\ at = 8) => at' = at /\ part' = part + 1
       /\ UNCHANGED <<program, stage, pwrEn, powered, refused, restarts>>
  BY <1>1 DEF SetRegister, ReadsBack, reg
<1>11. PowerValues'
  BY <1>1, <1>7, <1>10 DEF PowerInv, PowerValues
<1>12. FreedInv'
  BY <1>9 DEF FreedInv
<1>13. \A i \in 1..9 : i < at' /\ i # 8 => u.regs[Order[i]] = Wanted(p, Order[i])
  <2> SUFFICES ASSUME NEW i \in 1..9, i < at', i # 8 PROVE u.regs[Order[i]] = Wanted(p, Order[i])
    OBVIOUS
  <2>1. i < at
    BY <1>1, <1>10
  <2>2. t.regs[Order[i]] = Wanted(p, Order[i])
    BY <1>1, <2>1 DEF PowerInv, SettingsInv, t, p
  <2>3. Order[i] \in Registers \ {reg}
    BY <1>1, <2>1, OrderOfSettings, SettingNumbers DEF reg
  <2> QED BY <1>6, <2>2, <2>3
<1>14. at' <= 9 /\ (restarts' = faults' \/ result' = 0) => OnTheWay(u, p, Order[at'], part')
  <2>1. CASE part = 4 /\ at = 8
    BY <1>10, <2>1 DEF OnTheWay
  <2>2. CASE ~(part = 4 /\ at = 8)
    BY <1>8, <1>10, <2>2 DEF reg
  <2> QED BY <2>1, <2>2
<1>15. at' >= 9 /\ result' = 0 => Copied(u, p)
  <2>1. CASE part = 4 /\ at = 8
    BY <1>1, <1>8, <2>1 DEF Taken
  <2>2. CASE at = 9
    BY <1>1, <1>6, <1>7, <2>2 DEF PowerInv, SettingsInv, Copied, t, p
  <2> QED BY <1>1, <1>10, <2>1, <2>2
<1>16. SettingsInv'
  BY <1>7, <1>9, <1>10, <1>13, <1>14, <1>15 DEF SettingsInv, p
<1>17. RunningInv'
  BY <1>1, <1>10 DEF RunningInv
<1> QED BY <1>11, <1>12, <1>16, <1>17 DEF PowerInv

\* A setting is read back: what is read is what the register holds, even from a chip
\* that refused to be told which register.
LEMMA ReadBackStep == PowerInv /\ ReadBack => PowerInv'
<1> SUFFICES ASSUME PowerInv, ReadBack PROVE PowerInv'
  OBVIOUS
<1> DEFINE t == chip.tps
           p == program
           reg == Order[at]
           W == Wanted(p, reg)
<1>1. /\ stage = "access" /\ at \in 1..9 /\ part = 5 /\ at # 8 /\ p \in Both /\ reg \in Verified
      /\ reg # DEFSLEW /\ reg \in Settings
  <2>1. stage = "access" /\ at \in 1..9 /\ part = 5 /\ at # 8 /\ p \in Both
    BY PowerAssumption, OrderOfSettings DEF PowerInv, PowerValues, ReadBack, Both
  <2>2. reg \in Settings /\ reg # DEFSLEW
    BY <2>1, OrderOfSettings
  <2> QED BY <2>1, <2>2, SettingNumbers, Numbers
<1>2. chip = Idle(0, t) /\ Sane(t)
  BY <1>1 DEF PowerInv, FreedInv, Free
<1>3. PICK k \in Refusals :
        LET r == RdReg(Refusing(chip, k), reg)
        IN /\ chip' = r.chip /\ result' = AnyError(result, r.result) /\ Count(k)
           /\ Proceed(r.data = W)
  BY DEF ReadBack
<1>4. k \in 0..3 /\ "ptr" \in DOMAIN t /\ Refusing(chip, k) = Idle(k, t) /\ reg \in Byte
  BY <1>1, <1>2, FreeParts, Pieces, SettingNumbers DEF Refusals, Sane
<1> DEFINE u == Pointed(t, k, reg)
           value == IF k = 3 THEN 255 ELSE ValueAt(u)
<1> HIDE DEF t, p, reg, W
<1>5. /\ Sane(u) /\ Kept(u, t) /\ ValueAt(u) \in Byte
      /\ k = 0 => u.ptr = reg
  BY <1>2, <1>4, ReadAccess
<1>6. RdReg(Idle(k, t), reg)
        = [chip |-> Idle(0, u), result |-> IF k = 3 THEN 1 ELSE 0, data |-> value]
  BY <1>4, <1>5, RegisterRead
<1> HIDE DEF u, value
<1>7. /\ chip' = Idle(0, u) /\ result' = AnyError(result, IF k = 3 THEN 1 ELSE 0)
      /\ Count(k) /\ Proceed(value = W)
  BY <1>3, <1>4, <1>6
<1>8. value = W => u.regs[reg] = W
  <2> SUFFICES ASSUME value = W PROVE u.regs[reg] = W
    OBVIOUS
  <2>1. W # 255
    <3>1. \/ reg = 14 \/ reg = 15 \/ reg = 16 \/ reg = 18 \/ reg = 19 \/ reg = 20
          \/ reg = 21 \/ reg = 22
      BY <1>1, SettingNumbers
    <3> QED BY <1>1, <3>1, WantedValues DEF W
  <2>2. ValueAt(u) = Wanted(p, reg)
    BY <2>1 DEF value, W
  <2> QED BY <1>1, <1>5, <2>2, ValueTells DEF W
<1>9. k = 0 /\ (restarts = faults \/ result = 0) => value = W
  <2> SUFFICES ASSUME k = 0, restarts = faults \/ result = 0 PROVE value = W
    OBVIOUS
  <2>1. OnTheWay(t, p, reg, 5)
    BY <1>1 DEF PowerInv, SettingsInv, t, p, reg
  <2>2. t.regs[reg] = W
    BY <1>1, <2>1 DEF OnTheWay, Taken, W
  <2>3. ValueAt(u) = u.regs[reg]
    BY <1>1, <1>5, SettingNumbers DEF ValueAt
  <2> QED BY <1>5, <2>2, <2>3 DEF value, Kept
<1>10. Free' /\ chip'.tps = u
  BY <1>5, <1>7, FreeParts DEF Free
<1>11. /\ at' = at + 1 /\ part' = 1 /\ UNCHANGED <<program, pwrEn, powered, refused>>
       /\ stage' \in {"access", "clear"} /\ (stage' = "access" => value = W)
       /\ result' \in 0..1 /\ (result' = 0 => result = 0)
       /\ restarts \in Nat /\ faults \in Nat /\ restarts <= faults
  BY <1>7 DEF ReadBack, Proceed, AnyError, PowerInv, PowerValues, SettingsInv
<1>12. faults' \in Nat /\ restarts' \in Nat /\ restarts' <= faults'
  <2>1. CASE value = W
    BY <1>7, <1>11, <2>1 DEF Proceed, Count
  <2>2. CASE value # W /\ k # 0
    BY <1>7, <1>11, <2>2 DEF Proceed, Count
  <2>3. CASE value # W /\ k = 0
    BY <1>7, <1>9, <1>11, <2>3 DEF Proceed, Count
  <2> QED BY <2>1, <2>2, <2>3
<1>13. PowerValues'
  BY <1>1, <1>11, <1>12 DEF PowerInv, PowerValues
<1>14. FreedInv'
  BY <1>10, <1>11 DEF FreedInv
<1>15. SettingsInv'
  <2>1. ASSUME stage' = "access", NEW i \in 1..9, i < at', i # 8
        PROVE  u.regs[Order[i]] = Wanted(p, Order[i])
    <3>1. CASE i = at
      BY <1>8, <1>11, <2>1, <3>1 DEF reg, W
    <3>2. CASE i < at
      <4>1. t.regs[Order[i]] = Wanted(p, Order[i])
        BY <1>1, <2>1, <3>2 DEF PowerInv, SettingsInv, t, p
      <4> QED BY <1>5, <4>1 DEF Kept
    <3> QED BY <1>1, <1>11, <2>1, <3>1, <3>2
  <2>2. OnTheWay(chip.tps, program, Order[at], part)'
    BY <1>11 DEF OnTheWay
  <2>3. at' >= 9 /\ result' = 0 => Copied(u, p)
    <3> SUFFICES ASSUME at' >= 9, result' = 0 PROVE Copied(u, p)
      OBVIOUS
    <3>1. Copied(t, p)
      BY <1>1, <1>11 DEF PowerInv, SettingsInv, t, p
    <3> QED BY <1>5, <3>1 DEF Copied, Kept
  <2> QED BY <1>10, <1>11, <1>12, <2>1, <2>2, <2>3 DEF SettingsInv, p
<1>16. RunningInv'
  BY <1>11 DEF RunningInv
<1> QED BY <1>13, <1>14, <1>15, <1>16 DEF PowerInv

\* The supply rises only with every setting verified.
LEMMA PowerOnStep == PowerInv /\ PowerOn => PowerInv'
<1> SUFFICES ASSUME PowerInv, PowerOn PROVE PowerInv'
  OBVIOUS
<1> DEFINE t == chip.tps
           u == [t EXCEPT !.rails = "on"]
<1>1. stage = "access" /\ at = 10 /\ program \in Both
  BY OrderOfSettings, PowerAssumption DEF PowerInv, PowerValues, PowerOn, Both
<1>2. chip = Idle(0, t) /\ Sane(t)
  BY <1>1 DEF PowerInv, FreedInv, Free
<1> HIDE DEF t
<1>3. u \in ChipValues /\ u.regs = t.regs /\ u.active = t.active /\ u.rails = "on"
  BY <1>2 DEF Sane, ChipValues
<1>4. chip' = Idle(0, u)
  <2>1. chip' = Holding(chip, u)
    BY DEF PowerOn, t
  <2> HIDE DEF u
  <2>2. Holding(Idle(0, t), u) = Idle(0, u)
    BY DEF Idle, ChipAt, Holding
  <2> QED BY <1>2, <2>1, <2>2
<1> HIDE DEF u
<1>5. Sane(u)
  BY <1>2, <1>3, SaneKept
<1>6. Free' /\ chip'.tps = u
  BY <1>4, <1>5, FreeParts DEF Free
<1>7. \A reg \in Verified : t.regs[reg] = Wanted(program, reg)
  <2> SUFFICES ASSUME NEW reg \in Verified PROVE t.regs[reg] = Wanted(program, reg)
    OBVIOUS
  <2>1. reg # DEFSLEW
    BY SettingNumbers, Numbers
  <2>2. PICK i \in 1..9 : Order[i] = reg /\ i # 8
    BY <2>1, OrderOfSettings
  <2> QED BY <1>1, <2>2 DEF PowerInv, SettingsInv, t
<1>8. result = 0 => Copied(t, program)
  BY <1>1 DEF PowerInv, SettingsInv, t
<1>9. /\ UNCHANGED <<program, at, part, result, refused, restarts, faults>>
      /\ stage' = "running" /\ pwrEn' = TRUE /\ powered' = TRUE
  BY DEF PowerOn
<1>10. PowerValues'
  BY <1>9 DEF PowerInv, PowerValues
<1>11. FreedInv'
  BY <1>6, <1>9 DEF FreedInv
<1>12. SettingsInv'
  BY <1>9 DEF PowerInv, SettingsInv
<1>13. RunningInv'
  BY <1>3, <1>6, <1>7, <1>8, <1>9 DEF RunningInv, Copied
<1> QED BY <1>10, <1>11, <1>12, <1>13 DEF PowerInv

\* The main loop's accesses change what the rails do and no setting.
LEMMA SwitchStep ==
  ASSUME PowerInv, NEW do \in {SEQUP, SEQDWN}, Switch(do), powered' = (do = SEQUP)
  PROVE  PowerInv'
<1> DEFINE t == chip.tps
<1>1. stage = "running" /\ program \in Both
  BY PowerAssumption DEF PowerInv, PowerValues, Switch, Both
<1>2. chip = Idle(0, t) /\ Sane(t)
  BY <1>1 DEF PowerInv, FreedInv, Free
<1> HIDE DEF t
<1>3. PICK k \in Refusals, l \in Refusals :
        /\ LET w == WrReg(Refusing(chip, k), PASSWORD, Key(SEQ6))
               x == WrReg(Refusing(w.chip, l), SEQ6, do)
           IN chip' = x.chip
        /\ Count(IF k = 0 THEN l ELSE k) /\ refused' = (k # 0 \/ l # 0)
  BY DEF Switch
<1> DEFINE u == Written(t, k, PASSWORD, Key(SEQ6))
           v == Written(u, l, SEQ6, do)
<1>4. /\ k \in 0..3 /\ l \in 0..3 /\ "ptr" \in DOMAIN t /\ Refusing(chip, k) = Idle(k, t)
      /\ PASSWORD \in Byte /\ SEQ6 \in Byte /\ do \in Byte /\ Key(SEQ6) \in Byte
  BY <1>2, FreeParts, Pieces, KeyOpens, Numbers DEF Refusals, Sane, Byte
<1>5. Sane(u) /\ Kept(u, t) /\ (k = 0 => u.unlocked = SEQ6)
  BY <1>2, <1>4, PasswordAccess
<1>6. WrReg(Idle(k, t), PASSWORD, Key(SEQ6))
        = [chip |-> Idle(0, u), result |-> IF k = 0 THEN 0 ELSE 1]
  BY <1>4, RegisterWrite
<1> HIDE DEF u
<1>7. /\ Sane(v) /\ v.active = u.active
      /\ \A reg \in Verified : v.regs[reg] = u.regs[reg]
      /\ l = 0 /\ u.unlocked = SEQ6 => v.rails = (IF do = SEQUP THEN "on" ELSE "off")
  BY <1>4, <1>5, SequencerAccess
<1>8. WrReg(Idle(l, u), SEQ6, do) = [chip |-> Idle(0, v), result |-> IF l = 0 THEN 0 ELSE 1]
  <2>1. "ptr" \in DOMAIN u
    BY <1>5, Pieces DEF Sane
  <2> QED BY <1>4, <2>1, RegisterWrite
<1> HIDE DEF v
<1>9. chip' = Idle(0, v)
  BY <1>3, <1>4, <1>6, <1>8, FreeParts
<1>10. Free' /\ chip'.tps = v
  BY <1>7, <1>9, FreeParts DEF Free
<1>11. UNCHANGED <<program, stage, at, part, result, pwrEn, restarts>>
  BY DEF Switch
<1>12. faults' \in Nat /\ restarts <= faults'
  BY <1>3, <1>4 DEF Count, PowerInv, PowerValues, SettingsInv
<1>13. refused' \in BOOLEAN /\ powered' \in BOOLEAN /\ (~refused' => k = 0 /\ l = 0)
  BY <1>3
<1>14. PowerValues'
  BY <1>11, <1>12, <1>13 DEF PowerInv, PowerValues
<1>15. FreedInv'
  BY <1>1, <1>10, <1>11 DEF FreedInv
<1>16. SettingsInv'
  BY <1>1, <1>11, <1>12 DEF SettingsInv
<1>17. RunningInv'
  <2>1. \A reg \in Verified : v.regs[reg] = Wanted(program, reg)
    BY <1>1, <1>5, <1>7 DEF PowerInv, RunningInv, Kept, t
  <2>2. result = 0 => Copied(v, program)
    BY <1>1, <1>5, <1>7 DEF PowerInv, RunningInv, Kept, Copied, t
  <2>3. ~refused' => v.rails = (IF powered' THEN "on" ELSE "off")
    BY <1>5, <1>7, <1>13
  <2> QED BY <1>10, <1>11, <2>1, <2>2, <2>3 DEF RunningInv
<1> QED BY <1>14, <1>15, <1>16, <1>17 DEF PowerInv

\* Every step keeps the invariant.
LEMMA PowerStepInv == PowerInv /\ [PowerNext]_powerVars => PowerInv'
<1> SUFFICES ASSUME PowerInv, [PowerNext]_powerVars PROVE PowerInv'
  OBVIOUS
<1>1. CASE ClearBus
  BY <1>1, ClearBusStep
<1>2. CASE Identify
  BY <1>2, IdentifyStep
<1>3. CASE SetRegister
  BY <1>3, SetRegisterStep
<1>4. CASE ReadBack
  BY <1>4, ReadBackStep
<1>5. CASE PowerOn
  BY <1>5, PowerOnStep
<1>6. CASE FpgaPowerdown
  <2>1. SEQDWN # SEQUP
    BY Numbers
  <2>2. Switch(SEQDWN) /\ powered' = (SEQDWN = SEQUP)
    BY <1>6, <2>1 DEF FpgaPowerdown
  <2> QED BY <2>2, SwitchStep
<1>7. CASE FpgaPowerup
  <2>1. Switch(SEQUP) /\ powered' = (SEQUP = SEQUP)
    BY <1>7 DEF FpgaPowerup
  <2> QED BY <2>1, SwitchStep
<1>8. CASE UNCHANGED powerVars
  BY <1>8 DEF powerVars, PowerInv, PowerValues, FreedInv, Free, SettingsInv, RunningInv
<1> QED BY <1>1, <1>2, <1>3, <1>4, <1>5, <1>6, <1>7, <1>8 DEF PowerNext

\* The invariant holds from any reset on, whichever accesses the chip refuses: for
\* every place an access was cut off, every byte on the bus, every number of faults.
THEOREM PowerInvariance == PowerSpec => []PowerInv
  BY PowerInitInv, PowerStepInv, PTL DEF PowerSpec

\* The chip's state is one of those that the model names, from any reset on.
LEMMA FoundPhase ==
  ASSUME NEW p \in Both, NEW m \in 0..10, NEW c \in FoundAt(p, m)
  PROVE  c.ph \in Receiving \cup {"idle", "deaf", "send"}
<1> DEFINE t == Left(p, m)
<1> HIDE DEF t
<1>1. \/ c = Rest(t) \/ c \in CutSending(t) \/ c \in CutSent(t) \/ c \in CutHearing(t)
      \/ c \in CutHeard(p, m, t) \/ c \in CutAcking(p, m, t)
  BY DEF FoundAt, t
<1>2. c = Rest(t) => c.ph = "idle"
  BY DEF Rest, ChipAt
<1>3. c \in CutSending(t) => c.ph = "send"
  <2>1. c \in CutSending(t) => \E i \in 1..8, x \in HungBytes : c = SendBit(Rest(t), x, i)
    BY DEF CutSending
  <2> QED BY <2>1 DEF SendBit, ChipAt
<1>4. c \in CutSent(t) => c.ph = "send"
  BY DEF CutSent, ChipAt
<1>5. c \in CutHearing(t) => c.ph \in Receiving
  BY DEF CutHearing, ChipAt
<1>6. c \in CutHeard(p, m, t) => c.ph \in Receiving
  BY DEF CutHeard, ChipAt
<1>7. c \in CutAcking(p, m, t) => c.ph \in Receiving
  BY DEF CutAcking, ChipAt
<1> QED BY <1>1, <1>2, <1>3, <1>4, <1>5, <1>6, <1>7

\* boardInit's counters stay in their ranges and the chip is where the model says.
THEOREM PowerTypeCorrect == PowerSpec => []PowerTypeOK
<1>1. PowerInv => PowerTypeOK
  <2> SUFFICES ASSUME PowerInv PROVE PowerTypeOK
    OBVIOUS
  <2>1. chip.ph \in Receiving \cup {"idle", "deaf", "send"}
    <3>1. Free => chip.ph = "idle"
      BY FreeParts DEF Free
    <3> QED BY <3>1, FoundPhase DEF PowerInv, FreedInv
  <2>2. program \in Programs /\ pwrEn \in BOOLEAN /\ powered \in BOOLEAN
    BY DEF PowerInv, PowerValues
  <2>3. at \in 1..Len(Order) + 1
    BY OrderOfSettings DEF PowerInv, PowerValues
  <2> QED BY <2>1, <2>2, <2>3 DEF PowerTypeOK, PowerInv, PowerValues
<1> QED BY <1>1, PowerInvariance, PTL

\* swi2cmst_clrbus frees the bus wherever the last reset cut an access off, no access
\* leaves it taken, and boardInit starts again only after a refused acknowledge.
THEOREM BusIsReleased == PowerSpec => []BusReleased
<1>1. PowerInv => BusReleased
  <2> SUFFICES ASSUME PowerInv PROVE BusReleased
    OBVIOUS
  <2>1. stage # "clear" => chip.ph = "idle" /\ chip.drive = 1
    BY FreeParts DEF PowerInv, FreedInv, Free
  <2> QED BY <2>1 DEF PowerInv, SettingsInv, BusReleased
<1> QED BY <1>1, PowerInvariance, PTL

\* PWR_EN goes on only with every verified setting in the chip (boardinit.c ignores a
\* missing acknowledge, and a read may come from another register than the one asked
\* for); the converters run at their voltages if boardInit's result is OK; later the
\* rails follow fpga_powered unless an access of the last switch was refused.
THEOREM BoardPoweredRight == PowerSpec => []PoweredRight
<1>1. PowerInv => PoweredRight
  BY DEF PowerInv, PowerValues, RunningInv, Copied, PoweredRight
<1> QED BY <1>1, PowerInvariance, PTL

-----------------------------------------------------------------------------
(* The core voltage, for every level asked for and every course of the     *)
(* supply.  The argument follows the waits of SetVCoreUp: what the delay   *)
(* flag of the high side means differs from wait to wait.                  *)

\* In a call in which the high side did not settle between the clearing of the flags
\* and the new level, a delay flag tells of the level written last.
FlagsTrue ==
  ~between => /\ up = "cleared" => "hdly" \notin flags /\ "svmh" \notin flags
              /\ up \in {"monitor", "supervise"} /\ "hdly" \in flags => "high" \in settled
              /\ up \in {"check", "possible"} => "high" \in settled /\ "hdly" \notin flags

\* Then the monitor that has settled in silence has found the supply to be enough.
SupplyFound ==
  ~between => /\ up = "monitor" /\ "high" \in settled /\ "svmh" \notin flags => vcc >= actlevel
              /\ up = "check" /\ "svmh" \notin flags => vcc >= actlevel
              /\ up \in {"possible", "supervise"} => vcc >= actlevel

\* Before the first level nothing is on its way when a call begins, as after a
\* reset: the exception is none of the first call.
FirstCall ==
  vcore = 0 /\ up \notin {"recover", "returned"} /\ status = "ok"
    => ~between /\ (up \in {"called", "cleared"} => "high" \in settled)

\* While a level is tried the next one is meant; between two levels actlevel is
\* the true one, until SetVCoreUp has failed.
Trying == {"cleared", "monitor", "check", "impossible", "recover", "possible", "supervise"}
Raising == {"low", "lowOff", "lowOn", "highOff", "highOn", "restored"}
Believed ==
  /\ up \in Trying => actlevel = vcore + 1
  /\ up \in {"monitor", "check", "possible", "supervise"} => high.svm = actlevel
  /\ up = "supervise" => high.svs = actlevel
  /\ up \in Raising => actlevel = vcore /\ vcore > 0
  /\ up = "called" /\ status = "ok" => actlevel = vcore
  /\ up \notin {"called", "returned"} => status = "ok"

Levels == /\ vcc \in Nat /\ vcore \in Nat /\ actlevel \in Nat /\ between \in BOOLEAN
          /\ high \in [svm : Nat, svs : Nat]

CoreInv == Levels /\ FlagsTrue /\ SupplyFound /\ FirstCall /\ Believed

LEMMA CoreInitInv == CoreInit => CoreInv
<1> SUFFICES ASSUME CoreInit PROVE CoreInv
  OBVIOUS
<1>1. Levels
  <2>1. vcc \in Nat
    BY LevelAssumption DEF CoreInit
  <2> QED BY <2>1 DEF CoreInit, Levels
<1>2. FlagsTrue
  BY DEF CoreInit, FlagsTrue
<1>3. SupplyFound
  BY DEF CoreInit, SupplyFound
<1>4. FirstCall
  BY DEF CoreInit, FirstCall
<1>5. Believed
  BY DEF CoreInit, Believed, Trying, Raising
<1> QED BY <1>1, <1>2, <1>3, <1>4, <1>5 DEF CoreInv

\* The hardware's steps.
LEMMA HardwareStep ==
  ASSUME CoreInv, SupplyRises \/ HighSettles \/ LowSettles PROVE CoreInv'
<1> USE DEF CoreInv, Levels, FlagsTrue, SupplyFound, FirstCall, Believed, Trying, Raising
<1>1. CASE SupplyRises    BY <1>1 DEF SupplyRises
<1>2. CASE HighSettles
  \* Settling between the clearing and the new level is the exception itself.
  <2>1. CASE up = "cleared"
    BY <1>2, <2>1 DEF HighSettles
  <2>2. CASE up # "cleared"
    <3>1. between' = between /\ "high" \in settled' /\ "high" \notin settled
          /\ ("svmh" \notin flags' => vcc >= high.svm)
      BY <1>2, <2>2 DEF HighSettles
    <3> QED BY <1>2, <2>2, <3>1 DEF HighSettles
  <2> QED BY <2>1, <2>2
<1>3. CASE LowSettles     BY <1>3 DEF LowSettles
<1> QED BY <1>1, <1>2, <1>3

\* SetVCore's steps.
LEMMA CoreStepInv == ASSUME CoreInv, [CoreNext]_coreVars PROVE CoreInv'
<1> USE DEF CoreInv, Levels, FlagsTrue, SupplyFound, FirstCall, Believed, Trying, Raising,
            Go, Seen, WriteHigh, WriteLow
<1>1. CASE SupplyRises \/ HighSettles \/ LowSettles
  BY <1>1, HardwareStep
<1>2. CASE Raise
  <2>1. CASE actlevel < Level /\ status = "ok"
    <3>1. /\ up = "called" /\ up' = "cleared" /\ actlevel' = actlevel + 1 /\ flags' = {}
          /\ between' = FALSE /\ vcc' = vcc /\ vcore' = vcore /\ status' = status
          /\ high' = high /\ settled' = settled
      BY <1>2, <2>1 DEF Raise
    <3>2. Levels'
      <4>1. actlevel + 1 \in Nat
        OBVIOUS
      <4> QED BY <3>1, <4>1, Zenon
    <3>3. FlagsTrue'
      BY <3>1
    <3>4. SupplyFound'
      BY <3>1
    <3>5. FirstCall'
      BY <2>1, <3>1
    <3>6. Believed'
      BY <2>1, <3>1
    <3> HIDE DEF Levels, FlagsTrue, SupplyFound, FirstCall, Believed
    <3> QED BY <3>2, <3>3, <3>4, <3>5, <3>6
  <2>2. CASE ~(actlevel < Level /\ status = "ok")
    BY <1>2, <2>2 DEF Raise
  <2> QED BY <2>1, <2>2
<1>3. CASE SetMonitor     BY <1>3 DEF SetMonitor
<1>4. CASE MonitorSettled BY <1>4 DEF MonitorSettled
<1>5. CASE Check          BY <1>5 DEF Check
<1>6. CASE Recover        BY <1>6 DEF Recover
<1>7. CASE Recovered      BY <1>7 DEF Recovered
<1>8. CASE Supervise      BY <1>8 DEF Supervise
<1>9. CASE SetLevel       BY <1>9 DEF SetLevel
<1>10. CASE LowSettled    BY <1>10 DEF LowSettled
<1>11. CASE Restore       BY <1>11 DEF Restore
<1>12. CASE Raised        BY <1>12 DEF Raised
<1>13. CASE UNCHANGED coreVars
  BY <1>13 DEF coreVars
<1> QED BY <1>1, <1>2, <1>3, <1>4, <1>5, <1>6, <1>7, <1>8, <1>9, <1>10, <1>11, <1>12, <1>13
        DEF CoreNext

\* The invariant holds whatever level is asked for.
THEOREM CoreInvariance == CoreSpec => []CoreInv
  BY CoreInitInv, CoreStepInv, PTL DEF CoreSpec

LEMMA OnlySetLevel == ASSUME CoreNext, vcore' # vcore PROVE SetLevel
  BY DEF CoreNext, SupplyRises, HighSettles, LowSettles, Raise, SetMonitor, MonitorSettled,
         Check, Recover, Recovered, Supervise, LowSettled, Restore, Raised

\* HAL_PMM.c never raises the core voltage by more than a level at once, nor above
\* what the supply has been found to carry, nor with the supervisor of the supply not
\* yet in force, but for a call in which the high side settled between lines 129
\* and 132, which the first call never is: for every Level and every course of the supply.
THEOREM VoltageIsRaisedSafely == CoreSpec => RaisedSafely
<1>1. ASSUME CoreInv, [CoreNext]_coreVars
      PROVE  [vcore' # vcore => /\ vcore' = vcore + 1 /\ (between => vcore > 0)
                                /\ between \/ /\ vcc >= vcore' /\ "high" \in settled
                                              /\ high.svs = vcore']_coreVars
  <2>1. CASE vcore' # vcore
    <3>1. SetLevel
      BY <1>1, <2>1, OnlySetLevel DEF coreVars
    <3>2. up = "supervise" /\ "hdly" \in flags /\ vcore' = actlevel
      BY <3>1 DEF SetLevel, Go, Seen
    <3>3. vcore' = vcore + 1 /\ high.svs = vcore' /\ vcore \in Nat
      BY <1>1, <3>2 DEF CoreInv, Levels, Believed, Trying
    <3>4. ~between => vcc >= vcore' /\ "high" \in settled
      BY <1>1, <3>2 DEF CoreInv, FlagsTrue, SupplyFound
    <3>5. between => vcore > 0
      BY <1>1, <3>2, <3>3 DEF CoreInv, FirstCall, Believed
    <3> QED BY <3>3, <3>4, <3>5
  <2>2. CASE vcore' = vcore
    BY <2>2
  <2> QED BY <2>1, <2>2
<1> QED BY <1>1, CoreInvariance, PTL DEF CoreSpec, RaisedSafely
-----------------------------------------------------------------------------
(* The XSVF reader, for every geometry of the chip and every block list.   *)

\* The player, its callbacks and the probe before it.
ReaderSpec == XsvfInit /\ [][XsvfNext]_xsvfVars

\* Pages are numbered as the file has them; asked is the one getbyte will ask
\* the chip for next, two after the one being read.
FilePages == MaxBlocks * PagesPerBlock
Asked == state.blockinlist * PagesPerBlock + state.pageinblock
Page == Asked - 2
Column == BytesPerPage - state.bytesleftinpage

Places == [blocks : [1..MaxBlocks -> Int], bytesleftinpage : Nat,
           pageinblock : 0..PagesPerBlock - 1, blockinlist : 0..MaxBlocks]

ReaderValues ==
  /\ flash \in [kind : Kinds, ecc : BOOLEAN, sticks : BOOLEAN,
                list : [1..MaxBlocks -> Int]]
  /\ state \in Places
  /\ regs \in [cache : Int, behind : Int, col : Nat]
  /\ got \in Nat /\ late \in Nat
  /\ boot \notin {"play", "main"} => got = 0

\* Between two bytes, up to the end of the file: the player has read as far as
\* the place says, the readable page of the chip is the one of that place, and
\* the page behind it the next one, unless the file has ended.
InPlace ==
  boot = "play" /\ late = 0 /\ got <= FilePages * BytesPerPage =>
    /\ state.blocks = flash.list
    /\ Page \in Nat /\ Column \in 0..BytesPerPage - 1
    /\ got = Page * BytesPerPage + Column
    /\ regs.col = Column
    /\ Page < FilePages => regs.cache = PageAt(Page)
    /\ Page + 1 < FilePages => regs.behind = PageAt(Page + 1)

ReaderInv == ReaderValues /\ InPlace /\ StreamIsFile

\* A number taken apart into a multiple and a rest.
LEMMA Parts ==
  ASSUME NEW d \in Nat \ {0}, NEW m \in Nat, NEW r \in 0..d-1
  PROVE  (m * d + r) \div d = m /\ (m * d + r) % d = r
OBVIOUS

\* A place before the end is on a page before the end.
LEMMA BeforeEnd ==
  ASSUME NEW d \in Nat \ {0}, NEW m \in Nat, NEW n \in Nat, NEW r \in Nat,
         m * d + r < n * d
  PROVE  m < n
<1>1. SUFFICES ASSUME n <= m PROVE FALSE
  OBVIOUS
<1>2. PICK k \in Nat : m = n + k
  BY <1>1
<1>3. m * d = n * d + k * d
  BY <1>2
<1>4. k * d \in Nat /\ m * d \in Nat /\ n * d \in Nat
  OBVIOUS
<1> QED BY <1>3, <1>4

LEMMA Sizes == /\ MaxBlocks \in Nat \ {0} /\ PagesPerBlock \in Nat /\ PagesPerBlock >= 3
               /\ BytesPerPage \in Nat \ {0} /\ FilePages \in Nat
               /\ FileSize = FilePages * BytesPerPage /\ FileSize \in Nat
BY GeometryAssumption DEF FileSize, FilePages

\* The page of a place in a block.
LEMMA PageInBlock ==
  ASSUME NEW m \in Nat, NEW r \in 0..PagesPerBlock-1
  PROVE  PageAt(m * PagesPerBlock + r) = flash.list[m + 1] * PagesPerBlock + r
<1> DEFINE n == m * PagesPerBlock + r
           a == n \div PagesPerBlock
           b == n % PagesPerBlock
<1>1. a = m /\ b = r
  BY Parts, Sizes
<1>2. PageAt(n) = flash.list[a + 1] * PagesPerBlock + b
  BY DEF PageAt
<1> HIDE DEF n, a, b
<1>3. PageAt(n) = flash.list[m + 1] * PagesPerBlock + r
  BY <1>1, <1>2
<1> QED BY <1>3 DEF n

\* The byte of the file that a place is about.
LEMMA ByteAtPlace ==
  ASSUME NEW q \in Nat, NEW c \in 0..BytesPerPage-1
  PROVE  FileByte(q * BytesPerPage + c) = <<PageAt(q), c>>
<1>1. (q * BytesPerPage + c) \div BytesPerPage = q /\ (q * BytesPerPage + c) % BytesPerPage = c
  BY Parts, Sizes
<1> DEFINE k == q * BytesPerPage + c
<1>2. k \div BytesPerPage = q /\ k % BytesPerPage = c
  BY <1>1
<1> HIDE DEF k
<1>3. FileByte(k) = <<PageAt(q), c>>
  BY <1>2 DEF FileByte
<1> QED BY <1>3 DEF k

\* The page the chip is asked for, in a file that has it.
LEMMA AskedPage ==
  ASSUME ReaderValues, Asked < FilePages, state.blocks = flash.list
  PROVE  \A b \in BlocksAt(state.blockinlist) :
            b * PagesPerBlock + state.pageinblock = PageAt(Asked)
<1>0. /\ state.blockinlist \in Nat /\ state.pageinblock \in 0..PagesPerBlock - 1
      /\ PagesPerBlock \in Nat \ {0} /\ MaxBlocks \in Nat
  BY Sizes DEF ReaderValues, Places
<1>2. state.blockinlist < MaxBlocks
  BY <1>0, BeforeEnd DEF Asked, FilePages
<1>3. \A b \in BlocksAt(state.blockinlist) : b = flash.list[state.blockinlist + 1]
  BY <1>2 DEF BlocksAt
<1>4. PageAt(Asked) = flash.list[state.blockinlist + 1] * PagesPerBlock + state.pageinblock
  BY <1>0, PageInBlock DEF Asked
<1> QED BY <1>3, <1>4

\* The place after the page that was asked for is the next one of the file, except
\* at the very end, where it stands still.
LEMMA PlaceMoves ==
  ASSUME NEW s \in Places
  PROVE  /\ NextPlace(s) \in Places
         /\ NextPlace(s).blocks = s.blocks
         /\ NextPlace(s).bytesleftinpage = s.bytesleftinpage
         /\ s.pageinblock < PagesPerBlock - 1 \/ s.blockinlist < MaxBlocks =>
              NextPlace(s).blockinlist * PagesPerBlock + NextPlace(s).pageinblock
                = s.blockinlist * PagesPerBlock + s.pageinblock + 1
<1>1. /\ s.pageinblock \in Nat /\ s.pageinblock < PagesPerBlock
      /\ s.blockinlist \in Nat /\ s.blockinlist <= MaxBlocks
  BY Sizes DEF Places
<1>2. CASE s.pageinblock + 1 < PagesPerBlock
  <2>1. NextPlace(s) = [s EXCEPT !.pageinblock = s.pageinblock + 1]
    BY <1>1, <1>2, Sizes DEF NextPlace
  <2>2. s.pageinblock + 1 \in 0..PagesPerBlock - 1
    BY <1>1, <1>2, Sizes
  <2>3. /\ NextPlace(s) \in Places /\ NextPlace(s).blocks = s.blocks
        /\ NextPlace(s).bytesleftinpage = s.bytesleftinpage
        /\ NextPlace(s).blockinlist = s.blockinlist
        /\ NextPlace(s).pageinblock = s.pageinblock + 1
    BY <2>1, <2>2 DEF Places
  <2> QED BY <1>1, <2>3, Sizes
<1>3. CASE s.pageinblock + 1 >= PagesPerBlock /\ s.blockinlist < MaxBlocks
  <2>1. NextPlace(s) = [s EXCEPT !.pageinblock = 0, !.blockinlist = s.blockinlist + 1]
    BY <1>1, <1>3, Sizes DEF NextPlace
  <2>2. 0 \in 0..PagesPerBlock - 1 /\ s.blockinlist + 1 \in 0..MaxBlocks
    BY <1>1, <1>3, Sizes
  <2>3. /\ NextPlace(s) \in Places /\ NextPlace(s).blocks = s.blocks
        /\ NextPlace(s).bytesleftinpage = s.bytesleftinpage
        /\ NextPlace(s).blockinlist = s.blockinlist + 1
        /\ NextPlace(s).pageinblock = 0
    BY <2>1, <2>2 DEF Places
  <2>4. s.pageinblock = PagesPerBlock - 1
    BY <1>1, <1>3, Sizes
  <2>5. (s.blockinlist + 1) * PagesPerBlock + 0
          = s.blockinlist * PagesPerBlock + (PagesPerBlock - 1) + 1
    <3>1. ASSUME NEW m \in Nat, NEW d \in Nat PROVE (m + 1) * d = m * d + d
      OBVIOUS
    <3>2. s.blockinlist * PagesPerBlock \in Nat
      BY <1>1, Sizes
    <3> QED BY <1>1, <3>1, <3>2, Sizes
  <2> QED BY <2>3, <2>4, <2>5
<1>4. CASE s.pageinblock + 1 >= PagesPerBlock /\ s.blockinlist >= MaxBlocks
  <2>1. NextPlace(s) = [s EXCEPT !.pageinblock = s.pageinblock + 1 - 1]
    BY <1>1, <1>4, Sizes DEF NextPlace
  <2>2. s.pageinblock + 1 - 1 = s.pageinblock
    BY <1>1
  <2>3. NextPlace(s) = s
    BY <2>1, <2>2 DEF Places
  <2> QED BY <1>1, <1>4, <2>3, Sizes
<1> QED BY <1>1, <1>2, <1>3, <1>4, Sizes

LEMMA ReaderInitInv == XsvfInit => ReaderInv
<1> SUFFICES ASSUME XsvfInit PROVE ReaderInv
  OBVIOUS
<1> USE DEF XsvfInit
<1>1. Blank \in [1..MaxBlocks -> Int] /\ NoPage \in Int
  BY DEF Blank, NoPage
<1>2. ReaderValues
  BY <1>1, Sizes DEF ReaderValues, Kinds, Places
<1>3. InPlace /\ StreamIsFile
  BY DEF InPlace, StreamIsFile
<1> QED BY <1>2, <1>3 DEF ReaderInv

\* Until the player runs nothing has been read.
LEMMA ProbeInv ==
  ASSUME ReaderInv, ProbeOpen \/ ProbeReset \/ ProbeId \/ ProbeEcc \/ ProbeParameters
  PROVE  ReaderInv'
<1>1. got = 0 /\ got' = 0 /\ boot' \notin {"play", "main"}
  BY DEF ReaderInv, ReaderValues, ProbeOpen, ProbeReset, ProbeId, ProbeEcc, ProbeParameters, Polls
<1>2. late' \in Nat
  BY DEF ReaderInv, ReaderValues, ProbeOpen, ProbeReset, ProbeId, ProbeEcc, ProbeParameters, Polls
<1>3. state' = state /\ regs' = regs
  BY DEF ProbeOpen, ProbeReset, ProbeId, ProbeEcc, ProbeParameters
<1>4. flash' \in [kind : Kinds, ecc : BOOLEAN, sticks : BOOLEAN,
                 list : [1..MaxBlocks -> Int]]
  <2>1. CASE ProbeOpen
    <3>1. flash' \in Flashes
      BY <2>1 DEF ProbeOpen
    <3>2. Lists \subseteq [1..MaxBlocks -> Int]
      BY ListAssumption
    <3> QED BY <3>1, <3>2 DEF Flashes, Kinds
  <2>2. CASE ~ProbeOpen
    <3>1. flash' = flash \/ flash' = [flash EXCEPT !.ecc = flash.sticks]
      BY <2>2 DEF ProbeReset, ProbeId, ProbeEcc, ProbeParameters
    <3> QED BY <3>1 DEF ReaderInv, ReaderValues
  <2> QED BY <2>1, <2>2
<1>5. ReaderValues'
  BY <1>1, <1>2, <1>3, <1>4 DEF ReaderInv, ReaderValues
<1>6. InPlace' /\ StreamIsFile'
  BY <1>1 DEF InPlace, StreamIsFile
<1> QED BY <1>5, <1>6 DEF ReaderInv

\* The first two pages of the first block are the first two of the file.
LEMMA SetupInv == ASSUME ReaderInv, Setup PROVE ReaderInv'
<1>1. got = 0 /\ got' = 0 /\ flash' = flash
  BY DEF ReaderInv, ReaderValues, Setup
<1>2. PICK list \in {flash.list} \cup (IF late < MaxLate THEN Lists ELSE {}) :
        LET first == list[1] * PagesPerBlock
            bad  == ~geom \/ list[1] <= 0 \/ list[1] >= NumBlocks
            page0 == Loaded(regs, 0, "Uncached")
        IN /\ state' = [blocks |-> list, pageinblock |-> 2, blockinlist |-> 0,
                        bytesleftinpage |-> IF geom THEN BytesPerPage ELSE 0]
           /\ boot' = IF bad THEN "main" ELSE "play"
           /\ \/ /\ list = flash.list
                 /\ InTime(IF bad THEN page0
                           ELSE Loaded(Loaded(page0, first, "Cached"), first + 1, "Cached"))
              \/ TooLate
  BY DEF Setup
<1>3. ReaderValues'
  <2>1. list \in [1..MaxBlocks -> Int]
    BY ListAssumption DEF ReaderInv, ReaderValues
  <2>2. list[1] * PagesPerBlock \in Int
    BY <2>1, Sizes
  <2>3. regs' \in [cache : Int, behind : Int, col : Nat] /\ late' \in Nat
    BY <1>2, <2>2 DEF ReaderInv, ReaderValues, InTime, TooLate, Loaded, NoPage
  <2>4. state' \in Places
    BY <1>2, <2>1, Sizes DEF Places
  <2>5. boot' \in {"main", "play"}
    BY <1>2
  <2> QED BY <1>1, <2>3, <2>4, <2>5 DEF ReaderInv, ReaderValues
<1>4. InPlace'
  <2> SUFFICES ASSUME boot' = "play", late' = 0
               PROVE  /\ state'.blocks = flash.list /\ Page' = 0 /\ Column' = 0
                      /\ regs'.col = 0 /\ regs'.cache = PageAt(0) /\ regs'.behind = PageAt(1)
    BY <1>1, Sizes DEF InPlace, PageAt
  <2>1. geom /\ list = flash.list
        /\ regs' = Loaded(Loaded(Loaded(regs, 0, "Uncached"), list[1] * PagesPerBlock, "Cached"),
                          list[1] * PagesPerBlock + 1, "Cached")
    BY <1>2 DEF InTime, TooLate, ReaderInv, ReaderValues
  <2>2. regs' = [cache |-> list[1] * PagesPerBlock, behind |-> list[1] * PagesPerBlock + 1,
                 col |-> 0]
    BY <2>1 DEF Loaded
  <2>3. PageAt(0) = list[1] * PagesPerBlock /\ PageAt(1) = list[1] * PagesPerBlock + 1
    <3>1. /\ PageAt(0 * PagesPerBlock + 0) = flash.list[0 + 1] * PagesPerBlock + 0
          /\ PageAt(0 * PagesPerBlock + 1) = flash.list[0 + 1] * PagesPerBlock + 1
      BY PageInBlock, Sizes
    <3>2. flash.list[1] * PagesPerBlock \in Int
      BY Sizes DEF ReaderInv, ReaderValues
    <3> QED BY <2>1, <3>1, <3>2, Sizes
  <2>4. state'.blocks = list /\ Page' = 0 /\ Column' = 0
    BY <1>2, <2>1, Sizes DEF Page, Asked, Column
  <2> QED BY <2>1, <2>2, <2>3, <2>4
<1>5. StreamIsFile'
  BY <1>1 DEF StreamIsFile
<1> QED BY <1>3, <1>4, <1>5 DEF ReaderInv

\* A byte is the one of its place, and leaves the next one in place.
LEMMA GetByteInv == ASSUME ReaderInv, GetByte PROVE ReaderInv'
<1>1. /\ boot = "play" /\ boot' = "play" /\ got' = got + 1 /\ last' = <<regs.cache, regs.col>>
      /\ flash' = flash /\ got \in Nat
  BY DEF ReaderInv, ReaderValues, GetByte, ByteOf
<1>0. state \in Places /\ regs \in [cache : Int, behind : Int, col : Nat]
  BY DEF ReaderInv, ReaderValues
<1>10. state.bytesleftinpage \in Nat /\ state.blockinlist \in Nat /\ state.pageinblock \in Nat
  BY <1>0, Sizes DEF Places
<1>11. Asked \in Int
  BY <1>10, Sizes DEF Asked
<1>2. ReaderValues'
  <2>1. late' \in Nat
    BY DEF ReaderInv, ReaderValues, GetByte, InTime, TooLate
  <2>3. state \in Places /\ [state EXCEPT !.bytesleftinpage = BytesPerPage] \in Places
    BY <1>0, Sizes DEF Places
  <2>4. state' \in Places
    <3>1. CASE state' = [state EXCEPT !.bytesleftinpage = @ - 1] /\ state.bytesleftinpage > 1
      BY <2>3, <3>1 DEF Places
    <3>2. CASE state' = NextPlace([state EXCEPT !.bytesleftinpage = BytesPerPage])
      BY <2>3, <3>2, PlaceMoves
    <3> QED BY <3>1, <3>2 DEF GetByte
  <2>5. regs' \in [cache : Int, behind : Int, col : Nat]
    <3>1. ASSUME NEW b \in BlocksAt(state.blockinlist)
          PROVE  b * PagesPerBlock + state.pageinblock \in Int
      <4>1. b \in Int
        <5>1. CASE state.blockinlist < MaxBlocks
          <6>1. b = state.blocks[state.blockinlist + 1]
            BY <3>1, <5>1 DEF BlocksAt
          <6>2. state.blocks \in [1..MaxBlocks -> Int]
            BY <2>3 DEF Places
          <6>3. state.blockinlist + 1 \in 1..MaxBlocks
            BY <1>10, <5>1, Sizes
          <6> QED BY <6>1, <6>2, <6>3
        <5>2. CASE ~(state.blockinlist < MaxBlocks)
          BY <3>1, <5>2, ListAssumption DEF BlocksAt
        <5> QED BY <5>1, <5>2
      <4>2. state.pageinblock \in Int
        BY <2>3, Sizes DEF Places
      <4> QED BY <4>1, <4>2, Sizes
    <3>2. regs \in [cache : Int, behind : Int, col : Nat]
      BY DEF ReaderInv, ReaderValues
    <3>3. ASSUME NEW page \in Int
          PROVE  Loaded(regs, page, "Cached") \in [cache : Int, behind : Int, col : Nat]
      BY <3>2 DEF Loaded
    <3> QED BY <3>1, <3>2, <3>3 DEF GetByte, InTime, TooLate, NoPage
  <2> QED BY <1>1, <2>1, <2>4, <2>5 DEF ReaderInv, ReaderValues
<1>3. SUFFICES ASSUME late' = 0, got' <= FilePages * BytesPerPage
               PROVE  InPlace' /\ StreamIsFile'
  BY <1>1, <1>2, Sizes DEF ReaderInv, InPlace, StreamIsFile
<1>4. late = 0 /\ got < FilePages * BytesPerPage
  BY <1>1, <1>3, Sizes DEF GetByte, InTime, TooLate, ReaderInv, ReaderValues
<1>5. /\ state.blocks = flash.list
      /\ Page \in Nat /\ Column \in 0..BytesPerPage - 1
      /\ got = Page * BytesPerPage + Column
      /\ regs.col = Column
      /\ Page < FilePages => regs.cache = PageAt(Page)
      /\ Page + 1 < FilePages => regs.behind = PageAt(Page + 1)
  BY <1>1, <1>4, Sizes DEF ReaderInv, InPlace
<1>6. Page < FilePages
  BY <1>4, <1>5, BeforeEnd, Sizes
<1>7. StreamIsFile'
  <2>1. last' = <<PageAt(Page), Column>>
    BY <1>1, <1>5, <1>6
  <2>2. FileByte(got) = <<PageAt(Page), Column>>
    BY <1>5, ByteAtPlace
  <2>3. got' - 1 = got
    BY <1>1
  <2>4. \A k : FileByte(k)' = FileByte(k)
    BY <1>1 DEF FileByte, PageAt
  <2> QED BY <2>1, <2>2, <2>3, <2>4 DEF StreamIsFile
<1>9. \A n : PageAt(n)' = PageAt(n)
  BY <1>1 DEF PageAt
<1>8. InPlace'
  <2>1. CASE state.bytesleftinpage > 1
    <3>1. /\ state' = [state EXCEPT !.bytesleftinpage = @ - 1]
          /\ regs' = [regs EXCEPT !.col = @ + 1]
      BY <2>1 DEF GetByte
    <3>2. /\ state'.blocks = state.blocks /\ Asked' = Asked
          /\ regs'.cache = regs.cache /\ regs'.behind = regs.behind
          /\ regs'.col = regs.col + 1 /\ state'.bytesleftinpage = state.bytesleftinpage - 1
      BY <1>0, <3>1 DEF Asked, Places
    <3>3. Column' = Column + 1 /\ Column + 1 \in 0..BytesPerPage - 1
      BY <1>5, <1>10, <2>1, <3>2, Sizes DEF Column
    <3>4. Page' = Page /\ got' = Page * BytesPerPage + (Column + 1)
      BY <1>1, <1>5, <3>2, <3>3, Sizes DEF Page
    <3> QED BY <1>1, <1>5, <1>9, <3>2, <3>3, <3>4 DEF InPlace
  <2>2. CASE state.bytesleftinpage = 1
    <3> DEFINE turned == [state EXCEPT !.bytesleftinpage = BytesPerPage]
    <3>1. PICK b \in BlocksAt(state.blockinlist) :
            /\ state' = NextPlace(turned)
            /\ regs' = [cache |-> regs.behind, behind |-> b * PagesPerBlock + state.pageinblock,
                        col |-> 0]
      BY <1>3, <1>4, <2>2 DEF GetByte, InTime, TooLate, Loaded, ReaderInv, ReaderValues
    <3>2. /\ turned.blocks = state.blocks /\ turned.pageinblock = state.pageinblock
          /\ turned.blockinlist = state.blockinlist /\ turned.bytesleftinpage = BytesPerPage
      BY <1>0 DEF Places
    <3>3. Column = BytesPerPage - 1 /\ got' = (Page + 1) * BytesPerPage
      BY <1>1, <1>5, <2>2, Sizes DEF Column
    <3>4. ~(state.pageinblock = PagesPerBlock - 1 /\ state.blockinlist = MaxBlocks)
      \* The place stands still only a page or more behind the end.
      <4> SUFFICES ASSUME state.pageinblock = PagesPerBlock - 1, state.blockinlist = MaxBlocks
                   PROVE  FALSE
        OBVIOUS
      <4>1. Page = FilePages + (PagesPerBlock - 3)
        BY Sizes DEF Page, Asked, FilePages
      <4> QED BY <1>6, <4>1, Sizes
    <3>5. Asked' = Asked + 1 /\ state'.blocks = state.blocks
          /\ state'.bytesleftinpage = BytesPerPage
      <4>1. turned \in Places
        BY <1>0, Sizes DEF Places
      <4>2. state.pageinblock < PagesPerBlock - 1 \/ state.blockinlist < MaxBlocks
        BY <1>0, <3>4, Sizes DEF Places
      <4> HIDE DEF turned
      <4>3. /\ NextPlace(turned).blocks = turned.blocks
            /\ NextPlace(turned).bytesleftinpage = turned.bytesleftinpage
            /\ NextPlace(turned).blockinlist * PagesPerBlock + NextPlace(turned).pageinblock
                 = turned.blockinlist * PagesPerBlock + turned.pageinblock + 1
        BY <3>2, <4>1, <4>2, PlaceMoves
      <4> QED BY <3>1, <3>2, <4>3 DEF Asked
    <3>6. Page' = Page + 1 /\ Column' = 0
      BY <1>11, <3>5, Sizes DEF Page, Column
    <3>7. Page + 2 < FilePages => regs'.behind = PageAt(Page + 2)
      <4>1. Asked = Page + 2
        BY <1>11 DEF Page
      <4> QED BY <1>5, <3>1, <4>1, AskedPage DEF ReaderInv
    <3> QED BY <1>1, <1>5, <1>9, <3>1, <3>3, <3>5, <3>6, <3>7, Sizes DEF InPlace
  <2> QED BY <2>1, <2>2 DEF GetByte
<1> QED BY <1>7, <1>8

LEMMA ReaderStepInv == ASSUME ReaderInv, [XsvfNext]_xsvfVars PROVE ReaderInv'
<1>1. CASE ProbeOpen \/ ProbeReset \/ ProbeId \/ ProbeEcc \/ ProbeParameters
  BY <1>1, ProbeInv
<1>2. CASE Setup
  BY <1>2, SetupInv
<1>3. CASE GetByte
  BY <1>3, GetByteInv
<1>4. CASE PlayEnds
  BY <1>4 DEF PlayEnds, ReaderInv, ReaderValues, InPlace, StreamIsFile, FileByte, PageAt
<1>5. CASE UNCHANGED xsvfVars
  BY <1>5 DEF xsvfVars, ReaderInv, ReaderValues, InPlace, StreamIsFile, FileByte, PageAt,
              Page, Column, Asked
<1> QED BY <1>1, <1>2, <1>3, <1>4, <1>5 DEF XsvfNext

\* What the reader knows of its place, for every geometry, list and length.
THEOREM ReaderInvariance == ReaderSpec => []ReaderInv
<1>1. XsvfInit => ReaderInv
  BY ReaderInitInv
<1>2. ReaderInv /\ [XsvfNext]_xsvfVars => ReaderInv'
  BY ReaderStepInv
<1> QED BY <1>1, <1>2, PTL DEF ReaderSpec

\* The player gets the file, byte by byte, up to its end.
THEOREM FileIsRead == ReaderSpec => []StreamIsFile
<1>1. ReaderInv => StreamIsFile
  BY DEF ReaderInv
<1> QED BY <1>1, ReaderInvariance, PTL
-----------------------------------------------------------------------------
(* The parts put together: main() up to its loop, as BoardStart has it.    *)

\* BoardStart takes steps of its parts, and so has what is proved of each of them.
LEMMA PartsOfBoot == BootSpec => PowerSpec /\ CoreSpec /\ ReaderSpec
<1>1. BootInit => PowerInit /\ CoreInit /\ XsvfInit
  BY DEF BootInit
<1>2. [BootNext]_bootVars
        => [PowerNext]_powerVars /\ [CoreNext]_coreVars /\ [XsvfNext]_xsvfVars
  <2> SUFFICES ASSUME [BootNext]_bootVars
               PROVE  [PowerNext]_powerVars /\ [CoreNext]_coreVars /\ [XsvfNext]_xsvfVars
    OBVIOUS
  <2>1. CASE InitPorts
    BY <2>1 DEF InitPorts, PowerNext
  <2>2. CASE SetVCore
    BY <2>2 DEF SetVCore
  <2>3. CASE ProgramFpga
    BY <2>3 DEF ProgramFpga
  <2>4. CASE SwitchFpga
    BY <2>4 DEF SwitchFpga, PowerNext
  <2>5. CASE UNCHANGED bootVars
    BY <2>5 DEF bootVars
  <2> QED BY <2>1, <2>2, <2>3, <2>4, <2>5 DEF BootNext
<1> QED BY <1>1, <1>2, PTL DEF BootSpec, PowerSpec, CoreSpec, ReaderSpec

\* Each part keeps its promise when main() runs them one after the other.
THEOREM BootIsSafe ==
  BootSpec => /\ [](BusReleased /\ PoweredRight /\ StreamIsFile)
              /\ RaisedSafely
  BY PartsOfBoot, BusIsReleased, BoardPoweredRight, FileIsRead, VoltageIsRaisedSafely, PTL

\* Until the main loop nothing switches the FPGA's power off again.
NotYetSwitched == boot # "main" => ~refused /\ (stage = "running" => powered)

LEMMA NotSwitchedBefore == BootSpec => []NotYetSwitched
<1>1. BootInit => NotYetSwitched
  BY DEF BootInit, PowerInit, NotYetSwitched
<1>2. NotYetSwitched /\ [BootNext]_bootVars => NotYetSwitched'
  <2> SUFFICES ASSUME NotYetSwitched, [BootNext]_bootVars PROVE NotYetSwitched'
    OBVIOUS
  <2>1. CASE InitPorts
    <3>1. boot' = boot /\ refused' = refused
      BY <2>1 DEF InitPorts, xsvfVars, ClearBus, Identify, SetRegister, ReadBack, PowerOn
    <3>2. stage' = "running" => powered'
      <4>1. CASE PowerOn
        BY <4>1 DEF PowerOn
      <4>2. CASE ClearBus \/ Identify \/ SetRegister \/ ReadBack
        BY <4>2 DEF ClearBus, Identify, SetRegister, ReadBack, Proceed
      <4> QED BY <2>1, <4>1, <4>2 DEF InitPorts
    <3> QED BY <3>1, <3>2 DEF NotYetSwitched
  <2>2. CASE SetVCore
    BY <2>2 DEF SetVCore, powerVars, xsvfVars, NotYetSwitched
  <2>3. CASE ProgramFpga
    <3>1. boot # "main"
      BY <2>3 DEF ProgramFpga, XsvfNext, ProbeOpen, ProbeReset, ProbeId, ProbeEcc,
                  ProbeParameters, Setup, GetByte, PlayEnds
    <3> QED BY <2>3, <3>1 DEF ProgramFpga, powerVars, NotYetSwitched
  <2>4. CASE SwitchFpga
    BY <2>4 DEF SwitchFpga, xsvfVars, NotYetSwitched
  <2>5. CASE UNCHANGED bootVars
    BY <2>5 DEF bootVars, powerVars, xsvfVars, NotYetSwitched
  <2> QED BY <2>1, <2>2, <2>3, <2>4, <2>5 DEF BootNext
<1> QED BY <1>1, <1>2, PTL DEF BootSpec

\* The flash is probed and the FPGA programmed from it (program_fpga_from_nand) only
\* with every voltage set and the FPGA's rails on, and after SetVCore.
THEOREM ProgrammedUnderPower ==
  BootSpec => [][xsvfVars' # xsvfVars =>
                   /\ \A reg \in Verified : chip.tps.regs[reg] = Wanted(program, reg)
                   /\ chip.tps.rails = "on" /\ up = "returned"]_bootVars
<1> DEFINE Powered ==
             /\ \A reg \in Verified : chip.tps.regs[reg] = Wanted(program, reg)
             /\ chip.tps.rails = "on" /\ up = "returned"
<1>1. PowerInv /\ NotYetSwitched /\ [BootNext]_bootVars
        => [xsvfVars' # xsvfVars => Powered]_bootVars
  <2> SUFFICES ASSUME PowerInv, NotYetSwitched, [BootNext]_bootVars, xsvfVars' # xsvfVars
               PROVE  Powered
    OBVIOUS
  <2>1. ProgramFpga
    BY DEF BootNext, InitPorts, SetVCore, SwitchFpga, bootVars
  <2>2. boot # "main" /\ stage = "running" /\ up = "returned"
    BY <2>1 DEF ProgramFpga, Started, XsvfNext, ProbeOpen, ProbeReset, ProbeId, ProbeEcc,
                ProbeParameters, Setup, GetByte, PlayEnds
  <2>3. ~refused /\ powered
    BY <2>2 DEF NotYetSwitched
  <2> QED BY <2>2, <2>3 DEF PowerInv, RunningInv
<1>2. BootSpec => []PowerInv
  BY PartsOfBoot, PowerInvariance, PTL
<1> QED BY <1>1, <1>2, NotSwitchedBefore, PTL DEF BootSpec
-----------------------------------------------------------------------------
(* What every step of UsbAttach preserves: the flags of the two VBUS       *)
(* interrupts tell the truth about the voltage as far as the USB module is *)
(* on, and the module that the drivers use has its clock.                  *)

\* MemoryIsClocked, from the moment the device shows itself to the host.
Clocked == isr = "none" /\ pur /\ ~susp
             => (usben /\ locked) \/ VbusPending \/ failed \/ missed

\* Only a device that shows itself is configured, and it hears of the loss of
\* the voltage.
ShowsItself == (enumerated => pur) /\ (pur => vboffie)

\* A PLL that USB_enable takes for running has settled once.
PllKnown == usben /\ upllen /\ isr # "settle" => locked \/ failed

\* main()'s own call comes before anything else.
MainFirst == /\ isr = "start" => caller = "main"
             /\ caller = "main" /\ isr \in {"start", "enable", "settle"} => ~pur

\* A loss of the voltage that a routine may meet has left its flag.
LossFlagged ==
  ~vbus => /\ pur /\ (vbonifg \/ isr = "on") => vboffifg
           /\ isr = "settle" => vboffifg
           /\ isr = "enable" /\ caller = "resume" => vboffifg
           /\ pur /\ isr = "enable" /\ caller = "on" => vboffifg \/ missed

\* So has its return.
ReturnFlagged ==
  vbus => /\ vboffifg => vbonifg \/ isr = "on"
          /\ isr = "off" => vbonifg

AttachInv == /\ AttachTypeOK /\ Clocked /\ ShowsItself /\ PllKnown /\ MainFirst
             /\ LossFlagged /\ ReturnFlagged

LEMMA AttachInitInv == AttachInit => AttachInv
  BY DEF AttachInit, AttachInv, AttachTypeOK, Clocked, ShowsItself, PllKnown, MainFirst,
     LossFlagged, ReturnFlagged, Waits, Callers

LEMMA AttachUnchanged == ASSUME AttachInv, UNCHANGED attachVars PROVE AttachInv'
  BY DEF attachVars, AttachInv, AttachTypeOK, Clocked, ShowsItself, PllKnown, MainFirst,
     LossFlagged, ReturnFlagged, VbusPending

\* The types of the variables.
LEMMA ConnectorType == ASSUME AttachTypeOK, Connector PROVE AttachTypeOK'
<1> USE DEF AttachTypeOK, flagVars, moduleVars, stateVars, historyVars
<1>1. CASE VbusRises    BY <1>1 DEF VbusRises
<1>2. CASE VbusFalls    BY <1>2 DEF VbusFalls
<1> QED BY <1>1, <1>2 DEF Connector

LEMMA RoutineType == ASSUME AttachTypeOK, Routine PROVE AttachTypeOK'
<1> USE DEF AttachTypeOK, flagVars, moduleVars, stateVars, historyVars
<1>1. CASE Start
  <2>1. isr' \in Waits
    BY <1>1 DEF Start, Waits
  <2> QED BY <1>1, <2>1 DEF Start
<1>2. CASE OnVector
  <2>1. isr' \in Waits /\ vbonifg' \in BOOLEAN
    BY <1>2 DEF OnVector, Waits
  <2> QED BY <1>2, <2>1 DEF OnVector
<1>3. CASE OffVector
  <2>1. isr' \in Waits /\ vboffifg' \in BOOLEAN
    BY <1>3 DEF OffVector, Waits
  <2> QED BY <1>3, <2>1 DEF OffVector
<1>4. CASE OnHandler
  <2>1. isr' \in Waits /\ caller' \in Callers
    BY <1>4 DEF OnHandler, Waits, Callers
  <2>2. /\ vboffie' \in BOOLEAN /\ vbonifg' \in BOOLEAN
        /\ vboffifg' \in BOOLEAN /\ missed' \in BOOLEAN
    BY <1>4 DEF OnHandler
  <2> QED BY <1>4, <2>1, <2>2 DEF OnHandler
<1>5. CASE OffHandler
  <2>1. isr' \in Waits
    BY <1>5 DEF OffHandler, Waits
  <2>2. /\ vboffifg' \in BOOLEAN /\ vboffie' \in BOOLEAN
        /\ usben' \in BOOLEAN /\ upllen' \in BOOLEAN /\ locked' \in BOOLEAN
    BY <1>5 DEF OffHandler
  <2>3. pur' \in BOOLEAN /\ enumerated' \in BOOLEAN /\ susp' \in BOOLEAN
    BY <1>5 DEF OffHandler
  <2> QED BY <1>5, <2>1, <2>2, <2>3 DEF OffHandler
<1>6. CASE Enable
  <2>1. isr' \in Waits /\ upllen' \in BOOLEAN /\ UNCHANGED <<caller, missed, failed>>
    BY <1>6 DEF Enable, Enabled, Waits
  <2>2. enumerated' \in BOOLEAN /\ susp' \in BOOLEAN /\ pur' \in BOOLEAN /\ vboffie' \in BOOLEAN
    BY <1>6 DEF Enable, Enabled, Connect
  <2> QED BY <1>6, <2>1, <2>2 DEF Enable
<1>7. CASE Settle
  <2>1. isr' \in Waits /\ usben' \in BOOLEAN /\ locked' \in BOOLEAN /\ failed' \in BOOLEAN
    BY <1>7 DEF Settle, Enabled, Waits
  <2>2. enumerated' \in BOOLEAN /\ susp' \in BOOLEAN /\ pur' \in BOOLEAN /\ vboffie' \in BOOLEAN
    BY <1>7 DEF Settle, Enabled, Connect
  <2> QED BY <1>7, <2>1, <2>2 DEF Settle
<1> QED BY <1>1, <1>2, <1>3, <1>4, <1>5, <1>6, <1>7 DEF Routine

LEMMA BusType == ASSUME AttachTypeOK, Bus PROVE AttachTypeOK'
<1> USE DEF AttachTypeOK, flagVars, moduleVars, stateVars, historyVars
<1>1. CASE BusReset     BY <1>1 DEF BusReset
<1>2. CASE BusSuspend   BY <1>2 DEF BusSuspend
<1>3. CASE BusResume    BY <1>3 DEF BusResume, Waits, Callers
<1>4. CASE SetConfiguration BY <1>4 DEF SetConfiguration
<1>5. CASE BusError     BY <1>5 DEF BusError, Disable
<1> QED BY <1>1, <1>2, <1>3, <1>4, <1>5 DEF Bus

\* The connector only raises flags, and raises the right one.
LEMMA ConnectorInv == ASSUME AttachInv, Connector PROVE AttachInv'
<1>t. AttachTypeOK'
  BY ConnectorType DEF AttachInv
<1> USE DEF AttachInv, AttachTypeOK, Clocked, ShowsItself, PllKnown, MainFirst, LossFlagged,
            ReturnFlagged, VbusPending, moduleVars, stateVars, historyVars
<1>1. CASE VbusRises BY <1>t, <1>1 DEF VbusRises
<1>2. CASE VbusFalls BY <1>t, <1>2 DEF VbusFalls
<1> QED BY <1>1, <1>2 DEF Connector

LEMMA RoutineInv == ASSUME AttachInv, Routine PROVE AttachInv'
<1>t. AttachTypeOK'
  BY RoutineType DEF AttachInv
<1> USE DEF AttachInv, AttachTypeOK, Clocked, ShowsItself, PllKnown, MainFirst, LossFlagged,
            ReturnFlagged, VbusPending, flagVars, moduleVars, stateVars, historyVars
<1>1. CASE Start      BY <1>t, <1>1 DEF Start
<1>2. CASE OnVector   BY <1>t, <1>2 DEF OnVector
<1>3. CASE OffVector  BY <1>t, <1>3 DEF OffVector
<1>4. CASE OnHandler  BY <1>t, <1>4 DEF OnHandler
<1>5. CASE OffHandler BY <1>t, <1>5 DEF OffHandler
<1>6. CASE Enable
  <2>1. CASE ~vbus /\ Enabled(FALSE) /\ UNCHANGED upllen
    BY <1>t, <1>6, <2>1 DEF Enable, Enabled, Callers
  <2>2. CASE vbus /\ AlreadyOn /\ Enabled(TRUE) /\ UNCHANGED upllen
    BY <1>t, <1>6, <2>2 DEF Enable, Enabled, Connect, AlreadyOn
  <2>3. CASE vbus /\ ~AlreadyOn /\ isr' = "settle"
    BY <1>t, <1>6, <2>3 DEF Enable
  <2> QED BY <1>6, <2>1, <2>2, <2>3 DEF Enable
<1>7. CASE Settle
  <2>1. CASE usben' /\ locked' /\ Enabled(TRUE)
    BY <1>t, <1>7, <2>1 DEF Settle, Enabled, Connect
  <2>2. CASE failed' /\ Enabled(FALSE) /\ UNCHANGED <<usben, locked>>
    BY <1>t, <1>7, <2>2 DEF Settle, Enabled
  <2> QED BY <1>7, <2>1, <2>2 DEF Settle
<1> QED BY <1>1, <1>2, <1>3, <1>4, <1>5, <1>6, <1>7 DEF Routine

LEMMA BusInv == ASSUME AttachInv, Bus PROVE AttachInv'
<1>t. AttachTypeOK'
  BY BusType DEF AttachInv
<1> USE DEF AttachInv, AttachTypeOK, Clocked, ShowsItself, PllKnown, MainFirst, LossFlagged,
            ReturnFlagged, VbusPending, Heard, flagVars, moduleVars, stateVars, historyVars
<1>1. CASE BusReset   BY <1>t, <1>1 DEF BusReset
<1>2. CASE BusSuspend BY <1>t, <1>2 DEF BusSuspend
<1>3. CASE BusResume  BY <1>t, <1>3 DEF BusResume
<1>4. CASE SetConfiguration BY <1>t, <1>4 DEF SetConfiguration
<1>5. CASE BusError   BY <1>t, <1>5 DEF BusError, Disable
<1> QED BY <1>1, <1>2, <1>3, <1>4, <1>5 DEF Bus

LEMMA AttachStep == ASSUME AttachInv, Connector \/ Routine \/ Bus PROVE AttachInv'
  BY ConnectorInv, RoutineInv, BusInv

LEMMA ClockedMemory == AttachInv => MemoryIsClocked
  BY DEF AttachInv, Clocked, ShowsItself, MemoryIsClocked
-----------------------------------------------------------------------------
(* The main loop: the sleep protocol of safesleep.h is safe for any order  *)
(* of interrupts, with the USB attached and detached under it.             *)

\* The CPU sleeps only in the second half of enter_sleep, with the bits
\* SR_sleep had in the first.
SleepsInArm == lpm = (IF pc = "arm" THEN SR_sleep ELSE "none")

\* From the write of bCommand on, SR_sleep can put the CPU to sleep only if no
\* command has come since.
NoCommandSince ==
  pc \in {"inject", "look", "compare", "mode", "sleep", "arm"} /\ SR_sleep # "none"
    => ~bCommand

\* Likewise for the connection state from the switch on; what SR_sleep holds
\* before the comparison matters only if it passes it.
NoChangeSince ==
  (/\ pc \in {"compare", "mode", "sleep", "arm"}
   /\ SR_sleep # "none" /\ SR_sleep = ModeOf(seen))
    => seen = ConnectionState \/ VbusPending \/ isr # "none"

\* After the comparison SR_sleep is the mode of this round or nothing.
ModeCompared ==
  pc \in {"mode", "sleep", "arm"} => SR_sleep \in {"none", ModeOf(seen)}

\* main() attaches before its loop, so every later routine wakes it.
AttachesFirst == isr \in {"start", "enable", "settle"} /\ caller = "main" => pc = "top"

IInv == /\ TypeOK /\ AttachInv /\ SleepsInArm /\ NoCommandSince /\ NoChangeSince
        /\ ModeCompared /\ AttachesFirst

LEMMA StateType == ConnectionState \in States
  BY DEF ConnectionState, States

LEMMA ModeType == \A s \in States : ModeOf(s) \in Modes
  BY DEF ModeOf, Modes, States

LEMMA InitInv == Init => IInv
<1> SUFFICES ASSUME Init PROVE IInv
  OBVIOUS
<1>1. pc = "top" /\ lpm = "none"
  BY DEF Init
<1>2. AttachInv
  BY AttachInitInv DEF Init
<1>3. TypeOK
  BY <1>2 DEF Init, AttachInv, TypeOK, Modes, Steps, States
<1>4. SleepsInArm
  BY <1>1 DEF SleepsInArm
<1>5. NoCommandSince /\ NoChangeSince /\ ModeCompared /\ AttachesFirst
  BY <1>1 DEF NoCommandSince, NoChangeSince, ModeCompared, AttachesFirst
<1> QED BY <1>2, <1>3, <1>4, <1>5 DEF IInv

\* Every interrupt that wakes the CPU leaves the loop where it is and nothing
\* to sleep with.
LEMMA WakeupInv ==
  ASSUME IInv, Wakeup, UNCHANGED mainVars
  PROVE  SleepsInArm' /\ NoCommandSince' /\ NoChangeSince' /\ ModeCompared'
<1>1. SR_sleep' = "none" /\ lpm' = "none" /\ pc' = pc
  BY DEF Wakeup, mainVars
<1>2. SleepsInArm'
  BY <1>1 DEF SleepsInArm
<1>3. NoCommandSince'
  BY <1>1 DEF NoCommandSince
<1>4. NoChangeSince'
  BY <1>1 DEF NoChangeSince
<1>5. ModeCompared'
  BY <1>1 DEF ModeCompared
<1> QED BY <1>2, <1>3, <1>4, <1>5

\* Without a wake-up all depends on the connection state.
LEMMA AsleepInv ==
  ASSUME IInv, UNCHANGED <<bCommand, sleepVars, mainVars>>,
         NoChangeSince'
  PROVE  SleepsInArm' /\ NoCommandSince' /\ NoChangeSince' /\ ModeCompared'
<1>1. /\ SR_sleep' = SR_sleep /\ lpm' = lpm /\ pc' = pc /\ seen' = seen
      /\ bCommand' = bCommand
  BY DEF sleepVars, mainVars
<1>2. SleepsInArm'
  BY <1>1 DEF IInv, SleepsInArm
<1>3. NoCommandSince'
  BY <1>1 DEF IInv, NoCommandSince
<1>4. ModeCompared'
  BY <1>1 DEF IInv, ModeCompared, ModeOf
<1> QED BY <1>2, <1>3, <1>4

LEMMA UsbAttachInv == ASSUME IInv, UsbStep PROVE AttachInv'
  BY AttachStep DEF IInv, UsbStep, Bus

LEMMA UsbType == ASSUME IInv, UsbStep PROVE TypeOK'
<1>1. AttachTypeOK'
  BY UsbAttachInv DEF AttachInv
<1>2. SR_sleep' \in Modes /\ SR_sleep_mode' \in Modes /\ lpm' \in Modes
  BY DEF IInv, TypeOK, UsbStep, Wakeup, sleepVars, Modes
<1>3. bCommand' \in BOOLEAN /\ pc' \in Steps /\ seen' \in States /\ fpga_powered' \in BOOLEAN
  BY DEF IInv, TypeOK, UsbStep, mainVars
<1> QED BY <1>1, <1>2, <1>3 DEF TypeOK

\* A change of the voltage leaves its flag, or there was nothing to sleep on.
LEMMA ConnectorChange ==
  ASSUME IInv, Connector, UNCHANGED <<bCommand, sleepVars, mainVars>>
  PROVE  NoChangeSince'
<1>1. /\ SR_sleep' = SR_sleep /\ pc' = pc /\ seen' = seen
  BY DEF sleepVars, mainVars
<1>2. CASE VbusRises
  BY <1>1, <1>2 DEF VbusRises, NoChangeSince, VbusPending
<1>3. CASE VbusFalls
  <2>1. /\ vbus /\ ~vbus' /\ vboffifg' /\ vboffie' = vboffie /\ vbonifg' = vbonifg
        /\ isr' = isr /\ pur' = pur
    BY <1>3 DEF VbusFalls, stateVars
  <2>2. CASE pur
    <3>1. vboffie
      BY <2>2 DEF IInv, AttachInv, ShowsItself
    <3> QED BY <2>1, <3>1 DEF NoChangeSince, VbusPending
  <2>3. CASE ~pur
    <3>1. ConnectionState = "no_enum"
      BY <2>1, <2>3 DEF ConnectionState
    <3>2. ModeOf(ConnectionState) = "none"
      BY <3>1 DEF ModeOf
    <3>3. VbusPending => VbusPending'
      BY <2>1 DEF VbusPending
    <3> QED BY <1>1, <2>1, <3>2, <3>3 DEF IInv, NoChangeSince, ModeOf
  <2> QED BY <2>2, <2>3
<1> QED BY <1>2, <1>3 DEF Connector

\* What the host and a bus error do without a wake-up happens in a state in
\* which the loop does not sleep.
LEMMA SilentChange ==
  ASSUME IInv, SetConfiguration \/ BusError,
         UNCHANGED <<bCommand, sleepVars, mainVars>>
  PROVE  NoChangeSince'
<1>1. /\ SR_sleep' = SR_sleep /\ pc' = pc /\ seen' = seen
  BY DEF sleepVars, mainVars
<1>2. CASE SetConfiguration
  <2>1. vbus /\ pur /\ ~susp /\ ~VbusPending /\ isr = "none"
    BY <1>2 DEF SetConfiguration, Heard
  <2>2. ConnectionState \in {"active", "in_progress"}
    BY <2>1 DEF ConnectionState, IInv, TypeOK, AttachTypeOK
  <2>3. ModeOf(ConnectionState) = "none"
    BY <2>2 DEF ModeOf
  <2> QED BY <1>1, <2>1, <2>3 DEF IInv, NoChangeSince, ModeOf
<1>3. CASE BusError
  <2>1. /\ isr = "none" /\ enumerated /\ ~susp /\ ~VbusPending /\ vbus' = vbus
    BY <1>3 DEF BusError, Disable
  <2>2. pur
    BY <2>1 DEF IInv, AttachInv, ShowsItself
  <2>3. CASE vbus
    <3>1. ModeOf(ConnectionState) = "none"
      BY <2>1, <2>2, <2>3 DEF ConnectionState, ModeOf
    <3> QED BY <1>1, <2>1, <3>1 DEF IInv, NoChangeSince, ModeOf
  <2>4. CASE ~vbus
    <3>1. ConnectionState' = ConnectionState
      BY <2>1, <2>4 DEF ConnectionState
    <3> QED BY <1>1, <2>1, <3>1 DEF IInv, NoChangeSince, ModeOf
  <2> QED BY <2>3, <2>4
<1> QED BY <1>2, <1>3

\* A routine wakes the CPU when it ends, and until then nothing runs but it.
LEMMA RoutineChange ==
  ASSUME IInv, Routine, ~Handled, UNCHANGED <<bCommand, sleepVars, mainVars>>
  PROVE  NoChangeSince'
<1>1. /\ SR_sleep' = SR_sleep /\ pc' = pc /\ seen' = seen
  BY DEF sleepVars, mainVars
<1>2. CASE isr' # "none"
  BY <1>2 DEF NoChangeSince
<1>3. CASE isr' = "none"
  <2>1. isr \in {"start", "enable", "settle"} /\ caller = "main"
    BY <1>3 DEF Routine, Handled, Start, OnVector, OffVector, OnHandler, OffHandler,
       Enable, Settle, IInv, AttachInv, MainFirst
  <2>2. pc = "top"
    BY <2>1 DEF IInv, AttachesFirst
  <2> QED BY <1>1, <2>2 DEF NoChangeSince
<1> QED BY <1>2, <1>3

LEMMA UsbFirst == ASSUME IInv, UsbStep PROVE AttachesFirst'
<1>1. pc' = pc
  BY DEF UsbStep, mainVars
<1>2. CASE Connector \/ SetConfiguration \/ BusError \/ BusReset \/ BusSuspend
  BY <1>1, <1>2 DEF Connector, VbusRises, VbusFalls, SetConfiguration, BusError, Disable,
     BusReset, BusSuspend, IInv, AttachesFirst
<1>3. CASE BusResume
  BY <1>1, <1>3 DEF BusResume, AttachesFirst
<1>4. CASE Routine
  BY <1>1, <1>4 DEF Routine, Start, OnVector, OffVector, OnHandler, OffHandler, Enable,
     Settle, Enabled, IInv, AttachInv, MainFirst, AttachesFirst
<1> QED BY <1>2, <1>3, <1>4 DEF UsbStep

LEMMA UsbInv == ASSUME IInv, UsbStep PROVE IInv'
<1>t. TypeOK' /\ AttachInv' /\ AttachesFirst'
  BY UsbType, UsbAttachInv, UsbFirst
<1>m. UNCHANGED <<bCommand, mainVars>> /\ UNCHANGED mainVars
  BY DEF UsbStep
<1>1. CASE Wakeup
  BY <1>t, <1>m, <1>1, WakeupInv DEF IInv
<1>2. CASE UNCHANGED sleepVars
  <2>1. UNCHANGED <<bCommand, sleepVars, mainVars>>
    BY <1>m, <1>2
  <2>2. CASE Connector
    BY <1>t, <2>1, <2>2, ConnectorChange, AsleepInv DEF IInv
  <2>3. CASE SetConfiguration \/ BusError
    BY <1>t, <2>1, <2>3, SilentChange, AsleepInv DEF IInv
  <2>4. CASE Routine /\ ~Handled
    BY <1>t, <2>1, <2>4, RoutineChange, AsleepInv DEF IInv
  <2>5. CASE BusResume
    <3>1. NoChangeSince'
      BY <2>5 DEF BusResume, NoChangeSince
    <3> QED BY <1>t, <2>1, <3>1, AsleepInv DEF IInv
  <2> QED BY <1>t, <1>1, <2>2, <2>3, <2>4, <2>5 DEF UsbStep
<1> QED BY <1>1, <1>2 DEF UsbStep

LEMMA MainType == ASSUME TypeOK, Main PROVE TypeOK'
<1>a. AttachTypeOK'
  BY DEF TypeOK, AttachTypeOK, Main, attachVars, ReadCommand, ClearCommand, InjectCommand,
     Look, CompareMode, SetMode, Sleep, Arm, Serve
<1> USE <1>a DEF TypeOK, At, sleepVars
<1>1. CASE ReadCommand   BY <1>1 DEF ReadCommand, Steps
<1>2. CASE ClearCommand  BY <1>2 DEF ClearCommand, Steps
<1>3. CASE InjectCommand BY <1>3 DEF InjectCommand, Steps
<1>4. CASE Look          BY <1>4, StateType DEF Look, Steps
<1>5. CASE CompareMode   BY <1>5 DEF CompareMode, Steps, Modes
<1>6. CASE SetMode       BY <1>6, ModeType DEF SetMode, Steps
<1>7. CASE Sleep         BY <1>7 DEF Sleep, Steps
<1>8. CASE Arm           BY <1>8 DEF Arm, Steps
<1>9. CASE Serve         BY <1>9 DEF Serve, Steps, Modes
<1> QED BY <1>1, <1>2, <1>3, <1>4, <1>5, <1>6, <1>7, <1>8, <1>9 DEF Main

LEMMA InterruptInv == ASSUME IInv, Interrupt PROVE IInv'
<1>1. CASE UsbStep
  BY <1>1, UsbInv
<1>2. CASE CommandIsr \/ DataIsr
  <2>1. Wakeup /\ UNCHANGED mainVars /\ UNCHANGED attachVars /\ bCommand' \in BOOLEAN
    BY <1>2 DEF CommandIsr, DataIsr, IInv, TypeOK
  <2>2. AttachInv'
    BY <2>1, AttachUnchanged DEF IInv
  <2>3. TypeOK'
    BY <2>1, <2>2 DEF IInv, TypeOK, AttachInv, Wakeup, mainVars, Modes
  <2>4. AttachesFirst'
    BY <2>1 DEF IInv, AttachesFirst, attachVars, mainVars
  <2> QED BY <2>1, <2>2, <2>3, <2>4, WakeupInv DEF IInv
<1> QED BY <1>1, <1>2 DEF Interrupt

LEMMA MainInv == ASSUME IInv, Main PROVE IInv'
<1>t. TypeOK'
  BY MainType DEF IInv
<1>b. UNCHANGED attachVars
  BY DEF Main, ReadCommand, ClearCommand, InjectCommand, Look, CompareMode, SetMode,
     Sleep, Arm, Serve
<1>c. AttachInv'
  BY <1>b, AttachUnchanged DEF IInv
<1>d. /\ ConnectionState' = ConnectionState /\ VbusPending' = VbusPending
      /\ isr' = isr /\ isr = "none"
  BY <1>b DEF attachVars, ConnectionState, VbusPending, Main, At, ReadCommand, ClearCommand,
     InjectCommand, Look, CompareMode, SetMode, Sleep, Arm, Serve
<1>e. AttachesFirst'
  BY <1>d DEF AttachesFirst
<1> USE DEF IInv, At, sleepVars, SleepsInArm, NoCommandSince, NoChangeSince, ModeCompared
<1>1. CASE ReadCommand
  BY <1>t, <1>c, <1>d, <1>e, <1>1 DEF ReadCommand
<1>2. CASE ClearCommand
  BY <1>t, <1>c, <1>d, <1>e, <1>2 DEF ClearCommand
<1>3. CASE InjectCommand
  BY <1>t, <1>c, <1>d, <1>e, <1>3 DEF InjectCommand
<1>4. CASE Look
  BY <1>t, <1>c, <1>d, <1>e, <1>4 DEF Look
<1>5. CASE CompareMode
  BY <1>t, <1>c, <1>d, <1>e, <1>5 DEF CompareMode
<1>6. CASE SetMode
  BY <1>t, <1>c, <1>d, <1>e, <1>6 DEF SetMode
<1>7. CASE Sleep
  BY <1>t, <1>c, <1>d, <1>e, <1>7 DEF Sleep
<1>8. CASE Arm
  BY <1>t, <1>c, <1>d, <1>e, <1>8 DEF Arm
<1>9. CASE Serve
  BY <1>t, <1>c, <1>d, <1>e, <1>9 DEF Serve
<1> QED BY <1>1, <1>2, <1>3, <1>4, <1>5, <1>6, <1>7, <1>8, <1>9 DEF Main

LEMMA NextInv == IInv /\ [Next]_vars => IInv'
<1>1. ASSUME IInv, UNCHANGED vars PROVE IInv'
  <2>1. AttachInv'
    BY <1>1, AttachUnchanged DEF IInv, vars
  <2> QED BY <1>1, <2>1 DEF IInv, AttachInv, vars, attachVars, sleepVars, mainVars, TypeOK,
             SleepsInArm, NoCommandSince, NoChangeSince, ModeCompared, AttachesFirst,
             VbusPending, ConnectionState, ModeOf
<1> QED BY <1>1, InterruptInv, MainInv DEF Next

\* The invariant holds of every behaviour of the main loop.
THEOREM LoopInvariance == Spec => []IInv
  BY InitInv, NextInv, PTL DEF Spec

\* Every variable of the loop keeps its type (ordb3a_main.c, safesleep.h).
THEOREM LoopTypeCorrect == Spec => []TypeOK
<1>1. IInv => TypeOK  BY DEF IInv
<1> QED BY <1>1, LoopInvariance, PTL

\* safesleep.h keeps what its first lines promise: the main thread never goes
\* to sleep with an event it has not processed.
THEOREM NeverSleepsOnEvent == Spec => []NoSleepOnEvent
<1>1. IInv => NoSleepOnEvent
  <2> SUFFICES ASSUME IInv, lpm # "none", isr = "none"
               PROVE  ~bCommand /\ (seen = ConnectionState \/ VbusPending)
    BY DEF NoSleepOnEvent
  <2>1. pc = "arm" /\ SR_sleep = lpm
    BY DEF IInv, SleepsInArm
  <2>2. SR_sleep = ModeOf(seen)
    BY <2>1 DEF IInv, ModeCompared
  <2> QED BY <2>1, <2>2 DEF IInv, NoCommandSince, NoChangeSince
<1> QED BY <1>1, LoopInvariance, PTL

\* The workaround in set_sleep_mode works: the sleep mode is never that of an
\* earlier connection state.
THEOREM SleepModeIsRight == Spec => []SleepsInTheRightMode
<1>1. IInv => SleepsInTheRightMode
  BY DEF IInv, SleepsInArm, ModeCompared, SleepsInTheRightMode
<1> QED BY <1>1, LoopInvariance, PTL

\* The memory of the endpoints has its clock whenever the drivers take the bus
\* for up (usb.c, UsbIsr.c), but for the two cases the property names.
THEOREM MemoryAlwaysClocked == Spec => []MemoryIsClocked
<1>1. IInv => MemoryIsClocked
  BY ClockedMemory DEF IInv
<1> QED BY <1>1, LoopInvariance, PTL
=============================================================================
