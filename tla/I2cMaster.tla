------------------------------ MODULE I2cMaster ------------------------------
(***************************************************************************)
(* The software I2C master (swi2cmst.c) bit by bit, the register access of *)
(* the power chip on top of it (tps65217.c), and the chip at the other end *)
(* of the two wires.  Both wires are open drain: a wire is high when       *)
(* nobody pulls it low.                                                    *)
(*                                                                         *)
(* A function of the master maps the bus before a call to the bus after    *)
(* it: the levels the master gives its pins, the chip, and the local       *)
(* variable into which bits are read.                                      *)
(***************************************************************************)
EXTENDS Integers, Sequences

Byte == 0..255
SlaveAddr == 36           \* TPS65217_SLAVEADDR
ChipIds == {112, 240}     \* the chip numbers A and B, in the upper half

\* The registers used, and some of their bits
CHIPID == 0
PASSWORD == 11
DEFDCDC1 == 14
DEFDCDC2 == 15
DEFDCDC3 == 16
DEFSLEW == 17
DEFLDO1 == 18
DEFLDO2 == 19
DEFLS1 == 20
DEFLS2 == 21
ENABLE == 22
SEQ6 == 30
Registers == {CHIPID, PASSWORD} \cup DEFDCDC1..ENABLE \cup {SEQ6}
Converters == {DEFDCDC1, DEFDCDC2, DEFDCDC3}
GO == 128
SEQDWN == 2
SEQUP == 4

\* Bit i of a byte, the one sent first being bit 1; x & SWI2CMST_MSB_MASK in turn i
Weight == <<128, 64, 32, 16, 8, 4, 2, 1>>
Bit(x, i) == (x \div Weight[i]) % 2

\* TPS65217_PASSWORD_VALUE^(reg): of the bits of 125 only the sixth from below
\* is not set among the lower seven
Key(reg) == LET flipped == (reg \div 128) * 128 + 127 - (reg % 128)
            IN  IF Bit(reg, 7) = 1 THEN flipped + 2 ELSE flipped - 2
----------------------------------------------------------------------------
(* The registers of the chip.  ptr: the one the next byte is for; unlocked,  *)
(* pass: where a protected write is; active: voltages of the converters;     *)
(* rails: what the sequencer last did.                                       *)

\* A register takes a value: level 2 protected ones after two equal writes,
\* each after its password, SEQ6 after one
TakeValue(t, reg, v) ==
  LET e == [t EXCEPT !.regs[reg] = v]
  IN CASE reg = DEFSLEW /\ v >= GO -> [e EXCEPT !.regs[reg] = v - GO,
                                         !.active = [r \in Converters |-> t.regs[r]]]
       [] reg = SEQ6 /\ v = SEQUP  -> [e EXCEPT !.rails = "on"]
       [] reg = SEQ6 /\ v = SEQDWN -> [e EXCEPT !.rails = "off"]
       [] OTHER -> e
WriteReg(t, reg, v) ==
  LET shut == [t EXCEPT !.unlocked = -1]
  IN CASE reg = PASSWORD ->
            [t EXCEPT !.unlocked = Key(v),
                      !.pass = IF t.pass # <<>> /\ t.pass[1] = Key(v) THEN t.pass ELSE <<>>]
       [] reg = SEQ6 /\ t.unlocked = reg -> TakeValue(shut, reg, v)
       [] reg \in DEFDCDC1..ENABLE /\ t.unlocked = reg ->
            IF t.pass = <<reg, v>> THEN TakeValue([shut EXCEPT !.pass = <<>>], reg, v)
                                   ELSE [shut EXCEPT !.pass = <<reg, v>>]
       [] OTHER -> [shut EXCEPT !.pass = <<>>]
ValueAt(t) == IF t.ptr \in Registers THEN t.regs[t.ptr] ELSE 0
----------------------------------------------------------------------------
(* The chip.  ph: what the byte on the wires is to it; n: bits of it so far; *)
(* drive: what it does to SDA; refuse: the acknowledge it will fail to give  *)
(* (0: none); tps: its registers.                                            *)
ChipAt(ph, n, byte, drive, acking, refuse, tps) ==
  [ph |-> ph, n |-> n, byte |-> byte, drive |-> drive, acking |-> acking,
   refuse |-> refuse, tps |-> tps]

SendBit(c, x, i) == ChipAt("send", i, x, Bit(x, i), FALSE, c.refuse, c.tps)
Receive(c, ph) == ChipAt(ph, 0, 0, 1, FALSE, c.refuse, c.tps)

\* What it does with a byte it acknowledges
Acknowledged(c) ==
  CASE c.ph = "reg"  -> [c.tps EXCEPT !.ptr = c.byte]
    [] c.ph = "data" -> WriteReg(c.tps, c.tps.ptr, c.byte)
    [] OTHER         -> c.tps
Accepts(c) == c.refuse # 1 /\ (c.ph = "addr" => c.byte \div 2 = SlaveAddr)
NextPhase(c) ==
  CASE c.ph = "addr" /\ c.byte % 2 = 1 -> SendBit(c, ValueAt(c.tps), 1)
    [] c.ph = "addr" /\ c.byte % 2 = 0 -> Receive(c, "reg")
    [] OTHER                           -> Receive(c, "data")

Receiving == {"addr", "reg", "data"}
SclFalls(c) ==
  LET left == IF c.refuse > 0 THEN c.refuse - 1 ELSE 0
  IN CASE c.ph \in Receiving /\ c.acking -> NextPhase(c)
       [] c.ph \in Receiving /\ ~c.acking /\ c.n = 8 ->
            IF Accepts(c) THEN ChipAt(c.ph, 8, c.byte, 0, TRUE, left, Acknowledged(c))
                          ELSE ChipAt("deaf", 8, c.byte, 1, FALSE, left, c.tps)
       [] c.ph = "send" /\ ~c.acking /\ c.n < 8 -> SendBit(c, c.byte, c.n + 1)
       [] c.ph = "send" /\ ~c.acking /\ c.n = 8 ->
            ChipAt("send", 8, c.byte, 1, TRUE, c.refuse, c.tps)
       [] c.ph = "send" /\ c.acking -> SendBit(c, ValueAt(c.tps), 1)
       [] OTHER -> c
SclRises(c, sda) ==
  CASE c.ph \in Receiving /\ ~c.acking ->
         ChipAt(c.ph, c.n + 1, 2 * c.byte + sda, c.drive, FALSE, c.refuse, c.tps)
    [] c.ph = "send" /\ c.acking /\ sda = 1 ->
         ChipAt("deaf", 8, c.byte, 1, FALSE, c.refuse, c.tps)
    [] OTHER -> c
\* SDA changes while SCL is high: a START or a STOP
SdaFalls(c) == Receive(c, "addr")
SdaRises(c) == ChipAt("idle", 0, 0, 1, FALSE, 0, c.tps)
----------------------------------------------------------------------------
(* The wires and what the master does to them.  in: the bits read so far *)

Wires(scl, sda, c, in) == [scl |-> scl, sda |-> sda, chip |-> c, in |-> in]
OnBus(c) == Wires(1, 1, c, 0)                                 \* swi2cmst_init
Sda(b) == IF b.sda = 0 \/ b.chip.drive = 0 THEN 0 ELSE 1    \* SWI2CMST_SDA_GET
Reads(b, in) == Wires(b.scl, b.sda, b.chip, in)

SclLo(b) == IF b.scl = 0 THEN b ELSE Wires(0, b.sda, SclFalls(b.chip), b.in)
SclHi(b) == IF b.scl = 1 THEN b ELSE Wires(1, b.sda, SclRises(b.chip, Sda(b)), b.in)
SdaSet(b, v) ==
  LET e == Wires(b.scl, v, b.chip, b.in)
  IN CASE b.scl = 1 /\ Sda(b) = 1 /\ Sda(e) = 0 -> Wires(1, v, SdaFalls(b.chip), b.in)
       [] b.scl = 1 /\ Sda(b) = 0 /\ Sda(e) = 1 -> Wires(1, v, SdaRises(b.chip), b.in)
       [] OTHER -> e
----------------------------------------------------------------------------
(* swi2cmst.c *)

SendStart(b) == SclLo(SdaSet(SclHi(SdaSet(b, 1)), 0))
SendStop(b) == SdaSet(SclHi(SdaSet(b, 0)), 1)
WrBit(b, v) == SclLo(SclHi(SdaSet(b, v)))
RdBit(b) == LET h == SclHi(b) IN SclLo(Reads(h, 2 * h.in + Sda(h)))

\* The loops of eight bits and of ten STOPs, written out
WrTwo(b, x, i) == WrBit(WrBit(b, Bit(x, i)), Bit(x, i + 1))
WrByte(b, x) == SdaSet(WrTwo(WrTwo(WrTwo(WrTwo(b, x, 1), x, 3), x, 5), x, 7), 1)
RdTwo(b) == RdBit(RdBit(b))
RdByte(b) == RdTwo(RdTwo(RdTwo(RdTwo(Reads(b, 0)))))
WrNack(b) == WrBit(b, 1)
RdAck(b) == RdBit(Reads(b, 0))
ClearOnce(b) == SendStop(SclLo(b))
ClearTwo(b) == ClearOnce(ClearOnce(b))
\* Mutant of ClrBus: the nine STOPs that the comment asks for.
ClrBus_Nine(b) == ClearTwo(ClearTwo(ClearTwo(ClearTwo(ClearOnce(b)))))
\* swi2cmst_clrbus: "At least nine STOPs, to release potentially hung slaves"
ClrBus(b) == ClearTwo(ClearTwo(ClearTwo(ClearTwo(ClearTwo(b)))))

\* if (result==SWI2CMST_OK || SWI2CMST_IGNORE_NAK), after an acknowledge was read
IgnoreNak == TRUE
Goes(b) == b.in = 0 \/ IgnoreNak
Address(b, rw) == WrByte(SendStart(b), SlaveAddr * 2 + rw)
Write(b, x) == IF Goes(b) THEN RdAck(WrByte(b, x)) ELSE b
AddressAgain(b) == IF Goes(b) THEN RdAck(Address(b, 1)) ELSE b
Finish(b) == [chip |-> SendStop(b).chip, result |-> b.in]
\* The result is the one before the byte was read
ReadAndFinish(b) ==
  LET d == IF Goes(b) THEN WrNack(RdByte(b)) ELSE b
  IN [chip |-> SendStop(d).chip, result |-> b.in, data |-> d.in]

\* swi2cmst_wr2: the chip after it, and the result
Wr2(c, x, y) == Finish(Write(Write(RdAck(Address(OnBus(c), 0)), x), y))

\* swi2cmst_wr1rd1: the chip after it, the result and the byte
Wr1Rd1(c, x) == ReadAndFinish(AddressAgain(Write(RdAck(Address(OnBus(c), 0)), x)))

\* swi2cmst_init and swi2cmst_clrbus; the chip may hold SDA
Cleared(c) == ClrBus(OnBus(c)).chip
----------------------------------------------------------------------------
(* tps65217.c *)
WrReg(c, reg, v) == Wr2(c, reg, v)
RdReg(c, reg)    == Wr1Rd1(c, reg)
=============================================================================
