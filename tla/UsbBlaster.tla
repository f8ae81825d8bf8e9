----------------------------- MODULE UsbBlaster -----------------------------
(***************************************************************************)
(* The USB Blaster protocol of jtag.c: usbblaster_process_buffer, which    *)
(* works on the buffers main() receives, with usbblaster_byte and the SPI  *)
(* shift it uses.                                                          *)
(*                                                                         *)
(* The host's byte stream comes in buffers cut anywhere.  The results are  *)
(* written over the input in the same buffer, and usb_jtag_state carries   *)
(* what is pending from one buffer to the next.  The pins of the port go   *)
(* back and forth between P4OUT and the SPI unit.                          *)
(*                                                                         *)
(* A byte is a record of the bits a command byte has: byte mode, read, and *)
(* the low bits, a count or the levels of TCK and TDI.  Shifted as data,   *)
(* its low two bits stand for its eight.  TDO is known by the number of    *)
(* clocks the chain has had when it is sampled.  TMS is not followed: pins *)
(* commands set it with TDI, and the SPI unit does not have its pin.       *)
(***************************************************************************)
EXTENDS Naturals, Sequences

CONSTANTS BufSize,       \* MAX_STR_LENGTH, size of pieceOfString (64)
          MaxShift,      \* most bytes a command can shift (63)
          MaxBytes       \* bound of the model: bytes the host sends

ASSUME SizeAssumption ==
  BufSize \in Nat \ {0} /\ MaxShift \in Nat /\ MaxBytes \in Nat

VARIABLES
  bytes_to_shift, read,  \* usb_jtag_state
  buf, len,              \* pieceOfString
  i, o,                  \* usbblaster_process_buffer: consumed, produced
  ret, done,             \* jtag_shift_bytes_start: its length, 0 when it is not
                         \* running, and the bytes it has shifted
  port,                  \* P4OUT, P4SEL and the SPI unit; history: TDI at each
                         \* clock
  stream,                \* history: what the host has sent
  returned,              \* history: what the host has been sent
  ref                    \* history: a device without buffers after the same bytes

vars == <<bytes_to_shift, read, buf, len, i, o, ret, done, port, stream, returned, ref>>

\* A byte of the host: byte mode with a count, or pins, each with or without
\* a result (bits 7, 6 and the low ones).
Byte == [shift : BOOLEAN, read : BOOLEAN, low : 0..MaxShift]
Bit(b, weight) == (b.low \div weight) % 2
Tck(b) == Bit(b, 1)
Tdi(b) == Bit(b, 2)
Bits(b) == <<Bit(b, 1), Bit(b, 2)>>          \* LSB first

\* TDO sampled after so many clocks, for one bit or the bits of a byte;
\* usbblaster_byte also returns a constant zero.
Sample(clocks) == [tdo |-> clocks + 1]
Zero == [tdo |-> 0]

SmallerOf(a, b) == IF a < b THEN a ELSE b
----------------------------------------------------------------------------
(* The port.  sel: TCK, TDI and TDO belong to the SPI unit, which drives   *)
(* sck and simo.                                                           *)
TckLevel(p) == IF p.sel THEN p.sck ELSE p.tck
TdiLevel(p) == IF p.sel THEN p.simo ELSE p.tdi

\* What the JTAG chain sees of a change of the port: a rising TCK.
Seen(p, q) == IF TckLevel(p) = 0 /\ TckLevel(q) = 1
              THEN [q EXCEPT !.clocks = Append(@, TdiLevel(q))] ELSE q

\* jtag_init
JtagInit == [tck |-> 0, tdi |-> 1, sel |-> FALSE, sck |-> 0, simo |-> 0,
             clocks |-> <<>>]

\* pulse_tck, of the XSVF player: "Pulse TCK low (this is odd, as it idles low
\* in spec)", and leave it high.
PulseTck(p, tdi) ==
  LET low == Seen(p, [p EXCEPT !.tdi = tdi, !.tck = 0])
  IN  Seen(low, [low EXCEPT !.tck = 1])

\* P4OUT = (P4OUT&mask)|set
SetPins(p, b) == Seen(p, [p EXCEPT !.tck = Tck(b), !.tdi = Tdi(b)])

\* jtag_spi_on: the unit's clock idles low.
SpiOn(p) == Seen(p, [p EXCEPT !.sel = TRUE, !.sck = 0])

\* A byte in UCB1TXBUF: SIMO changes while the clock is low, TDO is sampled
\* when it rises.
SpiByte(p, b) ==
  LET Clock(q, bit) ==
        LET up == Seen(q, [q EXCEPT !.sck = 1, !.simo = bit])
        IN  [up EXCEPT !.sck = 0]
  IN  Clock(Clock(p, Bit(b, 1)), Bit(b, 2))

\* Mutant of SpiOff: the pins go back to what P4OUT holds.
SpiOff_KeepsOut(p) == Seen(p, [p EXCEPT !.sel = FALSE])

\* jtag_spi_off: "Update drive values to current levels", then "revert pins to
\* GPIO".
SpiOff(p) ==
  LET held == [p EXCEPT !.tck = TckLevel(p), !.tdi = TdiLevel(p)]
  IN  Seen(held, [held EXCEPT !.sel = FALSE])
----------------------------------------------------------------------------
(* The protocol, byte by byte, as the device usbjtag.c describes does it     *)
(* (jtag.c:67-101): what one byte does to a state that has no buffers.       *)
(* Every bit of a shift is a clock, even of one that begins with TCK high.   *)
Blaster(s, b) ==
  CASE s.left > 0 ->
         [s EXCEPT !.left = @ - 1, !.tck = 0, !.clocks = @ \o Bits(b),
                   !.out = IF s.read THEN Append(@, Sample(Len(s.clocks))) ELSE @]
    [] s.left = 0 /\ b.shift ->
         [s EXCEPT !.left = b.low, !.read = b.read,
                   !.out = IF b.read /\ b.low = 0 THEN Append(@, Zero) ELSE @]
    [] OTHER ->
         [s EXCEPT !.read = b.read, !.tck = Tck(b),
                   !.clocks = IF s.tck = 0 /\ Tck(b) = 1 THEN Append(@, Tdi(b)) ELSE @,
                   !.out = IF b.read THEN Append(@, Sample(Len(s.clocks))) ELSE @]

\* It takes the next byte of the host's, not what is in the buffer by now.
FollowReference == ref' = Blaster(ref, stream[Len(stream) - len + i + done + 1])
----------------------------------------------------------------------------
\* jtag_init, and before the first session maybe the XSVF player.
Init ==
  /\ bytes_to_shift = 0 /\ read = FALSE
  /\ buf = <<>> /\ len = 0 /\ i = 0 /\ o = 0 /\ ret = 0 /\ done = 0
  /\ \E p \in {JtagInit, PulseTck(JtagInit, 0)} : port = [p EXCEPT !.clocks = <<>>]
  /\ stream = <<>> /\ returned = <<>>
  /\ ref = [left |-> 0, read |-> FALSE, tck |-> TckLevel(port), clocks |-> <<>>,
            out |-> <<>>]

\* hidReceiveDataInBuffer gives main() the next bytes of the stream; it sends
\* the results of the ones before first.
NextBuffer ==
  /\ i = len /\ ret = 0
  /\ returned' = returned \o SubSeq(buf, 1, o)
  /\ \E n \in 1..BufSize :
       /\ Len(stream) + n <= MaxBytes
       /\ \E b \in [1..n -> Byte] : buf' = b /\ len' = n /\ stream' = stream \o b
  /\ i' = 0 /\ o' = 0
  /\ UNCHANGED <<bytes_to_shift, read, ret, done, port, ref>>

\* usb_jtag_state.read && !(usb_jtag_state.bytes_to_shift && !bts)
Returns(b) == b.read /\ ~(b.shift /\ b.low > 0)

\* Nothing is being shifted: usbblaster_byte takes a command, which either
\* begins a shift or sets the pins and reads TDO.
CommandByte ==
  /\ i < len /\ bytes_to_shift = 0
  /\ LET b == buf[i+1]
     IN  /\ read' = b.read
         /\ bytes_to_shift' = (IF b.shift THEN b.low ELSE 0)
         /\ port' = (IF b.shift THEN port ELSE SetPins(port, b))
         /\ i' = i + 1
         /\ IF Returns(b)
            THEN /\ buf' = [buf EXCEPT ![o+1] = IF b.shift THEN Zero
                                               ELSE Sample(Len(port.clocks))]
                 /\ o' = o + 1
            ELSE UNCHANGED <<buf, o>>
  /\ FollowReference
  /\ UNCHANGED <<len, ret, done, stream, returned>>

\* len-i>bts ? bts : len-i
ShiftSize == SmallerOf(len - i, bytes_to_shift)

\* jtag_shift_bytes_start(buf+i, buf+o, ret) begins.
StartShift ==
  /\ i < len /\ bytes_to_shift > 0 /\ ret = 0
  /\ ret' = ShiftSize
  /\ port' = SpiOn(port)
  /\ UNCHANGED <<bytes_to_shift, read, buf, len, i, o, done, stream, returned, ref>>

\* while (len--): one byte to the SPI unit, and its result over the buffer at
\* the place of the results whether or not anyone wants it.
ShiftByte ==
  /\ done < ret
  /\ port' = SpiByte(port, buf[i+done+1])
  /\ buf' = [buf EXCEPT ![o+done+1] = Sample(Len(port.clocks))]
  /\ done' = done + 1
  /\ FollowReference
  /\ UNCHANGED <<bytes_to_shift, read, len, i, o, ret, stream, returned>>

\* Mutant of Produced: the results of a write are kept.
Produced_Always(n) == o + n

\* if (usb_jtag_state.read) o+=ret
Produced(n) == IF read THEN o + n ELSE o

\* jtag_shift_bytes_finish, and what was shifted is counted.
FinishShift ==
  /\ ret > 0 /\ done = ret
  /\ port' = SpiOff(port)
  /\ o' = Produced(ret) /\ i' = i + ret
  /\ bytes_to_shift' = bytes_to_shift - ret
  /\ ret' = 0 /\ done' = 0
  /\ UNCHANGED <<read, buf, len, stream, returned, ref>>

Next == NextBuffer \/ CommandByte \/ StartShift \/ ShiftByte \/ FinishShift

Spec == Init /\ [][Next]_vars
----------------------------------------------------------------------------
\* However the stream is cut into buffers, the JTAG chain is clocked as by a
\* device that takes it byte by byte: each bit of a shift once and each rise of
\* TCK in a pins command, with the host's TDI, and never by the pins going to
\* the SPI unit and back.  No byte of a shift is taken for a command or the
\* other way round, and no result is written over input not used yet.
SameClocks == port.clocks = ref.clocks

\* The host gets the result of every operation it asked one of, in order, and
\* nothing else, however the stream is cut into buffers.
SameResults == ret = 0 => returned \o SubSeq(buf, 1, o) = ref.out
============================================================================
