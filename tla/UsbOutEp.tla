------------------------------ MODULE UsbOutEp ------------------------------
(***************************************************************************)
(* The receive side of a double-buffered OUT endpoint: struct _HidRead and *)
(* struct _CdcRead with the functions of UsbHid.c and UsbCdc.c that work   *)
(* on them.  The two files hold the same code up to one point, which Class *)
(* selects: what happens to pCT1 and pCT2 after the second buffer was read.*)
(*                                                                         *)
(* An endpoint is a record, and an operator maps it to the record after    *)
(* the call.  full[b] is the NAK bit of bEPBCTb, data[b] the packet in the *)
(* buffer, hw the buffer the host's next OUT packet goes to; xy, ct1, ct2, *)
(* pos (pCurrentEpPos, a buffer and an offset), inEp (nBytesInEp), open    *)
(* (pUserBuffer # NULL), dst (where pUserBuffer points) and want           *)
(* (nBytesToReceiveLeft) are the driver's fields; mem is the memory of the *)
(* application that pUserBuffer points into.  pEP2 always goes with pCT2   *)
(* when it is read.                                                        *)
(***************************************************************************)
EXTENDS Integers, Sequences

CONSTANTS Class,     \* "HID" or "CDC"
          EpSize,    \* largest packet of the endpoint (64)
          MemSize    \* size of the application's buffer (64)

ASSUME ClassAssumption == Class \in {"HID", "CDC"}
ASSUME SizeAssumption == EpSize \in Nat /\ MemSize \in Nat

Buf == {"X", "Y"}
Other(b) == IF b = "X" THEN "Y" ELSE "X"
Junk == 0            \* whatever a byte nobody has written yet holds
Cleared == [i \in 0..MemSize-1 |-> Junk]

Endpoint(Byte) ==
  [full : [Buf -> BOOLEAN], data : [Buf -> Seq(Byte)], hw : Buf,
   xy : Buf, ct1 : Buf \cup {"NULL"}, ct2 : Buf \cup {"NULL"},
   pos : [buf : Buf, off : 0..EpSize], inEp : 0..EpSize,
   open : BOOLEAN, dst : 0..MemSize, want : 0..MemSize,
   mem : [0..MemSize-1 -> Byte \cup {Junk}]]

\* HidResetData, CdcResetData with the endpoint registers USB_reset writes.
\* pCurrentEpPos is NULL and is not read while nBytesInEp is 0.
ResetData(memory) ==
  [full |-> [b \in Buf |-> FALSE], data |-> [b \in Buf |-> <<>>], hw |-> "X",
   xy |-> "X", ct1 |-> "NULL", ct2 |-> "NULL",
   pos |-> [buf |-> "X", off |-> 0], inEp |-> 0,
   open |-> FALSE, dst |-> 0, want |-> 0, mem |-> memory]

\* The hardware accepts an OUT packet: possible while the buffer is free.
CanAccept(e) == ~e.full[e.hw]
Accept(e, packet) ==
  [e EXCEPT !.full[e.hw] = TRUE, !.data[e.hw] = packet, !.hw = Other(e.hw)]
----------------------------------------------------------------------------
SmallerOf(a, b) == IF a < b THEN a ELSE b

\* Mutant of GiveBack: bCurrentBufferXY is not changed.
GiveBack_NoToggle(e, ct) == [e EXCEPT !.inEp = 0, !.full[ct] = FALSE]

\* A buffer that was read to its end goes back to the hardware.
GiveBack(e, ct) == [e EXCEPT !.xy = Other(@), !.inEp = 0, !.full[ct] = FALSE]

\* Mutant of KeepRest: the position is not advanced.
KeepRest_SamePlace(e, p, n) == [e EXCEPT !.inEp = @ - n, !.pos = p]

\* A buffer that was not keeps its place.
KeepRest(e, p, n) ==
  [e EXCEPT !.inEp = @ - n, !.pos = [buf |-> p.buf, off |-> p.off + n]]

\* HidCopyUsbToBuff, CopyUsbToBuff: copy what fits from position p of the
\* buffer that the pCT argument belongs to.
CopyUsbToBuff(e, p, ct) ==
  LET n == SmallerOf(e.want, e.inEp)
      copied == [e EXCEPT
        !.mem = [i \in DOMAIN e.mem |->
                   IF i >= e.dst /\ i < e.dst + n
                   THEN e.data[p.buf][p.off + 1 + i - e.dst] ELSE e.mem[i]],
        !.want = @ - n, !.dst = @ + n]
  IN  IF n = e.inEp THEN GiveBack(copied, ct) ELSE KeepRest(copied, p, n)

Start(b) == [buf |-> b, off |-> 0]

\* Read buffer b from its beginning.
ReadBuffer(e, b) ==
  CopyUsbToBuff([e EXCEPT !.inEp = Len(e.data[b])], Start(b), b)

\* pUserBuffer = NULL once everything asked for has arrived.
Close(e) == IF e.want = 0 THEN [e EXCEPT !.open = FALSE] ELSE e

\* Mutant of HidSecondRead: the CDC code's form.
HidSecondRead_NoExchange(e) == [e EXCEPT !.ct1 = e.ct2]

\* After the second buffer was read, the HID code exchanges pCT1 and pCT2; the
\* CDC code, and both interrupt routines, only copy pCT2 to pCT1.
HidSecondRead(e) == [e EXCEPT !.ct1 = e.ct2, !.ct2 = e.ct1]
CdcSecondRead(e) == [e EXCEPT !.ct1 = e.ct2]
SecondRead(e) == IF Class = "HID" THEN HidSecondRead(e) ELSE CdcSecondRead(e)

\* Point at buffer b and at the other one behind it.
PointAt(e, b) == [e EXCEPT !.ct1 = b, !.ct2 = Other(b)]

\* "read 'fresh' data": the current buffer, then the other one.
ReadFresh(e) ==
  LET first  == ReadBuffer([PointAt(e, e.xy) EXCEPT !.pos = Start(e.xy)], e.xy)
      second == SecondRead(ReadBuffer(first, first.ct2))
  IN  CASE ~e.full[e.xy] -> e
        [] e.full[e.xy] /\ (first.want = 0 \/ ~first.full[first.ct2]) -> first
        [] OTHER -> second

\* Mutant of OtherBuffer: the CDC code's form for both.
OtherBuffer_OneMoved(e) ==
  [e EXCEPT !.ct1 = Other(@), !.pos = Start(Other(e.ct1))]

\* "check other EP buffer for data": the HID code exchanges pCT1 and pCT2, the
\* CDC code moves only pCT1.
OtherBuffer(e) ==
  [e EXCEPT !.ct1 = Other(@), !.ct2 = IF Class = "HID" THEN e.ct1 ELSE @,
            !.pos = Start(Other(e.ct1))]

\* "read rest of data from buffer, if any", then the other buffer.
ReadRest(e) ==
  LET rest == CopyUsbToBuff(e, e.pos, e.ct1)
      next == OtherBuffer(rest)
  IN  IF rest.want = 0 THEN rest
      ELSE IF next.full[next.ct1] THEN ReadBuffer(next, next.ct1) ELSE next

\* USBHID_receiveData, USBCDC_receiveData refuse to receive nothing, on a bus
\* that is not available, and while a receive is open.
MayReceive(e, size, available) == size > 0 /\ available /\ ~e.open

Begin(e, at, size) == [e EXCEPT !.open = TRUE, !.want = size, !.dst = at]

\* What they do otherwise, with size bytes for address at: the rest of a
\* started buffer first, then fresh data.  The operation stays open when there
\* is less data than asked for.
ReceiveData(e, at, size) ==
  LET begun == Begin(e, at, size)
      rest  == IF begun.inEp > 0 THEN ReadRest(begun) ELSE begun
  IN  Close(IF rest.want = 0 THEN rest ELSE ReadFresh(rest))

NothingArrived(e) == \A b \in Buf : ~e.full[b]

\* HidToBufferFromHost, CdcToBufferFromHost: the USB interrupt goes on with an
\* open receive.
ToBufferFromHost(e) ==
  LET first  == ReadBuffer(PointAt(e, e.xy), e.xy)
      second == CdcSecondRead(ReadBuffer(first, first.ct2))
  IN  CASE e.want = 0 -> [e EXCEPT !.open = FALSE]
        [] e.want > 0 /\ NothingArrived(e) -> e
        [] e.want > 0 /\ ~e.full[e.xy] /\ e.full[Other(e.xy)] -> PointAt(e, e.xy)
        [] OTHER -> Close(IF first.want > 0 /\ first.full[first.ct2]
                          THEN second ELSE first)

\* USBHID_bytesInUSBBuffer, USBCDC_bytesInUSBBuffer on a bus that is up.
BytesInUSBBuffer(e) ==
  LET held(b) == IF e.full[b] THEN Len(e.data[b]) ELSE 0
  IN  IF e.inEp > 0 THEN e.inEp + held(e.ct2) ELSE held("X") + held("Y")

\* The bytes the endpoint really holds, oldest first: the rest of a started
\* buffer or the whole current one, then the other one.
Held(e) ==
  LET packet(b) == IF e.full[b] THEN e.data[b] ELSE <<>>
      current   == IF e.inEp > 0
                   THEN SubSeq(e.data[e.pos.buf], e.pos.off + 1, e.pos.off + e.inEp)
                   ELSE packet(e.xy)
  IN  current \o packet(Other(e.xy))
============================================================================
