----------------------------- MODULE HidReceive -----------------------------
(***************************************************************************)
(* Data from the host to the application over a HID OUT endpoint: the      *)
(* endpoint driver of UsbHid.c, iUsbInterruptHandler's endpoint case, the  *)
(* event flag USBHID_handleDataReceived sets, and the loop of main() that  *)
(* takes the data out with hidReceiveDataInBuffer.                         *)
(*                                                                         *)
(* The host, the USB interrupt and the main loop interleave.  The driver's *)
(* functions run with interrupts off, so each call is one action, but      *)
(* hidReceiveDataInBuffer is a loop of two such calls and can be           *)
(* interrupted between them.  The endpoint interrupt does not wait for the *)
(* main loop.  Bytes are named by the order in which the host sends them.  *)
(***************************************************************************)
EXTENDS UsbOutEp

CONSTANTS MaxBytes,  \* bound of the model: bytes the host sends
          MaxJunk    \* bound of the model: suspends that cut off a receive

ASSUME HidAssumption == Class = "HID"

VARIABLES
  ep,                \* the endpoint: registers, buffers and HidReadCtrl
  ifg,               \* the endpoint's bit in USBOEPIFG
  event,             \* bHIDDataReceived_event
  usb, susp,         \* bEnumerationStatus with VBUS, bFunctionSuspended
  pc,                \* where the main loop is: see TypeOK
  cur, asked,        \* hidReceiveDataInBuffer: currentPos, bytesInBuf
  sent,              \* history: bytes the host has sent
  got,               \* history: bytes hidReceiveDataInBuffer has returned
  stored             \* history: bytes the driver has stored for it

busVars == <<usb, susp>>
appVars == <<pc, cur, asked>>
vars == <<ep, ifg, event, busVars, appVars, sent, got, stored>>

Byte == Nat \ {Junk}

\* pc: in another part of the loop, in case ST_ENUM_ACTIVE, before the count,
\* between the count and the receive.
TypeOK ==
  /\ ep \in Endpoint(Byte)
  /\ ifg \in BOOLEAN /\ event \in BOOLEAN
  /\ usb \in {"off", "default", "configured"} /\ susp \in BOOLEAN
  /\ pc \in {"elsewhere", "active", "count", "receive"}
  /\ cur \in 0..MemSize /\ asked \in 0..2*EpSize
  /\ sent \in Nat /\ got \in Seq(Byte \cup {Junk}) /\ stored \in Seq(Byte)

Init ==
  /\ ep = ResetData(Cleared)
  /\ ifg = FALSE /\ event = FALSE /\ usb = "off" /\ susp = FALSE
  /\ pc = "elsewhere" /\ cur = 0 /\ asked = 0 /\ sent = 0 /\ got = <<>>
  /\ stored = <<>>

BusUp == usb = "configured" /\ ~susp

\* What hidReceiveDataInBuffer has counted as received.
Counted == got \o [i \in 1..cur |-> ep.mem[i - 1]]

\* What the driver of endpoint e has stored from place at on.
StoredFrom(at, e) == [i \in 1..e.dst - at |-> e.mem[at + i - 1]]
----------------------------------------------------------------------------
\* An OUT packet of n bytes arrives.
HostSends ==
  /\ BusUp /\ CanAccept(ep)
  /\ \E n \in 1..EpSize :
       /\ sent + n <= MaxBytes
       /\ ep' = Accept(ep, [i \in 1..n |-> sent + i])
       /\ sent' = sent + n
  /\ ifg' = TRUE
  /\ UNCHANGED <<event, busVars, appVars, got, stored>>

\* iUsbInterruptHandler, USBVECINT_OUTPUT_ENDPOINT2: an event when no receive
\* is open, otherwise more data for the open one (USBHID_handleDataReceived
\* again if some of it stays behind).
OepIsr ==
  /\ ifg /\ ifg' = FALSE
  /\ ep' = (IF ep.open THEN ToBufferFromHost(ep) ELSE ep)
  /\ event' = (event \/ ~ep.open \/ (ep.want > 0 /\ ep'.want = 0 /\ ep'.inEp > 0))
  /\ stored' = (IF ep.open THEN stored \o StoredFrom(ep.dst, ep') ELSE stored)
  /\ UNCHANGED <<busVars, appVars, sent, got>>
----------------------------------------------------------------------------
\* The main loop finds USB_connectionState() = ST_ENUM_ACTIVE.
EnterActive ==
  /\ pc = "elsewhere" /\ BusUp /\ pc' = "active"
  /\ UNCHANGED <<ep, ifg, event, busVars, cur, asked, sent, got, stored>>

\* if (bHIDDataReceived_event): the flag is cleared before the first receive.
TakeEvent ==
  /\ pc = "active" /\ event' = FALSE
  /\ pc' = (IF event THEN "count" ELSE "elsewhere")
  /\ UNCHANGED <<ep, ifg, busVars, cur, asked, sent, got, stored>>

\* Mutant of Again: one call of hidReceiveDataInBuffer for an event.
Again_Never(n) == "elsewhere"

\* do ... while (len), around hidReceiveDataInBuffer.
Again(n) == IF n > 0 THEN "count" ELSE "elsewhere"

\* hidReceiveDataInBuffer returns n bytes of the buffer to main().
Return(e, n) ==
  /\ ep' = [e EXCEPT !.mem = Cleared]
  /\ got' = got \o [i \in 1..n |-> e.mem[i - 1]]
  /\ pc' = Again(n)
  /\ cur' = 0

\* while (bytesInBuf = USBHID_bytesInUSBBuffer(intfNum))
Count ==
  /\ pc = "count"
  /\ asked' = (IF BusUp THEN BytesInUSBBuffer(ep) ELSE 0)
  /\ \/ asked' > 0 /\ pc' = "receive" /\ UNCHANGED <<ep, cur, got>>
     \/ asked' = 0 /\ Return(ep, cur)
  /\ UNCHANGED <<ifg, event, busVars, sent, stored>>

\* (WORD)(currentPos - dataBuf + bytesInBuf) <= size
Fits == cur + asked <= MemSize

\* USBHID_receiveData(currentPos, rxCount, intfNum).  Its result is ignored:
\* rxCount bytes count as received whether or not it has stored any.
Receive ==
  /\ pc = "receive"
  /\ LET rxCount == IF Fits THEN asked ELSE MemSize - cur
         may     == MayReceive(ep, rxCount, BusUp)
         e       == IF may THEN ReceiveData(ep, cur, rxCount) ELSE ep
     IN  /\ \/ Fits /\ ep' = e /\ cur' = cur + rxCount /\ pc' = "count" /\ UNCHANGED got
            \/ ~Fits /\ Return(e, cur + rxCount)
         /\ stored' = (IF may THEN stored \o StoredFrom(cur, e) ELSE stored)
  /\ UNCHANGED <<ifg, event, busVars, asked, sent>>
----------------------------------------------------------------------------
\* USB_reset with HidResetData; the event flag and the pending interrupt stay.
UsbReset ==
  /\ usb' = "default" /\ susp' = FALSE
  /\ ep' = ResetData(ep.mem)
  /\ UNCHANGED <<ifg, event, appVars, sent, got, stored>>

\* Bus reset; masked while suspended (USBIE = RESRIE).
BusReset == usb # "off" /\ ~susp /\ UsbReset

\* USB_handleVbusOnEvent: enable, reset, connect.
VbusOn == usb = "off" /\ UsbReset

\* PWRVBUSoffHandler: the module is switched off, nothing is cleaned up.
VbusOff ==
  /\ usb # "off" /\ usb' = "off" /\ susp' = FALSE
  /\ UNCHANGED <<ep, ifg, event, appVars, sent, got, stored>>

\* SET_CONFIGURATION.  The host needs milliseconds from a reset to here; the
\* main loop needs a few cycles from the count to the receive.
Enumerate ==
  /\ usb = "default" /\ ~susp /\ usb' = "configured"
  /\ pc # "receive"
  /\ UNCHANGED <<ep, ifg, event, susp, appVars, sent, got, stored>>

Suspend ==
  /\ usb # "off" /\ ~susp /\ susp' = TRUE
  /\ pc = "receive" => Len(Counted) - Len(stored) < MaxJunk
  /\ UNCHANGED <<ep, ifg, event, usb, appVars, sent, got, stored>>

Resume ==
  /\ susp /\ susp' = FALSE
  /\ UNCHANGED <<ep, ifg, event, usb, appVars, sent, got, stored>>

Bus == BusReset \/ VbusOn \/ VbusOff \/ Enumerate \/ Suspend \/ Resume

Next == \/ HostSends \/ OepIsr \/ EnterActive \/ TakeEvent \/ Count \/ Receive
        \/ Bus

Spec == Init /\ [][Next]_vars

\* A pending interrupt is taken, and the main loop goes round.  Receive is
\* enabled whenever pc is "receive" and is the only step that leaves it.
ReceiveReturns == pc = "receive" /\ pc' \in {"count", "elsewhere"}
Fairness == /\ WF_vars(OepIsr) /\ WF_vars(EnterActive) /\ WF_vars(TakeEvent)
            /\ WF_vars(Count) /\ WF_pc(ReceiveReturns)

FairSpec == Spec /\ Fairness
----------------------------------------------------------------------------
\* The data the host has sent and the application has not received yet.
Queue == IF usb = "configured" THEN Held(ep) ELSE <<>>

Channel == INSTANCE ByteChannel
             WITH queue <- Queue, delivered <- stored, up <- (usb = "configured")

\* The host-to-application path (UsbHid.c, hidReceiveDataInBuffer) is a
\* first-in first-out channel: however packets, interrupts and partial reads
\* of the two buffers interleave, the host's bytes are stored for the
\* application in order and once, and only leaving the configured state loses
\* any.
ImplementsChannel == Channel!Spec

\* USBHID_bytesInUSBBuffer returns what the two buffers hold, also when the
\* first or the second of them has been read in part.
CountExact == BytesInUSBBuffer(ep) = Len(Held(ep))

\* "no receive operation remains open after this call returns"
\* (usbConstructs.c:170): hidReceiveDataInBuffer never asks for more than
\* there is, so the interrupt never writes to a buffer that is gone.
NoOpenReceive == ~ep.open

\* bCurrentBufferXY follows the hardware toggle: buffers are read in the order
\* in which the host fills them, and a started buffer is the current one.
BuffersInStep ==
  /\ ep.full["X"] = ep.full["Y"] => ep.xy = ep.hw
  /\ ep.full["X"] # ep.full["Y"] => ep.full[ep.xy] /\ ep.hw = Other(ep.xy)
  /\ ep.inEp > 0 => ep.full[ep.xy] /\ ep.pos.buf = ep.xy /\ ep.ct1 = ep.xy

\* What hidReceiveDataInBuffer counts as received and returns is what the
\* driver has stored since: each byte of it, in order, and none overwritten
\* before it is returned.  Only a receive that finds the bus gone since the
\* count adds anything else (usbConstructs.c:183 and 187 ignore the result of
\* USBHID_receiveData): old contents of the buffer.
AddedTo(s, t) == SubSeq(t, Len(s) + 1, Len(t))
JunkOnlyWhenCut ==
  [][ /\ SubSeq(Counted', 1, Len(Counted)) = Counted
      /\ BusUp => AddedTo(Counted, Counted') = AddedTo(stored, stored')
      /\ ~BusUp => \A i \in DOMAIN AddedTo(Counted, Counted') :
                     AddedTo(Counted, Counted')[i] = Junk ]_vars

\* Once the host stays attached, whatever it has sent is received, unless a
\* suspend came between the look at the bus and the last receive of a round.
EverythingIsRead ==
  (<>[]BusUp /\ [](susp => pc = "elsewhere")) => <>[](Queue = <<>>)
============================================================================
