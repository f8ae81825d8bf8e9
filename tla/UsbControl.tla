----------------------------- MODULE UsbControl -----------------------------
(***************************************************************************)
(* Endpoint 0: control transfers.  iUsbInterruptHandler with its setup and *)
(* endpoint 0 cases (UsbIsr.c), the request list (descriptors.c) and the   *)
(* requests themselves (usb.c, UsbCdc.c, descriptors.c), against a host    *)
(* that may give up a transfer at any time and begin another.              *)
(*                                                                         *)
(* The interrupt routine is cut where it looks at or clears a flag, as the *)
(* USB module takes setup packets at any time: while SETUPIFG is set it    *)
(* answers NAK to everything else on endpoint 0, a further setup packet    *)
(* overwrites tSetupPacket and sets STPOWIFG.  A setup packet clears the   *)
(* stall of endpoint 0; a transaction sets the NAK bit of its direction    *)
(* and its interrupt flag.  Descriptors are numbered bytes.                *)
(***************************************************************************)
EXTENDS Integers, Sequences

CONSTANTS PacketSize,      \* EP0_PACKET_SIZE (8)
          DescriptorSize,  \* sizes of the three kinds of descriptors
          LineSize,        \* bytes of a line coding (7)
          Asked,           \* the wLength of the host's GET_DESCRIPTORs
          MaxRequests      \* bound of the model: setup packets

DescriptorKinds == {"GetDeviceDescriptor", "GetConfigurationDescriptor",
                    "GetStringDescriptor"}

ASSUME ControlSizes ==
  /\ PacketSize \in Nat \ {0} /\ LineSize \in 1..PacketSize
  /\ DescriptorSize \in [DescriptorKinds -> Nat \ {0}] /\ Asked \subseteq Nat \ {0}

VARIABLES
  d,             \* the device: see TypeOK
  setup,         \* tSetupPacket, and what the host is asking for
  setupIfg, stpowIfg,   \* SETUPIFG, STPOWIFG of USBIFG
  iepIfg, oepIfg,       \* bit 0 of USBIEPIFG, USBOEPIFG
  isr, fn,       \* where the interrupt routine is; the request function found
  nested,        \* it handles the setup packet from its vector
  power,         \* "off", "on", or "bsl": gone to the boot loader
  host,          \* where the host is in the transfer: "idle", "data", "status"
  got,           \* bytes of the data stage it has read
  believes,      \* history: what the settings may be, as far as it knows
  late,          \* history: setup came with an endpoint 0 interrupt pending
  overrun,       \* history: setup came while another was being handled
  armed,         \* history: setup came with a packet left to be read
  requests       \* setup packets so far

flagVars == <<setupIfg, stpowIfg, iepIfg, oepIfg>>
isrVars  == <<isr, fn, nested>>
hostVars == <<host, got, believes, late, overrun, armed, requests>>
controlVars == <<d, setup, flagVars, isrVars, power, hostVars>>
----------------------------------------------------------------------------
NoData == -1                          \* NO_MORE_DATA
Endpoints == {"ep0", "in", "out"}     \* the supported ones; "none" is another

Req(kind, val, idx, len) == [kind |-> kind, val |-> val, idx |-> idx, len |-> len]

\* The requests the host may make, one or more for every entry of
\* tUsbRequestList, and some that match none ("Other").  Of wValue, wIndex and
\* wLength only the values the entries and functions tell apart.
Reads ==
  {Req(k, 0, "ep0", n) : k \in DescriptorKinds, n \in Asked}
    \cup {Req("GetConfiguration", 0, "ep0", 1), Req("GetInterface", 0, "ep0", 1),
          Req("GetDeviceStatus", 0, "ep0", 2), Req("GetInterfaceStatus", 0, "ep0", 2),
          Req("GetLineCoding", 0, "ep0", LineSize),
          Req("GetLatencyTimer", 0, "ep0", 1), Req("OtherRead", 0, "ep0", 2)}
    \cup {Req("GetEndpointStatus", 0, e, 2) : e \in Endpoints \cup {"none"}}

\* Control writes; wLength counts bytes to the device.
Writes ==
  {Req(k, v, "ep0", 0) : k \in {"SetAddress", "SetConfiguration", "SetLatencyTimer"},
                         v \in 0..2}
    \cup {Req("SetInterface", 0, "in", 0), Req("SetInterface", 0, "ep0", 0),
          Req("SetVendor", 0, "ep0", 0), Req("SetControlLineState", 1, "ep0", 0),
          Req("ClearDeviceFeature", 1, "ep0", 0), Req("OtherWrite", 0, "ep0", 0)}
    \cup {Req("SetDeviceFeature", v, "ep0", 0) : v \in 1..2}
    \cup {Req("SetEndpointFeature", v, e, 0) : v \in 0..1, e \in Endpoints \cup {"none"}}
    \cup {Req("ClearEndpointFeature", 0, e, 0) : e \in Endpoints \cup {"none"}}
    \cup {Req("SetLineCoding", v, "ep0", LineSize) : v \in 1..2}

Requests == Reads \cup Writes
IsRead(r) == r \in Reads

\* tUsbRequestList: the first entry whose compared bytes are those of the
\* packet.  The kinds stand for the entries; one shadows part of a later one.
Entry(r) == IF r = Req("SetDeviceFeature", 1, "ep0", 0)
            THEN "DisconnectThenBSL" ELSE r.kind

Settings == [cfg : 0..2, enum : BOOLEAN, ifn : Endpoints, halted : SUBSET Endpoints,
             line : 0..2, latency : 0..2, rwu : BOOLEAN, addr : 0..2]

\* d: the registers of endpoint 0 (NAK, packet, stall of either direction),
\* the state of the control transfer (bStatusAction, wBytesRemainingOnIEP0,
\* pbIEP0Buffer, bHostAskMoreDataThanAvailable, wBytesRemainingOnOEP0,
\* abUsbRequestIncomingData) and what the requests set.
TypeOK ==
  /\ d.nakIn \in BOOLEAN /\ d.nakOut \in BOOLEAN
  /\ d.stallIn \in BOOLEAN /\ d.stallOut \in BOOLEAN
  /\ d.dataIn \in Seq(Nat) /\ Len(d.dataIn) <= PacketSize /\ d.dataOut \in Seq(Nat)
  /\ d.action \in {"nothing", "in", "out"} /\ d.left \in Nat \cup {NoData}
  /\ d.src \in Seq(Nat) /\ d.more \in BOOLEAN
  /\ d.outLeft \in Nat /\ d.incoming \in Seq(Nat) /\ d.set \in Settings
  /\ setup \in Requests /\ isr \in {"none", "decode", "process", "recheck", "clear", "vector"}
  /\ host \in {"idle", "data", "status"} /\ power \in {"off", "on", "bsl"}

\* bEnumerationStatus, bConfigurationNumber, bInterfaceNumber, stall bits, ...
\* after CdcResetData and USB_reset.  TA1CCR0, the latency, is left alone.
ResetSettings(latency) ==
  [cfg |-> 0, enum |-> FALSE, ifn |-> "ep0", halted |-> {}, line |-> 0,
   latency |-> latency, rwu |-> FALSE, addr |-> 0]

ResetDevice(latency) ==
  [nakIn |-> TRUE, nakOut |-> TRUE, stallIn |-> TRUE, stallOut |-> TRUE,
   dataIn |-> <<>>, dataOut |-> <<>>, action |-> "nothing", left |-> NoData,
   src |-> <<>>, more |-> FALSE, outLeft |-> 0, incoming |-> <<>>,
   set |-> ResetSettings(latency)]

ControlInit ==
  /\ d = ResetDevice(0) /\ setup = Req("OtherWrite", 0, "ep0", 0)
  /\ setupIfg = FALSE /\ stpowIfg = FALSE /\ iepIfg = FALSE /\ oepIfg = FALSE
  /\ isr = "none" /\ fn = "none" /\ nested = FALSE /\ power = "off"
  /\ host = "idle" /\ got = <<>>
  /\ believes = {ResetSettings(0)} /\ late = FALSE /\ overrun = FALSE /\ armed = FALSE
  /\ requests = 0
----------------------------------------------------------------------------
LesserOf(a, b) == IF a < b THEN a ELSE b

\* usbClearOEP0ByteCount: ready for the next OUT packet.
ClearOEP0(dev) == [dev EXCEPT !.nakOut = FALSE, !.dataOut = <<>>]

StallOEP0(dev)      == [dev EXCEPT !.stallOut = TRUE]
StallEndpoint0(dev) == [dev EXCEPT !.stallIn = TRUE, !.stallOut = TRUE]

\* Mutant of LastPacket: no empty packet after a last full one.
LastPacket_Full(dev) == dev.left <= PacketSize

\* A short packet ends the data stage, or a full one if the host has asked for
\* no more than there is.
LastPacket(dev) == dev.left < PacketSize \/ (dev.left = PacketSize /\ ~dev.more)

\* usbSendNextPacketOnIEP0
SendNextPacket(dev) ==
  LET n == LesserOf(dev.left, PacketSize)
  IN  IF dev.left = NoData THEN [dev EXCEPT !.action = "nothing"]
      ELSE [dev EXCEPT
              !.left = IF LastPacket(dev) THEN NoData ELSE @ - n,
              !.action = IF LastPacket(dev) THEN "nothing" ELSE "in",
              !.nakIn = FALSE, !.dataIn = SubSeq(dev.src, 1, n),
              !.src = SubSeq(@, n + 1, Len(@))]

\* usbSendDataPacketOnEP0, wBytesRemainingOnIEP0 being the size of data.
SendData(dev, data) ==
  SendNextPacket([dev EXCEPT !.src = data, !.left = LesserOf(Len(data), setup.len),
                             !.more = Len(data) < setup.len])

Reply(dev, data) == SendData(ClearOEP0(dev), data)

\* usbSendZeroLengthPacketOnIEP0: the status stage of a control write.
Acknowledge(dev) == [dev EXCEPT !.left = NoData, !.action = "nothing",
                                !.nakIn = FALSE, !.dataIn = <<>>]

\* usbReceiveDataPacketOnEP0
ReceiveData(dev) == ClearOEP0([dev EXCEPT !.outLeft = setup.len, !.action = "out",
                                          !.incoming = <<>>])

\* usbReceiveNextPacketOnOEP0
ReceiveNextPacket(dev) ==
  LET rest  == dev.outLeft - Len(dev.dataOut)
      taken == [dev EXCEPT !.incoming = @ \o dev.dataOut, !.outLeft = rest]
  IN  IF rest > 0 THEN ClearOEP0(taken)
      ELSE StallOEP0([(IF rest = 0 THEN taken ELSE dev) EXCEPT !.action = "nothing"])
----------------------------------------------------------------------------
Descriptor(kind) == [i \in 1..DescriptorSize[kind] |-> i]
AsBit(b) == IF b THEN 1 ELSE 0
AsByte(e) == IF e = "ep0" THEN 0 ELSE 1
LineBytes(v) == [i \in 1..LineSize |-> v]

\* The stall bit usbGetEndpointStatus reports.
Halted(dev, e) == IF e = "ep0" THEN dev.stallIn ELSE e \in dev.set.halted

\* What a read request returns, before it is cut to wLength.
Answer(dev, kind) ==
  CASE kind \in DescriptorKinds      -> Descriptor(kind)
    [] kind = "GetConfiguration"     -> <<dev.set.cfg>>
    [] kind = "GetInterface"         -> <<0, AsByte(dev.set.ifn)>>
    [] kind = "GetDeviceStatus"      -> <<2 * AsBit(dev.set.rwu), 0>>
    [] kind = "GetInterfaceStatus"   -> <<0, AsByte(dev.set.ifn)>>
    [] kind = "GetEndpointStatus"    -> <<AsBit(Halted(dev, setup.idx)), 0>>
    [] kind = "GetLineCoding"        -> LineBytes(dev.set.line)
    [] kind = "GetLatencyTimer"      -> <<dev.set.latency>>

\* usbSetAddress ("hardware will update the address after status stage").
SetAddress(dev) ==
  IF setup.val < 2 THEN Acknowledge([StallOEP0(dev) EXCEPT !.set.addr = setup.val])
  ELSE StallEndpoint0(dev)

\* Mutant of SetConfiguration: configuration 0 leaves the device enumerated.
SetConfiguration_Stays(dev) ==
  Acknowledge([StallOEP0(dev) EXCEPT !.set.cfg = setup.val,
                                     !.set.enum = @ \/ setup.val = 1])

\* usbSetConfiguration
SetConfiguration(dev) ==
  Acknowledge([StallOEP0(dev) EXCEPT !.set.cfg = setup.val,
                                     !.set.enum = (setup.val = 1)])

\* usbSetDeviceFeature, usbClearDeviceFeature: remote wake-up is feature 1.
DeviceFeature(dev, value) ==
  IF setup.val = 1 THEN Acknowledge([dev EXCEPT !.set.rwu = value])
  ELSE StallEndpoint0(dev)

\* usbSetEndpointFeature, usbClearEndpointFeature: nothing to do for endpoint
\* 0, "no response if endpoint is not supported".
EndpointFeature(dev, halted) ==
  CASE setup.idx = "ep0"  -> Acknowledge(dev)
    [] setup.idx = "none" -> dev
    [] OTHER              -> Acknowledge([dev EXCEPT !.set.halted = halted])

SetInterface(dev) ==
  Acknowledge([StallOEP0(dev) EXCEPT !.set.ifn = IF setup.idx = "in" THEN "in" ELSE "ep0"])

\* usbSetVendor and usbSetControlLineState do nothing but answer.
SetVendor(dev) == Acknowledge(dev)

\* usbSetLatencyTimer, usbGetLatencyTimer; TA1CCR0 in milliseconds.
SetLatencyTimer(dev) == Acknowledge([dev EXCEPT !.set.latency = setup.val])
GetLatencyTimer(dev) == Reply(dev, Answer(dev, "GetLatencyTimer"))

\* usbDisconnectThenBSL: USB_disable, and the boot loader does not return.
DisconnectThenBSL(dev) == [Acknowledge(dev) EXCEPT !.set.enum = FALSE]

\* usbInvalidRequest
InvalidRequest(dev) == StallEndpoint0(dev)

\* usbDecodeAndProcessUsbRequest, (*lAddrOfFunction)(): the function found for
\* one packet, with the fields tSetupPacket has now.
Process(dev) ==
  CASE fn = "GetLineCoding" -> SendData(dev, Answer(dev, fn))
    [] fn = "GetLatencyTimer" -> GetLatencyTimer(dev)
    [] fn \in {r.kind : r \in Reads} \ {"GetLineCoding", "GetLatencyTimer", "OtherRead"} ->
         Reply(dev, Answer(dev, fn))
    [] fn = "SetAddress"           -> SetAddress(dev)
    [] fn = "SetConfiguration"     -> SetConfiguration(dev)
    [] fn = "SetInterface"         -> SetInterface(dev)
    [] fn = "SetDeviceFeature"     -> DeviceFeature(dev, TRUE)
    [] fn = "ClearDeviceFeature"   -> DeviceFeature(dev, FALSE)
    [] fn = "SetEndpointFeature"   ->
         IF setup.val = 0 THEN EndpointFeature(dev, dev.set.halted \cup {setup.idx})
         ELSE StallEndpoint0(dev)
    [] fn = "ClearEndpointFeature" -> EndpointFeature(dev, dev.set.halted \ {setup.idx})
    [] fn = "SetLatencyTimer"      -> SetLatencyTimer(dev)
    [] fn \in {"SetVendor", "SetControlLineState"} -> SetVendor(dev)
    [] fn = "DisconnectThenBSL"    -> DisconnectThenBSL(dev)
    [] fn = "SetLineCoding"        -> ReceiveData(dev)
    [] fn \in {"OtherRead", "OtherWrite"} -> InvalidRequest(dev)
----------------------------------------------------------------------------
\* iUsbInterruptHandler is entered; "We need to check it [SETUPIFG] before other
\* interrupts, to work around that the Setup Int has lower priority then Input
\* Endpoint 0".
EnterIsr ==
  /\ isr = "none" /\ power = "on"
  /\ \/ setupIfg /\ isr' = "decode"
     \/ ~setupIfg /\ (iepIfg \/ oepIfg) /\ isr' = "vector"
  /\ nested' = FALSE
  /\ UNCHANGED <<d, setup, flagVars, fn, power, hostVars>>

\* SetupPacketInterruptHandler up to the match in the request list.
Decode ==
  /\ isr = "decode" /\ isr' = "process"
  /\ fn' = Entry(setup) /\ d' = [d EXCEPT !.action = "nothing"]
  /\ UNCHANGED <<setup, flagVars, nested, power, hostVars>>

\* "if another setup packet comes before we have the chance to process current
\* setup request, we return here without processing the request".
CallFunction ==
  /\ isr = "process" /\ isr' = "recheck"
  /\ d' = (IF stpowIfg THEN d ELSE Process(d))
  /\ power' = (IF fn = "DisconnectThenBSL" /\ ~stpowIfg THEN "bsl" ELSE power)
  /\ UNCHANGED <<setup, flagVars, fn, nested, hostVars>>

\* "check if there is another setup packet pending": if so, start again.
Recheck ==
  /\ isr = "recheck" /\ power = "on"
  /\ \/ /\ stpowIfg /\ stpowIfg' = FALSE /\ setupIfg' = FALSE /\ isr' = "decode"
     \/ /\ ~stpowIfg /\ isr' = (IF nested THEN "none" ELSE "clear")
        /\ UNCHANGED <<setupIfg, stpowIfg>>
  /\ UNCHANGED <<d, setup, iepIfg, oepIfg, fn, nested, power, hostVars>>

\* USBIFG &= ~SETUPIFG
ClearSetup ==
  /\ isr = "clear" /\ isr' = "vector" /\ setupIfg' = FALSE
  /\ UNCHANGED <<d, setup, stpowIfg, iepIfg, oepIfg, fn, nested, power, hostVars>>

\* Mutant of InInterrupt: the status stage is not opened.
InInterrupt_Closed(dev) ==
  IF dev.action = "in" THEN SendNextPacket(dev) ELSE [dev EXCEPT !.stallIn = TRUE]

\* IEP0InterruptHandler
InInterrupt(dev) ==
  IF dev.action = "in" THEN SendNextPacket(ClearOEP0(dev))
  ELSE [ClearOEP0(dev) EXCEPT !.stallIn = TRUE]

\* Handler_SetLineCoding takes the baud rate from abUsbRequestIncomingData.
SetLine(dev) == [dev EXCEPT !.set.line = dev.incoming[1]]

\* OEP0InterruptHandler
OutInterrupt(dev) ==
  LET open == [dev EXCEPT !.nakIn = FALSE, !.dataIn = <<>>]
      next == ReceiveNextPacket(open)
  IN  IF dev.action # "out" THEN StallOEP0(open)
      ELSE IF next.action = "nothing" /\ setup.kind = "SetLineCoding" THEN SetLine(next)
      ELSE next

\* switch (USBVECINT): the first pending one of endpoint 0's two directions
\* and a setup packet that has come since the look at SETUPIFG, which is
\* handled with both directions NAKed.
Vector ==
  /\ isr = "vector"
  /\ \/ /\ iepIfg /\ iepIfg' = FALSE /\ d' = InInterrupt(d) /\ isr' = "none"
        /\ UNCHANGED <<setupIfg, oepIfg, nested>>
     \/ /\ ~iepIfg /\ oepIfg /\ oepIfg' = FALSE /\ d' = OutInterrupt(d) /\ isr' = "none"
        /\ UNCHANGED <<setupIfg, iepIfg, nested>>
     \/ /\ ~iepIfg /\ ~oepIfg /\ setupIfg /\ setupIfg' = FALSE
        /\ d' = [d EXCEPT !.nakIn = TRUE, !.nakOut = TRUE] /\ isr' = "decode"
        /\ nested' = TRUE /\ UNCHANGED <<iepIfg, oepIfg>>
     \/ /\ ~iepIfg /\ ~oepIfg /\ ~setupIfg /\ isr' = "none"
        /\ UNCHANGED <<d, setupIfg, iepIfg, oepIfg, nested>>
  /\ UNCHANGED <<setup, stpowIfg, fn, power, hostVars>>
----------------------------------------------------------------------------
\* What the settings are once a write has been carried out.
Applied(r, s) ==
  CASE r.kind = "SetConfiguration" -> [s EXCEPT !.cfg = r.val, !.enum = (r.val = 1)]
    [] r.kind = "SetAddress" /\ r.val < 2 -> [s EXCEPT !.addr = r.val]
    [] r.kind = "SetInterface"    -> [s EXCEPT !.ifn = r.idx]
    [] r.kind = "SetLatencyTimer" -> [s EXCEPT !.latency = r.val]
    [] r.kind = "SetLineCoding"   -> [s EXCEPT !.line = r.val]
    [] r.kind = "SetEndpointFeature" /\ r.val = 0 /\ r.idx \in {"in", "out"} ->
         [s EXCEPT !.halted = @ \cup {r.idx}]
    [] r.kind = "ClearEndpointFeature" /\ r.idx \in {"in", "out"} ->
         [s EXCEPT !.halted = @ \ {r.idx}]
    [] OTHER -> s

\* The host begins a transfer; one it has not finished it gives up.
HostSetup(r) ==
  /\ power = "on" /\ requests < MaxRequests /\ requests' = requests + 1
  /\ setup' = r
  /\ setupIfg' = TRUE /\ stpowIfg' = (stpowIfg \/ setupIfg)
  /\ d' = [d EXCEPT !.stallIn = FALSE, !.stallOut = FALSE]
  /\ host' = (IF r.len > 0 THEN "data" ELSE "status") /\ got' = <<>>
  /\ believes' = believes \cup {Applied(r, s) : s \in believes}
  /\ late' = (late \/ iepIfg \/ oepIfg)
  /\ overrun' = (overrun \/ setupIfg \/ isr \in {"decode", "process", "recheck", "clear"})
  /\ armed' = (armed \/ ~d.nakIn)
  /\ UNCHANGED <<iepIfg, oepIfg, isrVars, power>>

\* The USB module answers on endpoint 0.
Answers == power = "on" /\ ~setupIfg

\* An IN token: the data stage of a read, or the status stage of a write.
HostIn ==
  /\ Answers /\ (d.stallIn \/ ~d.nakIn)
  /\ host = (IF IsRead(setup) THEN "data" ELSE "status")
  /\ \/ d.stallIn /\ host' = "idle" /\ UNCHANGED <<d, iepIfg, got, believes>>
     \/ /\ ~d.stallIn
        /\ d' = [d EXCEPT !.nakIn = TRUE] /\ iepIfg' = TRUE /\ got' = got \o d.dataIn
        /\ \/ /\ ~IsRead(setup) /\ host' = "idle"
              /\ believes' = (IF d.dataIn = <<>> THEN {Applied(setup, s) : s \in believes}
                             ELSE believes)
           \/ /\ IsRead(setup) /\ UNCHANGED believes
              /\ host' = (IF Len(d.dataIn) < PacketSize \/ Len(got') >= setup.len
                          THEN "status" ELSE "data")
  /\ UNCHANGED <<setup, setupIfg, stpowIfg, oepIfg, isrVars, power, late, overrun, armed, requests>>

\* An OUT packet: the data stage of a write, or the status stage of a read.
HostOut ==
  /\ Answers /\ (d.stallOut \/ ~d.nakOut)
  /\ host = (IF IsRead(setup) THEN "status" ELSE "data")
  /\ \/ d.stallOut /\ host' = "idle" /\ UNCHANGED <<d, oepIfg>>
     \/ /\ ~d.stallOut /\ oepIfg' = TRUE
        /\ d' = [d EXCEPT !.nakOut = TRUE,
                          !.dataOut = IF IsRead(setup) THEN <<>> ELSE LineBytes(setup.val)]
        /\ \/ IsRead(setup) /\ host' = "idle"
           \/ ~IsRead(setup) /\ host' = "status"
  /\ UNCHANGED <<setup, setupIfg, stpowIfg, iepIfg, isrVars, power, got, believes,
                 late, overrun, armed, requests>>
----------------------------------------------------------------------------
\* USB_reset with CdcResetData ("make sure no interrupts are pending" clears
\* USBIFG; the endpoint flags stay).  The host gives up whatever it was doing.
UsbReset ==
  /\ isr = "none" /\ power' = "on"
  /\ d' = ResetDevice(d.set.latency)
  /\ setupIfg' = FALSE /\ stpowIfg' = FALSE
  /\ host' = "idle" /\ got' = <<>>
  /\ believes' = {ResetSettings(s.latency) : s \in believes}
  /\ UNCHANGED <<setup, iepIfg, oepIfg, isrVars, late, overrun, armed, requests>>

BusReset == power = "on" /\ UsbReset
VbusOn   == power = "off" /\ UsbReset

\* PWRVBUSoffHandler: the module is switched off.
VbusOff ==
  /\ power = "on" /\ isr = "none" /\ power' = "off"
  /\ d' = [d EXCEPT !.set.enum = FALSE]
  /\ believes' = {[s EXCEPT !.enum = FALSE] : s \in believes}
  /\ host' = "idle" /\ got' = <<>>
  /\ UNCHANGED <<setup, flagVars, isrVars, late, overrun, armed, requests>>

Isr == EnterIsr \/ Decode \/ CallFunction \/ Recheck \/ ClearSetup \/ Vector

ControlNext == \/ Isr \/ HostIn \/ HostOut \/ BusReset \/ VbusOn \/ VbusOff
        \/ \E r \in Requests : HostSetup(r)

ControlSpec == ControlInit /\ [][ControlNext]_controlVars

\* The CPU takes the interrupt and finishes it; the host goes on with the
\* transfer it has begun.
FairSpec == ControlSpec /\ WF_controlVars(Isr) /\ WF_controlVars(HostIn) /\ WF_controlVars(HostOut)
----------------------------------------------------------------------------
SameStart(s, t) == \A i \in 1..Len(s) : i <= Len(t) /\ s[i] = t[i]

\* A read of the list brings the host what it asked for: the beginning of the
\* answer, all of it or as much as wLength, in order, with an end the host
\* recognises and without a stall, however the transfers before it were given
\* up.  Not so when the setup packet came with an interrupt of endpoint 0
\* pending (that interrupt is handled after it, and loads the next packet or
\* clears the count of the first), or in the middle of the handling of another.
ReadsAreWhole ==
  [][ (/\ HostIn /\ IsRead(setup) /\ setup.kind # "OtherRead" /\ host' # "data"
       /\ ~late /\ ~overrun)
      => LET answer == Answer(d, setup.kind)
         IN  /\ host' = "status" /\ SameStart(got', answer)
             /\ Len(got') = LesserOf(Len(answer), setup.len) ]_controlVars

\* The host knows the device's settings: a write it has finished is in force as
\* soon as its interrupts are handled, one it has given up may be, and nothing
\* else changes them.  The line coding is excepted once a transfer was given up
\* with a packet left: the packet is taken for the status stage of a later
\* SET_LINE_CODING, and IEP0InterruptHandler then clears the byte count of the
\* data before OEP0InterruptHandler has read it.
HostKnowsSettings ==
  (isr = "none" /\ ~oepIfg /\ ~late /\ ~overrun /\ power # "bsl") =>
    \E s \in believes : /\ [s EXCEPT !.line = d.set.line] = d.set
                       /\ (armed \/ s.line = d.set.line)

\* A transfer the host does not give up ends, but for the requests of an
\* endpoint that does not exist, which the code leaves without an answer.
Unanswered == setup.idx = "none" /\ setup.kind \in {"SetEndpointFeature", "ClearEndpointFeature"}
TransfersEnd ==
  (host # "idle" /\ ~Unanswered) ~> (host = "idle" \/ Unanswered \/ overrun \/ power = "bsl")
============================================================================
