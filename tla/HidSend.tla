------------------------------- MODULE HidSend -------------------------------
(***************************************************************************)
(* Data from the application to the host over a HID IN endpoint with the   *)
(* virtual FTDI protocol: USBHID_sendData, HidToHostFromBuffer,            *)
(* USBHID_intfStatus and HidResetData of UsbHid.c, the waiting send of     *)
(* usbConstructs.c (hidSendDataWaitTilDone with no timeout), and the two   *)
(* uses main() makes of them: the reply of a JTAG or NAND command, and the *)
(* empty report of every tick, which carries only the line status bytes.   *)
(*                                                                         *)
(* The driver copies the caller's buffer from the interrupt, packet by     *)
(* packet, while the caller polls.  A pending interrupt is taken before    *)
(* the main loop's next step.  Bytes are named by the order in which the   *)
(* application produced them; what its buffer holds afterwards is Junk.    *)
(***************************************************************************)
EXTENDS Integers, Sequences

CONSTANTS BufSize,     \* size of the application's buffer (64)
          Payload,     \* EP_MAX_PACKET_SIZE - 2, what follows the status bytes
          MaxBytes     \* bound of the model: bytes the application produces

ASSUME PayloadAssumption == BufSize \in Nat \ {0} /\ Payload \in Nat \ {0}

VARIABLES
  buf,                 \* pieceOfString, buf: the application's buffer
  pc,                  \* "loop", or "poll" inside hidSendDataWaitTilDone
  left, src,           \* HidWriteCtrl: nHidBytesToSendLeft, pHidBufferToSend
  xy,                  \* bCurrentBufferXY
  full, pkt,           \* the two IEP buffers: NAK bit clear, payload
  hw,                  \* the buffer the host's next IN token reads
  ifg,                 \* the endpoint's bit in USBIEPIFG
  usb, susp,           \* bEnumerationStatus with VBUS, bFunctionSuspended
  made,                \* history: bytes the application has produced
  got,                 \* history: payload bytes the host has read
  result,              \* history: what hidSendDataWaitTilDone last returned
  abandoned            \* history: it has returned before the driver was done

hidVars == <<left, src, xy>>
epVars  == <<full, pkt, hw>>
busVars == <<usb, susp>>
appVars == <<buf, pc, made, result, abandoned>>
vars == <<appVars, hidVars, epVars, ifg, busVars, got>>

Buf == {"X", "Y"}
Other(b) == IF b = "X" THEN "Y" ELSE "X"
Junk == 0
EmptyReport == -1      \* nHidBytesToSendLeft of a report without payload

TypeOK ==
  /\ buf \in [0..BufSize-1 -> Nat] /\ pc \in {"loop", "poll"}
  /\ left \in EmptyReport..BufSize /\ src \in 0..BufSize /\ xy \in Buf
  /\ full \in [Buf -> BOOLEAN] /\ pkt \in [Buf -> Seq(Nat)] /\ hw \in Buf
  /\ ifg \in BOOLEAN
  /\ usb \in {"off", "default", "configured"} /\ susp \in BOOLEAN
  /\ made \in Nat /\ got \in Seq(Nat)
  /\ result \in {0, 2, 3} /\ abandoned \in BOOLEAN

Init ==
  /\ buf = [i \in 0..BufSize-1 |-> Junk] /\ pc = "loop"
  /\ left = 0 /\ src = 0 /\ xy = "X"
  /\ full = [b \in Buf |-> FALSE] /\ pkt = [b \in Buf |-> <<>>] /\ hw = "X"
  /\ ifg = FALSE /\ usb = "off" /\ susp = FALSE
  /\ made = 0 /\ got = <<>> /\ result = 0 /\ abandoned = FALSE

BusUp == usb = "configured" /\ ~susp
----------------------------------------------------------------------------
\* USBHID_sendData: accepted when the bus is up and nothing is in progress.
CanSend == BusUp /\ left = 0

\* The driver notes the caller's buffer and triggers the endpoint's interrupt.
SendData(size) == /\ left' = (IF size = 0 THEN EmptyReport ELSE size)
                  /\ src' = 0 /\ ifg' = TRUE

\* hidSendDataWaitTilDone returns r; its callers do not look at it and fill
\* the buffer with other things.
Return(r) == /\ pc' = "loop" /\ result' = r
             /\ buf' = [i \in 0..BufSize-1 |-> Junk]
             /\ abandoned' = (abandoned \/ left > 0)

\* main() has n bytes for the host: hidSendDataWaitTilDone, the start.
Send(n) ==
  /\ pc = "loop" /\ ~ifg /\ made + n <= MaxBytes
  /\ made' = made + n
  /\ \/ /\ CanSend /\ SendData(n) /\ pc' = "poll"
        /\ buf' = [i \in 0..BufSize-1 |-> IF i < n THEN made + 1 + i ELSE Junk]
        /\ UNCHANGED <<result, abandoned>>
     \/ ~BusUp /\ Return(2) /\ UNCHANGED <<left, src, ifg>>
     \/ BusUp /\ left # 0 /\ Return(3) /\ UNCHANGED <<left, src, ifg>>
  /\ UNCHANGED <<xy, epVars, busVars, got>>

\* Mutant of SendDone: the wait ends when the first packets have been taken.
SendDone_FirstTaken == src > 0

\* USBHID_intfStatus does not report kUSBHID_waitingForSend.
SendDone == left = 0

\* Mutant of BusGone: a suspend does not end the wait.
BusGone_OnlyOff == usb # "configured"

\* USBHID_intfStatus reports kUSBHID_busNotAvailable.
BusGone == ~BusUp

\* hidSendDataWaitTilDone, the wait.
Poll ==
  /\ pc = "poll" /\ ~ifg
  /\ \/ BusGone /\ Return(2)
     \/ ~BusGone /\ SendDone /\ Return(0)
  /\ UNCHANGED <<made, hidVars, epVars, ifg, busVars, got>>

\* bTimerTripped_event: USBHID_sendData(0, 0), "We don't care if this fails".
Tick ==
  /\ pc = "loop" /\ ~ifg
  /\ CanSend /\ SendData(0)
  /\ UNCHANGED <<appVars, xy, epVars, busVars, got>>
----------------------------------------------------------------------------
SmallerOf(a, b) == IF a < b THEN a ELSE b
Chunk(at, n) == [i \in 1..n |-> buf[at + i - 1]]

\* Mutant of Todo: an empty report waits for a free buffer.
Todo_Waits == IF left = EmptyReport /\ ~full[xy] THEN 0 ELSE left

\* What is left to load; an empty report is loaded now or never.
Todo == IF left = EmptyReport THEN 0 ELSE left

\* Mutant of NextSource: the source is advanced by the first packet only.
NextSource_OnePacket(n1, n2) == src + n1

\* Where in the caller's buffer the next packet begins.
NextSource(n1, n2) == src + n1 + n2

\* bCurrentBufferXY after one or two packets.
NextBuffer(n2) == IF n2 > 0 THEN xy ELSE Other(xy)

\* HidToHostFromBuffer: fill the current buffer and, if more is left, the other
\* one, as far as they are free.  An empty report is dropped if they are not.
LoadBuffers ==
  LET n1 == SmallerOf(Todo, Payload)
      n2 == IF full[Other(xy)] THEN 0 ELSE SmallerOf(Todo - n1, Payload)
  IN  \/ /\ full[xy] /\ left' = Todo
         /\ UNCHANGED <<src, xy, full, pkt>>
      \/ /\ ~full[xy]
         /\ left' = Todo - n1 - n2 /\ src' = NextSource(n1, n2)
         /\ xy' = NextBuffer(n2)
         /\ full' = [full EXCEPT ![xy] = TRUE, ![Other(xy)] = @ \/ n2 > 0]
         /\ pkt' = [pkt EXCEPT ![xy] = Chunk(src, n1),
                               ![Other(xy)] = IF n2 > 0 THEN Chunk(src + n1, n2) ELSE @]

\* iUsbInterruptHandler, USBVECINT_INPUT_ENDPOINT1 and 3.
IepIsr ==
  /\ ifg /\ ifg' = FALSE
  /\ \/ left # 0 /\ LoadBuffers
     \/ left = 0 /\ UNCHANGED <<hidVars, full, pkt>>
  /\ UNCHANGED <<appVars, hw, busVars, got>>

\* The host's IN token takes the packet the hardware toggle points at.
HostReads ==
  /\ BusUp /\ full[hw]
  /\ got' = got \o pkt[hw]
  /\ full' = [full EXCEPT ![hw] = FALSE] /\ hw' = Other(hw)
  /\ ifg' = TRUE
  /\ UNCHANGED <<appVars, hidVars, pkt, busVars>>
----------------------------------------------------------------------------
\* USB_reset with HidResetData.
UsbReset ==
  /\ usb' = "default" /\ susp' = FALSE
  /\ left' = 0 /\ src' = 0 /\ xy' = "X"
  /\ full' = [b \in Buf |-> FALSE] /\ hw' = "X"
  /\ UNCHANGED <<appVars, pkt, ifg, got>>

\* Bus reset; masked while suspended (USBIE = RESRIE).
BusReset == usb # "off" /\ ~susp /\ UsbReset

\* USB_handleVbusOnEvent: enable, reset, connect.
VbusOn == usb = "off" /\ UsbReset

\* PWRVBUSoffHandler: the module is switched off, nothing is cleaned up.
VbusOff == usb # "off" /\ usb' = "off" /\ susp' = FALSE
           /\ UNCHANGED <<appVars, hidVars, epVars, ifg, got>>

\* SET_CONFIGURATION.  The host needs milliseconds from a reset to here; the
\* polling caller has long seen that the bus was gone.
Enumerate == usb = "default" /\ ~susp /\ usb' = "configured" /\ pc = "loop"
             /\ UNCHANGED <<appVars, hidVars, epVars, ifg, susp, got>>

Suspend == usb # "off" /\ ~susp /\ susp' = TRUE
           /\ UNCHANGED <<appVars, hidVars, epVars, ifg, usb, got>>

Resume == susp /\ susp' = FALSE
          /\ UNCHANGED <<appVars, hidVars, epVars, ifg, usb, got>>

Bus == BusReset \/ VbusOn \/ VbusOff \/ Enumerate \/ Suspend \/ Resume

Next == \/ \E n \in 1..BufSize : Send(n)
        \/ Poll \/ Tick \/ IepIsr \/ HostReads \/ Bus

Spec == Init /\ [][Next]_vars

\* The CPU takes pending interrupts and runs the loop, the host reads.
Fairness == WF_vars(IepIsr) /\ SF_vars(Poll) /\ WF_vars(HostReads)
FairSpec == Spec /\ Fairness
----------------------------------------------------------------------------
Packet(b) == IF full[b] THEN pkt[b] ELSE <<>>

\* What the host has read or will read whatever the application does.
Sent == got \o (IF usb = "configured" THEN Packet(hw) \o Packet(Other(hw)) ELSE <<>>)

\* A return value of 0 means what usbConstructs.c says, "it succeeded": the
\* bytes of this call, all of them and in order, are the last ones the endpoint
\* has taken.  An empty report of the tick in between does no harm.
ZeroMeansSent ==
  [][ pc = "poll" /\ pc' = "loop" /\ result' = 0
      => \A i \in 0..BufSize-1 : buf[i] # Junk =>
           LET n == made - buf[0]
           IN  Len(Sent) > n /\ Sent[Len(Sent) - n + i] = buf[i] ]_vars

\* Unless a wait has been abandoned, the host reads bytes in the order in which
\* the application produced them, each once and none invented: double
\* buffering, empty reports and resets notwithstanding.
InOrder == ~abandoned => \A i, j \in 1..Len(Sent) : i < j => 0 < Sent[i] /\ Sent[i] < Sent[j]

\* A send is refused as busy only after a wait has been abandoned: an empty
\* report never stands in the way of data (main() ignores the result, so the
\* data would be lost).
BusyOnlyAfterAbandon == result = 3 => abandoned

\* hidSendDataWaitTilDone always returns, with no timeout to help it.
WaitEnds == pc = "poll" ~> pc = "loop"

============================================================================
