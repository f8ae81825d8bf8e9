----------------------------- MODULE UartToUsb -----------------------------
(***************************************************************************)
(* Characters from the UART to the USB host: the receive half of uart.c    *)
(* (USCI_A1_ISR case 2, the second half of handle_uart, uart_inject and    *)
(* USBCDC_handleSendCompleted) on top of the CDC bulk-IN endpoint of       *)
(* UsbCdc.c (USBCDC_sendData, CdcToHostFromBuffer, CdcResetData) and the   *)
(* USB device state usb.c keeps.                                           *)
(*                                                                         *)
(* Four actors interleave: the UART, the main loop, the USB interrupt and  *)
(* the host.  Every handler runs with interrupts off, so each is one       *)
(* action.  Bytes are named by the order in which rxbuf accepted them.     *)
(* nCdcBytesToSend is left out: only the status and abort calls, which     *)
(* this firmware does not make for CDC, read it.                           *)
(***************************************************************************)
EXTENDS Integers, Sequences

CONSTANTS RxSize,      \* sizeof state.rxbuf (64)
          EpSize,      \* EP_MAX_PACKET_SIZE_CDC (64)
          MaxBytes     \* bound of the model: characters accepted by rxbuf

ASSUME SizeAssumption == RxSize \in Nat \ {0} /\ EpSize \in Nat \ {0}
ASSUME BoundAssumption == MaxBytes \in Nat

VARIABLES
  rxbuf, rxsiz, rxo,   \* struct uart_state: buffer, fill level, consumed level
  sending,             \* struct uart_state: a CDC send has not completed
  rxie, rxifg,         \* UCRXIE, UCRXIFG: a character waits in UCA1RXBUF
  left, src,           \* CdcWriteCtrl: nCdcBytesToSendLeft, pUsbBufferToSend
  xy, zlp, last,       \* bCurrentBufferXY, bZeroPacketSent, last_ByteSend
  full, pkt,           \* the two IEP buffers: NAK bit clear, and contents
  hw,                  \* the buffer the host's next IN token reads
  ifg,                 \* the endpoint's bit in USBIEPIFG
  usb, susp,           \* bEnumerationStatus with VBUS, bFunctionSuspended
  active,              \* the main loop is inside case ST_ENUM_ACTIVE
  stored,              \* history: bytes rxbuf has accepted
  got                  \* history: bytes the host has read

uartVars == <<rxbuf, rxsiz, rxo, rxie, rxifg, stored>>
cdcVars  == <<left, src, xy, zlp, last>>
epVars   == <<full, pkt, hw>>
busVars  == <<usb, susp>>
vars == <<uartVars, sending, cdcVars, epVars, ifg, busVars, active, got>>

Buf == {"X", "Y"}
Other(b) == IF b = "X" THEN "Y" ELSE "X"

TypeOK ==
  /\ rxbuf \in [0..RxSize-1 -> Nat]
  /\ rxsiz \in 0..RxSize /\ rxo \in 0..RxSize
  /\ sending \in BOOLEAN /\ rxie \in BOOLEAN /\ rxifg \in BOOLEAN
  /\ left \in 0..RxSize /\ src \in 0..RxSize
  /\ xy \in Buf /\ zlp \in BOOLEAN /\ last \in 0..EpSize
  /\ full \in [Buf -> BOOLEAN] /\ pkt \in [Buf -> Seq(Nat)]
  /\ hw \in Buf /\ ifg \in BOOLEAN
  /\ usb \in {"off", "default", "configured"} /\ susp \in BOOLEAN
  /\ active \in BOOLEAN
  /\ stored \in Nat /\ got \in Seq(Nat)

\* init_uart, and the static zero of CdcWriteCtrl; USB is not attached yet.
Init ==
  /\ rxbuf = [i \in 0..RxSize-1 |-> 0] /\ rxsiz = 0 /\ rxo = 0
  /\ sending = FALSE /\ rxie = TRUE /\ rxifg = FALSE
  /\ left = 0 /\ src = 0 /\ xy = "X" /\ zlp = FALSE /\ last = 0
  /\ full = [b \in Buf |-> FALSE] /\ pkt = [b \in Buf |-> <<>>] /\ hw = "X"
  /\ ifg = FALSE /\ usb = "off" /\ susp = FALSE /\ active = FALSE
  /\ stored = 0 /\ got = <<>>

BusUp == usb = "configured" /\ ~susp
----------------------------------------------------------------------------

\* state.rxsiz < sizeof state.rxbuf
HasRoom == rxsiz < RxSize

\* state.rxbuf[state.rxsiz++] = ch
Store == /\ rxbuf' = [rxbuf EXCEPT ![rxsiz] = stored + 1]
         /\ rxsiz' = rxsiz + 1
         /\ stored' = stored + 1

\* A character completes on the wire and waits in UCA1RXBUF.
CharArrives ==
  /\ stored < MaxBytes /\ ~rxifg
  /\ rxifg' = TRUE
  /\ UNCHANGED <<rxbuf, rxsiz, rxo, rxie, stored, sending, cdcVars, epVars,
                 ifg, busVars, active, got>>

\* USCI_A1_ISR, case 2.  Reading UCA1IV clears the flag, so a character the
\* full buffer has no room for is gone.
RxIsr ==
  /\ rxifg /\ rxie
  /\ rxifg' = FALSE
  /\ \/ HasRoom /\ Store
     \/ ~HasRoom /\ UNCHANGED <<rxbuf, rxsiz, stored>>
  /\ rxie' = (rxsiz' # RxSize)
  /\ UNCHANGED <<rxo, sending, cdcVars, epVars, ifg, busVars, active, got>>

\* uart_inject, at the top of the main loop; UCRXIE is left alone.
Inject ==
  /\ ~active /\ stored < MaxBytes
  /\ HasRoom /\ Store
  /\ UNCHANGED <<rxo, rxie, rxifg, sending, cdcVars, epVars, ifg, busVars,
                 active, got>>

\* Mutant of SendData: the endpoint's interrupt is not triggered.
SendData_NoTrigger(at, n) ==
  /\ BusUp /\ left = 0
  /\ left' = n /\ src' = at
  /\ UNCHANGED ifg

\* USBCDC_sendData(rxbuf + at, n): accepted when the bus is up and nothing is
\* in progress; the endpoint's interrupt is triggered by software.
SendData(at, n) ==
  /\ BusUp /\ left = 0
  /\ left' = n /\ src' = at
  /\ ifg' = TRUE

\* Mutant of HandleSubmit: waits for the completion of the previous send.
HandleSubmit_WaitsForCompletion ==
  /\ rxsiz > rxo
  /\ sending' = TRUE
  /\ \/ ~sending /\ SendData(rxo, rxsiz - rxo) /\ rxo' = rxsiz
     \/ ~(~sending /\ BusUp /\ left = 0) /\ UNCHANGED <<left, src, ifg, rxo>>
  /\ UNCHANGED <<rxsiz, rxie>>

\* handle_uart, rxsiz > rxo: hand everything not yet submitted to the driver.
HandleSubmit ==
  /\ rxsiz > rxo
  /\ sending' = TRUE
  /\ \/ SendData(rxo, rxsiz - rxo) /\ rxo' = rxsiz
     \/ ~(BusUp /\ left = 0) /\ UNCHANGED <<left, src, ifg, rxo>>
  /\ UNCHANGED <<rxsiz, rxie>>

\* Mutant of HandleIdle: the buffer starts over while a send still reads it.
HandleIdle_WhileSending ==
  /\ rxsiz <= rxo
  /\ rxo' = 0 /\ rxsiz' = 0
  /\ rxie' = TRUE
  /\ UNCHANGED <<sending, left, src, ifg>>

\* handle_uart, rxsiz <= rxo: the buffer starts over once nothing is sending.
HandleIdle ==
  /\ rxsiz <= rxo
  /\ IF rxsiz = rxo /\ ~sending
     THEN rxo' = 0 /\ rxsiz' = 0
     ELSE UNCHANGED <<rxo, rxsiz>>
  /\ rxie' = TRUE
  /\ UNCHANGED <<sending, left, src, ifg>>

\* The main loop finds USB_connectionState() = ST_ENUM_ACTIVE ...
EnterActive ==
  /\ BusUp /\ ~active /\ active' = TRUE
  /\ UNCHANGED <<uartVars, sending, cdcVars, epVars, ifg, busVars, got>>

\* ... and calls handle_uart; the bus may have gone down in between.
HandleUart ==
  /\ active /\ active' = FALSE
  /\ HandleSubmit \/ HandleIdle
  /\ UNCHANGED <<rxbuf, rxifg, stored, xy, zlp, last, epVars, busVars, got>>
----------------------------------------------------------------------------
SmallerOf(a, b) == IF a < b THEN a ELSE b

\* The n bytes rxbuf holds from index at, as one packet.
Chunk(at, n) == [i \in 1..n |-> rxbuf[at + i - 1]]

\* CdcToHostFromBuffer, left # 0: fill the current buffer and, if more is
\* left, the other one, as far as they are free.
LoadBuffers ==
  LET n1 == SmallerOf(left, EpSize)
      n2 == IF full[Other(xy)] THEN 0 ELSE SmallerOf(left - n1, EpSize)
  IN  /\ zlp' = FALSE
      /\ \/ /\ full[xy]
            /\ UNCHANGED <<left, src, xy, last, full, pkt>>
         \/ /\ ~full[xy]
            /\ left' = left - n1 - n2 /\ src' = src + n1 + n2
            /\ last' = (IF n2 > 0 THEN n2 ELSE n1)
            /\ xy' = (IF n2 > 0 THEN xy ELSE Other(xy))
            /\ full' = [full EXCEPT ![xy] = TRUE, ![Other(xy)] = @ \/ n2 > 0]
            /\ pkt' = [pkt EXCEPT ![xy] = Chunk(src, n1),
                                  ![Other(xy)] = IF n2 > 0 THEN Chunk(src + n1, n2) ELSE @]

\* Mutant of HandleSendCompleted: the event is not enabled.
HandleSendCompleted_Off == UNCHANGED sending

\* USBCDC_handleSendCompleted of uart.c.
HandleSendCompleted == sending' = FALSE

\* CdcToHostFromBuffer, left = 0: a zero packet closes a transfer whose last
\* packet was full.
Complete ==
  /\ zlp' = TRUE /\ HandleSendCompleted
  /\ IF last = EpSize /\ ~full[xy]
     THEN /\ full' = [full EXCEPT ![xy] = TRUE]
          /\ pkt' = [pkt EXCEPT ![xy] = <<>>]
          /\ xy' = Other(xy)
     ELSE UNCHANGED <<full, pkt, xy>>
  /\ UNCHANGED <<left, src, last>>

\* iUsbInterruptHandler, USBVECINT_INPUT_ENDPOINT5.
IepIsr ==
  /\ ifg /\ ifg' = FALSE
  /\ \/ left # 0 /\ LoadBuffers /\ UNCHANGED sending
     \/ left = 0 /\ ~zlp /\ Complete
     \/ left = 0 /\ zlp /\ UNCHANGED <<sending, cdcVars, full, pkt>>
  /\ UNCHANGED <<uartVars, hw, busVars, active, got>>

\* The host's IN token takes the packet the hardware toggle points at.
HostReads ==
  /\ BusUp /\ full[hw]
  /\ got' = got \o pkt[hw]
  /\ full' = [full EXCEPT ![hw] = FALSE]
  /\ hw' = Other(hw)
  /\ ifg' = TRUE
  /\ UNCHANGED <<uartVars, sending, cdcVars, pkt, busVars, active>>
----------------------------------------------------------------------------
\* Mutant of ResetData: bCurrentBufferXY is left alone.
ResetData_KeepsBuffer ==
  left' = 0 /\ src' = 0 /\ UNCHANGED xy /\ zlp' = FALSE /\ last' = 0

\* CdcResetData
ResetData == left' = 0 /\ src' = 0 /\ xy' = "X" /\ zlp' = FALSE /\ last' = 0

\* USB_reset with CdcResetData: both buffers empty, driver state zeroed.  The
\* pending endpoint interrupt and state.sending are left as they were.
UsbReset ==
  /\ usb' = "default" /\ susp' = FALSE
  /\ ResetData
  /\ full' = [b \in Buf |-> FALSE] /\ hw' = "X"
  /\ UNCHANGED <<uartVars, sending, pkt, ifg, active, got>>

\* Bus reset; masked while suspended (USBIE = RESRIE).
BusReset == usb # "off" /\ ~susp /\ UsbReset

\* PWRVBUSonHandler, USB_handleVbusOnEvent: enable, reset, connect.
VbusOn == usb = "off" /\ UsbReset

\* PWRVBUSoffHandler: the module is switched off, nothing is cleaned up.
VbusOff ==
  /\ usb # "off" /\ usb' = "off" /\ susp' = FALSE
  /\ UNCHANGED <<uartVars, sending, cdcVars, epVars, ifg, active, got>>

\* SET_CONFIGURATION.
Enumerate ==
  /\ usb = "default" /\ ~susp /\ usb' = "configured"
  /\ UNCHANGED <<uartVars, sending, cdcVars, epVars, ifg, susp, active, got>>

Suspend ==
  /\ usb # "off" /\ ~susp /\ susp' = TRUE
  /\ UNCHANGED <<uartVars, sending, cdcVars, epVars, ifg, usb, active, got>>

Resume ==
  /\ susp /\ susp' = FALSE
  /\ UNCHANGED <<uartVars, sending, cdcVars, epVars, ifg, usb, active, got>>

Bus == BusReset \/ VbusOn \/ VbusOff \/ Enumerate \/ Suspend \/ Resume

Next == \/ CharArrives \/ RxIsr \/ Inject \/ EnterActive \/ HandleUart
        \/ IepIsr \/ HostReads \/ Bus

Spec == Init /\ [][Next]_vars

\* Pending interrupts are taken; the main loop calls handle_uart again and
\* again while USB is active (stay_awake); a host reads what is offered.
Fairness == /\ WF_vars(RxIsr) /\ WF_vars(IepIsr)
            /\ WF_vars(EnterActive) /\ WF_vars(HandleUart)
            /\ WF_vars(HostReads)

FairSpec == Spec /\ Fairness
----------------------------------------------------------------------------
\* The bytes on their way: in the endpoint's buffers, in the send the driver
\* has in progress, and in rxbuf but not yet submitted.
Packet(b) == IF full[b] THEN pkt[b] ELSE <<>>
Submitted == Packet(hw) \o Packet(Other(hw)) \o Chunk(src, left)
Queue == (IF usb = "configured" THEN Submitted ELSE <<>>)
           \o Chunk(rxo, rxsiz - rxo)

Channel == INSTANCE ByteChannel
             WITH Byte <- Nat, queue <- Queue, delivered <- got,
                  up <- (usb = "configured")

\* The UART-to-host path (uart.c, UsbCdc.c) is a first-in first-out channel:
\* whatever the interleaving of UART, main loop, USB interrupt and host, the
\* bytes rxbuf accepted reach the host in order and once, and only a step that
\* takes the device out of the configured state loses any.
ImplementsChannel == Channel!Spec

\* While the driver still has bytes to copy out of rxbuf (UsbCdc.c:
\* nCdcBytesToSendLeft), uart.c knows it (sending) and counts them all as
\* consumed, so neither the receive interrupt nor a restart of the buffer
\* can touch them.
SourceOwned == left > 0 => sending /\ src + left = rxo

\* A send in progress is never stuck: either the endpoint interrupt is
\* pending, or a buffer is full and the host's next read will raise it.
SendNotStuck == left > 0 => ifg \/ \E b \in Buf : full[b]

\* bCurrentBufferXY follows the hardware toggle: the driver fills buffers in
\* the order in which the host reads them.
BuffersInStep ==
  /\ full["X"] /\ full["Y"] => xy = hw
  /\ (\A b \in Buf : ~full[b]) => xy = hw
  /\ full["X"] # full["Y"] => full[hw] /\ xy = Other(hw)

\* Once the host stays attached, everything that was received reaches it.
EverythingDrains == <>[]BusUp => <>[](Queue = <<>>)

\* A bus reset that finds the whole of rxbuf submitted and not yet completed.
FullBufferCut == ~(usb = "configured") /\ sending /\ rxo = RxSize

\* rxbuf never stays full while the host is attached, unless a bus reset cuts
\* off the send of a whole buffer.
RoomReturns == (<>[]BusUp /\ []~FullBufferCut) => []<>(rxsiz < RxSize)

\* "last data transmitted, reset buffer" (uart.c:139, uart.c:153): when nothing
\* is left to transmit the buffer starts over, so while the host stays attached
\* the UART always gets room again.
BufferStartsOver == <>[]BusUp => []<>(rxsiz < RxSize)
============================================================================
