---------------------------- MODULE UartFromUsb ----------------------------
(***************************************************************************)
(* Characters from the USB host to the UART: the transmit half of uart.c   *)
(* (the first half of handle_uart, USCI_A1_ISR case 4) on top of the CDC   *)
(* bulk-OUT endpoint of UsbCdc.c and cdcReceiveDataInBuffer.               *)
(*                                                                         *)
(* handle_uart runs with interrupts off from its first line to its last,   *)
(* but the USB and UART hardware does not stop for that: a packet may      *)
(* arrive between the count and the receive of cdcReceiveDataInBuffer's    *)
(* loop.  So the loop is several actions, and interrupts wait for its end. *)
(* Bytes are named by the order in which the host sends them; what txbuf   *)
(* holds from earlier rounds is Junk.                                      *)
(***************************************************************************)
EXTENDS UsbOutEp

CONSTANTS MaxBytes,    \* bound of the model: bytes the host sends
          MaxWire      \* bound of the model: characters written to the UART

VARIABLES
  ep,                  \* the endpoint, CdcReadCtrl, and txbuf as its mem
  ifg,                 \* the endpoint's bit in USBOEPIFG
  usb, susp,           \* bEnumerationStatus with VBUS, bFunctionSuspended
  txsiz, txo,          \* struct uart_state: fill level, consumed level
  txie,                \* UCTXIE
  tx,                  \* UCA1TXBUF and UCTXIFG: see TypeOK
  pc,                  \* where the main loop is: see TypeOK
  cur, asked,          \* cdcReceiveDataInBuffer: currentPos, bytesInBuf
  sent,                \* history: bytes the host has sent
  wire,                \* history: characters written to UCA1TXBUF
  overasked            \* history: a receive has stayed open

busVars  == <<usb, susp>>
uartVars == <<txsiz, txo, txie, tx, wire>>
appVars  == <<pc, cur, asked>>
vars == <<ep, ifg, busVars, uartVars, appVars, sent, overasked>>

Byte == Nat \ {Junk}

\* pc: in another part of the loop, in case ST_ENUM_ACTIVE, in handle_uart
\* before the count, and between the count and the receive.
\* tx: UCTXIFG is set, UCA1TXBUF holds a character, or the flag was consumed
\* and no character was written, so that it is never set again.
TypeOK ==
  /\ ep \in Endpoint(Byte)
  /\ ifg \in BOOLEAN
  /\ usb \in {"off", "default", "configured"} /\ susp \in BOOLEAN
  /\ txsiz \in 0..MemSize /\ txo \in 0..MemSize /\ txie \in BOOLEAN
  /\ tx \in {"ready", "loaded", "spent"}
  /\ pc \in {"elsewhere", "active", "count", "receive"}
  /\ cur \in 0..MemSize /\ asked \in 0..2*EpSize
  /\ sent \in Nat /\ wire \in Seq(Byte \cup {Junk}) /\ overasked \in BOOLEAN

\* init_uart; USB is not attached yet.
Init ==
  /\ ep = ResetData(Cleared) /\ ifg = FALSE /\ usb = "off" /\ susp = FALSE
  /\ txsiz = 0 /\ txo = 0 /\ txie = FALSE /\ tx = "ready"
  /\ pc = "elsewhere" /\ cur = 0 /\ asked = 0
  /\ sent = 0 /\ wire = <<>> /\ overasked = FALSE

BusUp == usb = "configured" /\ ~susp
InterruptsOn == pc \in {"elsewhere", "active"}      \* GIE
----------------------------------------------------------------------------
\* An OUT packet of n bytes arrives.
HostSends ==
  /\ BusUp /\ CanAccept(ep)
  /\ \E n \in 1..EpSize :
       /\ sent + n <= MaxBytes
       /\ ep' = Accept(ep, [i \in 1..n |-> sent + i])
       /\ sent' = sent + n
  /\ ifg' = TRUE
  /\ UNCHANGED <<busVars, uartVars, appVars, overasked>>

\* iUsbInterruptHandler, USBVECINT_OUTPUT_ENDPOINT5: nothing but a wake-up
\* when no receive is open, otherwise more data for the open one.
OepIsr ==
  /\ InterruptsOn /\ ifg /\ ifg' = FALSE
  /\ ep' = (IF ~ep.open /\ BusUp /\ BytesInUSBBuffer(ep) > 0
            THEN ep ELSE ToBufferFromHost(ep))
  /\ UNCHANGED <<busVars, uartVars, appVars, sent, overasked>>

\* The character in UCA1TXBUF moves to the shift register.
TxReady ==
  /\ tx = "loaded" /\ tx' = "ready"
  /\ UNCHANGED <<ep, ifg, busVars, txsiz, txo, txie, wire, appVars, sent, overasked>>

\* Mutant of AllSent: the interrupt stays enabled.
AllSent_StaysEnabled ==
  /\ txo' = 0 /\ txsiz' = 0 /\ UNCHANGED txie
  /\ ep' = [ep EXCEPT !.mem = Cleared]

\* "Sent all available data, stop interrupt"; the old bytes count as Junk.
AllSent ==
  /\ txo' = 0 /\ txsiz' = 0 /\ txie' = FALSE
  /\ ep' = [ep EXCEPT !.mem = Cleared]

\* USCI_A1_ISR, case 4.
TxIsr ==
  /\ InterruptsOn /\ txie /\ tx = "ready"
  /\ LET n == IF txo < txsiz THEN 1 ELSE 0
     IN  /\ wire' = wire \o [i \in 1..n |-> ep.mem[txo]]
         /\ tx' = (IF n = 1 THEN "loaded" ELSE "spent")
         /\ IF txo + n = txsiz
            THEN AllSent
            ELSE txo' = txo + n /\ UNCHANGED <<txsiz, txie, ep>>
  /\ UNCHANGED <<ifg, busVars, appVars, sent, overasked>>
----------------------------------------------------------------------------
\* The main loop finds USB_connectionState() = ST_ENUM_ACTIVE.
EnterActive ==
  /\ pc = "elsewhere" /\ BusUp /\ Len(wire) < MaxWire
  /\ pc' = "active"
  /\ UNCHANGED <<ep, ifg, busVars, uartVars, cur, asked, sent, overasked>>

\* handle_uart: interrupts off; nothing is received while txbuf is full.
HandleUart ==
  /\ pc = "active"
  /\ pc' = (IF txsiz < MemSize THEN "count" ELSE "elsewhere") /\ cur' = 0
  /\ UNCHANGED <<ep, ifg, busVars, uartVars, asked, sent, overasked>>

\* Mutant of Return: the transmit interrupt is not enabled.
Return_NotEnabled(n) ==
  /\ pc' = "elsewhere" /\ cur' = 0
  /\ IF txsiz + n > txo
     THEN txsiz' = txsiz + n /\ UNCHANGED <<txo, txie>>
     ELSE txsiz' = 0 /\ txo' = 0 /\ UNCHANGED txie
  /\ UNCHANGED <<tx, wire>>

\* Mutant of Return: txbuf starts over whatever it still holds.
Return_StartsOver(n) ==
  /\ pc' = "elsewhere" /\ cur' = 0
  /\ txo' = 0 /\ txsiz' = n /\ txie' = (txie \/ n > 0)
  /\ UNCHANGED <<tx, wire>>

\* cdcReceiveDataInBuffer returns n, and handle_uart goes on to its end.
Return(n) ==
  /\ pc' = "elsewhere" /\ cur' = 0
  /\ IF txsiz + n > txo
     THEN txsiz' = txsiz + n /\ txie' = TRUE /\ UNCHANGED txo
     ELSE txsiz' = 0 /\ txo' = 0 /\ UNCHANGED txie
  /\ UNCHANGED <<tx, wire>>

\* while (bytesInBuf = USBCDC_bytesInUSBBuffer(intfNum))
Count ==
  /\ pc = "count"
  /\ asked' = (IF BusUp THEN BytesInUSBBuffer(ep) ELSE 0)
  /\ \/ asked' > 0 /\ pc' = "receive" /\ UNCHANGED <<cur, uartVars>>
     \/ asked' = 0 /\ Return(cur)
  /\ UNCHANGED <<ep, ifg, busVars, sent, overasked>>

\* Mutant of Target: the data goes to the start of txbuf.
Target_Start == cur

\* Where in txbuf the next byte goes: state.txbuf + state.txsiz, currentPos.
Target == txsiz + cur

\* (WORD)(currentPos - dataBuf + bytesInBuf) <= size
Fits == Target + asked <= MemSize

\* USBCDC_receiveData(currentPos, rxCount, intfNum); its result is ignored.
Receive ==
  /\ pc = "receive"
  /\ LET rxCount == IF Fits THEN asked ELSE MemSize - Target
     IN  /\ ep' = (IF MayReceive(ep, rxCount, BusUp)
                   THEN ReceiveData(ep, Target, rxCount) ELSE ep)
         /\ \/ Fits /\ pc' = "count" /\ cur' = cur + rxCount /\ UNCHANGED uartVars
            \/ ~Fits /\ Return(cur + rxCount)
  /\ overasked' = (overasked \/ ep'.open)
  /\ UNCHANGED <<ifg, busVars, asked, sent>>
----------------------------------------------------------------------------
\* USB_reset with CdcResetData.
UsbReset ==
  /\ usb' = "default" /\ susp' = FALSE
  /\ ep' = ResetData(ep.mem)
  /\ UNCHANGED <<ifg, uartVars, appVars, sent, overasked>>

\* Bus reset; masked while suspended (USBIE = RESRIE).
BusReset == usb # "off" /\ ~susp /\ UsbReset

\* USB_handleVbusOnEvent: enable, reset, connect.
VbusOn == usb = "off" /\ UsbReset

\* PWRVBUSoffHandler: the module is switched off, nothing is cleaned up.
VbusOff == usb # "off" /\ usb' = "off" /\ susp' = FALSE
           /\ UNCHANGED <<ep, ifg, uartVars, appVars, sent, overasked>>

\* SET_CONFIGURATION.
Enumerate == usb = "default" /\ ~susp /\ usb' = "configured"
             /\ UNCHANGED <<ep, ifg, susp, uartVars, appVars, sent, overasked>>

Suspend == usb # "off" /\ ~susp /\ susp' = TRUE
           /\ UNCHANGED <<ep, ifg, usb, uartVars, appVars, sent, overasked>>

Resume == susp /\ susp' = FALSE
          /\ UNCHANGED <<ep, ifg, usb, uartVars, appVars, sent, overasked>>

\* Every one of these is the work of an interrupt.
Bus == /\ InterruptsOn
       /\ BusReset \/ VbusOn \/ VbusOff \/ Enumerate \/ Suspend \/ Resume

Next == \/ HostSends \/ OepIsr \/ TxReady \/ TxIsr
        \/ EnterActive \/ HandleUart \/ Count \/ Receive \/ Bus

Spec == Init /\ [][Next]_vars

\* An interrupt that is pending whenever handle_uart lets interrupts in is
\* taken (strong fairness), the UART sends what it is given, and the main
\* loop goes round.  OepIsr and Receive are enabled whenever their guards hold
\* and are the only steps that clear ifg and leave "receive".
OepIsrRuns     == InterruptsOn /\ ifg /\ ifg' = FALSE
ReceiveReturns == pc = "receive" /\ pc' \in {"count", "elsewhere"}
Fairness == /\ SF_ifg(OepIsrRuns) /\ WF_pc(ReceiveReturns)
            /\ WF_vars(TxReady) /\ SF_vars(TxIsr)
            /\ WF_vars(EnterActive) /\ WF_vars(HandleUart) /\ WF_vars(Count)

FairSpec == Spec /\ Fairness
----------------------------------------------------------------------------
\* Everything the host has sent that is not lost: on the wire, in txbuf, and
\* in the endpoint's buffers.
InTxbuf  == [i \in 1..txsiz + cur - txo |-> ep.mem[txo + i - 1]]
InBuffer == IF usb = "configured" THEN Held(ep) ELSE <<>>
Path     == wire \o InTxbuf \o InBuffer

\* The transmit interrupt is enabled exactly while txbuf holds a character, so
\* it never consumes UCTXIFG for nothing, after which the UART would stay
\* silent for good (uart.c:51, uart.c:120).
TransmitterArmed ==
  /\ tx # "spent"
  /\ InterruptsOn => (txie <=> txo < txsiz)

\* Until a receive has stayed open, the characters go to the UART in the
\* order in which the host sent them, each once and none invented.
InOrder == ~overasked => \A i, j \in 1..Len(Path) : i < j => 0 < Path[i] /\ Path[i] < Path[j]

\* Until a receive has stayed open, no step loses a character while the device
\* stays configured: not a full txbuf, not a packet that is read in two parts,
\* not the moment in which the interrupt empties txbuf.
NothingLost ==
  [][ ~overasked' /\ usb' = "configured"
      => Len(Path') >= Len(Path) /\ SubSeq(Path', 1, Len(Path)) = Path ]_vars

\* Once the host stays attached, all of it reaches the UART, unless a receive
\* has stayed open.
EverythingIsSent ==
  (<>[]BusUp /\ []~overasked) => <>[](InTxbuf = <<>> /\ InBuffer = <<>>)

\* "no receive operation remains open after this call returns"
\* (usbConstructs.c:283), of cdcReceiveDataInBuffer.
NoOpenReceive == InterruptsOn => ~ep.open
============================================================================
