------------------------------ MODULE UsbAttach ------------------------------
(***************************************************************************)
(* Attaching to the USB: USB_init, USB_enable with its PLL, USB_connect,   *)
(* USB_suspend, USB_resume and USB_disable of usb.c, the VBUS handlers of  *)
(* UsbIsr.c and usbEventHandling.c, main()'s own call of one of them, and  *)
(* the bus error interrupt.                                                *)
(*                                                                         *)
(* A VBUS handler waits a millisecond for the voltage and up to six more   *)
(* for the PLL, with interrupts disabled; a contact that bounces changes   *)
(* the voltage and raises flags in between.  Each wait is a place where    *)
(* the routine may be (isr).  Everything else in a routine is one step.    *)
(***************************************************************************)
EXTENDS Naturals

VARIABLES
  vbus,                  \* USBBGVBV: the voltage on the connector
  vbonifg, vboffifg,     \* the VBUS interrupts that are pending
  vboffie,               \* VBOFFIE
  usben, upllen, pur,    \* USB_EN, UPLLEN, PUR_EN
  locked,                \* the PLL has settled: USBPLLIR stays zero
  enumerated, susp,      \* bEnumerationStatus, bFunctionSuspended
  isr,                   \* "none", or what a routine waits for
  caller,                \* who called USB_enable: what comes after it
  failed,                \* history: USB_enable has given up on the PLL
  missed                 \* history: the last PWRVBUSonHandler took away the
                         \* flag of a voltage that was gone

attachVars == <<vbus, vbonifg, vboffifg, vboffie, usben, upllen, pur, locked,
                enumerated, susp, isr, caller, failed, missed>>
flagVars == <<vbonifg, vboffifg, vboffie>>
moduleVars == <<usben, upllen, locked>>
stateVars == <<pur, enumerated, susp>>
historyVars == <<failed, missed>>

\* The start: USB_connectionInfo.  A VBUS interrupt: the delay.  USB_enable: the
\* look at USBBGVBV, the PLL.
Waits == {"none", "start", "on", "off", "enable", "settle"}
Callers == {"main", "on", "resume"}

AttachTypeOK ==
  /\ vbus \in BOOLEAN /\ vbonifg \in BOOLEAN /\ vboffifg \in BOOLEAN
  /\ vboffie \in BOOLEAN /\ usben \in BOOLEAN /\ upllen \in BOOLEAN
  /\ pur \in BOOLEAN /\ locked \in BOOLEAN /\ enumerated \in BOOLEAN /\ susp \in BOOLEAN
  /\ isr \in Waits /\ caller \in Callers /\ failed \in BOOLEAN /\ missed \in BOOLEAN

\* USB_init: the module is off and only VBONIE is set, whether or not there is
\* a voltage already.
AttachInit ==
  /\ vbus \in BOOLEAN /\ vbonifg = FALSE /\ vboffifg = FALSE /\ vboffie = FALSE
  /\ usben = FALSE /\ upllen = FALSE /\ pur = FALSE /\ locked = FALSE
  /\ enumerated = FALSE /\ susp = FALSE
  /\ isr = "start" /\ caller = "main" /\ failed = FALSE /\ missed = FALSE

\* A VBUS interrupt that is pending and enabled; VBONIE always is.
VbusPending == vbonifg \/ (vboffifg /\ vboffie)
----------------------------------------------------------------------------
\* The voltage on the USB connector changes; its interrupt becomes pending.
VbusRises ==
  /\ ~vbus /\ vbus' = TRUE /\ vbonifg' = TRUE
  /\ UNCHANGED <<vboffifg, vboffie, moduleVars, stateVars, isr, caller, historyVars>>

VbusFalls ==
  /\ vbus /\ vbus' = FALSE /\ vboffifg' = TRUE
  /\ UNCHANGED <<vbonifg, vboffie, moduleVars, stateVars, isr, caller, historyVars>>

\* main(), with interrupts still disabled: "See if we're already attached".
Start ==
  /\ isr = "start" /\ isr' = (IF vbus THEN "enable" ELSE "none")
  /\ UNCHANGED <<vbus, flagVars, moduleVars, stateVars, caller, historyVars>>

\* USBVECINT: reading the vector clears the flag; VBUS on comes before off.
OnVector ==
  /\ isr = "none" /\ vbonifg /\ vbonifg' = FALSE /\ isr' = "on"
  /\ UNCHANGED <<vbus, vboffifg, vboffie, moduleVars, stateVars, caller, historyVars>>

OffVector ==
  /\ isr = "none" /\ vboffifg /\ vboffie /\ ~vbonifg /\ vboffifg' = FALSE /\ isr' = "off"
  /\ UNCHANGED <<vbus, vbonifg, vboffie, moduleVars, stateVars, caller, historyVars>>

\* PWRVBUSonHandler after its delay, up to USB_enable.
OnHandler ==
  /\ isr = "on" /\ isr' = "enable" /\ caller' = "on"
  /\ vboffie' = TRUE /\ vbonifg' = FALSE /\ vboffifg' = FALSE
  /\ missed' = (vboffifg /\ ~vbus)
  /\ UNCHANGED <<vbus, moduleVars, stateVars, failed>>

\* PWRVBUSoffHandler after its delay: nothing is switched off if the voltage is
\* back.
OffHandler ==
  /\ isr = "off" /\ isr' = "none"
  /\ IF vbus
     THEN UNCHANGED <<vboffifg, vboffie, moduleVars, stateVars>>
     ELSE /\ vboffifg' = FALSE /\ vboffie' = FALSE
          /\ usben' = FALSE /\ upllen' = FALSE /\ locked' = FALSE
          /\ pur' = FALSE /\ enumerated' = FALSE /\ susp' = FALSE
  /\ UNCHANGED <<vbus, vbonifg, caller, historyVars>>
----------------------------------------------------------------------------
\* Mutant of Connect: VBOFFIE is left to PWRVBUSonHandler.
Connect_OnlyPur == pur' = TRUE /\ UNCHANGED vboffie

\* USB_connect
Connect == pur' = TRUE /\ vboffie' = TRUE

\* What follows USB_enable: USB_reset and USB_connect if it succeeded, after a
\* resume the clearing of bFunctionSuspended whatever it returned.
Enabled(succeeded) ==
  /\ isr' = "none"
  /\ \/ /\ caller = "resume" /\ susp' = FALSE
        /\ UNCHANGED <<enumerated, pur, vboffie>>
     \/ /\ caller # "resume" /\ succeeded /\ Connect
        /\ enumerated' = FALSE /\ susp' = FALSE
     \/ /\ caller # "resume" /\ ~succeeded
        /\ UNCHANGED <<enumerated, susp, pur, vboffie>>

\* Mutant of AlreadyOn: the clock of the module is not looked at.
AlreadyOn_Module == usben

\* "exit if PLL is already enalbed"
AlreadyOn == usben /\ upllen

\* USB_enable up to its wait.
Enable ==
  /\ isr = "enable"
  /\ \/ ~vbus /\ Enabled(FALSE) /\ UNCHANGED upllen
     \/ vbus /\ AlreadyOn /\ Enabled(TRUE) /\ UNCHANGED upllen
     \/ /\ vbus /\ ~AlreadyOn /\ upllen' = TRUE /\ isr' = "settle"
        /\ UNCHANGED <<stateVars, vboffie>>
  /\ UNCHANGED <<vbus, vbonifg, vboffifg, usben, locked, caller, historyVars>>

\* The PLL has settled, or it has not in twelve tries; then UPLLEN stays set.
Settle ==
  /\ isr = "settle"
  /\ \/ usben' = TRUE /\ locked' = TRUE /\ Enabled(TRUE) /\ UNCHANGED failed
     \/ failed' = TRUE /\ Enabled(FALSE) /\ UNCHANGED <<usben, locked>>
  /\ UNCHANGED <<vbus, vbonifg, vboffifg, upllen, caller, missed>>
----------------------------------------------------------------------------
\* The host is heard: interrupts of the bus come after those of VBUS.
Heard == isr = "none" /\ vbus /\ usben /\ pur /\ ~VbusPending

\* USB_reset; masked while suspended (USBIE = RESRIE).
BusReset ==
  /\ Heard /\ ~susp /\ enumerated' = FALSE
  /\ UNCHANGED <<vbus, flagVars, moduleVars, pur, susp, isr, caller, historyVars>>

\* USB_suspend
BusSuspend ==
  /\ Heard /\ ~susp /\ susp' = TRUE /\ upllen' = FALSE /\ locked' = FALSE
  /\ UNCHANGED <<vbus, flagVars, usben, pur, enumerated, isr, caller, historyVars>>

\* USB_resume, up to USB_enable.
BusResume ==
  /\ Heard /\ susp /\ isr' = "enable" /\ caller' = "resume"
  /\ UNCHANGED <<vbus, flagVars, moduleVars, stateVars, historyVars>>

\* usbSetConfiguration
SetConfiguration ==
  /\ Heard /\ ~susp /\ enumerated' \in BOOLEAN
  /\ UNCHANGED <<vbus, flagVars, moduleVars, pur, susp, isr, caller, historyVars>>

\* USB_disable
Disable == /\ usben' = FALSE /\ upllen' = FALSE /\ pur' = FALSE
           /\ enumerated' = FALSE /\ susp' = FALSE

\* The drivers use the endpoints' memory while it may be without a clock:
\* UNMI_ISR, SYSUNIV_BUSIFG.
BusError ==
  /\ isr = "none" /\ enumerated /\ ~susp /\ ~locked /\ ~VbusPending
  /\ Disable
  /\ UNCHANGED <<vbus, flagVars, locked, isr, caller, historyVars>>

\* A step that ends a routine of the USB interrupt.
Handled == isr # "none" /\ isr' = "none" /\ (isr = "off" \/ caller # "main")

Connector == VbusRises \/ VbusFalls
Routine == Start \/ OnVector \/ OffVector \/ OnHandler \/ OffHandler \/ Enable \/ Settle
Bus == BusReset \/ BusSuspend \/ BusResume \/ SetConfiguration \/ BusError
----------------------------------------------------------------------------
\* "do not access USB memory if suspended (PLL off). It may produce BUS_ERROR"
\* (UsbCdc.c:648): what the drivers take for a bus that is up, enumerated and not
\* suspended, has a clock, unless a VBUS interrupt is about to put it right, or
\* has been thrown away, or USB_resume has not looked at a PLL that failed.
MemoryIsClocked ==
  isr = "none" /\ enumerated /\ ~susp
    => (usben /\ locked) \/ VbusPending \/ failed \/ missed

\* The device is attached in the end when the voltage stays, if the PLL does
\* not fail, and switched off when it stays away, if PWRVBUSonHandler has not
\* thrown away the flag that says so ("clean int flag (bouncing)",
\* UsbIsr.c:298).
AttachFollowsVbus ==
  /\ <>[](vbus /\ ~failed) => <>[](usben /\ pur)
  /\ <>[](~vbus /\ ~missed) => <>[](~usben /\ ~pur)
=============================================================================
