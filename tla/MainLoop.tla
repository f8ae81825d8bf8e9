------------------------------ MODULE MainLoop ------------------------------
(***************************************************************************)
(* The main loop of ordb3a_main.c with the sleep routines of safesleep.h:  *)
(* commands of the FPGA (bCommand), the connection state, the sleep modes, *)
(* and the interrupts that wake the CPU.                                   *)
(*                                                                         *)
(* Every access of the loop to a variable it shares with an interrupt is a *)
(* step of its own, and an interrupt may come between any two of them.     *)
(* What the USB interrupt does is in UsbAttach.                            *)
(* The data handlers' own work is in the modules of the data paths; here   *)
(* they only wake the CPU.                                                 *)
(***************************************************************************)
EXTENDS UsbAttach

VARIABLES
  bCommand,              \* bit 7: a command that has not been handled
  SR_sleep, SR_sleep_mode,
  lpm,                   \* the sleep bits of the status register
  pc, seen,              \* the main loop: position, switch value
  fpga_powered

sleepVars == <<SR_sleep, SR_sleep_mode, lpm>>
mainVars == <<pc, seen, fpga_powered>>
vars == <<attachVars, bCommand, sleepVars, mainVars>>

Modes == {"none", "LPM0", "LPM3"}
States == {"disconnected", "no_enum", "active", "noenum_suspended",
           "enum_suspended", "in_progress"}

\* pc: reading bCommand, writing it back, injecting it, reading the connection
\* state, the three steps of set_sleep_mode and enter_sleep, ST_ENUM_ACTIVE.
Steps == {"top", "clear", "inject", "look", "compare", "mode", "sleep", "arm", "serve"}

TypeOK ==
  /\ AttachTypeOK
  /\ bCommand \in BOOLEAN
  /\ SR_sleep \in Modes /\ SR_sleep_mode \in Modes /\ lpm \in Modes
  /\ pc \in Steps /\ seen \in States /\ fpga_powered \in BOOLEAN

\* main() before its loop, with init_sleep(LPM0_bits).
Init ==
  /\ AttachInit
  /\ bCommand = FALSE
  /\ SR_sleep = "LPM0" /\ SR_sleep_mode = "LPM0" /\ lpm = "none"
  /\ pc = "top" /\ seen = "disconnected" /\ fpga_powered = TRUE

\* USB_connectionState()
ConnectionState ==
  CASE ~vbus -> "disconnected"
    [] vbus /\ ~pur -> "no_enum"
    [] vbus /\ pur /\ enumerated /\ ~susp -> "active"
    [] vbus /\ pur /\ ~enumerated /\ susp -> "noenum_suspended"
    [] vbus /\ pur /\ enumerated /\ susp -> "enum_suspended"
    [] OTHER -> "in_progress"

\* The sleep mode a case of the switch asks for.
ModeOf(state) == CASE state = "disconnected" -> "LPM3"
                   [] state \in {"noenum_suspended", "enum_suspended"} -> "LPM0"
                   [] OTHER -> "none"
----------------------------------------------------------------------------
\* Mutant of Wakeup: only __bic_status_register_on_exit, as TI's examples do.
Wakeup_OnExitOnly == lpm' = "none" /\ UNCHANGED <<SR_sleep, SR_sleep_mode>>

\* WAKEUP_IRQ(LPM3_bits)
Wakeup == SR_sleep' = "none" /\ lpm' = "none" /\ UNCHANGED SR_sleep_mode

\* The connector, the USB interrupt and its handlers, all of which return TRUE,
\* and usbSetConfiguration, which returns FALSE and so does not wake the CPU.
UsbStep ==
  /\ \/ (Connector \/ SetConfiguration \/ BusError) /\ UNCHANGED sleepVars
     \/ Routine /\ IF Handled THEN Wakeup ELSE UNCHANGED sleepVars
     \/ (BusReset \/ BusSuspend) /\ Wakeup
     \/ BusResume /\ UNCHANGED sleepVars
  /\ UNCHANGED <<bCommand, mainVars>>

\* PORT1_ISR: a command of the FPGA.
CommandIsr ==
  /\ isr = "none" /\ bCommand' = TRUE
  /\ Wakeup
  /\ UNCHANGED <<attachVars, mainVars>>

\* USBHID_handleDataReceived, TIMER1_A0_ISR, USCI_A1_ISR.
DataIsr ==
  /\ isr = "none" /\ Wakeup
  /\ UNCHANGED <<attachVars, bCommand, mainVars>>
----------------------------------------------------------------------------
\* A step of the main loop from one place to another: only while awake and not
\* interrupted.
At(from, to) == isr = "none" /\ lpm = "none" /\ pc = from /\ pc' = to

\* uint8_t gotcommand = bCommand; if (gotcommand & 0x80)
ReadCommand ==
  /\ At("top", IF bCommand THEN "clear" ELSE "look")
  /\ UNCHANGED <<attachVars, bCommand, sleepVars, seen, fpga_powered>>

\* bCommand = gotcommand & 0x7f: a command that came in between is overwritten.
ClearCommand ==
  /\ At("clear", "inject") /\ bCommand' = FALSE
  /\ UNCHANGED <<attachVars, sleepVars, seen, fpga_powered>>

\* uart_inject(bCommand): the character goes where UartToUsb's Inject puts it.
InjectCommand ==
  /\ At("inject", "look")
  /\ UNCHANGED <<attachVars, bCommand, sleepVars, seen, fpga_powered>>

\* switch (USB_connectionState()), and the FPGA's power: on in ST_ENUM_ACTIVE,
\* off in ST_ENUM_SUSPENDED.
Look ==
  /\ seen' = ConnectionState
  /\ At("look", IF seen' \in {"no_enum", "in_progress"} THEN "top" ELSE "compare")
  /\ fpga_powered' = (seen' = "active" \/ (fpga_powered /\ seen' # "enum_suspended"))
  /\ UNCHANGED <<attachVars, bCommand, sleepVars>>

\* Mutant of CompareMode: the new mode is taken without staying awake once.
CompareMode_NoStayAwake ==
  /\ At("compare", "mode")
  /\ UNCHANGED <<attachVars, bCommand, sleepVars, seen, fpga_powered>>

\* set_sleep_mode: if (SR_sleep!=sleepmode) stay_awake() ...
CompareMode ==
  /\ At("compare", "mode")
  /\ SR_sleep' = (IF SR_sleep = ModeOf(seen) THEN SR_sleep ELSE "none")
  /\ UNCHANGED <<attachVars, bCommand, SR_sleep_mode, lpm, seen, fpga_powered>>

\* ... SR_sleep_mode = sleepmode
SetMode ==
  /\ At("mode", "sleep")
  /\ SR_sleep_mode' = ModeOf(seen)
  /\ UNCHANGED <<attachVars, bCommand, SR_sleep, lpm, seen, fpga_powered>>

\* Mutant of Sleep: the mode that was set, whatever an interrupt has done since.
Sleep_InSetMode ==
  /\ At("sleep", "arm")
  /\ lpm' = SR_sleep_mode
  /\ UNCHANGED <<attachVars, bCommand, SR_sleep, SR_sleep_mode, seen, fpga_powered>>

\* enter_sleep: bis.b SR_sleep, r2 ...
Sleep ==
  /\ At("sleep", "arm")
  /\ lpm' = SR_sleep
  /\ UNCHANGED <<attachVars, bCommand, SR_sleep, SR_sleep_mode, seen, fpga_powered>>

\* ... mov.b SR_sleep_mode, SR_sleep
Arm ==
  /\ At("arm", IF seen = "active" THEN "serve" ELSE "top")
  /\ SR_sleep' = SR_sleep_mode
  /\ UNCHANGED <<attachVars, bCommand, SR_sleep_mode, lpm, seen, fpga_powered>>

\* The rest of case ST_ENUM_ACTIVE; stay_awake() if there is more NAND work.
Serve ==
  /\ At("serve", "top")
  /\ SR_sleep' \in {SR_sleep, "none"}
  /\ UNCHANGED <<attachVars, bCommand, SR_sleep_mode, lpm, seen, fpga_powered>>

Interrupt == UsbStep \/ CommandIsr \/ DataIsr

Main == \/ ReadCommand \/ ClearCommand \/ InjectCommand \/ Look \/ CompareMode
        \/ SetMode \/ Sleep \/ Arm \/ Serve

Next == Interrupt \/ Main

Spec == Init /\ [][Next]_vars

\* The CPU executes the loop while it is awake and takes pending interrupts.
\* Nothing obliges the host, the FPGA, the timer or the UART to do anything.
Fairness == WF_vars(Main) /\ WF_vars(Routine /\ UsbStep)
FairSpec == Spec /\ Fairness
----------------------------------------------------------------------------
\* "it is crucial for consistent reaction to events that the main thread not
\* go to sleep before processing events" (safesleep.h:3): when the CPU sleeps
\* and no interrupt is being handled, no command of the FPGA waits and the loop
\* has acted on the present connection state.
NoSleepOnEvent ==
  lpm # "none" /\ isr = "none" => ~bCommand /\ (seen = ConnectionState \/ VbusPending)

\* The CPU sleeps only in the mode that goes with the connection state the
\* loop has seen, never in the one before ("Make sure the next sleep isn't the
\* wrong mode", safesleep.h:54): LPM3, which stops SMCLK, only without USB.
SleepsInTheRightMode == lpm # "none" => lpm = ModeOf(seen)

\* The FPGA is powered up once USB stays active and down once it stays
\* suspended: no change of the bus is slept through.
FpgaFollowsBus ==
  /\ <>[](ConnectionState = "active") => <>[]fpga_powered
  /\ <>[](ConnectionState = "enum_suspended") => <>[]~fpga_powered
============================================================================
