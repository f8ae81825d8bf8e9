----------------------------- MODULE BoardStart -----------------------------
(***************************************************************************)
(* The start of main() (ordb3a_main.c) up to the main loop: Init_Ports     *)
(* brings up the voltages, with boardInit; the supply that rises then must *)
(* carry the core voltage that SetVCore sets; the flash is probed and the  *)
(* FPGA programmed; the main loop switches the FPGA's power.  The boot     *)
(* strapper's main() brings up the voltages only.                          *)
(***************************************************************************)
EXTENDS BoardPower, CoreVoltage, XsvfReader

bootVars == <<powerVars, coreVars, xsvfVars>>

BootInit == PowerInit /\ CoreInit /\ XsvfInit

\* Init_Ports; its caller sets fpga_powered whatever boardInit returned
InitPorts == /\ ClearBus \/ Identify \/ SetRegister \/ ReadBack \/ PowerOn
             /\ UNCHANGED <<coreVars, xsvfVars>>
Started == stage = "running" /\ program = "firmware"
SetVCore == Started /\ CoreNext /\ UNCHANGED <<powerVars, xsvfVars>>
\* Whatever SetVCore returned
ProgramFpga == Started /\ up = "returned" /\ XsvfNext /\ UNCHANGED <<powerVars, coreVars>>
SwitchFpga == /\ boot = "main" /\ (FpgaPowerdown \/ FpgaPowerup)
              /\ UNCHANGED <<coreVars, xsvfVars>>

\* The bound on faults is one for all parts
BootNext == /\ InitPorts \/ SetVCore \/ ProgramFpga \/ SwitchFpga
            /\ faults' + late' <= MaxFaults
BootSpec == BootInit /\ [][BootNext]_bootVars
=============================================================================
