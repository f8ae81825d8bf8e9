----------------------------- MODULE BoardPower -----------------------------
(***************************************************************************)
(* Bringing up the board's voltages over I2C (boardinit.c, and the copy of *)
(* it in the boot strapper's main.c), and switching the FPGA's power later. *)
(* No interrupt is enabled at start-up: a step is one access of the chip.  *)
(* The chip may fail to acknowledge, and it may hold the bus when the      *)
(* program starts because the last reset came in the middle of an access.  *)
(***************************************************************************)
EXTENDS I2cMaster

CONSTANTS Programs,      \* of "firmware" and "bootstrapper", those considered
          HungBytes,     \* bytes the chip may be sending at the start
          CutAt,         \* settings in whose middle the last reset may have come,
                         \* 10 for a switch of the FPGA's power
          MaxFaults,     \* bound of the model: refused acknowledges
          MaxSwitches    \* bound of the model: switches of the FPGA's power

ASSUME PowerAssumption == /\ Programs \subseteq {"firmware", "bootstrapper"}
                          /\ HungBytes \subseteq Byte /\ CutAt \subseteq 0..10
                          /\ MaxFaults \in Nat /\ MaxSwitches \in Nat

VARIABLES
  chip,      \* the power chip, at its end of the wires
  program,   \* which of the programs runs
  stage,     \* where boardInit is: "clear" the bus, "identify" the chip,
             \* "access" it, or done and main "running"
  at, part,  \* the next access: of the setting Order[at], four writes and a read
  result,    \* boardInit's result so far
  pwrEn,     \* the PWR_EN line
  powered,   \* fpga_powered of main
  refused,   \* history: an access of the last switch was refused
  restarts,  \* history: how often boardInit began again
  faults, switches
powerVars == <<chip, program, stage, at, part, result, pwrEn, powered, refused, restarts,
               faults, switches>>
----------------------------------------------------------------------------
\* The settings in the order of boardInitOrdb3a, DEFSLEW for the copying of the
\* voltages into the converters.  The firmware enables every rail, the boot
\* strapper LDO1 and LS2.
Order == <<DEFDCDC1, DEFDCDC2, DEFDCDC3, DEFLDO1, DEFLDO2, DEFLS1, DEFLS2, DEFSLEW, ENABLE>>
Wanted(p, reg) == CASE reg = DEFDCDC1 -> 24  [] reg = DEFDCDC2 -> 56 [] reg = DEFDCDC3 -> 8
                    [] reg = DEFLDO1 -> 15   [] reg = DEFLDO2 -> 1   [] reg = DEFLS1 -> 47
                    [] reg = DEFLS2 -> 31    [] reg = DEFSLEW -> GO + 6
                    [] OTHER -> IF p = "firmware" THEN 127 ELSE 34

\* Mutant of ReadsBack: nothing is read back.
ReadsBack_Trusting(reg) == FALSE
\* "No readback here, because the GO bit autoclears"
ReadsBack(reg) == reg # DEFSLEW
Verified == {DEFDCDC1, DEFDCDC2, DEFDCDC3, DEFLDO1, DEFLDO2, DEFLS1, DEFLS2, ENABLE}
----------------------------------------------------------------------------
\* The registers as a run of p left them that was reset just before the last
\* write of setting m took effect; m = 0: as at power on, m = 10: with all settings
\* made, in a switch of the FPGA's power
Aim(m) == CASE m = 0 -> CHIPID [] m = 10 -> SEQ6 [] OTHER -> Order[m]
Left(p, m) ==
  [ptr  |-> Aim(m),
   regs |-> [r \in Registers |-> IF r = CHIPID THEN 240 + 2
                                 ELSE IF \E i \in 1..m - 1 : Order[i] = r
                                      THEN Wanted(p, r) % GO ELSE 0],
   unlocked |-> IF m = 0 THEN -1 ELSE Aim(m),
   pass |-> IF m \in {0, 10} THEN <<>> ELSE <<Order[m], Wanted(p, Order[m])>>,
   active |-> [r \in Converters |-> IF m > 8 THEN Wanted(p, r) ELSE 0],
   rails |-> IF m = 10 THEN "on" ELSE "off"]

\* The whole bytes of a setting's writes and reads
Whole(p, m, ph) ==
  CASE ph = "addr" -> {2 * SlaveAddr, 2 * SlaveAddr + 1}
    [] ph = "reg"  -> {PASSWORD, Left(p, m).ptr}
    [] OTHER       -> CASE m = 0 -> {} [] m = 10 -> {SEQDWN, SEQUP}
                        [] OTHER -> {Wanted(p, Order[m])}

\* The chip between two accesses and in the middle of every one that the reset may
\* have cut off: sending a bit, a byte sent, hearing a byte, a byte heard, acknowledging
Rest(t) == ChipAt("idle", 0, 0, 1, FALSE, 0, t)
CutSending(t) == {SendBit(Rest(t), x, i) : x \in HungBytes, i \in 1..8}
CutSent(t) == {ChipAt("send", 8, x, 1, TRUE, 0, t) : x \in HungBytes}
CutHearing(t) == {ChipAt(ph, i, 0, 1, FALSE, 0, t) : ph \in Receiving, i \in 0..7}
CutHeard(p, m, t) ==
  UNION {{ChipAt(ph, 8, x, 1, FALSE, 0, t) : x \in Whole(p, m, ph)} : ph \in Receiving}
CutAcking(p, m, t) ==
  UNION {{ChipAt(ph, 8, x, 0, TRUE, 0, t) : x \in Whole(p, m, ph)} : ph \in Receiving}
FoundAt(p, m) ==
  LET t == Left(p, m)
  IN {Rest(t)} \cup CutSending(t) \cup CutSent(t) \cup CutHearing(t)
       \cup CutHeard(p, m, t) \cup CutAcking(p, m, t)

PowerInit ==
  /\ program \in Programs
  /\ \E p \in Programs, m \in CutAt : (m = 10 => p = "firmware") /\ chip \in FoundAt(p, m)
  /\ stage = "clear" /\ at = 1 /\ part = 1 /\ result = 0 /\ pwrEn = FALSE
  /\ powered = FALSE /\ refused = FALSE /\ restarts = 0 /\ faults = 0 /\ switches = 0

\* One access, of which the chip may refuse an acknowledge
Refusals == {k \in 0..3 : k = 0 \/ faults < MaxFaults}
Refusing(c, k) == ChipAt(c.ph, c.n, c.byte, c.drive, c.acking, k, c.tps)
Count(k) == faults' = IF k = 0 THEN faults ELSE faults + 1

\* LED_OFF, swi2cmst_init, swi2cmst_clrbus
ClearBus ==
  /\ stage = "clear" /\ stage' = "identify" /\ at' = 1 /\ part' = 1 /\ chip' = Cleared(chip)
  /\ UNCHANGED <<program, result, pwrEn, powered, refused, restarts, faults, switches>>

\* An access that succeeded, or "continue": boardInit begins again
Proceed(ok) ==
  /\ stage' = IF ok THEN "access" ELSE "clear"
  /\ restarts' = IF ok THEN restarts ELSE restarts + 1

\* tps65217_chipId
Identify ==
  /\ stage = "identify"
  /\ \E k \in Refusals :
       LET r == RdReg(Refusing(chip, k), CHIPID)
           known == r.result = 0 /\ (r.data \div 16) * 16 \in ChipIds
       IN /\ chip' = r.chip /\ Count(k)
          /\ Proceed(known)
          /\ result' = (IF known THEN 0 ELSE 1)
  /\ UNCHANGED <<program, at, part, pwrEn, powered, refused, switches>>

AnyError(x, y) == IF x = 1 \/ y = 1 THEN 1 ELSE 0

\* SET_TPS_REG_PW2: "set a level 2 password-protected register", twice the password
\* and the value
SetRegister ==
  /\ stage = "access" /\ at <= Len(Order) /\ part <= 4
  /\ LET reg == Order[at]
     IN \E k \in Refusals :
          LET w == IF part \in {1, 3} THEN WrReg(Refusing(chip, k), PASSWORD, Key(reg))
                                      ELSE WrReg(Refusing(chip, k), reg, Wanted(program, reg))
          IN chip' = w.chip /\ result' = AnyError(result, w.result) /\ Count(k)
  /\ IF part = 4 /\ ~ReadsBack(Order[at]) THEN at' = at + 1 /\ part' = 1
                                          ELSE at' = at /\ part' = part + 1
  /\ UNCHANGED <<program, stage, pwrEn, powered, refused, restarts, switches>>

\* "read back and verify"
ReadBack ==
  /\ stage = "access" /\ at <= Len(Order) /\ part = 5
  /\ \E k \in Refusals :
       LET r == RdReg(Refusing(chip, k), Order[at])
       IN /\ chip' = r.chip /\ result' = AnyError(result, r.result) /\ Count(k)
          /\ Proceed(r.data = Wanted(program, Order[at]))
  /\ at' = at + 1 /\ part' = 1
  /\ UNCHANGED <<program, pwrEn, powered, refused, switches>>

Holding(c, t) == ChipAt(c.ph, c.n, c.byte, c.drive, c.acking, c.refuse, t)

\* PWR_EN_ON: "PM chip will power up all the other rails"
PowerOn ==
  /\ stage = "access" /\ at > Len(Order)
  /\ stage' = "running" /\ pwrEn' = TRUE /\ powered' = TRUE
  /\ chip' = Holding(chip, [chip.tps EXCEPT !.rails = "on"])
  /\ UNCHANGED <<program, at, part, result, refused, restarts, faults, switches>>

\* fpga_powerdown and fpga_powerup, as main calls them; it looks at no result
Switch(do) ==
  /\ stage = "running" /\ program = "firmware" /\ switches < MaxSwitches
  /\ \E k, l \in Refusals :
       /\ k = 0 \/ l = 0
       /\ LET w == WrReg(Refusing(chip, k), PASSWORD, Key(SEQ6))
              x == WrReg(Refusing(w.chip, l), SEQ6, do)
          IN chip' = x.chip
       /\ Count(IF k = 0 THEN l ELSE k) /\ refused' = (k # 0 \/ l # 0)
  /\ switches' = switches + 1
  /\ UNCHANGED <<program, stage, at, part, result, pwrEn, restarts>>
FpgaPowerdown == powered /\ Switch(SEQDWN) /\ powered' = FALSE
FpgaPowerup   == ~powered /\ Switch(SEQUP) /\ powered' = TRUE

PowerNext == \/ ClearBus \/ Identify \/ SetRegister \/ ReadBack \/ PowerOn
             \/ FpgaPowerdown \/ FpgaPowerup
----------------------------------------------------------------------------
\* The values of the variables; at is a setting, or just after the last one.
PowerTypeOK ==
  /\ program \in Programs /\ pwrEn \in BOOLEAN /\ powered \in BOOLEAN
  /\ result \in 0..1 /\ chip.ph \in Receiving \cup {"idle", "deaf", "send"}
  /\ stage \in {"clear", "identify", "access", "running"}
  /\ at \in 1..Len(Order) + 1 /\ part \in 1..5

\* swi2cmst_clrbus frees the bus whatever access the last reset cut off, and no
\* access leaves it taken: between accesses the chip waits for a START and holds
\* no wire.  So boardInit begins again only after a refused acknowledge.
BusReleased ==
  /\ stage # "clear" => chip.ph = "idle" /\ chip.drive = 1
  /\ restarts <= faults

\* PWR_EN goes on only with every voltage and the enables set in the chip,
\* although a missing acknowledge is ignored; if boardInit's result is OK the
\* converters run at them as well (nothing looks at that result, and the copy is
\* the one write not read back).  Afterwards the FPGA's rails are as fpga_powered
\* says, unless an access of the last switch was refused.
PoweredRight ==
  pwrEn => /\ \A reg \in Verified : chip.tps.regs[reg] = Wanted(program, reg)
           /\ result = 0 => \A reg \in Converters : chip.tps.active[reg] = Wanted(program, reg)
           /\ ~refused => chip.tps.rails = (IF powered THEN "on" ELSE "off")
=============================================================================
