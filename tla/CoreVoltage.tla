----------------------------- MODULE CoreVoltage -----------------------------
(***************************************************************************)
(* Raising the core voltage (HAL_PMM.c: SetVCore, SetVCoreUp), which       *)
(* main() asks for while the supply is still rising.  A supervisor raises  *)
(* its delay flag some time after its register was last written; the code  *)
(* waits for the flags in loops without a limit, and leaves the last one   *)
(* with one side still on its way.  A step is one access of a register;    *)
(* a flag that was waited for is cleared in the step that found it, as a   *)
(* side that settles in between might as well have settled before.         *)
(* Voltages are counted in core levels: vcc is the highest level that the  *)
(* supply is enough for.                                                   *)
(***************************************************************************)
EXTENDS Naturals

CONSTANTS Level,      \* the level main() asks for (3)
          StartVcc    \* bound of the model: supply when it asks

ASSUME LevelAssumption == Level \in Nat /\ StartVcc \subseteq 0..Level

VARIABLES
  vcc, vcore,
  actlevel,    \* local of SetVCore: the level it believes in
  status,      \* its result
  up,          \* where SetVCoreUp is: see CoreTypeOK
  high, low,   \* levels in SVSMHCTL (monitor and supervisor) and SVSMLCTL
  settled,     \* the sides whose last written level has come into force
  flags,       \* PMMIFG: "hdly", "ldly", "svmh" (supply below the monitor's level)
  between      \* history: in this call the high side, still on its way from the last
               \* one, settled between the clearing of the flags and the new level
coreVars == <<vcc, vcore, actlevel, status, up, high, low, settled, flags, between>>

CoreInit ==
  /\ vcc \in StartVcc /\ vcore = 0 /\ actlevel = 0 /\ status = "ok" /\ up = "called"
  /\ high = [svm |-> 0, svs |-> 0] /\ low = 0
  /\ settled = {"high", "low"} /\ flags = {} /\ between = FALSE

\* The hardware, while it matters to SetVCore: the supply comes up; a side
\* settles and says so, even one that Restore has just switched off
SupplyRises ==
  /\ up # "returned" /\ vcc < Level /\ vcc' = vcc + 1
  /\ UNCHANGED <<vcore, actlevel, status, up, high, low, settled, flags, between>>
HighSettles ==
  /\ up # "returned" /\ "high" \notin settled /\ settled' = settled \cup {"high"}
  /\ flags' = flags \cup {"hdly"} \cup (IF vcc < high.svm THEN {"svmh"} ELSE {})
  /\ between' = (between \/ up = "cleared")
  /\ UNCHANGED <<vcc, vcore, actlevel, status, up, high, low>>
LowSettles ==
  /\ up # "returned" /\ "low" \notin settled /\ settled' = settled \cup {"low"}
  /\ flags' = flags \cup {"ldly"}
  /\ UNCHANGED <<vcc, vcore, actlevel, status, up, high, low, between>>
----------------------------------------------------------------------------
Go(from, to) == up = from /\ up' = to
\* A loop that waits for a flag, and the clearing of it
Seen(flag) == flag \in flags /\ flags' = flags \ {flag}
\* A write to a side's register: its delay begins again
WriteHigh(levels) == high' = levels /\ settled' = settled \ {"high"}
WriteLow(level) == low' = level /\ settled' = settled \ {"low"}

\* The loop of SetVCore; actlevel counts up whether the step works or not.  The
\* call begins with "Clear flags"
Raise ==
  /\ IF actlevel < Level /\ status = "ok"
     THEN Go("called", "cleared") /\ actlevel' = actlevel + 1 /\ flags' = {} /\ between' = FALSE
     ELSE Go("called", "returned") /\ UNCHANGED <<actlevel, flags, between>>
  /\ UNCHANGED <<vcc, vcore, status, high, low, settled>>
\* "Set SVM highside to new level"
SetMonitor ==
  /\ Go("cleared", "monitor") /\ WriteHigh([svm |-> actlevel, svs |-> 0])
  /\ UNCHANGED <<vcc, vcore, actlevel, status, low, flags, between>>

\* Mutant of MonitorSettled: the supply is looked at before the monitor has settled.
MonitorSettled_AtOnce ==
  /\ Go("monitor", "check") /\ flags' = flags \ {"hdly"}
  /\ UNCHANGED <<vcc, vcore, actlevel, status, high, low, settled, between>>
MonitorSettled ==
  /\ Go("monitor", "check") /\ Seen("hdly")
  /\ UNCHANGED <<vcc, vcore, actlevel, status, high, low, settled, between>>
\* "Check if a VCore increase is possible"
Check ==
  /\ \/ "svmh" \in flags /\ Go("check", "impossible") /\ flags' = flags \ {"hdly"}
     \/ "svmh" \notin flags /\ Go("check", "possible") /\ UNCHANGED flags
  /\ UNCHANGED <<vcc, vcore, actlevel, status, high, low, settled, between>>
\* "recover the previous settings"
Recover ==
  /\ Go("impossible", "recover") /\ WriteHigh([svm |-> vcore, svs |-> vcore])
  /\ UNCHANGED <<vcc, vcore, actlevel, status, low, flags, between>>
Recovered ==
  /\ Go("recover", "called") /\ "hdly" \in flags /\ flags' = {} /\ status' = "error"
  /\ UNCHANGED <<vcc, vcore, actlevel, high, low, settled, between>>

\* "Set also SVS highside to new level"
Supervise ==
  /\ Go("possible", "supervise") /\ WriteHigh([high EXCEPT !.svs = actlevel])
  /\ UNCHANGED <<vcc, vcore, actlevel, status, low, flags, between>>
SetLevel ==
  /\ Go("supervise", "low") /\ Seen("hdly") /\ vcore' = actlevel /\ WriteLow(actlevel)
  /\ UNCHANGED <<vcc, actlevel, status, high, between>>
LowSettled ==
  /\ Go("low", "lowOff") /\ Seen("ldly")
  /\ UNCHANGED <<vcc, vcore, actlevel, status, high, low, settled, between>>
\* Each register loses all but its levels, and gets its old enable bits back
Restore ==
  /\ \/ Go("lowOff", "lowOn") /\ WriteLow(low) /\ UNCHANGED high
     \/ Go("lowOn", "highOff") /\ WriteLow(low) /\ UNCHANGED high
     \/ Go("highOff", "highOn") /\ WriteHigh(high) /\ UNCHANGED low
     \/ Go("highOn", "restored") /\ WriteHigh(high) /\ UNCHANGED low
  /\ UNCHANGED <<vcc, vcore, actlevel, status, flags, between>>
\* "Wait until high side, low side settled": one of them
Raised ==
  /\ Go("restored", "called") /\ flags \cap {"hdly", "ldly"} # {} /\ flags' = {}
  /\ UNCHANGED <<vcc, vcore, actlevel, status, high, low, settled, between>>

CoreNext == \/ SupplyRises \/ HighSettles \/ LowSettles \/ Raise \/ SetMonitor
            \/ MonitorSettled \/ Check \/ Recover \/ Recovered \/ Supervise \/ SetLevel
            \/ LowSettled \/ Restore \/ Raised
\* SetVCore on its own, as main() calls it
CoreSpec == CoreInit /\ [][CoreNext]_coreVars
----------------------------------------------------------------------------
\* The values of the variables; up is the place behind SetVCoreUp's last access of
\* a register: in its loops, between two accesses, or nowhere.
CoreTypeOK ==
  /\ vcc \in 0..Level /\ vcore \in 0..Level /\ actlevel \in 0..Level
  /\ status \in {"ok", "error"} /\ low \in 0..Level /\ between \in BOOLEAN
  /\ high \in [svm : 0..Level, svs : 0..Level]
  /\ up \in {"called", "cleared", "monitor", "check", "impossible", "recover", "possible",
             "supervise", "low", "lowOff", "lowOn", "highOff", "highOn", "restored",
             "returned"}
  /\ settled \subseteq {"high", "low"} /\ flags \subseteq {"hdly", "ldly", "svmh"}

\* The core voltage goes up one level at a time, and only when the supply was
\* found to be enough for it, with the supervisor of the supply in force.  The one
\* exception is a call in which the high side, left on its way by the wait for "one of
\* them" at the end of the last call, settled after the flags were cleared and
\* before the new level was written: never the first call.
RaisedSafely ==
  [][vcore' # vcore => /\ vcore' = vcore + 1 /\ (between => vcore > 0)
                       /\ between \/ /\ vcc >= vcore' /\ "high" \in settled
                                     /\ high.svs = vcore']_coreVars
=============================================================================
