---------------------------- MODULE Rutinas_proof ----------------------------
(***************************************************************************)
(* Safety of Rutinas for every duration, lap and bound: an inductive       *)
(* invariant that follows the pump's and the modem's age through one call  *)
(* of comprobar_rutinas.                                                   *)
(***************************************************************************)
EXTENDS Rutinas, TLAPS

(* No stamp is ahead of the clock, and no wait exceeds its budget.          *)
ClockInv ==
  /\ time_ant <= now /\ time_bomba <= now
  /\ time_off_modem <= now /\ time_on_modem <= now
  /\ lastOff <= now
  /\ pc = "loop" => spent <= MaxLap
  /\ pc \in {"opening", "closing"} => spent <= MaxSettle

(* What the levels and flags are inside the two sequences of water_flow.c. *)
GpioInv ==
  /\ ValveBeforePump
  /\ pc = "opening" => flag_bomba = 0 /\ ev_en = 1 /\ ev_sw = 1
  /\ pc = "closing" => flag_bomba = 1 /\ wp = 0
  /\ pc = "boot" => flag_bomba = 0 /\ flag_modem = 0

(* How old the pump's run is at each point of the call.                    *)
PumpInv ==
  flag_bomba = 1 =>
    /\ pc = "loop" => now - time_bomba <= PumpOn + spent
    /\ pc = "off" => now - time_bomba <= PumpOn + MaxLap
    /\ pc = "closing" => now - time_bomba <= PumpOn + MaxLap + spent
    /\ pc = "on" => now - time_bomba <= PumpOn
    /\ pc = "modem" => now = time_bomba

(* The rest is counted from a stamp no earlier than the last stop.         *)
RestInv ==
  /\ watered = 1 /\ flag_bomba = 0 => lastOff <= time_ant
  /\ pc = "opening" => now - time_ant > PumpRest

(* How old the modem's run is: a running pump postpones its stop.          *)
ModemInv ==
  flag_modem = 1 =>
    /\ flag_bomba = 1 /\ pc # "modem" =>
         time_bomba - time_on_modem <= ModemOn
    /\ flag_bomba = 0 =>
         /\ pc = "loop" => now - time_on_modem <= ModemOn + spent
         /\ pc = "off" => now - time_on_modem <= ModemOn + MaxLap
         /\ pc = "on" => \/ now - time_on_modem <= ModemOn + MaxLap
                         \/ /\ time_ant = now
                            /\ ModemOnBounded
         /\ pc = "opening" =>
              now - time_on_modem <= ModemOn + MaxLap + spent
    /\ pc = "modem" => ModemOnBounded

IInv == TypeOK /\ ClockInv /\ GpioInv /\ PumpInv /\ RestInv /\ ModemInv

(* The type invariant holds in every state of the specification.           *)
LEMMA TypeCorrect == Spec => []TypeOK
<1>. USE TimesAssumption, GpioAssumption DEF TimesAssumption, GpioAssumption
<1>1. Init => TypeOK
  BY DEF Init, TypeOK, Level, get_time
<1>2. TypeOK /\ [Next]_vars => TypeOK'
  <2>. SUFFICES ASSUME TypeOK, [Next]_vars PROVE TypeOK'
    OBVIOUS
  <2>. USE DEF TypeOK, Level, Goto, get_time, flags, timers, gpio, hist
  <2>1. CASE Tick
    BY <2>1 DEF Tick
  <2>2. CASE EnterLoop
    BY <2>2 DEF EnterLoop
  <2>3. CASE Lap
    BY <2>3 DEF Lap
  <2>4. CASE StopPump
    BY <2>4 DEF StopPump
  <2>5. CASE StopNotDue
    BY <2>5 DEF StopNotDue
  <2>6. CASE CloseValve
    BY <2>6 DEF CloseValve
  <2>7. CASE OpenValve
    BY <2>7 DEF OpenValve
  <2>8. CASE StartPump
    BY <2>8 DEF StartPump
  <2>9. CASE StartNotDue
    BY <2>9 DEF StartNotDue
  <2>10. CASE PumpRunning
    BY <2>10 DEF PumpRunning
  <2>11. CASE ModemBlock
    BY <2>11 DEF ModemBlock
  <2>12. CASE Restart
    BY <2>12 DEF Restart
  <2>13. CASE UNCHANGED vars
    BY <2>13 DEF vars
  <2>. QED
    BY <2>1, <2>2, <2>3, <2>4, <2>5, <2>6, <2>7, <2>8, <2>9, <2>10, <2>11,
       <2>12, <2>13 DEF Next
<1>. QED
  BY <1>1, <1>2, PTL DEF Spec

LEMMA InitInvariant == Init => IInv
BY TimesAssumption
   DEF TimesAssumption, Init, IInv, TypeOK, Level, ClockInv, GpioInv, ValveBeforePump, PumpInv,
       RestInv, ModemInv, get_time, duration, ModemOnBounded

(* Every step preserves the inductive invariant.                           *)
LEMMA StepInvariant == IInv /\ TypeOK' /\ [Next]_vars => IInv'
<1>. SUFFICES ASSUME IInv, TypeOK', [Next]_vars PROVE IInv'
  OBVIOUS
<1>. USE TimesAssumption, GpioAssumption DEF TimesAssumption, GpioAssumption, IInv
<1>. USE DEF TypeOK, Level, Goto, get_time, duration, flags, timers, gpio, hist
<1>. USE DEF ClockInv, GpioInv, ValveBeforePump, PumpInv, RestInv, ModemInv,
             ModemOnBounded
<1>1. CASE Tick
  BY <1>1 DEF Tick, Budget
<1>2. CASE EnterLoop
  BY <1>2 DEF EnterLoop
<1>3. CASE Lap
  BY <1>3 DEF Lap
<1>4. CASE StopPump
  BY <1>4 DEF StopPump, PumpExpired
<1>5. CASE StopNotDue
  BY <1>5 DEF StopNotDue, PumpExpired
<1>6. CASE CloseValve
  BY <1>6 DEF CloseValve
<1>7. CASE OpenValve
  BY <1>7 DEF OpenValve
<1>8. CASE StartPump
  BY <1>8 DEF StartPump
<1>9. CASE StartNotDue
  BY <1>9 DEF StartNotDue
<1>10. CASE PumpRunning
  BY <1>10 DEF PumpRunning
<1>11. CASE ModemBlock
  BY <1>11 DEF ModemBlock
<1>12. CASE Restart
  BY <1>12 DEF Restart
<1>13. CASE UNCHANGED vars
  BY <1>13 DEF vars
<1>. QED
  BY <1>1, <1>2, <1>3, <1>4, <1>5, <1>6, <1>7, <1>8, <1>9, <1>10, <1>11,
     <1>12, <1>13 DEF Next

LEMMA Invariant == Spec => []IInv
BY TypeCorrect, InitInvariant, StepInvariant, PTL DEF Spec

(* Whatever the lap, the settling time and the restarts: the pump is only  *)
(* ever powered with both valve lines high.                                *)
THEOREM ValveAlwaysOpen == Spec => []ValveBeforePump
<1>1. IInv => ValveBeforePump
  BY DEF IInv, GpioInv
<1>. QED
  BY <1>1, Invariant, PTL

(* The pump's run never exceeds its time and one lap.                      *)
THEOREM PumpStopsInTime == Spec => []PumpRunBounded
<1>1. IInv => PumpRunBounded
  BY TimesAssumption
     DEF TimesAssumption, IInv, TypeOK, Level, ClockInv, GpioInv, PumpInv,
         PumpRunBounded, duration, get_time
<1>. QED
  BY <1>1, Invariant, PTL

(* The modem's stop is postponed by at most one pump run.                  *)
THEOREM ModemStopsInTime == Spec => []ModemOnBounded
<1>1. IInv => ModemOnBounded
  BY TimesAssumption
     DEF TimesAssumption, IInv, TypeOK, Level, ClockInv, GpioInv, PumpInv,
         ModemInv, ModemOnBounded, duration, get_time
<1>. QED
  BY <1>1, Invariant, PTL

(* Within one boot, no two runs of the pump are closer than its rest.      *)
THEOREM PumpAlwaysRests == Spec => RestBetweenRuns
<1>1. IInv /\ [Next]_vars
        => [wp = 0 /\ wp' = 1 /\ watered = 1 => now - lastOff > PumpRest]_vars
  <2>. SUFFICES ASSUME IInv, Next, wp = 0, wp' = 1, watered = 1
                PROVE  now - lastOff > PumpRest
    OBVIOUS
  <2>1. StartPump
    BY DEF Next, Tick, EnterLoop, Lap, StopPump, StopNotDue, CloseValve,
           OpenValve, StartNotDue, PumpRunning, ModemBlock, Restart, gpio
  <2>. QED
    BY <2>1, TimesAssumption
       DEF TimesAssumption, IInv, TypeOK, GpioInv, RestInv, StartPump, Goto
<1>. QED
  BY <1>1, Invariant, PTL DEF Spec, RestBetweenRuns

=============================================================================
