------------------------------- MODULE Rutinas -------------------------------
(***************************************************************************)
(* The irrigation and modem routines of the closet: comprobar_rutinas of   *)
(* main.cpp, called once per lap of app_main's telemetry loop, with the    *)
(* valve and pump sequences of water_flow.c and the clock of contador.c.   *)
(*                                                                         *)
(* One call of comprobar_rutinas is split where time can pass or where     *)
(* another task can step in: at the two vTaskDelay(200 ms) of water_flow.c *)
(* (pc "opening" and "closing") and between its three blocks.  The Wi-Fi   *)
(* event handler may call esp_restart at any of these points; the wall     *)
(* clock survives it, the C globals do not.                                *)
(***************************************************************************)
EXTENDS Integers

CONSTANTS
  PumpOn,        \* seconds the pump runs (30, main.cpp:174)
  PumpRest,      \* seconds it rests (60, main.cpp:185)
  ModemOn,       \* seconds the modem stays on (15, main.cpp:207)
  ModemRest,     \* seconds it stays off (60, main.cpp:217)
  MaxLap,        \* clock seconds one lap of the telemetry loop may take
  MaxSettle,     \* clock seconds one valve delay of 200 ms may touch
  GpioAfterReset,  \* what esp_restart may do to the output registers
  MaxTime,       \* bound: the clock stops here
  MaxBoots       \* bound: esp_restart happens at most this often

ASSUME TimesAssumption ==
  /\ PumpOn \in Nat /\ PumpRest \in Nat /\ ModemOn \in Nat /\ ModemRest \in Nat
  /\ MaxLap \in Nat /\ MaxSettle \in Nat
  /\ MaxTime \in Nat /\ MaxBoots \in Nat

ASSUME GpioAssumption == GpioAfterReset \subseteq {"kept", "cleared"}

VARIABLES
  now,             \* time(), in whole seconds
  spent,           \* seconds since the task entered its present wait
  pc,              \* where the app task is
  flag_bomba, flag_leds, flag_modem,
  time_ant, time_bomba, time_off_modem, time_on_modem,
  ev_en, ev_sw, wp,    \* levels of GPIO_CHANNEL_EV_EN, _EV_SW and _WP
  boots,           \* history: calls of esp_restart
  watered,         \* history: the pump was started since this boot
  lastOff          \* history: when the pump last fell to 0

flags  == <<flag_bomba, flag_leds, flag_modem>>
timers == <<time_ant, time_bomba, time_off_modem, time_on_modem>>
gpio   == <<ev_en, ev_sw, wp>>
hist   == <<boots, watered, lastOff>>
vars   == <<now, spent, pc, flags, timers, gpio, hist>>

Level == {0, 1}

TypeOK ==
  /\ now \in Nat /\ spent \in Nat
  /\ pc \in {"boot", "loop", "off", "closing", "on", "opening", "modem"}
  /\ flag_bomba \in Level /\ flag_leds \in Level /\ flag_modem \in Level
  /\ time_ant \in Nat /\ time_bomba \in Nat
  /\ time_off_modem \in Nat /\ time_on_modem \in Nat
  /\ ev_en \in Level /\ ev_sw \in Level /\ wp \in Level
  /\ boots \in Nat /\ watered \in Level /\ lastOff \in Nat

get_time == now

duration(ant) == get_time - ant

(***************************************************************************)
(* Power on: the clock starts at 0, the outputs are low, the globals have  *)
(* their initial values and app_main stamps time_off_modem.                *)
(***************************************************************************)
Init ==
  /\ now = 0 /\ spent = 0
  /\ pc = "boot"
  /\ flag_bomba = 0 /\ flag_leds = 1 /\ flag_modem = 0
  /\ time_ant = 0 /\ time_bomba = 0
  /\ time_off_modem = get_time /\ time_on_modem = 0
  /\ ev_en = 0 /\ ev_sw = 0 /\ wp = 0
  /\ boots = 0 /\ watered = 0 /\ lastOff = 0

Goto(from, to) == pc = from /\ pc' = to /\ spent' = 0

(* Seconds the task can spend at p; provisioning has no bound of its own.  *)
Budget(p) == CASE p = "boot" -> MaxTime
               [] p = "loop" -> MaxLap
               [] p \in {"opening", "closing"} -> MaxSettle
               [] OTHER -> 0

Tick ==
  /\ now < MaxTime
  /\ spent < Budget(pc)
  /\ now' = now + 1
  /\ spent' = spent + 1
  /\ UNCHANGED <<pc, flags, timers, gpio, hist>>

(* wifi_ok: app_main enters the telemetry loop.                            *)
EnterLoop ==
  /\ Goto("boot", "loop")
  /\ UNCHANGED <<now, flags, timers, gpio, hist>>

(* The lap's sensors, telemetry and sleep are over.                        *)
Lap ==
  /\ Goto("loop", "off")
  /\ UNCHANGED <<now, flags, timers, gpio, hist>>

PumpExpiredMutant == flag_bomba = 1 /\ duration(time_bomba) > PumpRest

PumpExpired == flag_bomba = 1 /\ duration(time_bomba) > PumpOn

(* Closes the valve where StopPump cuts the pump.                          *)
StopPumpMutant ==
  /\ PumpExpired
  /\ Goto("off", "closing")
  /\ ev_sw' = 0
  /\ UNCHANGED <<now, flags, timers, ev_en, wp, hist>>

(* First block, pump due to stop: disable_water_flow up to its delay.      *)
StopPump ==
  /\ PumpExpired
  /\ Goto("off", "closing")
  /\ wp' = 0
  /\ lastOff' = IF wp = 1 THEN now ELSE lastOff
  /\ UNCHANGED <<now, flags, timers, ev_en, ev_sw, boots, watered>>

StopNotDue ==
  /\ ~PumpExpired
  /\ Goto("off", "on")
  /\ UNCHANGED <<now, flags, timers, gpio, hist>>

(* Forgets to stamp the start of the rest.                                 *)
CloseValveMutant ==
  /\ Goto("closing", "on")
  /\ ev_en' = 1 /\ ev_sw' = 0
  /\ flag_bomba' = 0
  /\ UNCHANGED <<now, flag_leds, flag_modem, timers, wp, hist>>

CloseValve ==
  /\ Goto("closing", "on")
  /\ ev_en' = 1 /\ ev_sw' = 0
  /\ flag_bomba' = 0
  /\ time_ant' = get_time
  /\ UNCHANGED <<now, flag_leds, flag_modem, time_bomba, time_off_modem,
                 time_on_modem, wp, hist>>

(* Second block, pump due to start: enable_water_flow up to its delay.     *)
OpenValve ==
  /\ flag_bomba = 0 /\ duration(time_ant) > PumpRest
  /\ Goto("on", "opening")
  /\ ev_en' = 1 /\ ev_sw' = 1
  /\ UNCHANGED <<now, flags, timers, wp, hist>>

(* Counts the day changes where the code negates a flag.                   *)
StartPumpMutant ==
  /\ Goto("opening", "modem")
  /\ wp' = 1
  /\ flag_bomba' = 1
  /\ time_bomba' = get_time
  /\ flag_leds' = flag_leds + 1
  /\ watered' = 1
  /\ UNCHANGED <<now, flag_modem, time_ant, time_off_modem, time_on_modem,
                 ev_en, ev_sw, boots, lastOff>>

StartPump ==
  /\ Goto("opening", "modem")
  /\ wp' = 1
  /\ flag_bomba' = 1
  /\ time_bomba' = get_time
  /\ flag_leds' = 1 - flag_leds
  /\ watered' = 1
  /\ UNCHANGED <<now, flag_modem, time_ant, time_off_modem, time_on_modem,
                 ev_en, ev_sw, boots, lastOff>>

(* The modem's block nested in the pump's start.                           *)
StartNotDueMutant ==
  /\ flag_bomba = 0 /\ duration(time_ant) <= PumpRest
  /\ Goto("on", "loop")
  /\ UNCHANGED <<now, flags, timers, gpio, hist>>

StartNotDue ==
  /\ flag_bomba = 0 /\ duration(time_ant) <= PumpRest
  /\ Goto("on", "modem")
  /\ UNCHANGED <<now, flags, timers, gpio, hist>>

(* The brace of the second block spans the modem's: a running pump skips it. *)
PumpRunning ==
  /\ flag_bomba = 1
  /\ Goto("on", "loop")
  /\ UNCHANGED <<now, flags, timers, gpio, hist>>

(* Third block: off when its time is up, and on again if the rest is over, *)
(* both tested in the same call.                                           *)
ModemBlock ==
  LET expired == flag_modem = 1 /\ duration(time_on_modem) > ModemOn
      offAt   == IF expired THEN get_time ELSE time_off_modem
      due     == (flag_modem = 0 \/ expired) /\ duration(offAt) > ModemRest
  IN /\ Goto("modem", "loop")
     /\ time_off_modem' = offAt
     /\ time_on_modem' = IF due THEN get_time ELSE time_on_modem
     /\ flag_modem' = IF due THEN 1 ELSE IF expired THEN 0 ELSE flag_modem
     /\ UNCHANGED <<now, flag_bomba, flag_leds, time_ant, time_bomba, gpio,
                    hist>>

(***************************************************************************)
(* esp_restart from the Wi-Fi event handler: the globals start over and    *)
(* app_main stamps time_off_modem again, but config_water_flow_channel     *)
(* writes no level, so the outputs are what the reset left.                *)
(***************************************************************************)
Restart ==
  /\ pc # "boot" /\ boots < MaxBoots
  /\ pc' = "boot" /\ spent' = 0
  /\ flag_bomba' = 0 /\ flag_leds' = 1 /\ flag_modem' = 0
  /\ time_ant' = 0 /\ time_bomba' = 0
  /\ time_off_modem' = get_time /\ time_on_modem' = 0
  /\ boots' = boots + 1
  /\ watered' = 0
  /\ \/ /\ "kept" \in GpioAfterReset
        /\ UNCHANGED <<gpio, lastOff>>
     \/ /\ "cleared" \in GpioAfterReset
        /\ ev_en' = 0 /\ ev_sw' = 0 /\ wp' = 0
        /\ lastOff' = IF wp = 1 THEN now ELSE lastOff
  /\ UNCHANGED now

Next ==
  \/ Tick \/ EnterLoop \/ Lap
  \/ StopPump \/ StopNotDue \/ CloseValve
  \/ OpenValve \/ StartPump \/ StartNotDue \/ PumpRunning
  \/ ModemBlock
  \/ Restart

Spec == Init /\ [][Next]_vars

-----------------------------------------------------------------------------
(* Safety of the actuators                                                 *)

(* The pump never pushes against a closed valve: whenever WP is high both  *)
(* valve lines are, at every point of enable_water_flow and of             *)
(* disable_water_flow and across a restart between two of their writes.    *)
ValveBeforePump == wp = 1 => ev_en = 1 /\ ev_sw = 1

(* A pump the routine knows to run is stopped in time: it never runs       *)
(* longer than its 30 s and the one lap that can pass before the next      *)
(* comprobar_rutinas looks at it.                                          *)
PumpRunBounded ==
  flag_bomba = 1 /\ wp = 1 => duration(time_bomba) <= PumpOn + MaxLap

(* Every irrigation but the first of a boot comes more than 60 s after the *)
(* pump last stopped, whatever happened to the loop in between.            *)
RestBetweenRuns ==
  [][wp = 0 /\ wp' = 1 /\ watered = 1 => now - lastOff > PumpRest]_vars

(* The modem's 15 s are tested only while the pump is off: a pump run can  *)
(* postpone the modem's stop, but by one pump run and one lap at most.     *)
ModemOnBounded ==
  flag_modem = 1 =>
    duration(time_on_modem) <= ModemOn + PumpOn + MaxLap + MaxSettle

(* The comment "Ha pasado 1 minuto" (a minute has passed, main.cpp:183) on *)
(* the block that starts the pump: no start within a minute of the last    *)
(* stop.                                                                   *)
UnMinuto == [][wp = 0 /\ wp' = 1 => now - lastOff > PumpRest]_vars

=============================================================================
