-------------------------------- MODULE PiPower --------------------------------
(***************************************************************************)
(* The power of the companion computer: heartbeat_monitor.c, the battery   *)
(* task of battery.c, and the /cmd_vel callback that is the only heartbeat *)
(* (Standard and Industrial SKU, CONFIG_PI5_POWER_ENABLED).                *)
(*                                                                         *)
(* Both tasks run once per second and both drive PI5_RELAY_GPIO.  A tick   *)
(* is a second: it passes when each task has had its turn.                 *)
(***************************************************************************)
EXTENDS Naturals

CONSTANTS
  Grace,             \* HEARTBEAT_BOOT_GRACE_MS, in ticks
  Timeout,           \* HEARTBEAT_TIMEOUT_MS
  Pulse,             \* HEARTBEAT_RELAY_PULSE_MS
  ResetWindow,       \* HEARTBEAT_RESET_WINDOW_MS
  MaxResets,         \* HEARTBEAT_MAX_RESETS
  CriticalTime,      \* BATT_CRITICAL_SHUTDOWN_MS
  RecoveryCount,     \* BATT_RECOVERY_COUNT
  PowerEvents        \* what may happen: subset of {"estop", "discharge"}

ASSUME PowerAssumption ==
  /\ Grace \in Nat /\ Timeout \in Nat /\ Pulse \in Nat /\ ResetWindow \in Nat
  /\ MaxResets \in Nat \ {0}
  /\ CriticalTime \in Nat
  /\ RecoveryCount \in Nat \ {0}

VARIABLES
  hb,                \* s_state
  hbAge,             \* ticks since s_last_heartbeat_us
  initAge,           \* ticks since s_init_time_us
  resets,            \* s_reset_count
  firstAge,          \* ticks since s_first_reset_us
  relay,             \* level of PI5_RELAY_GPIO
  hbTask,            \* where heartbeat_monitor_task is
  pulse,             \* ticks the relay has been held off
  pi,                \* the companion computer
  sentAge,           \* ticks since it sent its last /cmd_vel
  estopped,          \* safety_is_estopped()
  critical,          \* battery_get_state() == BATT_CRITICAL
  criticalAge,       \* ticks since critical_start_tick; Unset: critical_start_tick == 0
  shutdown_initiated, critical_estop_triggered, recovery_counter,
  batt,              \* where battery_task is
  owed,              \* the tasks that have not had this second's turn
  cycleAge           \* history: ages of the last MaxResets - 1 power cycles

hbVars   == <<hb, hbAge, initAge, resets, firstAge, hbTask, pulse, cycleAge>>
piVars   == <<relay, pi, sentAge>>
battVars == <<criticalAge, shutdown_initiated, critical_estop_triggered, recovery_counter, batt>>
powerVars == <<hbVars, piVars, battVars, estopped, critical, owed>>

Unset == CriticalTime + 1
Cycles == 1 .. MaxResets - 1
Older(age, limit) == IF age <= limit THEN age + 1 ELSE age

PowerInit ==
  /\ hb = "WAITING" /\ hbAge = 0 /\ initAge = 0 /\ resets = 0 /\ firstAge = 0
  /\ relay = 1 /\ pi = "booting" /\ sentAge = Timeout + 1
  /\ hbTask = "wait" /\ pulse = 0
  /\ estopped \in (IF "estop" \in PowerEvents THEN BOOLEAN ELSE {FALSE})
  /\ critical = FALSE /\ criticalAge = Unset
  /\ shutdown_initiated = FALSE /\ critical_estop_triggered = FALSE /\ recovery_counter = 0
  /\ batt = "poll" /\ owed = {}
  /\ cycleAge = [i \in Cycles |-> ResetWindow + 1]

-------------------------------------------------------------------------------
(* The Pi and the rest of the robot.                                       *)

\* Booting takes longer than the few instructions between the relay and the count.
PiBoots ==
  /\ pi = "booting" /\ hbTask # "count"
  /\ pi' = "up"
  /\ UNCHANGED <<hbVars, relay, sentAge, battVars, estopped, critical, owed>>

PiHangs ==
  /\ pi = "up"
  /\ pi' = "hung"
  /\ UNCHANGED <<hbVars, relay, sentAge, battVars, estopped, critical, owed>>

\* heartbeat_feed.  TIMEOUT always goes back to ACTIVE, WAITING only after the boot grace.
Feed ==
  /\ hbAge' = 0
  /\ hb' = IF hb = "TIMEOUT" \/ (hb = "WAITING" /\ initAge >= Grace) THEN "ACTIVE" ELSE hb
  /\ UNCHANGED <<initAge, resets, firstAge, hbTask, pulse, cycleAge>>

\* cmd_vel_callback: a command that finds the platform E-stopped returns before the feed.
CmdVel ==
  /\ pi = "up"
  /\ sentAge' = 0
  /\ IF estopped THEN UNCHANGED hbVars ELSE Feed
  /\ UNCHANGED <<relay, pi, battVars, estopped, critical, owed>>

\* E-stop and recovery as far as they are not the battery's (see SafetyMotor).
EstopChanges ==
  /\ "estop" \in PowerEvents
  /\ estopped' = ~estopped
  /\ UNCHANGED <<hbVars, piVars, battVars, critical, owed>>

VoltageChanges ==
  /\ "discharge" \in PowerEvents
  /\ critical' = ~critical
  /\ UNCHANGED <<hbVars, piVars, battVars, estopped, owed>>

\* A tick needs both tasks at rest or waiting out the relay pulse.
PowerTick ==
  /\ owed = {} /\ batt = "poll"
  /\ hbTask = "wait" \/ (hbTask = "pulse" /\ pulse < Pulse)
  /\ owed' = {"battery"} \cup (IF hbTask = "wait" THEN {"heartbeat"} ELSE {})
  /\ hbAge' = Older(hbAge, Timeout)
  /\ initAge' = IF initAge < Grace THEN initAge + 1 ELSE initAge
  /\ firstAge' = IF resets > 0 THEN Older(firstAge, ResetWindow) ELSE firstAge
  /\ cycleAge' = [i \in Cycles |-> Older(cycleAge[i], ResetWindow)]
  /\ sentAge' = Older(sentAge, Timeout)
  /\ criticalAge' = IF criticalAge < CriticalTime THEN criticalAge + 1 ELSE criticalAge
  /\ pulse' = IF hbTask = "pulse" THEN pulse + 1 ELSE pulse
  /\ UNCHANGED <<hb, resets, hbTask, relay, pi, estopped, critical, shutdown_initiated,
                 critical_estop_triggered, recovery_counter, batt>>

-------------------------------------------------------------------------------
(* heartbeat_monitor_task and power_cycle_pi5.                             *)

HeartbeatFrame == UNCHANGED <<battVars, estopped, critical, sentAge>>

\* Mutant: the boot grace counts as silence.
CheckHeartbeat_Waiting ==
  /\ "heartbeat" \in owed /\ hbTask = "wait"
  /\ owed' = owed \ {"heartbeat"}
  /\ hbTask' = IF hb # "SAFE_MODE" /\ hbAge > Timeout THEN "mark" ELSE "wait"
  /\ UNCHANGED <<hb, hbAge, initAge, resets, firstAge, pulse, cycleAge, relay, pi>>
  /\ HeartbeatFrame

\* Mutant: only a timeout that was already marked is acted on.
CheckHeartbeat_Marked ==
  /\ "heartbeat" \in owed /\ hbTask = "wait"
  /\ owed' = owed \ {"heartbeat"}
  /\ hbTask' = IF hb = "TIMEOUT" /\ hbAge > Timeout THEN "mark" ELSE "wait"
  /\ UNCHANGED <<hb, hbAge, initAge, resets, firstAge, pulse, cycleAge, relay, pi>>
  /\ HeartbeatFrame

\* The state and the last heartbeat are copied under the lock and compared after it.
CheckHeartbeat ==
  /\ "heartbeat" \in owed /\ hbTask = "wait"
  /\ owed' = owed \ {"heartbeat"}
  /\ hbTask' = IF hb \notin {"SAFE_MODE", "WAITING"} /\ hbAge > Timeout THEN "mark" ELSE "wait"
  /\ UNCHANGED <<hb, hbAge, initAge, resets, firstAge, pulse, cycleAge, relay, pi>>
  /\ HeartbeatFrame

\* A heartbeat that came in since is not looked at again.
MarkTimeout ==
  /\ hbTask = "mark"
  /\ hbTask' = "off"
  /\ hb' = "TIMEOUT"
  /\ UNCHANGED <<hbAge, initAge, resets, firstAge, pulse, cycleAge, relay, pi, owed>>
  /\ HeartbeatFrame

RelayOff ==
  /\ hbTask = "off"
  /\ hbTask' = "pulse" /\ pulse' = 0
  /\ relay' = 0 /\ pi' = "off"
  /\ UNCHANGED <<hb, hbAge, initAge, resets, firstAge, cycleAge, owed>> /\ HeartbeatFrame

RelayOn ==
  /\ hbTask = "pulse" /\ pulse = Pulse
  /\ hbTask' = "count"
  /\ relay' = 1 /\ pi' = IF relay = 0 THEN "booting" ELSE pi
  /\ UNCHANGED <<hb, hbAge, initAge, resets, firstAge, pulse, cycleAge, owed>>
  /\ HeartbeatFrame

\* The first reset of a window: none counted yet, or the window of the first has passed.
Fresh == resets = 0 \/ firstAge > ResetWindow

CountReset ==
  /\ hbTask = "count"
  /\ hbTask' = "wait" /\ pulse' = 0
  /\ resets' = IF Fresh THEN 1 ELSE resets + 1
  /\ firstAge' = IF Fresh THEN 0 ELSE firstAge
  /\ IF resets' >= MaxResets
     THEN hb' = "SAFE_MODE" /\ UNCHANGED <<hbAge, initAge>>
     ELSE hb' = "WAITING" /\ hbAge' = 0 /\ initAge' = 0
  /\ cycleAge' = [i \in Cycles |-> IF i = 1 THEN 0 ELSE cycleAge[i - 1]]
  /\ UNCHANGED <<relay, pi, owed>> /\ HeartbeatFrame

HeartbeatTask == CheckHeartbeat \/ MarkTimeout \/ RelayOff \/ RelayOn \/ CountReset

-------------------------------------------------------------------------------
(* battery_task.                                                           *)

BatteryFrame == UNCHANGED <<hbVars, critical, sentAge>>

Sustained == (IF criticalAge = Unset THEN 0 ELSE criticalAge) >= CriticalTime

\* Mutant: every critical reading starts the critical period anew.
CriticalReading_Restarts ==
  /\ "battery" \in owed /\ batt = "poll" /\ critical
  /\ owed' = owed \ {"battery"}
  /\ recovery_counter' = 0
  /\ criticalAge' = 0
  /\ critical_estop_triggered' = TRUE
  /\ estopped' = (estopped \/ ~critical_estop_triggered)
  /\ IF Sustained /\ ~shutdown_initiated
     THEN shutdown_initiated' = TRUE /\ batt' = "cut"
     ELSE UNCHANGED <<shutdown_initiated, batt>>
  /\ UNCHANGED <<relay, pi>> /\ BatteryFrame

\* safety_trigger_estop is called once per episode, and does nothing outside NORMAL.
CriticalReading ==
  /\ "battery" \in owed /\ batt = "poll" /\ critical
  /\ owed' = owed \ {"battery"}
  /\ recovery_counter' = 0
  /\ criticalAge' = IF criticalAge = Unset THEN 0 ELSE criticalAge
  /\ critical_estop_triggered' = TRUE
  /\ estopped' = (estopped \/ ~critical_estop_triggered)
  /\ IF Sustained /\ ~shutdown_initiated
     THEN shutdown_initiated' = TRUE /\ batt' = "cut"
     ELSE UNCHANGED <<shutdown_initiated, batt>>
  /\ UNCHANGED <<relay, pi>> /\ BatteryFrame

\* After payload_power_off: the Pi is cut whatever the heartbeat monitor is doing.
CutLoads ==
  /\ batt = "cut"
  /\ batt' = "poll"
  /\ relay' = 0 /\ pi' = "off"
  /\ UNCHANGED <<criticalAge, shutdown_initiated, critical_estop_triggered, recovery_counter,
                 estopped, owed>> /\ BatteryFrame

Recovered == recovery_counter + 1 >= RecoveryCount

\* RecoveryCount good readings in a row re-arm the E-stop and the shutdown; fewer leave the
\* start of the critical period standing.
GoodReading ==
  /\ "battery" \in owed /\ batt = "poll" /\ ~critical
  /\ owed' = owed \ {"battery"}
  /\ IF Recovered
     THEN /\ recovery_counter' = 0 /\ criticalAge' = Unset
          /\ shutdown_initiated' = FALSE /\ critical_estop_triggered' = FALSE
     ELSE /\ recovery_counter' = recovery_counter + 1
          /\ UNCHANGED <<criticalAge, shutdown_initiated, critical_estop_triggered>>
  /\ UNCHANGED <<relay, pi, estopped, batt>> /\ BatteryFrame

BatteryTask == CriticalReading \/ CutLoads \/ GoodReading

-------------------------------------------------------------------------------
PowerNext ==
  \/ PiBoots \/ PiHangs \/ CmdVel \/ EstopChanges \/ VoltageChanges \/ PowerTick
  \/ HeartbeatTask
  \/ BatteryTask

PowerSpec == PowerInit /\ [][PowerNext]_powerVars

\* Both tasks are scheduled for ever and time passes.
PowerFairSpec == PowerSpec /\ WF_powerVars(HeartbeatTask) /\ WF_powerVars(BatteryTask) /\ WF_powerVars(PowerTick)

-------------------------------------------------------------------------------
(* Properties.                                                             *)

\* Every variable keeps the type and the bounds its declaration gives it.
PowerTypeOK ==
  /\ hb \in {"WAITING", "ACTIVE", "TIMEOUT", "SAFE_MODE"}
  /\ hbAge \in 0 .. Timeout + 1 /\ sentAge \in 0 .. Timeout + 1
  /\ initAge \in 0 .. Grace
  /\ resets \in 0 .. MaxResets /\ firstAge \in 0 .. ResetWindow + 1
  /\ relay \in {0, 1} /\ pi \in {"off", "booting", "up", "hung"}
  /\ hbTask \in {"wait", "mark", "off", "pulse", "count"} /\ pulse \in 0 .. Pulse
  /\ estopped \in BOOLEAN /\ critical \in BOOLEAN
  /\ criticalAge \in 0 .. CriticalTime + 1
  /\ shutdown_initiated \in BOOLEAN /\ critical_estop_triggered \in BOOLEAN
  /\ recovery_counter \in 0 .. RecoveryCount - 1
  /\ batt \in {"poll", "cut"} /\ owed \subseteq {"battery", "heartbeat"}
  /\ cycleAge \in [Cycles -> 0 .. ResetWindow + 1]

\* The monitor never cuts a Pi that is still in its boot grace, although a snapshot taken
\* before a power cycle would say it is silent.
BootGraceRespected == [][hbTask = "off" /\ relay' = 0 /\ relay = 1 => initAge >= Grace]_powerVars

\* SAFE_MODE is entered only when this power cycle and the MaxResets - 1 before it lie
\* within one reset window: cycles spread wider never add up.
SafeModeJustified ==
  [][hb' = "SAFE_MODE" /\ hb # "SAFE_MODE" => \A i \in Cycles : cycleAge[i] <= ResetWindow]_powerVars

\* A Pi that hangs while it is ACTIVE loses its power, even when the battery task switches
\* the relay in between and whatever was snapshotted before the hang.
HungPiPowerCycled == (hb = "ACTIVE" /\ pi = "hung") ~> pi = "off"

\* A battery that stays critical ends in the low-power shutdown, although a few good readings
\* interrupt it and the E-stop it triggers is cleared meanwhile.
SustainedCriticalCuts == critical ~> (~critical \/ shutdown_initiated)

\* The safety of the supply: types, no cut within the boot grace, and SAFE_MODE only for power
\* cycles within one window.
PowerSafety == []PowerTypeOK /\ BootGraceRespected /\ SafeModeJustified

-------------------------------------------------------------------------------
(* What the documents say and the code does not do.                        *)

\* "Battery critical shutdown: verify payload/Pi5/WiFi off" and "System continues running
\* only: external WDT feed + E-stop monitor + battery monitor" (HARDWARE_FIX_PLAN.md): a Pi
\* that was cut stays off for as long as the battery is critical.
ShutdownHolds ==
  [][shutdown_initiated /\ batt = "poll" /\ critical /\ relay = 0 => relay' = 0]_powerVars
===============================================================================
