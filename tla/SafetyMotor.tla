------------------------------ MODULE SafetyMotor ------------------------------
(***************************************************************************)
(* The ESP32 safety core: the E-stop state machine of safety.c, the motor  *)
(* output of motor_control.c and the /cmd_vel path of microros_transport.c *)
(*                                                                         *)
(* Every task runs at the granularity of its critical sections: a value    *)
(* read under one lock may be stale when the next one is taken.  The GPIO  *)
(* interrupt preempts all of them and takes no motor lock.  Time is a      *)
(* Tick that ages the timestamps of the code; the safety relay coil is in  *)
(* series with the E-stop button, so its feedback follows the button for   *)
(* as long as the contacts are sound.                                      *)
(***************************************************************************)
EXTENDS Naturals

CONSTANTS
  Monitors,            \* tasks that call safety_trigger_estop (battery, thermal, ...)
  Events,              \* what the environment does: subset of
                       \* {"press", "degrade", "reboot", "flashfail"}
  ServiceOps,          \* calls of the recovery API: subset of {"reset", "confirm", "clear"}
  IsrModes,            \* outcomes of gpio_isr_handler_add: subset of BOOLEAN
  FaultThreshold,      \* relay faults that escalate to RELAY_FAULT (3)
  FaultCap,            \* saturation of relay_fault_count (UINT8_MAX)
  HealthyThreshold,    \* RELAY_HEALTHY_THRESHOLD (10)
  MismatchThreshold,   \* RELAY_MISMATCH_DEBOUNCE_THRESHOLD (3)
  Grace,               \* RELAY_RELEASE_GRACE_MS, in ticks
  CmdVelTimeout,       \* CMD_VEL_TIMEOUT_MS, in ticks
  WatchdogTimeout,     \* WATCHDOG_TIMEOUT_MS, in ticks
  RecoveryTimeout      \* RECOVERY_PENDING_TIMEOUT_MS, in ticks

ASSUME SafetyAssumption ==
  /\ IsrModes \subseteq BOOLEAN
  /\ FaultThreshold \in Nat /\ FaultThreshold > 1
  /\ FaultCap \in Nat /\ FaultThreshold <= FaultCap
  /\ HealthyThreshold \in Nat \ {0}
  /\ MismatchThreshold \in Nat \ {0}
  /\ Grace \in Nat /\ CmdVelTimeout \in Nat
  /\ WatchdogTimeout \in Nat /\ RecoveryTimeout \in Nat
  /\ Grace <= RecoveryTimeout

VARIABLES
  state,                   \* safety.c: state
  relay_fault_count,
  relay_healthy_count,
  relay_mismatch_debounce,
  nvs_fault,               \* the persisted relay_flt flag
  armed,                   \* watchdog_armed
  transAge,                \* ticks since last_state_transition_us
  feedAge,                 \* ticks since last_watchdog_feed
  button,                  \* E-stop button pressed (ESTOP_GPIO low)
  relaySound,              \* the relay contacts follow the coil
  isrInstalled,            \* gpio_isr_handler_add succeeded
  isrPending,              \* a falling edge waits for the interrupt
  isrPc,
  duty,                    \* 0: all PWM channels zero, 1: some channel driven
  stopped,
  isr_stop_requested,
  task,                    \* where safety_task is
  esc,                     \* its fault_count >= 3 snapshot
  ret,                     \* where it continues after motor_stop_all
  sample,                  \* its relay_fb, relay_fb2 and grace reading
  cmd,                     \* where the micro-ROS executor is
  cmdSeen,                 \* last_cmd_vel_time > 0
  cmdAge,                  \* ticks since last_cmd_vel_time
  svc,                     \* where the caller of reset, confirm and clear is
  mon,                     \* where each monitor task is
  orphaned                 \* history: a stop was lost since the last motor_stop_all

relayVars  == <<relay_fault_count, relay_healthy_count, relay_mismatch_debounce>>
motorVars  == <<duty, stopped, isr_stop_requested, orphaned>>
clockVars  == <<transAge, feedAge, armed>>
envVars    == <<button, relaySound, isrInstalled>>
isrVars    == <<isrPending, isrPc>>
taskVars   == <<task, esc, ret, sample>>
cmdVars    == <<cmd, cmdSeen, cmdAge>>
vars == <<state, relayVars, nvs_fault, clockVars, envVars, isrVars, motorVars,
          taskVars, cmdVars, svc, mon>>

SafetyState == {"NORMAL", "ESTOPPED", "RECOVERY_PENDING", "RELAY_FAULT"}
TaskPc == {"boot", "selftest", "halt", "deferred", "clear", "poll", "debounce", "timeout", "revert",
           "sample", "mismatch", "relay", "watchdog", "stop", "persist"}
\* safety_task has the highest priority, so time passes only where it blocks: its delays,
\* the self-test of the boot, the I2C read before the watchdog check and the flash write.
TaskBlocks == {"selftest", "deferred", "debounce", "watchdog", "persist"}
Sample == [fb : BOOLEAN, fb2 : BOOLEAN, grace : BOOLEAN]
NoSample == [fb |-> FALSE, fb2 |-> FALSE, grace |-> FALSE]

\* The tasks are created only after boot, and not at all on the halt path.
Running == task \notin {"boot", "selftest", "halt"}

Older(age, limit) == IF age < limit THEN age + 1 ELSE age
Bump(count) == IF count < FaultCap THEN count + 1 ELSE count

\* Mutant: the flags are set and the PWM channels keep their duty.
MotorStopAll_KeepsDuty ==
  /\ cmd # "write"
  /\ stopped' = TRUE /\ isr_stop_requested' = FALSE /\ orphaned' = FALSE
  /\ UNCHANGED duty

\* motor_stop_all takes motor_spinlock, which the drive in progress holds.
MotorStopAll ==
  /\ cmd # "write"
  /\ duty' = 0
  /\ stopped' = TRUE
  /\ isr_stop_requested' = FALSE
  /\ orphaned' = FALSE

-------------------------------------------------------------------------------
(* Boot: safety_init, safety_relay_selftest and the halt of app_main.       *)

Init ==
  /\ state = "NORMAL"
  /\ relay_fault_count = 0 /\ relay_healthy_count = 0 /\ relay_mismatch_debounce = 0
  /\ nvs_fault \in BOOLEAN
  /\ armed = FALSE /\ transAge = RecoveryTimeout /\ feedAge = 0
  /\ button \in (IF "press" \in Events THEN BOOLEAN ELSE {FALSE})
  /\ relaySound = TRUE
  /\ isrInstalled = FALSE /\ isrPending = FALSE /\ isrPc = "idle"
  /\ duty = 0 /\ stopped = TRUE /\ isr_stop_requested = FALSE /\ orphaned = FALSE
  /\ task = "boot" /\ esc = FALSE /\ ret = "deferred" /\ sample = NoSample
  /\ cmd = "idle" /\ cmdSeen = FALSE /\ cmdAge = 0
  /\ svc = "idle" /\ mon = [m \in Monitors |-> "idle"]

Feedback == IF relaySound THEN {~button} ELSE BOOLEAN

\* safety_init.  The interrupt is live from here on.
SafetyInit ==
  /\ task = "boot"
  /\ task' = "selftest"
  /\ isrInstalled' \in IsrModes
  /\ state' = IF nvs_fault THEN "RELAY_FAULT" ELSE IF button THEN "ESTOPPED" ELSE "NORMAL"
  /\ feedAge' = 0
  /\ relay_fault_count' = 0
  /\ UNCHANGED <<relay_healthy_count, relay_mismatch_debounce, nvs_fault, armed, transAge,
                 button, relaySound, isrVars, motorVars, esc, ret, sample, cmdVars, svc, mon>>

\* A failed self-test aborts app_main and the board boots again with a fresh count, so only
\* a passed one is left.  The halt looks at the state as the interrupt has left it.
SelfTest ==
  /\ task = "selftest"
  /\ ~button \in Feedback
  /\ relay_fault_count' = 0
  /\ task' = IF state = "RELAY_FAULT" THEN "halt" ELSE "deferred"
  /\ UNCHANGED <<state, relay_healthy_count, relay_mismatch_debounce, nvs_fault, clockVars,
                 envVars, isrVars, motorVars, esc, ret, sample, cmdVars, svc, mon>>

Boot == SafetyInit \/ SelfTest

\* Power cycle, brown-out or esp_restart: RAM is lost, NVS and the hardware are not.
Reboot ==
  /\ "reboot" \in Events
  /\ task # "boot"
  /\ state' = "NORMAL"
  /\ relay_fault_count' = 0 /\ relay_healthy_count' = 0 /\ relay_mismatch_debounce' = 0
  /\ armed' = FALSE /\ transAge' = RecoveryTimeout /\ feedAge' = 0
  /\ isrInstalled' = FALSE /\ isrPending' = FALSE /\ isrPc' = "idle"
  /\ duty' = 0 /\ stopped' = TRUE /\ isr_stop_requested' = FALSE /\ orphaned' = FALSE
  /\ task' = "boot" /\ esc' = FALSE /\ ret' = "deferred" /\ sample' = NoSample
  /\ cmd' = "idle" /\ cmdSeen' = FALSE /\ cmdAge' = 0
  /\ svc' = "idle" /\ mon' = [m \in Monitors |-> "idle"]
  /\ UNCHANGED <<nvs_fault, button, relaySound>>

-------------------------------------------------------------------------------
(* The environment: the button, the relay contacts and time.               *)

PressButton ==
  /\ "press" \in Events
  /\ ~button
  /\ button' = TRUE
  /\ isrPending' = (isrPending \/ isrInstalled)
  /\ UNCHANGED <<state, relayVars, nvs_fault, clockVars, relaySound, isrInstalled, isrPc,
                 motorVars, taskVars, cmdVars, svc, mon>>

ReleaseButton ==
  /\ button
  /\ button' = FALSE
  /\ UNCHANGED <<state, relayVars, nvs_fault, clockVars, relaySound, isrInstalled, isrVars,
                 motorVars, taskVars, cmdVars, svc, mon>>

\* A contact welds, sticks open or bounces: from here on both readings are arbitrary.
RelayDegrades ==
  /\ "degrade" \in Events
  /\ relaySound
  /\ relaySound' = FALSE
  /\ UNCHANGED <<state, relayVars, nvs_fault, clockVars, button, isrInstalled, isrVars,
                 motorVars, taskVars, cmdVars, svc, mon>>

\* Interrupt service and the spinlocked drive take microseconds: no tick falls inside.
Tick ==
  /\ task \in TaskBlocks
  /\ ~isrPending /\ isrPc = "idle" /\ cmd # "write"
  /\ transAge' = Older(transAge, RecoveryTimeout)
  /\ feedAge' = IF armed THEN Older(feedAge, WatchdogTimeout) ELSE feedAge
  /\ cmdAge' = IF cmdSeen THEN Older(cmdAge, CmdVelTimeout + 1) ELSE cmdAge
  /\ UNCHANGED <<state, relayVars, nvs_fault, armed, envVars, isrVars, motorVars, taskVars,
                 cmd, cmdSeen, svc, mon>>

-------------------------------------------------------------------------------
(* estop_isr: the state under its spinlock, then motor_stop_all_isr.       *)

IsrEnter ==
  /\ isrPending /\ isrPc = "idle"
  /\ isrPending' = FALSE
  /\ isrPc' = "stop"
  /\ state' = "ESTOPPED"
  /\ transAge' = 0
  /\ UNCHANGED <<relayVars, nvs_fault, feedAge, armed, envVars, motorVars, taskVars,
                 cmdVars, svc, mon>>

IsrStop ==
  /\ isrPc = "stop"
  /\ isrPc' = "idle"
  /\ isr_stop_requested' = TRUE
  /\ stopped' = TRUE
  /\ UNCHANGED <<state, relayVars, nvs_fault, clockVars, envVars, isrPending, duty, orphaned,
                 taskVars, cmdVars, svc, mon>>

-------------------------------------------------------------------------------
(* safety_task, one action per critical section of its loop.               *)

SafetyFrame == UNCHANGED <<envVars, isrVars, cmdVars, svc, mon>>

\* safety_process_deferred_stop: motor_stop_all, then motor_clear_isr_stop.
DeferredStop ==
  /\ task = "deferred"
  /\ IF isr_stop_requested THEN MotorStopAll /\ task' = "clear"
                           ELSE UNCHANGED motorVars /\ task' = "poll"
  /\ UNCHANGED <<state, relayVars, nvs_fault, clockVars, esc, ret, sample>> /\ SafetyFrame

\* A request the interrupt raised after the motor_stop_all above is cleared unserved.
ClearIsrStop ==
  /\ task = "clear"
  /\ task' = "poll"
  /\ isr_stop_requested' = FALSE
  /\ orphaned' = (orphaned \/ isr_stop_requested)
  /\ UNCHANGED <<state, relayVars, nvs_fault, clockVars, duty, stopped, esc, ret, sample>>
  /\ SafetyFrame

PollButton ==
  /\ task = "poll"
  /\ task' = IF state = "NORMAL" /\ button THEN "debounce" ELSE "timeout"
  /\ UNCHANGED <<state, relayVars, nvs_fault, clockVars, motorVars, esc, ret, sample>>
  /\ SafetyFrame

\* After ESTOP_DEBOUNCE_MS the state is overwritten whatever it has become.
Debounce ==
  /\ task = "debounce"
  /\ IF button
     THEN state' = "ESTOPPED" /\ transAge' = 0 /\ task' = "stop" /\ ret' = "timeout"
     ELSE UNCHANGED <<state, transAge, ret>> /\ task' = "timeout"
  /\ UNCHANGED <<relayVars, nvs_fault, feedAge, armed, motorVars, esc, sample>>
  /\ SafetyFrame

SafetyStop ==
  /\ task = "stop"
  /\ MotorStopAll
  /\ task' = IF esc THEN "persist" ELSE ret
  /\ UNCHANGED <<state, relayVars, nvs_fault, clockVars, esc, ret, sample>> /\ SafetyFrame

\* Mutant: the flag is set in the handle and never committed.
PersistRelayFault_NoCommit ==
  /\ task = "persist"
  /\ esc' = FALSE
  /\ task' = ret
  /\ UNCHANGED <<nvs_fault, state, relayVars, clockVars, motorVars, ret, sample>>
  /\ SafetyFrame

\* nvs_open and nvs_commit may fail, and no caller looks at the result.
FlashWrite(flag) == {flag} \cup (IF "flashfail" \in Events THEN {nvs_fault} ELSE {})

\* persist_relay_fault.
PersistRelayFault ==
  /\ task = "persist"
  /\ nvs_fault' \in FlashWrite(TRUE)
  /\ esc' = FALSE
  /\ task' = ret
  /\ UNCHANGED <<state, relayVars, clockVars, motorVars, ret, sample>> /\ SafetyFrame

\* safety_check_recovery_timeout: the first critical section and the comparison.
RecoveryTimedOut ==
  /\ task = "timeout"
  /\ task' = IF state = "RECOVERY_PENDING" /\ transAge >= RecoveryTimeout
             THEN "revert" ELSE "sample"
  /\ UNCHANGED <<state, relayVars, nvs_fault, clockVars, motorVars, esc, ret, sample>>
  /\ SafetyFrame

RevertRecovery ==
  /\ task = "revert"
  /\ task' = "sample"
  /\ IF state = "RECOVERY_PENDING" THEN state' = "ESTOPPED" /\ transAge' = 0
                                   ELSE UNCHANGED <<state, transAge>>
  /\ UNCHANGED <<relayVars, nvs_fault, feedAge, armed, motorVars, esc, ret, sample>>
  /\ SafetyFrame

\* Feedback and grace are read outside any lock and used two critical sections later.
SampleRelay ==
  /\ task = "sample"
  /\ task' = "mismatch"
  /\ sample' \in [fb : Feedback, fb2 : Feedback, grace : {transAge < Grace}]
  /\ UNCHANGED <<state, relayVars, nvs_fault, clockVars, motorVars, esc, ret>> /\ SafetyFrame

\* Escalation shared by the mismatch check and the de-energised check.
FaultWhileLive(next) ==
  /\ relay_fault_count' = Bump(relay_fault_count)
  /\ esc' = (Bump(relay_fault_count) >= FaultThreshold)
  /\ state' = IF Bump(relay_fault_count) >= FaultThreshold THEN "RELAY_FAULT" ELSE "ESTOPPED"
  /\ task' = "stop"
  /\ ret' = next

CheckMismatch ==
  /\ task = "mismatch"
  /\ \/ /\ sample.fb = sample.fb2
        /\ relay_mismatch_debounce' = 0
        /\ task' = "relay"
        /\ UNCHANGED <<state, relay_fault_count, relay_healthy_count, esc, ret>>
     \/ /\ sample.fb # sample.fb2
        /\ relay_healthy_count' = 0
        /\ IF relay_mismatch_debounce + 1 >= MismatchThreshold
           THEN relay_mismatch_debounce' = 0 /\ FaultWhileLive("relay")
           ELSE /\ relay_mismatch_debounce' = relay_mismatch_debounce + 1
                /\ task' = "relay"
                /\ UNCHANGED <<state, relay_fault_count, esc, ret>>
  /\ UNCHANGED <<nvs_fault, clockVars, motorVars, sample>> /\ SafetyFrame

-------------------------------------------------------------------------------
(* The relay check: five branches of one critical section.                 *)

DeEnergised == ~sample.grace /\ state = "NORMAL" /\ ~sample.fb
Welded      == ~sample.grace /\ state = "ESTOPPED" /\ sample.fb
Faulted     == ~sample.grace /\ state = "RELAY_FAULT"
Healthy     == ~sample.grace /\ ~DeEnergised /\ ~Welded /\ ~Faulted

RelayInGrace ==
  /\ sample.grace
  /\ task' = "watchdog"
  /\ UNCHANGED <<state, relay_fault_count, relay_healthy_count, esc, ret>>

RelayDeEnergised ==
  /\ DeEnergised
  /\ relay_healthy_count' = 0
  /\ FaultWhileLive("watchdog")

\* The motors are not stopped again: the state was ESTOPPED already.
RelayWelded ==
  /\ Welded
  /\ relay_healthy_count' = 0
  /\ relay_fault_count' = Bump(relay_fault_count)
  /\ IF Bump(relay_fault_count) >= FaultThreshold
     THEN state' = "RELAY_FAULT" /\ esc' = TRUE /\ task' = "persist" /\ ret' = "watchdog"
     ELSE UNCHANGED <<state, esc, ret>> /\ task' = "watchdog"

RelayFaulted ==
  /\ Faulted
  /\ task' = "stop" /\ ret' = "watchdog"
  /\ UNCHANGED <<state, relay_fault_count, relay_healthy_count, esc>>

RelayHealthy ==
  /\ Healthy
  /\ IF relay_healthy_count + 1 >= HealthyThreshold
     THEN relay_fault_count' = 0 /\ relay_healthy_count' = 0
     ELSE relay_healthy_count' = relay_healthy_count + 1 /\ UNCHANGED relay_fault_count
  /\ task' = "watchdog"
  /\ UNCHANGED <<state, esc, ret>>

CheckRelay ==
  /\ task = "relay"
  /\ RelayInGrace \/ RelayDeEnergised \/ RelayWelded \/ RelayFaulted \/ RelayHealthy
  /\ sample' = NoSample
  /\ UNCHANGED <<relay_mismatch_debounce, nvs_fault, clockVars, motorVars>> /\ SafetyFrame

\* Mutant: the motors are stopped and the state stays NORMAL.
CheckWatchdog_KeepsState ==
  /\ task = "watchdog"
  /\ IF armed /\ state = "NORMAL" /\ feedAge >= WatchdogTimeout
     THEN task' = "stop" /\ ret' = "deferred"
     ELSE task' = "deferred" /\ UNCHANGED ret
  /\ UNCHANGED <<state, relayVars, nvs_fault, clockVars, motorVars, esc, sample>>
  /\ SafetyFrame

CheckWatchdog ==
  /\ task = "watchdog"
  /\ IF armed /\ state = "NORMAL" /\ feedAge >= WatchdogTimeout
     THEN state' = "ESTOPPED" /\ task' = "stop" /\ ret' = "deferred"
     ELSE task' = "deferred" /\ UNCHANGED <<state, ret>>
  /\ UNCHANGED <<relayVars, nvs_fault, clockVars, motorVars, esc, sample>> /\ SafetyFrame

SafetyTask ==
  \/ DeferredStop \/ ClearIsrStop \/ PollButton \/ Debounce \/ SafetyStop
  \/ PersistRelayFault \/ RecoveryTimedOut \/ RevertRecovery \/ SampleRelay \/ CheckMismatch
  \/ CheckRelay \/ CheckWatchdog

-------------------------------------------------------------------------------
(* The micro-ROS executor: cmd_vel_callback and odom_timer_callback.       *)

CmdFrame == UNCHANGED <<state, relayVars, nvs_fault, transAge, envVars, isrVars, taskVars,
                        svc, mon>>

\* A command that arrives while estopped, or is not finite, returns at once.
CmdArrives ==
  /\ Running /\ cmd = "idle"
  /\ state = "NORMAL"
  /\ cmd' = "drive"
  /\ UNCHANGED <<cmdSeen, cmdAge, feedAge, armed, motorVars>> /\ CmdFrame

\* Mutant: the callback's look at the state is trusted.
DriveLock_NoRecheck ==
  /\ cmd = "drive"
  /\ cmd' = "write"
  /\ UNCHANGED <<cmdSeen, cmdAge, feedAge, armed, motorVars>> /\ CmdFrame

\* motor_mecanum_drive: motor_spinlock, then the second look at the state.
DriveLock ==
  /\ cmd = "drive"
  /\ cmd' = IF state = "NORMAL" THEN "write" ELSE "stamp"
  /\ UNCHANGED <<cmdSeen, cmdAge, feedAge, armed, motorVars>> /\ CmdFrame

\* The safety spinlock is long released: only motor_spinlock is held.
DriveWrite ==
  /\ cmd = "write"
  /\ cmd' = "stamp"
  /\ duty' \in {0, 1}
  /\ stopped' = FALSE
  /\ UNCHANGED <<cmdSeen, cmdAge, feedAge, armed, isr_stop_requested, orphaned>> /\ CmdFrame

CmdStamp ==
  /\ cmd = "stamp"
  /\ cmd' = "idle"
  /\ cmdSeen' = TRUE
  /\ cmdAge' = 0
  /\ IF state = "NORMAL" THEN feedAge' = 0 /\ armed' = TRUE ELSE UNCHANGED <<feedAge, armed>>
  /\ UNCHANGED motorVars /\ CmdFrame

OdomTimer ==
  /\ Running /\ cmd = "idle"
  /\ cmdSeen /\ cmdAge > CmdVelTimeout
  /\ MotorStopAll
  /\ UNCHANGED <<cmdVars, feedAge, armed>> /\ CmdFrame

-------------------------------------------------------------------------------
(* safety_trigger_estop from a monitor task, and plain motor_stop_all.     *)

TriggerEstop(m) ==
  /\ Running /\ mon[m] = "idle"
  /\ state = "NORMAL"
  /\ state' = "ESTOPPED"
  /\ mon' = [mon EXCEPT ![m] = "stop"]
  /\ UNCHANGED <<relayVars, nvs_fault, clockVars, envVars, isrVars, motorVars, taskVars,
                 cmdVars, svc>>

TriggerStop(m) ==
  /\ mon[m] = "stop"
  /\ MotorStopAll
  /\ mon' = [mon EXCEPT ![m] = "idle"]
  /\ UNCHANGED <<state, relayVars, nvs_fault, clockVars, envVars, isrVars, taskVars, cmdVars,
                 svc>>

\* motor_stop_all without a state change: the DRV8833 nFAULT check of safety_task,
\* dtls_transport.c on preemption, display.c before a Wi-Fi reset.
PlainStop ==
  /\ Running
  /\ MotorStopAll
  /\ UNCHANGED <<state, relayVars, nvs_fault, clockVars, envVars, isrVars, taskVars, cmdVars,
                 svc, mon>>

-------------------------------------------------------------------------------
(* safety_reset, safety_confirm_reset, safety_clear_relay_fault.  Each     *)
(* reads the button before it takes the lock.                              *)

SvcFrame == UNCHANGED <<relay_healthy_count, relay_mismatch_debounce, envVars, isrVars, duty,
                        stopped, isr_stop_requested, taskVars, cmdVars, mon, armed>>

ResetCall ==
  /\ "reset" \in ServiceOps
  /\ Running /\ svc = "idle"
  /\ ~button
  /\ svc' = "reset"
  /\ UNCHANGED <<state, relay_fault_count, nvs_fault, transAge, feedAge, orphaned>> /\ SvcFrame

ResetCommit ==
  /\ svc = "reset"
  /\ svc' = "idle"
  /\ IF state = "ESTOPPED" THEN state' = "RECOVERY_PENDING" /\ transAge' = 0
                           ELSE UNCHANGED <<state, transAge>>
  /\ UNCHANGED <<relay_fault_count, nvs_fault, feedAge, orphaned>> /\ SvcFrame

ConfirmCall ==
  /\ "confirm" \in ServiceOps
  /\ Running /\ svc = "idle"
  /\ svc' = IF button THEN "refuse" ELSE "confirm"
  /\ UNCHANGED <<state, relay_fault_count, nvs_fault, transAge, feedAge, orphaned>> /\ SvcFrame

\* Overwrites every state, NORMAL and RELAY_FAULT included, and stops no motor.
ConfirmRefuse ==
  /\ svc = "refuse"
  /\ svc' = "idle"
  /\ state' = "ESTOPPED"
  /\ orphaned' = (orphaned \/ state = "NORMAL")
  /\ UNCHANGED <<relay_fault_count, nvs_fault, transAge, feedAge>> /\ SvcFrame

ConfirmCommit ==
  /\ svc = "confirm"
  /\ svc' = "idle"
  /\ IF state = "RECOVERY_PENDING"
     THEN state' = "NORMAL" /\ feedAge' = 0 /\ transAge' = 0
     ELSE UNCHANGED <<state, feedAge, transAge>>
  /\ UNCHANGED <<relay_fault_count, nvs_fault, orphaned>> /\ SvcFrame

ClearRelayFault ==
  /\ "clear" \in ServiceOps
  /\ Running /\ svc = "idle"
  /\ state = "RELAY_FAULT"
  /\ state' = "ESTOPPED"
  /\ relay_fault_count' = 0
  /\ svc' = "erase"
  /\ UNCHANGED <<nvs_fault, transAge, feedAge, orphaned>> /\ SvcFrame

EraseFlag ==
  /\ svc = "erase"
  /\ svc' = "idle"
  /\ nvs_fault' \in FlashWrite(FALSE)
  /\ UNCHANGED <<state, relay_fault_count, transAge, feedAge, orphaned>> /\ SvcFrame

Service ==
  \/ ResetCall \/ ResetCommit \/ ConfirmCall \/ ConfirmRefuse \/ ConfirmCommit
  \/ ClearRelayFault \/ EraseFlag

-------------------------------------------------------------------------------
Next ==
  \/ Boot \/ Reboot \/ PressButton \/ ReleaseButton \/ RelayDegrades \/ Tick
  \/ IsrEnter \/ IsrStop
  \/ SafetyTask
  \/ CmdArrives \/ DriveLock \/ DriveWrite \/ CmdStamp \/ OdomTimer
  \/ \E m \in Monitors : TriggerEstop(m) \/ TriggerStop(m)
  \/ PlainStop
  \/ Service

Spec == Init /\ [][Next]_vars

\* safety_task, the executor, the monitors and the interrupt are scheduled for ever, and
\* time passes.  Nothing makes an operator call the recovery API or send a command.
Fairness ==
  /\ WF_vars(Boot)
  /\ WF_vars(SafetyTask)
  /\ WF_vars(IsrEnter \/ IsrStop)
  /\ WF_vars(DriveLock \/ DriveWrite \/ CmdStamp)
  /\ WF_vars(OdomTimer)
  /\ \A m \in Monitors : WF_vars(TriggerStop(m))
  /\ SF_vars(Tick)

FairSpec == Spec /\ Fairness

-------------------------------------------------------------------------------
(* Properties.                                                             *)

\* The two-valued variables.
FlagsOK ==
  /\ nvs_fault \in BOOLEAN /\ armed \in BOOLEAN
  /\ button \in BOOLEAN /\ relaySound \in BOOLEAN
  /\ isrInstalled \in BOOLEAN /\ isrPending \in BOOLEAN
  /\ stopped \in BOOLEAN /\ isr_stop_requested \in BOOLEAN /\ orphaned \in BOOLEAN
  /\ esc \in BOOLEAN /\ cmdSeen \in BOOLEAN

\* The counters, the ages and the places of the tasks.
RangesOK ==
  /\ state \in SafetyState
  /\ relay_fault_count \in 0 .. FaultCap
  /\ relay_healthy_count \in 0 .. HealthyThreshold - 1
  /\ relay_mismatch_debounce \in 0 .. MismatchThreshold - 1
  /\ transAge \in 0 .. RecoveryTimeout /\ feedAge \in 0 .. WatchdogTimeout
  /\ cmdAge \in 0 .. CmdVelTimeout + 1
  /\ duty \in {0, 1}
  /\ isrPc \in {"idle", "stop"}
  /\ task \in TaskPc /\ sample \in Sample
  /\ ret \in {"deferred", "timeout", "relay", "watchdog"}
  /\ cmd \in {"idle", "drive", "write", "stamp"}
  /\ svc \in {"idle", "reset", "confirm", "refuse", "erase"}
  /\ mon \in [Monitors -> {"idle", "stop"}]

\* Every variable keeps the type and the bounds its C declaration gives it.
TypeOK == FlagsOK /\ RangesOK

\* Some task or the interrupt is committed to running motor_stop_all.
StopOutstanding ==
  \/ isr_stop_requested \/ isrPc = "stop" \/ task = "stop"
  \/ \E m \in Monitors : mon[m] = "stop"

\* Outside SAFETY_NORMAL no wheel is driven, and no drive is in its critical section,
\* unless somebody still owes a motor_stop_all.  The two ways a stop is lost (a request
\* cleared unserved, a refused confirmation that leaves NORMAL) are tracked by orphaned.
MotionOwned ==
  (duty = 1 \/ cmd = "write") /\ state # "NORMAL" /\ ~orphaned => StopOutstanding

\* Before app_main starts the tasks no callback runs and nothing is driven.
BootQuiet == task \in {"boot", "selftest"} => duty = 0 /\ cmd = "idle"

\* motor_is_stopped, the gate of OTA and of firmware confirmation, is never true while a
\* channel is driven, unless a stop request was lost.
IdleReportHonest == stopped /\ ~isr_stop_requested /\ ~orphaned => duty = 0

\* Once the interrupt of a press was taken, the state is not NORMAL for as long as the
\* button is held, although reset and confirm read the button before they take the lock.
PressedNeverNormal == button /\ isrInstalled /\ ~isrPending => state # "NORMAL"

\* A confirmation that found the button released never commits under a pressed one: the
\* interrupt has left RECOVERY_PENDING, and its caller is not there to call safety_reset.
ConfirmGuarded ==
  svc = "confirm" /\ button /\ isrInstalled /\ ~isrPending => state # "RECOVERY_PENDING"

\* While RELAY_FAULT stands at run time the fault count stays at the threshold: no path
\* (healthy readings, grace, mismatch) clears the evidence under it.
FaultMeansCount == state = "RELAY_FAULT" /\ Running => relay_fault_count >= FaultThreshold

\* A run-time RELAY_FAULT is on flash, or about to be, so that a power cycle finds it
\* (where the flash works and nobody calls safety_clear_relay_fault, whose late erase can
\* undo a newer fault).
FaultPersisted ==
  state = "RELAY_FAULT" /\ Running /\ "clear" \notin ServiceOps /\ "flashfail" \notin Events
    => nvs_fault \/ esc

\* The erase of safety_clear_relay_fault is pending only where somebody calls it.
EraseCalled == svc = "erase" => "clear" \in ServiceOps

\* The inductive invariant.
SafetyInv ==
  /\ TypeOK
  /\ MotionOwned /\ BootQuiet /\ IdleReportHonest
  /\ PressedNeverNormal /\ ConfirmGuarded
  /\ FaultMeansCount /\ FaultPersisted /\ EraseCalled

\* Outside NORMAL the wheels stop, also when the stop of the E-stop itself was lost: the
\* cmd_vel timeout of odom_timer_callback is the backstop.
EstopStopsMotors == (Running /\ state # "NORMAL") ~> (duty = 0 \/ state = "NORMAL")

\* A driven wheel whose command is not renewed stops.
StaleCommandStops == (duty = 1 /\ cmdAge > 0) ~> (duty = 0 \/ cmdAge = 0)

\* Once armed, a control loop that stops feeding the watchdog is E-stopped.
StalledControlEstops ==
  (armed /\ state = "NORMAL" /\ feedAge > 0) ~> (feedAge = 0 \/ state # "NORMAL")

\* RECOVERY_PENDING never lasts: it is confirmed, or it reverts after its timeout.
RecoveryResolves == state = "RECOVERY_PENDING" ~> state # "RECOVERY_PENDING"

\* The safety of the stop in one formula: a wheel that is driven outside NORMAL has a stop on
\* its way, a standstill is not reported early, a pressed button keeps the platform out of
\* NORMAL, and a fault keeps its evidence.
StopSafety == TypeOK /\ MotionOwned /\ IdleReportHonest /\ PressedNeverNormal /\ FaultMeansCount

\* Driven wheels come to rest: by an E-stop, and by commands that cease.
StopsComplete == EstopStopsMotors /\ StaleCommandStops

\* The state machine does not stay where it waits for somebody: a stalled control loop ends in
\* an E-stop, and a recovery is confirmed or reverts.
ControlResolves == StalledControlEstops /\ RecoveryResolves

-------------------------------------------------------------------------------
(* What the documents say and the code does not do.                        *)

\* "Software-triggered E-stops follow a two-step recovery ... No power cycle required"
\* (docs/troubleshooting.md): with sound contacts nothing latches RELAY_FAULT.
HealthyRelayNeverFaults == relaySound /\ Running => state # "RELAY_FAULT"
===============================================================================
