-------------------------- MODULE SafetyMotor_proof ---------------------------
(***************************************************************************)
(* Proofs about SafetyMotor for every set of monitor tasks, every          *)
(* environment and every value of the thresholds and timeouts.             *)
(***************************************************************************)
EXTENDS SafetyMotor, TLAPS

-------------------------------------------------------------------------------
(***************************************************************************)
(* Type correctness.                                                       *)
(***************************************************************************)

\* A flash write leaves a flag, whether it fails or not.
LEMMA FlashWriteType ==
  ASSUME FlagsOK, NEW flag \in BOOLEAN
  PROVE  FlashWrite(flag) \subseteq BOOLEAN
BY DEF FlagsOK, FlashWrite

\* Saturating increments stay in range.
LEMMA OlderInRange ==
  ASSUME NEW limit \in Nat, NEW age \in 0 .. limit
  PROVE  Older(age, limit) \in 0 .. limit
BY DEF Older

\* The fault count saturates.
LEMMA BumpInRange ==
  ASSUME NEW count \in 0 .. FaultCap
  PROVE  Bump(count) \in 0 .. FaultCap
BY SafetyAssumption DEF SafetyAssumption, Bump

-------------------------------------------------------------------------------
(* Types: the flags keep their two values, the rest its ranges.            *)

\* The types hold when power comes.
LEMMA InitType == Init => TypeOK
<1> SUFFICES ASSUME Init PROVE TypeOK OBVIOUS
<1>1. HealthyThreshold - 1 \in Nat /\ MismatchThreshold - 1 \in Nat
  BY SafetyAssumption DEF SafetyAssumption
<1>2. button \in BOOLEAN BY DEF Init
<1>3. sample \in Sample BY DEF Init, Sample, NoSample
<1>4. mon \in [Monitors -> {"idle", "stop"}] BY DEF Init
<1>5. FlagsOK BY <1>2, Zenon DEF Init, FlagsOK
<1>6. RangesOK
  BY <1>1, <1>3, <1>4, SafetyAssumption DEF SafetyAssumption, Init, RangesOK, SafetyState, TaskPc
<1>7. QED BY <1>5, <1>6 DEF TypeOK

\* The escalation of a relay fault.
LEMMA FaultWhileLiveType ==
  ASSUME RangesOK, NEW next \in {"relay", "watchdog"}, FaultWhileLive(next)
  PROVE  /\ relay_fault_count' \in 0 .. FaultCap
         /\ esc' \in BOOLEAN /\ state' \in SafetyState /\ task' = "stop" /\ ret' = next
<1>1. esc' = (Bump(relay_fault_count) >= FaultThreshold) BY DEF FaultWhileLive
<1>2. esc' \in BOOLEAN BY <1>1
<1>3. QED BY <1>2, BumpInRange DEF FaultWhileLive, RangesOK, SafetyState

\* Boot, the button, the relay and time keep the flags ...
LEMMA EnvironmentFlags ==
  ASSUME TypeOK, Boot \/ Reboot \/ PressButton \/ ReleaseButton \/ RelayDegrades \/ Tick
  PROVE  FlagsOK'
<1> USE DEF TypeOK, FlagsOK, relayVars, motorVars, clockVars,
      envVars, isrVars, taskVars, cmdVars, SafetyFrame, CmdFrame, SvcFrame
<1>1. CASE Boot
  <2>1. isrInstalled' \in BOOLEAN BY <1>1, SafetyAssumption DEF Boot, SafetyInit, SelfTest, SafetyAssumption
  <2>2. QED BY <1>1, <2>1, Zenon DEF Boot, SafetyInit, SelfTest
<1>2. CASE Reboot BY <1>2, Zenon DEF Reboot
<1>3. CASE PressButton BY <1>3, Zenon DEF PressButton
<1>4. CASE ReleaseButton BY <1>4, Zenon DEF ReleaseButton
<1>5. CASE RelayDegrades BY <1>5, Zenon DEF RelayDegrades
<1>6. CASE Tick BY <1>6, Zenon DEF Tick
<1>7. QED BY <1>1, <1>2, <1>3, <1>4, <1>5, <1>6, Zenon

\* ... and the ranges.
LEMMA EnvironmentRanges ==
  ASSUME RangesOK, Boot \/ Reboot \/ PressButton \/ ReleaseButton \/ RelayDegrades \/ Tick
  PROVE  RangesOK'
<1> USE SafetyAssumption DEF SafetyAssumption, RangesOK, SafetyState, TaskPc, relayVars,
      motorVars, clockVars, envVars, isrVars, taskVars, cmdVars, SafetyFrame, CmdFrame, SvcFrame
<1>1. CASE Boot BY <1>1 DEF Boot, SafetyInit, SelfTest
<1>2. CASE Reboot BY <1>2 DEF Reboot, Sample, NoSample
<1>3. CASE PressButton BY <1>3 DEF PressButton
<1>4. CASE ReleaseButton BY <1>4 DEF ReleaseButton
<1>5. CASE RelayDegrades BY <1>5 DEF RelayDegrades
<1>6. CASE Tick
  <2>1. Older(transAge, RecoveryTimeout) \in 0 .. RecoveryTimeout BY OlderInRange
  <2>2. Older(feedAge, WatchdogTimeout) \in 0 .. WatchdogTimeout BY OlderInRange
  <2>3. CmdVelTimeout + 1 \in Nat OBVIOUS
  <2>4. Older(cmdAge, CmdVelTimeout + 1) \in 0 .. CmdVelTimeout + 1 BY <2>3, OlderInRange
  <2>5. QED BY <1>6, <2>1, <2>2, <2>4 DEF Tick
<1>7. QED BY <1>1, <1>2, <1>3, <1>4, <1>5, <1>6, Zenon

\* So does the safety task,
LEMMA SafetyTaskFlags ==
  ASSUME TypeOK, SafetyTask
  PROVE  FlagsOK'
<1> USE DEF TypeOK, FlagsOK, relayVars, motorVars, clockVars,
      envVars, isrVars, taskVars, cmdVars, SafetyFrame, CmdFrame, SvcFrame
<1>1. CASE DeferredStop BY <1>1, Zenon DEF DeferredStop, MotorStopAll
<1>2. CASE ClearIsrStop BY <1>2, Zenon DEF ClearIsrStop
<1>3. CASE PollButton BY <1>3, Zenon DEF PollButton
<1>4. CASE Debounce BY <1>4, Zenon DEF Debounce
<1>5. CASE SafetyStop BY <1>5, Zenon DEF SafetyStop, MotorStopAll
<1>6. CASE PersistRelayFault
  <2>1. nvs_fault' \in BOOLEAN BY <1>6, FlashWriteType DEF PersistRelayFault
  <2>2. QED BY <1>6, <2>1, Zenon DEF PersistRelayFault
<1>7. CASE RecoveryTimedOut BY <1>7, Zenon DEF RecoveryTimedOut
<1>8. CASE RevertRecovery BY <1>8, Zenon DEF RevertRecovery
<1>9. CASE SampleRelay BY <1>9, Zenon DEF SampleRelay
<1>10. CASE CheckMismatch
  <2>1. esc' \in BOOLEAN
    <3>1. CASE FaultWhileLive("relay") BY <3>1, FaultWhileLiveType
    <3>2. CASE ~FaultWhileLive("relay") BY <1>10, <3>2, Zenon DEF CheckMismatch
    <3>3. QED BY <3>1, <3>2
  <2>2. QED BY <1>10, <2>1, Zenon DEF CheckMismatch
<1>11. CASE CheckRelay
  <2>1. esc' \in BOOLEAN
    <3>1. CASE RelayInGrace BY <3>1, Zenon DEF RelayInGrace
    <3>2. CASE RelayDeEnergised BY <3>2, FaultWhileLiveType DEF RelayDeEnergised
    <3>3. CASE RelayWelded BY <3>3, Zenon DEF RelayWelded
    <3>4. CASE RelayFaulted BY <3>4, Zenon DEF RelayFaulted
    <3>5. CASE RelayHealthy BY <3>5, Zenon DEF RelayHealthy
    <3>6. QED BY <1>11, <3>1, <3>2, <3>3, <3>4, <3>5 DEF CheckRelay
  <2>2. QED BY <1>11, <2>1, Zenon DEF CheckRelay
<1>12. CASE CheckWatchdog BY <1>12, Zenon DEF CheckWatchdog
<1>13. QED BY <1>1, <1>2, <1>3, <1>4, <1>5, <1>6, <1>7, <1>8, <1>9, <1>10, <1>11, <1>12, Zenon DEF SafetyTask

\* at each of its critical sections,
LEMMA SafetyTaskRanges ==
  ASSUME RangesOK, SafetyTask
  PROVE  RangesOK'
<1> USE SafetyAssumption DEF SafetyAssumption, RangesOK, SafetyState, TaskPc, relayVars,
      motorVars, clockVars, envVars, isrVars, taskVars, cmdVars, SafetyFrame, CmdFrame, SvcFrame
<1>1. CASE DeferredStop BY <1>1 DEF DeferredStop, MotorStopAll
<1>2. CASE ClearIsrStop BY <1>2 DEF ClearIsrStop
<1>3. CASE PollButton BY <1>3 DEF PollButton
<1>4. CASE Debounce BY <1>4 DEF Debounce
<1>5. CASE SafetyStop BY <1>5 DEF SafetyStop, MotorStopAll
<1>6. CASE PersistRelayFault BY <1>6 DEF PersistRelayFault
<1>7. CASE RecoveryTimedOut BY <1>7 DEF RecoveryTimedOut
<1>8. CASE RevertRecovery BY <1>8 DEF RevertRecovery
<1>9. CASE SampleRelay
  <2>1. Feedback \subseteq BOOLEAN BY DEF Feedback
  <2>2. (transAge < Grace) \in BOOLEAN OBVIOUS
  <2>3. sample' \in Sample BY <1>9, <2>1, <2>2 DEF SampleRelay, Sample
  <2>4. QED BY <1>9, <2>3 DEF SampleRelay
<1>10. CASE CheckMismatch
  <2>1. CASE FaultWhileLive("relay") BY <1>10, <2>1, FaultWhileLiveType DEF CheckMismatch
  <2>2. CASE ~FaultWhileLive("relay") BY <1>10, <2>2 DEF CheckMismatch
  <2>3. QED BY <2>1, <2>2
<1>11. CASE CheckRelay
  <2>1. sample' \in Sample BY <1>11 DEF CheckRelay, Sample, NoSample
  <2>2. CASE RelayInGrace BY <1>11, <2>1, <2>2 DEF CheckRelay, RelayInGrace
  <2>3. CASE RelayDeEnergised
    BY <1>11, <2>1, <2>3, FaultWhileLiveType DEF CheckRelay, RelayDeEnergised
  <2>4. CASE RelayWelded BY <1>11, <2>1, <2>4, BumpInRange DEF CheckRelay, RelayWelded
  <2>5. CASE RelayFaulted BY <1>11, <2>1, <2>5 DEF CheckRelay, RelayFaulted
  <2>6. CASE RelayHealthy BY <1>11, <2>1, <2>6 DEF CheckRelay, RelayHealthy
  <2>7. QED BY <1>11, <2>2, <2>3, <2>4, <2>5, <2>6 DEF CheckRelay
<1>12. CASE CheckWatchdog BY <1>12 DEF CheckWatchdog
<1>13. QED BY <1>1, <1>2, <1>3, <1>4, <1>5, <1>6, <1>7, <1>8, <1>9, <1>10, <1>11, <1>12, Zenon DEF SafetyTask

\* the interrupt of the button,
LEMMA InterruptFlags ==
  ASSUME TypeOK, IsrEnter \/ IsrStop
  PROVE  FlagsOK'
<1> USE DEF TypeOK, FlagsOK, relayVars, motorVars, clockVars,
      envVars, isrVars, taskVars, cmdVars, SafetyFrame, CmdFrame, SvcFrame
<1>1. CASE IsrEnter BY <1>1, Zenon DEF IsrEnter
<1>2. CASE IsrStop BY <1>2, Zenon DEF IsrStop
<1>3. QED BY <1>1, <1>2, Zenon

\* at both of its steps,
LEMMA InterruptRanges ==
  ASSUME RangesOK, IsrEnter \/ IsrStop
  PROVE  RangesOK'
<1> USE SafetyAssumption DEF SafetyAssumption, RangesOK, SafetyState, TaskPc, relayVars,
      motorVars, clockVars, envVars, isrVars, taskVars, cmdVars, SafetyFrame, CmdFrame, SvcFrame
<1>1. CASE IsrEnter BY <1>1 DEF IsrEnter
<1>2. CASE IsrStop BY <1>2 DEF IsrStop
<1>3. QED BY <1>1, <1>2, Zenon

\* the command callback and the odometry timer,
LEMMA CommandFlags ==
  ASSUME TypeOK, CmdArrives \/ DriveLock \/ DriveWrite \/ CmdStamp \/ OdomTimer
  PROVE  FlagsOK'
<1> USE DEF TypeOK, FlagsOK, relayVars, motorVars, clockVars,
      envVars, isrVars, taskVars, cmdVars, SafetyFrame, CmdFrame, SvcFrame
<1>1. CASE CmdArrives BY <1>1, Zenon DEF CmdArrives
<1>2. CASE DriveLock BY <1>2, Zenon DEF DriveLock
<1>3. CASE DriveWrite BY <1>3, Zenon DEF DriveWrite
<1>4. CASE CmdStamp BY <1>4, Zenon DEF CmdStamp
<1>5. CASE OdomTimer BY <1>5, Zenon DEF OdomTimer, MotorStopAll
<1>6. QED BY <1>1, <1>2, <1>3, <1>4, <1>5, Zenon

\* which stops stale commands,
LEMMA CommandRanges ==
  ASSUME RangesOK, CmdArrives \/ DriveLock \/ DriveWrite \/ CmdStamp \/ OdomTimer
  PROVE  RangesOK'
<1> USE SafetyAssumption DEF SafetyAssumption, RangesOK, SafetyState, TaskPc, relayVars,
      motorVars, clockVars, envVars, isrVars, taskVars, cmdVars, SafetyFrame, CmdFrame, SvcFrame
<1>1. CASE CmdArrives BY <1>1 DEF CmdArrives
<1>2. CASE DriveLock BY <1>2 DEF DriveLock
<1>3. CASE DriveWrite BY <1>3 DEF DriveWrite
<1>4. CASE CmdStamp BY <1>4 DEF CmdStamp
<1>5. CASE OdomTimer BY <1>5 DEF OdomTimer, MotorStopAll
<1>6. QED BY <1>1, <1>2, <1>3, <1>4, <1>5, Zenon

\* the recovery calls,
LEMMA ServiceFlags ==
  ASSUME TypeOK, Service
  PROVE  FlagsOK'
<1> USE DEF TypeOK, FlagsOK, relayVars, motorVars, clockVars,
      envVars, isrVars, taskVars, cmdVars, SafetyFrame, CmdFrame, SvcFrame
<1>1. CASE ResetCall BY <1>1, Zenon DEF ResetCall
<1>2. CASE ResetCommit BY <1>2, Zenon DEF ResetCommit
<1>3. CASE ConfirmCall BY <1>3, Zenon DEF ConfirmCall
<1>4. CASE ConfirmRefuse BY <1>4, Zenon DEF ConfirmRefuse
<1>5. CASE ConfirmCommit BY <1>5, Zenon DEF ConfirmCommit
<1>6. CASE ClearRelayFault BY <1>6, Zenon DEF ClearRelayFault
<1>7. CASE EraseFlag
  <2>1. nvs_fault' \in BOOLEAN BY <1>7, FlashWriteType DEF EraseFlag
  <2>2. QED BY <1>7, <2>1, Zenon DEF EraseFlag
<1>8. QED BY <1>1, <1>2, <1>3, <1>4, <1>5, <1>6, <1>7, Zenon DEF Service

\* between their lock and their commit,
LEMMA ServiceRanges ==
  ASSUME RangesOK, Service
  PROVE  RangesOK'
<1> USE SafetyAssumption DEF SafetyAssumption, RangesOK, SafetyState, TaskPc, relayVars,
      motorVars, clockVars, envVars, isrVars, taskVars, cmdVars, SafetyFrame, CmdFrame, SvcFrame
<1>1. CASE ResetCall BY <1>1 DEF ResetCall
<1>2. CASE ResetCommit BY <1>2 DEF ResetCommit
<1>3. CASE ConfirmCall BY <1>3 DEF ConfirmCall
<1>4. CASE ConfirmRefuse BY <1>4 DEF ConfirmRefuse
<1>5. CASE ConfirmCommit BY <1>5 DEF ConfirmCommit
<1>6. CASE ClearRelayFault BY <1>6 DEF ClearRelayFault
<1>7. CASE EraseFlag BY <1>7 DEF EraseFlag
<1>8. QED BY <1>1, <1>2, <1>3, <1>4, <1>5, <1>6, <1>7, Zenon DEF Service

\* and whoever else calls for a stop.
LEMMA StopCallersType ==
  ASSUME TypeOK, PlainStop \/ \E m \in Monitors : TriggerEstop(m) \/ TriggerStop(m)
  PROVE  TypeOK'
<1> USE SafetyAssumption DEF SafetyAssumption, SafetyState, TaskPc, relayVars, motorVars,
      clockVars, envVars, isrVars, taskVars, cmdVars
<1>1. FlagsOK'
  <2>1. CASE PlainStop BY <2>1, Zenon DEF TypeOK, FlagsOK, PlainStop, MotorStopAll
  <2>2. ASSUME NEW m \in Monitors, TriggerEstop(m) PROVE FlagsOK'
    BY <2>2, Zenon DEF TypeOK, FlagsOK, TriggerEstop
  <2>3. ASSUME NEW m \in Monitors, TriggerStop(m) PROVE FlagsOK'
    BY <2>3, Zenon DEF TypeOK, FlagsOK, TriggerStop, MotorStopAll
  <2>4. QED BY <2>1, <2>2, <2>3
<1>2. RangesOK'
  <2>1. CASE PlainStop BY <2>1 DEF TypeOK, RangesOK, PlainStop, MotorStopAll
  <2>2. ASSUME NEW m \in Monitors, TriggerEstop(m) PROVE RangesOK'
    BY <2>2 DEF TypeOK, RangesOK, TriggerEstop
  <2>3. ASSUME NEW m \in Monitors, TriggerStop(m) PROVE RangesOK'
    BY <2>3 DEF TypeOK, RangesOK, TriggerStop, MotorStopAll
  <2>4. QED BY <2>1, <2>2, <2>3
<1>3. QED BY <1>1, <1>2 DEF TypeOK

\* Every step keeps the types.
LEMMA StepType ==
  ASSUME TypeOK, [Next]_vars
  PROVE  TypeOK'
<1>1. CASE PlainStop \/ \E m \in Monitors : TriggerEstop(m) \/ TriggerStop(m)
  BY <1>1, StopCallersType
<1>2. CASE UNCHANGED vars
  <2>1. FlagsOK'
    BY <1>2, Zenon DEF vars, TypeOK, FlagsOK, motorVars, clockVars, envVars, isrVars, taskVars,
                       cmdVars
  <2>2. RangesOK'
    BY <1>2 DEF vars, TypeOK, RangesOK, relayVars, motorVars, clockVars, isrVars, taskVars,
                cmdVars
  <2>3. QED BY <2>1, <2>2 DEF TypeOK
<1>3. CASE /\ Next
           /\ ~(PlainStop \/ \E m \in Monitors : TriggerEstop(m) \/ TriggerStop(m))
  <2>1. FlagsOK'
    BY <1>3, EnvironmentFlags, SafetyTaskFlags, InterruptFlags, CommandFlags, ServiceFlags
    DEF Next
  <2>2. RangesOK'
    BY <1>3, EnvironmentRanges, SafetyTaskRanges, InterruptRanges, CommandRanges,
       ServiceRanges DEF TypeOK, Next
  <2>3. QED BY <2>1, <2>2 DEF TypeOK
<1>4. QED BY <1>1, <1>2, <1>3

\* Every variable of the safety core keeps its type, whatever the thresholds.
THEOREM TypeCorrect == Spec => []TypeOK
<1>1. Init => TypeOK BY InitType
<1>2. TypeOK /\ [Next]_vars => TypeOK' BY StepType
<1>3. QED BY <1>1, <1>2, PTL DEF Spec

-------------------------------------------------------------------------------
(***************************************************************************)
(* The safety invariants are inductive: whatever order the safety task,    *)
(* the E-stop interrupt, the command callback, the monitors and the        *)
(* recovery API run in.                                                    *)
(***************************************************************************)

\* A wheel driven outside NORMAL has a stop outstanding: the drive checks the state under the
\* lock that motor_stop_all needs.
LEMMA MotionOwnedStep ==
  ASSUME TypeOK, MotionOwned, BootQuiet, [Next]_vars
  PROVE  MotionOwned'
<1> USE SafetyAssumption DEF SafetyAssumption, TypeOK, FlagsOK, RangesOK, SafetyState, TaskPc,
      relayVars, motorVars, clockVars, envVars, isrVars, taskVars, cmdVars, SafetyFrame,
      CmdFrame, SvcFrame, MotionOwned, StopOutstanding
<1>1. CASE Boot BY <1>1 DEF Boot, SafetyInit, SelfTest, BootQuiet
<1>2. CASE Reboot \/ PressButton \/ ReleaseButton \/ RelayDegrades \/ Tick
  BY <1>2 DEF Reboot, PressButton, ReleaseButton, RelayDegrades, Tick
<1>3. CASE IsrEnter BY <1>3 DEF IsrEnter
<1>4. CASE IsrStop BY <1>4 DEF IsrStop
<1>5. CASE DeferredStop BY <1>5 DEF DeferredStop, MotorStopAll
<1>6. CASE ClearIsrStop BY <1>6 DEF ClearIsrStop
<1>7. CASE SafetyStop BY <1>7 DEF SafetyStop, MotorStopAll
<1>8. CASE CheckMismatch BY <1>8 DEF CheckMismatch, FaultWhileLive
<1>9. CASE CheckRelay
  <2>1. CASE RelayInGrace BY <1>9, <2>1 DEF CheckRelay, RelayInGrace
  <2>2. CASE RelayDeEnergised BY <1>9, <2>2 DEF CheckRelay, RelayDeEnergised, FaultWhileLive
  <2>3. CASE RelayWelded BY <1>9, <2>3 DEF CheckRelay, RelayWelded, Bump, Welded
  <2>4. CASE RelayFaulted BY <1>9, <2>4 DEF CheckRelay, RelayFaulted
  <2>5. CASE RelayHealthy BY <1>9, <2>5 DEF CheckRelay, RelayHealthy, DeEnergised, Welded, Faulted, Healthy
  <2>6. QED BY <1>9, <2>1, <2>2, <2>3, <2>4, <2>5 DEF CheckRelay
<1>10. CASE PollButton \/ Debounce \/ PersistRelayFault \/ RecoveryTimedOut \/ RevertRecovery \/
         SampleRelay \/ CheckWatchdog
  BY <1>10 DEF PollButton, Debounce, PersistRelayFault, RecoveryTimedOut, RevertRecovery, SampleRelay,
     CheckWatchdog
<1>11. CASE DriveLock BY <1>11 DEF DriveLock
<1>12. CASE DriveWrite BY <1>12 DEF DriveWrite
<1>13. CASE CmdArrives \/ CmdStamp \/ OdomTimer
  BY <1>13 DEF CmdArrives, CmdStamp, OdomTimer, MotorStopAll
<1>14. CASE ConfirmRefuse BY <1>14 DEF ConfirmRefuse
<1>15. CASE ConfirmCommit BY <1>15 DEF ConfirmCommit
<1>16. CASE ResetCall \/ ResetCommit \/ ConfirmCall \/ ClearRelayFault \/ EraseFlag
  BY <1>16 DEF ResetCall, ResetCommit, ConfirmCall, ClearRelayFault, EraseFlag
<1>17. CASE PlainStop BY <1>17 DEF PlainStop, MotorStopAll
<1>18. ASSUME NEW m \in Monitors, TriggerEstop(m) PROVE MotionOwned' BY <1>18 DEF TriggerEstop
<1>19. ASSUME NEW m \in Monitors, TriggerStop(m) PROVE MotionOwned'
  BY <1>19 DEF TriggerStop, MotorStopAll
<1>20. CASE UNCHANGED vars BY <1>20 DEF vars
<1>21. QED BY <1>1, <1>2, <1>3, <1>4, <1>5, <1>6, <1>7, <1>8, <1>9, <1>10, <1>11, <1>12, <1>13, <1>14,
        <1>15, <1>16, <1>17, <1>18, <1>19, <1>20, Zenon
         DEF Next, SafetyTask, Service

\* The command callback runs only after boot.
LEMMA BootQuietStep ==
  ASSUME TypeOK, BootQuiet, [Next]_vars
  PROVE  BootQuiet'
<1> USE SafetyAssumption DEF SafetyAssumption, TypeOK, FlagsOK, RangesOK, SafetyState, TaskPc,
      relayVars, motorVars, clockVars, envVars, isrVars, taskVars, cmdVars, SafetyFrame,
      CmdFrame, SvcFrame, BootQuiet, Running
<1>1. CASE Reboot BY <1>1 DEF Reboot
<1>2. CASE Boot \/ PressButton \/ ReleaseButton \/ RelayDegrades \/ Tick
  BY <1>2 DEF Boot, SafetyInit, SelfTest, PressButton, ReleaseButton, RelayDegrades, Tick
<1>3. CASE IsrEnter \/ IsrStop
  BY <1>3 DEF IsrEnter, IsrStop
<1>4. CASE DeferredStop \/ ClearIsrStop \/ PollButton \/ Debounce \/ SafetyStop \/ PersistRelayFault \/
         RecoveryTimedOut \/ RevertRecovery \/ SampleRelay \/ CheckMismatch \/ CheckRelay \/
         CheckWatchdog
  BY <1>4 DEF DeferredStop, ClearIsrStop, PollButton, Debounce, SafetyStop, PersistRelayFault,
     RecoveryTimedOut, RevertRecovery, SampleRelay, CheckMismatch, CheckRelay,
     CheckWatchdog, MotorStopAll, FaultWhileLive, RelayInGrace, RelayDeEnergised,
     RelayWelded, RelayFaulted, RelayHealthy
<1>5. CASE CmdArrives BY <1>5 DEF CmdArrives
<1>6. CASE DriveLock \/ DriveWrite \/ CmdStamp \/ OdomTimer
  BY <1>6 DEF DriveLock, DriveWrite, CmdStamp, OdomTimer, MotorStopAll
<1>7. CASE ResetCall \/ ResetCommit \/ ConfirmCall \/ ConfirmRefuse \/ ConfirmCommit \/ ClearRelayFault
         \/ EraseFlag
  BY <1>7 DEF ResetCall, ResetCommit, ConfirmCall, ConfirmRefuse, ConfirmCommit, ClearRelayFault,
     EraseFlag
<1>8. CASE PlainStop BY <1>8 DEF PlainStop, MotorStopAll
<1>9. ASSUME NEW m \in Monitors, TriggerEstop(m) PROVE BootQuiet' BY <1>9 DEF TriggerEstop
<1>10. ASSUME NEW m \in Monitors, TriggerStop(m) PROVE BootQuiet'
  BY <1>10 DEF TriggerStop, MotorStopAll
<1>11. CASE UNCHANGED vars BY <1>11 DEF vars
<1>12. QED BY <1>1, <1>2, <1>3, <1>4, <1>5, <1>6, <1>7, <1>8, <1>9, <1>10, <1>11, Zenon
         DEF Next, SafetyTask, Service

\* The two flags behind motor_is_stopped fall before a channel is driven.
LEMMA IdleReportHonestStep ==
  ASSUME TypeOK, IdleReportHonest, [Next]_vars
  PROVE  IdleReportHonest'
<1> USE SafetyAssumption DEF SafetyAssumption, TypeOK, FlagsOK, RangesOK, SafetyState, TaskPc,
      relayVars, motorVars, clockVars, envVars, isrVars, taskVars, cmdVars, SafetyFrame,
      CmdFrame, SvcFrame, IdleReportHonest
<1>1. CASE Boot \/ Reboot \/ PressButton \/ ReleaseButton \/ RelayDegrades \/ Tick
  BY <1>1 DEF Boot, SafetyInit, SelfTest, Reboot, PressButton, ReleaseButton, RelayDegrades, Tick
<1>2. CASE IsrStop BY <1>2 DEF IsrStop
<1>3. CASE IsrEnter
  BY <1>3 DEF IsrEnter
<1>4. CASE DeferredStop BY <1>4 DEF DeferredStop, MotorStopAll
<1>5. CASE ClearIsrStop BY <1>5 DEF ClearIsrStop
<1>6. CASE SafetyStop BY <1>6 DEF SafetyStop, MotorStopAll
<1>7. CASE PollButton \/ Debounce \/ PersistRelayFault \/ RecoveryTimedOut \/ RevertRecovery \/
         SampleRelay \/ CheckMismatch \/ CheckRelay \/ CheckWatchdog
  BY <1>7 DEF PollButton, Debounce, PersistRelayFault, RecoveryTimedOut, RevertRecovery, SampleRelay,
     CheckMismatch, CheckRelay, CheckWatchdog, FaultWhileLive, RelayInGrace,
     RelayDeEnergised, RelayWelded, RelayFaulted, RelayHealthy
<1>8. CASE DriveWrite BY <1>8 DEF DriveWrite
<1>9. CASE CmdArrives \/ DriveLock \/ CmdStamp \/ OdomTimer
  BY <1>9 DEF CmdArrives, DriveLock, CmdStamp, OdomTimer, MotorStopAll
<1>10. CASE ResetCall \/ ResetCommit \/ ConfirmCall \/ ConfirmRefuse \/ ConfirmCommit \/ ClearRelayFault
         \/ EraseFlag
  BY <1>10 DEF ResetCall, ResetCommit, ConfirmCall, ConfirmRefuse, ConfirmCommit, ClearRelayFault,
     EraseFlag
<1>11. CASE PlainStop BY <1>11 DEF PlainStop, MotorStopAll
<1>12. ASSUME NEW m \in Monitors, TriggerEstop(m) PROVE IdleReportHonest' BY <1>12 DEF TriggerEstop
<1>13. ASSUME NEW m \in Monitors, TriggerStop(m) PROVE IdleReportHonest'
  BY <1>13 DEF TriggerStop, MotorStopAll
<1>14. CASE UNCHANGED vars BY <1>14 DEF vars
<1>15. QED BY <1>1, <1>2, <1>3, <1>4, <1>5, <1>6, <1>7, <1>8, <1>9, <1>10, <1>11, <1>12, <1>13, <1>14,
        Zenon
         DEF Next, SafetyTask, Service

\* The press interrupts a confirmation in flight.
LEMMA ConfirmGuardedStep ==
  ASSUME TypeOK, ConfirmGuarded, [Next]_vars
  PROVE  ConfirmGuarded'
<1> USE SafetyAssumption DEF SafetyAssumption, TypeOK, FlagsOK, RangesOK, SafetyState, TaskPc,
      relayVars, motorVars, clockVars, envVars, isrVars, taskVars, cmdVars, SafetyFrame,
      CmdFrame, SvcFrame, ConfirmGuarded
<1>1. CASE PressButton BY <1>1 DEF PressButton
<1>2. CASE Boot \/ Reboot \/ ReleaseButton \/ RelayDegrades \/ Tick
  BY <1>2 DEF Boot, SafetyInit, SelfTest, Reboot, ReleaseButton, RelayDegrades, Tick
<1>3. CASE IsrEnter BY <1>3 DEF IsrEnter
<1>4. CASE IsrStop
  BY <1>4 DEF IsrStop
<1>5. CASE DeferredStop \/ ClearIsrStop \/ PollButton \/ Debounce \/ SafetyStop \/ PersistRelayFault \/
         RecoveryTimedOut \/ RevertRecovery \/ SampleRelay \/ CheckMismatch \/ CheckRelay \/
         CheckWatchdog
  BY <1>5 DEF DeferredStop, ClearIsrStop, PollButton, Debounce, SafetyStop, PersistRelayFault,
     RecoveryTimedOut, RevertRecovery, SampleRelay, CheckMismatch, CheckRelay,
     CheckWatchdog, MotorStopAll, FaultWhileLive, RelayInGrace, RelayDeEnergised,
     RelayWelded, RelayFaulted, RelayHealthy
<1>6. CASE CmdArrives \/ DriveLock \/ DriveWrite \/ CmdStamp \/ OdomTimer
  BY <1>6 DEF CmdArrives, DriveLock, DriveWrite, CmdStamp, OdomTimer, MotorStopAll
<1>7. CASE ResetCommit BY <1>7 DEF ResetCommit
<1>8. CASE ConfirmCall BY <1>8 DEF ConfirmCall
<1>9. CASE ResetCall \/ ConfirmRefuse \/ ConfirmCommit \/ ClearRelayFault \/ EraseFlag
  BY <1>9 DEF ResetCall, ConfirmRefuse, ConfirmCommit, ClearRelayFault, EraseFlag
<1>10. CASE PlainStop BY <1>10 DEF PlainStop, MotorStopAll
<1>11. ASSUME NEW m \in Monitors, TriggerEstop(m) PROVE ConfirmGuarded' BY <1>11 DEF TriggerEstop
<1>12. ASSUME NEW m \in Monitors, TriggerStop(m) PROVE ConfirmGuarded'
  BY <1>12 DEF TriggerStop, MotorStopAll
<1>13. CASE UNCHANGED vars BY <1>13 DEF vars
<1>14. QED BY <1>1, <1>2, <1>3, <1>4, <1>5, <1>6, <1>7, <1>8, <1>9, <1>10, <1>11, <1>12, <1>13, Zenon
         DEF Next, SafetyTask, Service

\* Only confirm_reset enters NORMAL at run time.
LEMMA PressedNeverNormalStep ==
  ASSUME TypeOK, PressedNeverNormal, ConfirmGuarded, [Next]_vars
  PROVE  PressedNeverNormal'
<1> USE SafetyAssumption DEF SafetyAssumption, TypeOK, FlagsOK, RangesOK, SafetyState, TaskPc,
      relayVars, motorVars, clockVars, envVars, isrVars, taskVars, cmdVars, SafetyFrame,
      CmdFrame, SvcFrame, PressedNeverNormal, ConfirmGuarded
<1>1. CASE PressButton BY <1>1 DEF PressButton
<1>2. CASE Boot \/ Reboot \/ ReleaseButton \/ RelayDegrades \/ Tick
  BY <1>2 DEF Boot, SafetyInit, SelfTest, Reboot, ReleaseButton, RelayDegrades, Tick
<1>3. CASE IsrEnter BY <1>3 DEF IsrEnter
<1>4. CASE IsrStop
  BY <1>4 DEF IsrStop
<1>5. CASE DeferredStop \/ ClearIsrStop \/ PollButton \/ Debounce \/ SafetyStop \/ PersistRelayFault \/
         RecoveryTimedOut \/ RevertRecovery \/ SampleRelay \/ CheckMismatch \/ CheckRelay \/
         CheckWatchdog
  BY <1>5 DEF DeferredStop, ClearIsrStop, PollButton, Debounce, SafetyStop, PersistRelayFault,
     RecoveryTimedOut, RevertRecovery, SampleRelay, CheckMismatch, CheckRelay,
     CheckWatchdog, MotorStopAll, FaultWhileLive, RelayInGrace, RelayDeEnergised,
     RelayWelded, RelayFaulted, RelayHealthy
<1>6. CASE CmdArrives \/ DriveLock \/ DriveWrite \/ CmdStamp \/ OdomTimer
  BY <1>6 DEF CmdArrives, DriveLock, DriveWrite, CmdStamp, OdomTimer, MotorStopAll
<1>7. CASE ConfirmCommit BY <1>7 DEF ConfirmCommit
<1>8. CASE ResetCall \/ ResetCommit \/ ConfirmCall \/ ConfirmRefuse \/ ClearRelayFault \/ EraseFlag
  BY <1>8 DEF ResetCall, ResetCommit, ConfirmCall, ConfirmRefuse, ClearRelayFault, EraseFlag
<1>9. CASE PlainStop BY <1>9 DEF PlainStop, MotorStopAll
<1>10. ASSUME NEW m \in Monitors, TriggerEstop(m) PROVE PressedNeverNormal' BY <1>10 DEF TriggerEstop
<1>11. ASSUME NEW m \in Monitors, TriggerStop(m) PROVE PressedNeverNormal'
  BY <1>11 DEF TriggerStop, MotorStopAll
<1>12. CASE UNCHANGED vars BY <1>12 DEF vars
<1>13. QED BY <1>1, <1>2, <1>3, <1>4, <1>5, <1>6, <1>7, <1>8, <1>9, <1>10, <1>11, <1>12, Zenon
         DEF Next, SafetyTask, Service

\* RELAY_FAULT is entered with the count at the threshold, and no branch of the relay check
\* lowers it there.
LEMMA FaultMeansCountStep ==
  ASSUME TypeOK, FaultMeansCount, [Next]_vars
  PROVE  FaultMeansCount'
<1> USE SafetyAssumption DEF SafetyAssumption, TypeOK, FlagsOK, RangesOK, SafetyState, TaskPc,
      relayVars, motorVars, clockVars, envVars, isrVars, taskVars, cmdVars, SafetyFrame,
      CmdFrame, SvcFrame, FaultMeansCount, Running
<1>1. CASE Boot BY <1>1 DEF Boot, SafetyInit, SelfTest
<1>2. CASE Reboot \/ PressButton \/ ReleaseButton \/ RelayDegrades \/ Tick
  BY <1>2 DEF Reboot, PressButton, ReleaseButton, RelayDegrades, Tick
<1>3. CASE IsrEnter \/ IsrStop
  BY <1>3 DEF IsrEnter, IsrStop
<1>4. CASE CheckMismatch BY <1>4 DEF CheckMismatch, FaultWhileLive
<1>5. CASE CheckRelay
  <2>1. CASE RelayInGrace BY <1>5, <2>1 DEF CheckRelay, RelayInGrace
  <2>2. CASE RelayDeEnergised BY <1>5, <2>2 DEF CheckRelay, RelayDeEnergised, FaultWhileLive
  <2>3. CASE RelayWelded BY <1>5, <2>3 DEF CheckRelay, RelayWelded, Bump, Welded
  <2>4. CASE RelayFaulted BY <1>5, <2>4 DEF CheckRelay, RelayFaulted
  <2>5. CASE RelayHealthy BY <1>5, <2>5 DEF CheckRelay, RelayHealthy, DeEnergised, Welded, Faulted, Healthy
  <2>6. QED BY <1>5, <2>1, <2>2, <2>3, <2>4, <2>5 DEF CheckRelay
<1>6. CASE DeferredStop \/ ClearIsrStop \/ PollButton \/ Debounce \/ SafetyStop \/ PersistRelayFault \/
         RecoveryTimedOut \/ RevertRecovery \/ SampleRelay \/ CheckWatchdog
  BY <1>6 DEF DeferredStop, ClearIsrStop, PollButton, Debounce, SafetyStop, PersistRelayFault,
     RecoveryTimedOut, RevertRecovery, SampleRelay, CheckWatchdog, MotorStopAll
<1>7. CASE CmdArrives \/ DriveLock \/ DriveWrite \/ CmdStamp \/ OdomTimer
  BY <1>7 DEF CmdArrives, DriveLock, DriveWrite, CmdStamp, OdomTimer, MotorStopAll
<1>8. CASE ClearRelayFault BY <1>8 DEF ClearRelayFault
<1>9. CASE ResetCall \/ ResetCommit \/ ConfirmCall \/ ConfirmRefuse \/ ConfirmCommit \/ EraseFlag
  BY <1>9 DEF ResetCall, ResetCommit, ConfirmCall, ConfirmRefuse, ConfirmCommit, EraseFlag
<1>10. CASE PlainStop BY <1>10 DEF PlainStop, MotorStopAll
<1>11. ASSUME NEW m \in Monitors, TriggerEstop(m) PROVE FaultMeansCount' BY <1>11 DEF TriggerEstop
<1>12. ASSUME NEW m \in Monitors, TriggerStop(m) PROVE FaultMeansCount'
  BY <1>12 DEF TriggerStop, MotorStopAll
<1>13. CASE UNCHANGED vars BY <1>13 DEF vars
<1>14. QED BY <1>1, <1>2, <1>3, <1>4, <1>5, <1>6, <1>7, <1>8, <1>9, <1>10, <1>11, <1>12, <1>13, Zenon
         DEF Next, SafetyTask, Service

\* RELAY_FAULT is entered together with the pending flash write.
LEMMA FaultPersistedStep ==
  ASSUME TypeOK, FaultPersisted, EraseCalled, [Next]_vars
  PROVE  FaultPersisted'
<1> USE SafetyAssumption DEF SafetyAssumption, TypeOK, FlagsOK, RangesOK, SafetyState, TaskPc,
      relayVars, motorVars, clockVars, envVars, isrVars, taskVars, cmdVars, SafetyFrame,
      CmdFrame, SvcFrame, FaultPersisted, EraseCalled, Running
<1>1. CASE Boot BY <1>1 DEF Boot, SafetyInit, SelfTest
<1>2. CASE Reboot \/ PressButton \/ ReleaseButton \/ RelayDegrades \/ Tick
  BY <1>2 DEF Reboot, PressButton, ReleaseButton, RelayDegrades, Tick
<1>3. CASE IsrEnter \/ IsrStop
  BY <1>3 DEF IsrEnter, IsrStop
<1>4. CASE PersistRelayFault
  <2>1. "flashfail" \notin Events => nvs_fault' = TRUE
    BY <1>4 DEF PersistRelayFault, FlashWrite
  <2>2. QED BY <1>4, <2>1 DEF PersistRelayFault
<1>5. CASE CheckMismatch BY <1>5 DEF CheckMismatch, FaultWhileLive
<1>6. CASE CheckRelay
  <2>1. CASE RelayInGrace BY <1>6, <2>1 DEF CheckRelay, RelayInGrace
  <2>2. CASE RelayDeEnergised BY <1>6, <2>2 DEF CheckRelay, RelayDeEnergised, FaultWhileLive
  <2>3. CASE RelayWelded BY <1>6, <2>3 DEF CheckRelay, RelayWelded, Bump, Welded
  <2>4. CASE RelayFaulted BY <1>6, <2>4 DEF CheckRelay, RelayFaulted
  <2>5. CASE RelayHealthy BY <1>6, <2>5 DEF CheckRelay, RelayHealthy, DeEnergised, Welded, Faulted, Healthy
  <2>6. QED BY <1>6, <2>1, <2>2, <2>3, <2>4, <2>5 DEF CheckRelay
<1>7. CASE DeferredStop \/ ClearIsrStop \/ PollButton \/ Debounce \/ SafetyStop \/ RecoveryTimedOut \/
         RevertRecovery \/ SampleRelay \/ CheckWatchdog
  BY <1>7 DEF DeferredStop, ClearIsrStop, PollButton, Debounce, SafetyStop, RecoveryTimedOut,
     RevertRecovery, SampleRelay, CheckWatchdog, MotorStopAll
<1>8. CASE CmdArrives \/ DriveLock \/ DriveWrite \/ CmdStamp \/ OdomTimer
  BY <1>8 DEF CmdArrives, DriveLock, DriveWrite, CmdStamp, OdomTimer, MotorStopAll
<1>9. CASE EraseFlag BY <1>9 DEF EraseFlag
<1>10. CASE ResetCall \/ ResetCommit \/ ConfirmCall \/ ConfirmRefuse \/ ConfirmCommit \/ ClearRelayFault
  BY <1>10 DEF ResetCall, ResetCommit, ConfirmCall, ConfirmRefuse, ConfirmCommit, ClearRelayFault
<1>11. CASE PlainStop BY <1>11 DEF PlainStop, MotorStopAll
<1>12. ASSUME NEW m \in Monitors, TriggerEstop(m) PROVE FaultPersisted' BY <1>12 DEF TriggerEstop
<1>13. ASSUME NEW m \in Monitors, TriggerStop(m) PROVE FaultPersisted'
  BY <1>13 DEF TriggerStop, MotorStopAll
<1>14. CASE UNCHANGED vars BY <1>14 DEF vars
<1>15. QED BY <1>1, <1>2, <1>3, <1>4, <1>5, <1>6, <1>7, <1>8, <1>9, <1>10, <1>11, <1>12, <1>13, <1>14,
        Zenon
         DEF Next, SafetyTask, Service

\* The erase is pending only after a call of safety_clear_relay_fault.
LEMMA EraseCalledStep ==
  ASSUME TypeOK, EraseCalled, [Next]_vars
  PROVE  EraseCalled'
<1>1. svc' = svc \/ svc' # "erase" \/ ClearRelayFault
  BY DEF Next, vars, Boot, SafetyInit, SelfTest, Reboot, PressButton, ReleaseButton, RelayDegrades, Tick, IsrEnter,
         IsrStop, SafetyTask, DeferredStop, ClearIsrStop, PollButton, Debounce, SafetyStop,
         PersistRelayFault, RecoveryTimedOut, RevertRecovery, SampleRelay, CheckMismatch,
         CheckRelay, CheckWatchdog, SafetyFrame, CmdArrives, DriveLock, DriveWrite, CmdStamp,
         OdomTimer, CmdFrame, PlainStop, TriggerEstop, TriggerStop, Service, ResetCall,
         ResetCommit, ConfirmCall, ConfirmRefuse, ConfirmCommit, EraseFlag
<1>2. QED BY <1>1 DEF EraseCalled, ClearRelayFault

-------------------------------------------------------------------------------
\* Every step keeps the invariant, one conjunct at a time.
LEMMA SafetyInvStep == SafetyInv /\ [Next]_vars => SafetyInv'
BY StepType, MotionOwnedStep, BootQuietStep, IdleReportHonestStep, ConfirmGuardedStep, PressedNeverNormalStep,
   FaultMeansCountStep, FaultPersistedStep, EraseCalledStep DEF SafetyInv

\* It holds when power comes.
LEMMA SafetyInvInit == Init => SafetyInv
<1> SUFFICES ASSUME Init PROVE SafetyInv OBVIOUS
<1>1. TypeOK BY InitType
<1>2. MotionOwned /\ BootQuiet /\ IdleReportHonest
  BY DEF Init, MotionOwned, BootQuiet, IdleReportHonest
<1>3. PressedNeverNormal /\ ConfirmGuarded BY DEF Init, PressedNeverNormal, ConfirmGuarded
<1>4. FaultMeansCount /\ FaultPersisted /\ EraseCalled
  BY DEF Init, FaultMeansCount, FaultPersisted, EraseCalled, Running
<1>5. QED BY <1>1, <1>2, <1>3, <1>4 DEF SafetyInv

\* The invariant of the safety core.
THEOREM SafetyCorrect == Spec => []SafetyInv
<1>1. QED BY SafetyInvInit, SafetyInvStep, PTL DEF Spec

\* Outside SAFETY_NORMAL every driven wheel has a motor_stop_all on its way, unless the stop
\* was lost in one of the two ways that orphaned records (safety.c, motor_control.c).
THEOREM MotionOwnedAlways == Spec => []MotionOwned
<1>1. SafetyInv => MotionOwned BY DEF SafetyInv
<1>2. QED BY SafetyCorrect, <1>1, PTL

\* motor_is_stopped never reports a standstill while a channel is driven.
THEOREM IdleReportHonestAlways == Spec => []IdleReportHonest
<1>1. SafetyInv => IdleReportHonest BY DEF SafetyInv
<1>2. QED BY SafetyCorrect, <1>1, PTL

\* A held E-stop button whose interrupt was taken keeps the platform out of NORMAL, against
\* the check-then-lock window of safety_reset and safety_confirm_reset.
THEOREM PressedNeverNormalAlways == Spec => []PressedNeverNormal
<1>1. SafetyInv => PressedNeverNormal BY DEF SafetyInv
<1>2. QED BY SafetyCorrect, <1>1, PTL

\* A standing RELAY_FAULT keeps its evidence.
THEOREM FaultMeansCountAlways == Spec => []FaultMeansCount
<1>1. SafetyInv => FaultMeansCount BY DEF SafetyInv
<1>2. QED BY SafetyCorrect, <1>1, PTL

\* A run-time RELAY_FAULT is on flash or about to be.
THEOREM FaultPersistedAlways == Spec => []FaultPersisted
<1>1. SafetyInv => FaultPersisted BY DEF SafetyInv
<1>2. QED BY SafetyCorrect, <1>1, PTL

\* The four together, and the types: the safety of the stop.
THEOREM StopSafetyAlways == Spec => []StopSafety
<1>1. SafetyInv => StopSafety BY DEF SafetyInv, StopSafety
<1>2. QED BY SafetyCorrect, <1>1, PTL
===============================================================================
