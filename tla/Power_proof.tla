----------------------------- MODULE Power_proof ------------------------------
(***************************************************************************)
(* Proofs about the switched supplies: PayloadHotplug, for every set of    *)
(* payloads and events, and PiPower, for every setting of its times and    *)
(* counts.                                                                 *)
(***************************************************************************)
EXTENDS MCPower, TLAPS

-------------------------------------------------------------------------------
(***************************************************************************)
(* The payload connector.                                                  *)
(***************************************************************************)

Owned == rails \ loose

\* payload_power_off of the hot-plug task runs where that task waits for it.
OffCalled ==
  /\ task = "off" <=> off["task"] # "idle"
  /\ task = "off" => next \in {"FAULT", "ABSENT"}

\* Where the hot-plug task answers for a powered connector.
InCharge ==
  \/ task \in {"ramp", "init"} \/ (task = "commit" /\ next = "READY")
  \/ off["task"] \in Rails
  \/ /\ state \in {"READY", "REMOVING"}
     /\ \/ task \in {"switch", "format", "publish"}
        \/ task = "case" /\ next \in {"READY", "REMOVING"}
        \/ task = "commit" /\ next = "REMOVING"

\* Every owned rail has the hot-plug task in charge of it.
PowerInCharge == Owned # {} => InCharge

\* What a payload_power_off has switched off is off, or has escaped it.
OffDone ==
  \A c \in Callers :
    /\ off[c] = "5V" => "12V" \notin Owned
    /\ off[c] = "absent" => Owned = {}

\* The hot-plug task uses a descriptor it has checked.
CheckedDescriptor ==
  /\ task = "commit" /\ next = "POWERING" => tmp \in Acceptable
  /\ \/ task \in {"ramp", "init"}
     \/ task = "commit" /\ next = "READY"
     \/ task = "case" /\ next = "POWERING"
     => descriptor \in Acceptable

PowerInv == TypeOK /\ OffCalled /\ PowerInCharge /\ OffDone
PayloadInv == PowerInv /\ OnlyRequested /\ ReadyIdentified /\ CheckedDescriptor

\* An empty connector without power.
LEMMA InitInv == Init => PayloadInv
BY PayloadAssumption
   DEF Init, PayloadInv, PowerInv, TypeOK, OffCalled, PowerInCharge, OffDone, OnlyRequested,
       ReadyIdentified, CheckedDescriptor, Owned, PayloadState, Rails, Callers, OffPc

-------------------------------------------------------------------------------
(* Power.                                                                  *)

\* Payloads come and go, and the battery task begins its shutdown.
LEMMA ConnectorPower ==
  ASSUME PowerInv, (\E p \in Payloads : Insert(p)) \/ Remove \/ BatteryShutdown
  PROVE  PowerInv'
<1> USE DEF PowerInv, TypeOK, OffCalled, PowerInCharge, InCharge, OffDone, Owned,
            taskVars, railVars, noteVars
<1>1. ASSUME NEW p \in Payloads, Insert(p) PROVE PowerInv' BY <1>1 DEF Insert
<1>2. CASE Remove BY <1>2 DEF Remove
<1>3. CASE BatteryShutdown BY <1>3 DEF BatteryShutdown, OffPc, Rails, Callers
<1>4. QED BY <1>1, <1>2, <1>3

\* A step of payload_power_off keeps the places of its caller in order.
LEMMA OffPlaces ==
  ASSUME TypeOK, OffCalled, NEW c \in Callers, NEW pc \in OffPc, off[c] # "idle", OffGoes(c, pc),
         UNCHANGED next
  PROVE  /\ off' \in [Callers -> OffPc] /\ off'[c] = pc
         /\ \A d \in Callers \ {c} : off'[d] = off[d]
         /\ task' = task \/ (c = "task" /\ pc = "idle" /\ task' \in {"cleanup", "commit"})
         /\ OffCalled'
BY DEF TypeOK, OffCalled, OffGoes, Callers, OffPc, Rails

\* One rail is switched off, or the bus fails.
LEMMA OffWritePower ==
  ASSUME PowerInv, NEW c \in Callers, OffWrite(c)
  PROVE  PowerInv'
<1> USE DEF PowerInv
<1> DEFINE pc == IF off[c] = "12V" THEN "5V" ELSE "absent"
<1>1. pc \in OffPc /\ pc # "idle" /\ off[c] # "idle" BY DEF OffWrite, OffPc, Rails
<1>2. /\ off' \in [Callers -> OffPc] /\ off'[c] = pc
      /\ \A d \in Callers \ {c} : off'[d] = off[d]
      /\ task' = task /\ OffCalled'
  BY <1>1, OffPlaces DEF OffWrite, OffFrame
<1>3. Owned' \subseteq Owned \ {off[c]} /\ rails' \subseteq rails /\ loose' \subseteq rails'
  BY DEF OffWrite, Owned, TypeOK
<1>4. TypeOK' BY <1>2, <1>3 DEF OffWrite, OffFrame, noteVars, TypeOK
<1>5. OffDone' BY <1>2, <1>3 DEF OffDone, OffWrite, Rails, Owned, TypeOK
<1>6. PowerInCharge'
  <2>1. SUFFICES ASSUME Owned' # {} PROVE InCharge' BY DEF PowerInCharge
  <2>2. InCharge BY <2>1, <1>3 DEF PowerInCharge
  <2>3. c = "task" => pc = "5V"
    BY <2>1, <1>2, <1>5 DEF OffDone
  <2>4. QED BY <2>2, <2>3, <1>2 DEF InCharge, OffWrite, OffFrame, Rails, Callers
<1>7. QED BY <1>2, <1>4, <1>5, <1>6

\* The rest of a power-off: the state, the message, the end.
LEMMA OffRestPower ==
  ASSUME PowerInv, NEW c \in Callers, OffAbsent(c) \/ OffFormat(c) \/ OffPublish(c)
  PROVE  PowerInv'
<1> USE DEF PowerInv
<1>1. PICK pc \in {"format", "publish", "idle"} : OffGoes(c, pc)
  BY DEF OffAbsent, OffFormat, OffPublish
<1>2. /\ off[c] \in {"absent", "format", "publish"} /\ pc \in OffPc
      /\ UNCHANGED <<rails, loose, descriptor, slot, next, tmp>>
  BY DEF OffAbsent, OffFormat, OffPublish, OffFrame, OffPc, railVars
<1>3. /\ off' \in [Callers -> OffPc] /\ off'[c] = pc
      /\ \A d \in Callers \ {c} : off'[d] = off[d]
      /\ task' = task \/ (c = "task" /\ task' \in {"cleanup", "commit"})
      /\ OffCalled'
  BY <1>1, <1>2, OffPlaces
<1>4. TypeOK'
  BY <1>2, <1>3 DEF OffAbsent, OffFormat, OffPublish, noteVars, railVars, TypeOK, PayloadState
<1>5. OffDone' BY <1>1, <1>2, <1>3 DEF OffDone, Owned
<1>6. PowerInCharge'
  <2>1. CASE OffAbsent(c)
    BY <2>1, <1>2 DEF OffAbsent, OffDone, PowerInCharge, Owned
  <2>2. CASE c = "task"
    <3>1. ~ InCharge BY <2>2, <1>2 DEF InCharge, OffCalled, Rails
    <3>2. QED BY <3>1, <1>2 DEF PowerInCharge, Owned
  <2>3. CASE c # "task" /\ state' = state
    BY <2>3, <1>2, <1>3 DEF PowerInCharge, InCharge, Owned, Callers
  <2>4. QED BY <2>1, <2>2, <2>3 DEF OffFormat, OffPublish, Callers
<1>7. QED BY <1>3, <1>4, <1>5, <1>6

\* Steps of the hot-plug task that touch no rail.
LEMMA TaskPower ==
  ASSUME PowerInv,
         \/ Switch \/ Absent \/ Detected \/ Debounce \/ Identify \/ CheckInit
         \/ MonitorRemoval \/ Removing \/ Fault \/ Recheck
  PROVE  PowerInv'
<1> USE DEF PowerInv, TypeOK, OffCalled, PowerInCharge, InCharge, OffDone, Owned,
            taskVars, railVars, noteVars, TaskFrame, Case, Rest, Decide, CallPowerOff, PayloadState
<1>1. CASE Switch BY <1>1 DEF Switch
<1>2. CASE Absent BY <1>2 DEF Absent
<1>3. CASE Detected BY <1>3 DEF Detected
<1>4. CASE Debounce BY <1>4 DEF Debounce
<1>5. CASE Identify BY <1>5 DEF Identify, Descriptors
<1>6. CASE CheckInit BY <1>6 DEF CheckInit, Callers, OffPc, Rails
<1>7. CASE MonitorRemoval BY <1>7 DEF MonitorRemoval
<1>8. CASE Removing BY <1>8 DEF Removing, Callers, OffPc, Rails
<1>9. CASE Fault BY <1>9 DEF Fault
<1>10. CASE Recheck BY <1>10 DEF Recheck
<1>11. QED BY <1>1, <1>2, <1>3, <1>4, <1>5, <1>6, <1>7, <1>8, <1>9, <1>10

\* The hot-plug task writes what it has decided, and reports it.
LEMMA SetPower ==
  ASSUME PowerInv, Commit \/ Cleanup \/ Format \/ Publish
  PROVE  PowerInv'
<1> USE DEF PowerInv, TypeOK, OffCalled, PowerInCharge, InCharge, OffDone, Owned,
            railVars, noteVars, PayloadState
<1>1. CASE Commit BY <1>1 DEF Commit, Rails, Callers
<1>2. CASE Cleanup BY <1>2 DEF Cleanup, Rails, Callers
<1>3. CASE Format BY <1>3 DEF Format
<1>4. CASE Publish BY <1>4 DEF Publish
<1>5. QED BY <1>1, <1>2, <1>3, <1>4

\* A rail switched on behind a power-off has escaped it.
LEMMA SwitchOnPower ==
  ASSUME PowerInv, NEW r \in Rails, off["task"] = "idle",
         SwitchOn(r) \/ UNCHANGED railVars, UNCHANGED off
  PROVE  OffDone' /\ rails' \subseteq Rails /\ loose' \subseteq rails'
<1> USE DEF PowerInv, TypeOK, OffDone, Owned, Callers, railVars
<1>1. CASE SwitchOn(r) /\ rails' = rails \cup {r} BY <1>1 DEF SwitchOn, Escapes, Rails
<1>2. CASE UNCHANGED railVars BY <1>2
<1>3. QED BY <1>1, <1>2 DEF SwitchOn

\* A rail is switched on by the task that answers for it.
LEMMA PowerOnPower ==
  ASSUME PowerInv, PowerOn5 \/ PowerOn12
  PROVE  PowerInv'
<1>1. task # "off" /\ task' \in {"ramp", "init"}
  BY DEF PowerOn5, PowerOn12, Case
<1>2. UNCHANGED <<state, descriptor, slot, next, tmp, off, buf, told>>
  BY DEF PowerOn5, PowerOn12, TaskFrame, noteVars
<1>3. off["task"] = "idle" BY <1>1 DEF PowerInv, OffCalled
<1>4. PICK r \in Rails : SwitchOn(r) \/ UNCHANGED railVars
  BY DEF PowerOn5, PowerOn12, Rails
<1>5. OffDone' /\ rails' \subseteq Rails /\ loose' \subseteq rails'
  BY <1>2, <1>3, <1>4, SwitchOnPower
<1>6. TypeOK' BY <1>1, <1>2, <1>5 DEF PowerInv, TypeOK
<1>7. OffCalled' /\ PowerInCharge'
  BY <1>1, <1>2, <1>3 DEF PowerInv, OffCalled, PowerInCharge, InCharge
<1>8. QED BY <1>5, <1>6, <1>7 DEF PowerInv

\* Every step keeps the part of the invariant about power.
LEMMA StepPower == PowerInv /\ [Next]_vars => PowerInv'
<1> SUFFICES ASSUME PowerInv, [Next]_vars PROVE PowerInv' OBVIOUS
<1>1. CASE (\E p \in Payloads : Insert(p)) \/ Remove \/ BatteryShutdown BY <1>1, ConnectorPower
<1>2. ASSUME NEW c \in Callers, PowerOff(c) PROVE PowerInv'
  BY <1>2, OffWritePower, OffRestPower DEF PowerOff
<1>3. CASE HotplugTask
  BY <1>2, <1>3, TaskPower, SetPower, PowerOnPower DEF HotplugTask, Callers
<1>4. CASE UNCHANGED vars
  BY <1>4 DEF vars, taskVars, railVars, noteVars, PowerInv, TypeOK, OffCalled, PowerInCharge,
              InCharge, OffDone, Owned
<1>5. QED BY <1>1, <1>2, <1>3, <1>4 DEF Next, Callers

-------------------------------------------------------------------------------
(* The descriptor.                                                         *)

DescriptorInv == OnlyRequested /\ ReadyIdentified /\ CheckedDescriptor

\* The connector and the power-offs take rails and states away, and read no descriptor.
LEMMA OthersDescriptor ==
  ASSUME PayloadInv,
         \/ (\E p \in Payloads : Insert(p)) \/ Remove \/ BatteryShutdown
         \/ \E c \in Callers : PowerOff(c)
  PROVE  DescriptorInv'
<1> USE DEF PayloadInv, PowerInv
<1> DEFINE Reset ==
      /\ UNCHANGED <<descriptor, tmp, next>> /\ state' \in {state, "ABSENT"} /\ Owned' \subseteq Owned
      /\ task' = task \/ (task = "off" /\ task' \in {"cleanup", "commit"})
<1>1. Reset
  <2>1. ASSUME NEW p \in Payloads, Insert(p) PROVE Reset
    BY <2>1 DEF Insert, taskVars, railVars, Owned
  <2>2. CASE Remove \/ BatteryShutdown
    BY <2>2 DEF Remove, BatteryShutdown, taskVars, railVars, Owned
  <2>3. ASSUME NEW c \in Callers, PowerOff(c) PROVE Reset
    <3>1. off[c] # "idle" BY <2>3 DEF PowerOff, OffWrite, OffAbsent, OffFormat, OffPublish, Rails
    <3>2. task' = task \/ (task = "off" /\ task' \in {"cleanup", "commit"})
      BY <2>3, <3>1 DEF PowerOff, OffWrite, OffAbsent, OffFormat, OffPublish, OffGoes, OffCalled
    <3>3. QED
      BY <2>3, <3>2
         DEF PowerOff, OffWrite, OffAbsent, OffFormat, OffPublish, OffFrame, railVars, Owned
  <2>4. QED BY <2>1, <2>2, <2>3
<1>2. QED
  BY <1>1 DEF DescriptorInv, OnlyRequested, ReadyIdentified, CheckedDescriptor, OffCalled, Owned

\* The hot-plug task uses a descriptor only after it was checked.
LEMMA TaskDescriptor ==
  ASSUME PayloadInv, HotplugTask, ~ PowerOff("task")
  PROVE  DescriptorInv'
<1> USE DEF PayloadInv, PowerInv, DescriptorInv, OnlyRequested, ReadyIdentified, CheckedDescriptor,
            railVars, TaskFrame, Case, Rest, Decide, CallPowerOff
<1>1. CASE Switch BY <1>1 DEF Switch
<1>2. CASE Absent BY <1>2 DEF Absent
<1>3. CASE Detected BY <1>3 DEF Detected
<1>4. CASE Debounce BY <1>4 DEF Debounce
<1>5. CASE Identify BY <1>5 DEF Identify
<1>6. CASE PowerOn5
  <2>1. "12V" \in Owned' => "12V" \in Owned BY <1>6 DEF PowerOn5, SwitchOn, Owned
  <2>2. QED BY <1>6, <2>1 DEF PowerOn5, Owned
<1>7. CASE PowerOn12
  <2>1. "12V" \in Owned' => "12V" \in Owned \/ descriptor \in Wants12
    BY <1>7 DEF PowerOn12, SwitchOn, Owned
  <2>2. QED BY <1>7, <2>1 DEF PowerOn12, Owned
<1>8. CASE CheckInit BY <1>8 DEF CheckInit
<1>9. CASE MonitorRemoval \/ Removing \/ Fault \/ Recheck
  BY <1>9 DEF MonitorRemoval, Removing, Fault, Recheck
<1>10. CASE Commit
  <2>1. next = "POWERING" => Owned = {}
    BY <1>10 DEF Commit, PowerInCharge, InCharge, OffCalled, Rails
  <2>2. QED BY <1>10, <2>1 DEF Commit, Owned
<1>11. CASE Cleanup
  <2>1. Owned = {} BY <1>11 DEF Cleanup, PowerInCharge, InCharge, OffCalled, Rails
  <2>2. QED BY <1>11, <2>1 DEF Cleanup, Owned
<1>12. CASE Format \/ Publish BY <1>12 DEF Format, Publish
<1>13. QED
  BY <1>1, <1>2, <1>3, <1>4, <1>5, <1>6, <1>7, <1>8, <1>9, <1>10, <1>11, <1>12 DEF HotplugTask

\* Every step keeps the whole invariant.
LEMMA StepInv == PayloadInv /\ [Next]_vars => PayloadInv'
<1> SUFFICES ASSUME PayloadInv, [Next]_vars PROVE PayloadInv' OBVIOUS
<1>1. PowerInv' BY StepPower DEF PayloadInv
<1>2. DescriptorInv'
  <2>1. CASE UNCHANGED vars
    BY <2>1 DEF vars, taskVars, railVars, PayloadInv, DescriptorInv, OnlyRequested,
                ReadyIdentified, CheckedDescriptor
  <2>2. CASE Next BY <2>2, OthersDescriptor, TaskDescriptor DEF Next, HotplugTask, Callers
  <2>3. QED BY <2>1, <2>2
<1>3. QED BY <1>1, <1>2 DEF PayloadInv, DescriptorInv

\* The state machine, its power-offs and the descriptor are consistent in every reachable state.
THEOREM PayloadCorrect == Spec => []PayloadInv
<1>1. QED BY InitInv, StepInv, PTL DEF Spec

\* Power on the connector has an owner or escaped a power-off, for every payload and however the
\* battery task's power-off falls into the power sequence.
THEOREM RailsAccountedAlways == Spec => []RailsAccounted
<1>1. PayloadInv => RailsAccounted
  BY DEF PayloadInv, PowerInv, PowerInCharge, InCharge, RailsAccounted, Switching, Owned, Callers
<1>2. QED BY PayloadCorrect, <1>1, PTL

\* 12 V reaches only payloads that asked for it.
THEOREM OnlyRequestedAlways == Spec => []OnlyRequested
<1>1. PayloadInv => OnlyRequested BY DEF PayloadInv
<1>2. QED BY PayloadCorrect, <1>1, PTL

\* POWERING and READY have a descriptor that passed the checks.
THEOREM ReadyIdentifiedAlways == Spec => []ReadyIdentified
<1>1. PayloadInv => ReadyIdentified BY DEF PayloadInv
<1>2. QED BY PayloadCorrect, <1>1, PTL

\* The safety of the connector: types, powered rails, what they were asked for, and for whom.
THEOREM PayloadSafetyAlways == Spec => []PayloadSafety
<1>1. PayloadInv => TypeOK BY DEF PayloadInv, PowerInv
<1>2. PayloadInv => RailsAccounted
  BY DEF PayloadInv, PowerInv, PowerInCharge, InCharge, RailsAccounted, Switching, Owned, Callers
<1>3. PayloadInv => OnlyRequested /\ ReadyIdentified BY DEF PayloadInv
<1>4. PayloadInv => PayloadSafety BY <1>1, <1>2, <1>3 DEF PayloadSafety
<1>5. QED BY PayloadCorrect, <1>4, PTL

-------------------------------------------------------------------------------
(***************************************************************************)
(* The companion computer's relay: it is left alone while it boots, and    *)
(* SAFE_MODE takes all the cycles within one window.                       *)
(***************************************************************************)

\* PowerTypeOK, in what is enumerated and what is counted.
PowerFlags ==
  /\ hb \in {"WAITING", "ACTIVE", "TIMEOUT", "SAFE_MODE"}
  /\ relay \in {0, 1} /\ pi \in {"off", "booting", "up", "hung"}
  /\ hbTask \in {"wait", "mark", "off", "pulse", "count"}
  /\ estopped \in BOOLEAN /\ critical \in BOOLEAN
  /\ shutdown_initiated \in BOOLEAN /\ critical_estop_triggered \in BOOLEAN
  /\ batt \in {"poll", "cut"} /\ owed \subseteq {"battery", "heartbeat"}

PowerCounts ==
  /\ hbAge \in 0 .. Timeout + 1 /\ sentAge \in 0 .. Timeout + 1
  /\ initAge \in 0 .. Grace
  /\ resets \in 0 .. MaxResets /\ firstAge \in 0 .. ResetWindow + 1
  /\ pulse \in 0 .. Pulse
  /\ criticalAge \in 0 .. CriticalTime + 1
  /\ recovery_counter \in 0 .. RecoveryCount - 1

PowerAges == cycleAge \in [Cycles -> 0 .. ResetWindow + 1]

\* The task leaves its rest only for a Pi that was ACTIVE, which WAITING becomes only after the
\* boot grace; and it leaves it with a reset to spare.
GraceOver ==
  /\ hb \in {"ACTIVE", "TIMEOUT"} => initAge >= Grace
  /\ hbTask # "wait" => hb \in {"ACTIVE", "TIMEOUT"}
  /\ hb # "SAFE_MODE" => resets < MaxResets

\* The cycles counted since the first of the window are no older than it.
CyclesOfWindow == \A i \in Cycles : i <= resets => cycleAge[i] <= firstAge

PiInv == PowerFlags /\ PowerCounts /\ PowerAges /\ GraceOver /\ CyclesOfWindow

\* The parts are the type invariant.
LEMMA PowerTypes == PowerTypeOK <=> PowerFlags /\ PowerCounts /\ PowerAges
BY DEF PowerTypeOK, PowerFlags, PowerCounts, PowerAges

\* A Pi that has just been switched on, waited for.
LEMMA PowerInitInv == PowerInit => PiInv
<1> SUFFICES ASSUME PowerInit PROVE PiInv OBVIOUS
<1>1. PowerFlags BY Zenon DEF PowerInit, PowerFlags
<1>2. PowerCounts BY PowerAssumption, SMT DEF PowerInit, PowerCounts, Unset
<1>3. PowerAges BY PowerAssumption, SMT DEF PowerInit, PowerAges, Cycles
<1>4. GraceOver /\ CyclesOfWindow
  BY PowerAssumption, SMT DEF PowerInit, GraceOver, CyclesOfWindow, Cycles
<1>5. QED BY <1>1, <1>2, <1>3, <1>4 DEF PiInv

\* What the Pi, the world and the battery task do.
LEMMA OthersPower ==
  ASSUME PiInv,
         \/ PiBoots \/ PiHangs \/ CmdVel \/ EstopChanges \/ VoltageChanges
         \/ CriticalReading \/ CutLoads \/ GoodReading
  PROVE  PiInv'
<1> USE DEF PiInv, hbVars, piVars, battVars
<1>1. PowerFlags'
  <2>1. CASE PiBoots \/ PiHangs BY <2>1, Zenon DEF PiBoots, PiHangs, PowerFlags
  <2>2. CASE CmdVel
    <3>1. hb' \in {"ACTIVE", hb} /\ hbTask' = hbTask BY <2>2 DEF CmdVel, Feed
    <3>2. UNCHANGED <<relay, pi, estopped, critical, shutdown_initiated, critical_estop_triggered,
                      batt, owed>>
      BY <2>2 DEF CmdVel
    <3>3. QED BY <3>1, <3>2 DEF PowerFlags
  <2>3. CASE EstopChanges \/ VoltageChanges
    <3>1. estopped' \in BOOLEAN /\ critical' \in BOOLEAN
      BY <2>3, Zenon DEF EstopChanges, VoltageChanges, PowerFlags
    <3>2. UNCHANGED <<hb, hbTask, relay, pi, shutdown_initiated, critical_estop_triggered, batt,
                      owed>>
      BY <2>3 DEF EstopChanges, VoltageChanges
    <3>3. QED BY <3>1, <3>2 DEF PowerFlags
  <2>4. CASE CriticalReading
    <3>1. /\ critical_estop_triggered' \in BOOLEAN /\ estopped' \in BOOLEAN
          /\ shutdown_initiated' \in BOOLEAN /\ batt' \in {"poll", "cut"}
          /\ owed' \subseteq owed
      BY <2>4, Zenon DEF CriticalReading, PowerFlags
    <3>2. UNCHANGED <<hb, hbTask, relay, pi, critical>>
      BY <2>4 DEF CriticalReading, BatteryFrame
    <3>3. QED BY <3>1, <3>2 DEF PowerFlags
  <2>5. CASE CutLoads BY <2>5 DEF CutLoads, BatteryFrame, PowerFlags
  <2>6. CASE GoodReading
    <3>1. /\ critical_estop_triggered' \in BOOLEAN /\ shutdown_initiated' \in BOOLEAN
          /\ owed' \subseteq owed
      BY <2>6, Zenon DEF GoodReading, PowerFlags
    <3>2. UNCHANGED <<hb, hbTask, relay, pi, critical, estopped, batt>>
      BY <2>6 DEF GoodReading, BatteryFrame
    <3>3. QED BY <3>1, <3>2 DEF PowerFlags
  <2>7. QED BY <2>1, <2>2, <2>3, <2>4, <2>5, <2>6
<1>2. PowerCounts'
  <2>1. CASE CmdVel BY <2>1, PowerAssumption, SMT DEF CmdVel, Feed, PowerCounts
  <2>2. CASE CriticalReading
    BY <2>2, PowerAssumption, SMT DEF CriticalReading, BatteryFrame, PowerCounts
  <2>3. CASE GoodReading
    BY <2>3, PowerAssumption, SMT DEF GoodReading, Recovered, BatteryFrame, PowerCounts, Unset
  <2>4. CASE PiBoots \/ PiHangs \/ EstopChanges \/ VoltageChanges \/ CutLoads
    BY <2>4 DEF PiBoots, PiHangs, EstopChanges, VoltageChanges, CutLoads, BatteryFrame, PowerCounts
  <2>5. QED BY <2>1, <2>2, <2>3, <2>4
<1>3. UNCHANGED <<initAge, resets, firstAge, hbTask, cycleAge>>
  BY DEF PiBoots, PiHangs, CmdVel, Feed, EstopChanges, VoltageChanges, CriticalReading, CutLoads,
         GoodReading, BatteryFrame
<1>4. hb' = hb \/ (hb' = "ACTIVE" /\ (hb = "TIMEOUT" \/ (hb = "WAITING" /\ initAge >= Grace)))
  BY DEF PiBoots, PiHangs, CmdVel, Feed, EstopChanges, VoltageChanges, CriticalReading, CutLoads,
         GoodReading, BatteryFrame
<1>5. QED
  BY <1>1, <1>2, <1>3, <1>4 DEF PowerAges, GraceOver, CyclesOfWindow

\* Time passes for all timestamps alike.
LEMMA TickPower == PiInv /\ PowerTick => PiInv'
<1> SUFFICES ASSUME PiInv, PowerTick PROVE PiInv' OBVIOUS
<1> USE DEF PiInv
<1>1. PowerFlags'
  <2>1. owed' \subseteq {"battery", "heartbeat"} BY DEF PowerTick
  <2>2. QED BY <2>1 DEF PowerTick, PowerFlags
<1>2. PowerCounts' BY PowerAssumption, SMT DEF PowerTick, PowerCounts, Older
<1>3. cycleAge' = [i \in Cycles |-> Older(cycleAge[i], ResetWindow)] /\ resets' = resets
  BY DEF PowerTick
<1>4. PowerAges' BY <1>3, PowerAssumption, SMT DEF PowerAges, Older
<1>5. GraceOver'
  <2>1. initAge' >= initAge \/ initAge' = Grace BY PowerAssumption, SMT DEF PowerTick, PowerCounts
  <2>2. UNCHANGED <<hb, hbTask, resets>> BY DEF PowerTick
  <2>3. initAge >= Grace => initAge' >= Grace BY <2>1, PowerAssumption, SMT DEF PowerTick, PowerCounts
  <2>4. QED BY <2>2, <2>3 DEF GraceOver
<1>6. CyclesOfWindow'
  <2>1. SUFFICES ASSUME NEW i \in Cycles, i <= resets PROVE cycleAge'[i] <= firstAge'
    BY <1>3 DEF CyclesOfWindow
  <2>2. cycleAge[i] <= firstAge /\ cycleAge[i] \in 0 .. ResetWindow + 1
    BY <2>1 DEF CyclesOfWindow, PowerAges
  <2>3. resets > 0 BY <2>1, PowerAssumption, SMT DEF Cycles, PowerCounts
  <2>4. firstAge' = Older(firstAge, ResetWindow) BY <2>3 DEF PowerTick
  <2>5. QED BY <1>3, <2>1, <2>2, <2>4, PowerAssumption, SMT DEF Older, PowerCounts
<1>7. QED BY <1>1, <1>2, <1>4, <1>5, <1>6

\* The heartbeat task up to the release of the relay and its return.
LEMMA CyclePower ==
  ASSUME PiInv, CheckHeartbeat \/ MarkTimeout \/ RelayOff \/ RelayOn
  PROVE  PiInv'
<1> USE DEF PiInv, HeartbeatFrame, battVars
<1>1. CASE CheckHeartbeat
  <2>1. PowerFlags' BY <1>1, Zenon DEF CheckHeartbeat, PowerFlags
  <2>2. hbTask' # "wait" => hb \in {"ACTIVE", "TIMEOUT"} BY <1>1 DEF CheckHeartbeat, PowerFlags
  <2>3. UNCHANGED <<hb, hbAge, initAge, resets, firstAge, pulse, cycleAge, sentAge, criticalAge,
                    recovery_counter>>
    BY <1>1 DEF CheckHeartbeat
  <2>4. QED BY <2>1, <2>2, <2>3 DEF PowerCounts, PowerAges, GraceOver, CyclesOfWindow
<1>2. CASE MarkTimeout
  <2>1. PowerFlags' BY <1>2, Zenon DEF MarkTimeout, PowerFlags
  <2>2. QED BY <1>2, <2>1 DEF MarkTimeout, PowerCounts, PowerAges, GraceOver, CyclesOfWindow
<1>3. CASE RelayOff
  <2>1. PowerFlags' BY <1>3, Zenon DEF RelayOff, PowerFlags
  <2>2. pulse' \in 0 .. Pulse BY <1>3, PowerAssumption, SMT DEF RelayOff
  <2>3. QED BY <1>3, <2>1, <2>2 DEF RelayOff, PowerCounts, PowerAges, GraceOver, CyclesOfWindow
<1>4. CASE RelayOn
  <2>1. PowerFlags' BY <1>4, Zenon DEF RelayOn, PowerFlags
  <2>2. QED BY <1>4, <2>1 DEF RelayOn, PowerCounts, PowerAges, GraceOver, CyclesOfWindow
<1>5. QED BY <1>1, <1>2, <1>3, <1>4

\* What the task finds when it counts a cycle: the state leaves room for one more, and the cycles
\* before it are the ones of the window.
LEMMA CountPower == PiInv /\ CountReset => PiInv'
<1> SUFFICES ASSUME PiInv, CountReset PROVE PiInv' OBVIOUS
<1> USE DEF PiInv
<1>1. hb' \in {"SAFE_MODE", "WAITING"} /\ hbTask' = "wait" BY DEF CountReset
<1>2. PowerFlags' BY <1>1, Zenon DEF CountReset, HeartbeatFrame, battVars, PowerFlags
<1>3. resets < MaxResets BY DEF CountReset, GraceOver
<1>4. resets' \in 1 .. resets + 1 BY PowerAssumption, SMT DEF CountReset, PowerCounts
<1>5. PowerCounts'
  BY <1>3, <1>4, PowerAssumption, SMT DEF CountReset, HeartbeatFrame, battVars, PowerCounts
<1>6. cycleAge' = [i \in Cycles |-> IF i = 1 THEN 0 ELSE cycleAge[i - 1]] BY DEF CountReset
<1>7. \A i \in Cycles : i # 1 => i - 1 \in Cycles BY PowerAssumption, SMT DEF Cycles
<1>8. PowerAges' BY <1>6, <1>7, PowerAssumption, SMT DEF PowerAges
<1>9. GraceOver'
  <2>1. hb' # "SAFE_MODE" => resets' < MaxResets
    BY <1>4, PowerAssumption, SMT DEF CountReset, PowerCounts
  <2>2. QED BY <1>1, <2>1 DEF GraceOver
<1>10. CyclesOfWindow'
  <2>1. SUFFICES ASSUME NEW i \in Cycles, i <= resets' PROVE cycleAge'[i] <= firstAge'
    BY DEF CyclesOfWindow
  <2>2. CASE i = 1 BY <2>2, <1>5, <1>6, SMT DEF PowerCounts
  <2>3. CASE i # 1
    <3>1. ~ Fresh BY <2>1, <2>3, PowerAssumption, SMT DEF CountReset, Cycles
    <3>2. resets' = resets + 1 /\ firstAge' = firstAge BY <3>1 DEF CountReset
    <3>3. i - 1 \in Cycles /\ i - 1 <= resets
      BY <1>7, <2>1, <2>3, <3>2, PowerAssumption, SMT DEF Cycles, PowerCounts
    <3>4. QED BY <1>6, <2>3, <3>2, <3>3 DEF CyclesOfWindow
  <2>4. QED BY <2>2, <2>3
<1>11. QED BY <1>2, <1>5, <1>8, <1>9, <1>10

\* Every step of both tasks, of the Pi and of time keeps the invariant.
LEMMA PowerStepInv == PiInv /\ [PowerNext]_powerVars => PiInv'
<1> SUFFICES ASSUME PiInv, [PowerNext]_powerVars PROVE PiInv' OBVIOUS
<1>1. CASE UNCHANGED powerVars
  BY <1>1 DEF powerVars, hbVars, piVars, battVars, PiInv, PowerFlags, PowerCounts, PowerAges,
              GraceOver, CyclesOfWindow
<1>2. CASE PowerNext
  BY <1>2, OthersPower, TickPower, CyclePower, CountPower DEF PowerNext, HeartbeatTask, BatteryTask
<1>3. QED BY <1>1, <1>2

\* A step that counts the last reset of a window has all the cycles before it in the window.
LEMMA SafeModeStep ==
  ASSUME PiInv, [PowerNext]_powerVars, hb' = "SAFE_MODE", hb # "SAFE_MODE",
         NEW i \in Cycles
  PROVE  cycleAge[i] <= ResetWindow
<1>1. CountReset
  BY DEF PowerNext, HeartbeatTask, BatteryTask, PiBoots, PiHangs, CmdVel, Feed, EstopChanges,
         VoltageChanges, PowerTick, CheckHeartbeat, MarkTimeout, RelayOff, RelayOn,
         CriticalReading, CutLoads, GoodReading, BatteryFrame, hbVars, powerVars
<1>2. resets' >= MaxResets /\ resets < MaxResets
  BY <1>1 DEF CountReset, PiInv, GraceOver
<1>3. ~ Fresh /\ resets' = resets + 1
  BY <1>1, <1>2, PowerAssumption, SMT DEF CountReset, Cycles, PiInv, PowerCounts
<1>4. firstAge <= ResetWindow
  BY <1>3, PowerAssumption, SMT DEF Fresh, PiInv, PowerCounts
<1>5. i <= resets BY <1>2, <1>3, PowerAssumption, SMT DEF Cycles, PiInv, PowerCounts
<1>6. cycleAge[i] <= firstAge BY <1>5 DEF PiInv, CyclesOfWindow
<1>7. QED
  BY <1>4, <1>6, PowerAssumption, SMT DEF PiInv, PowerCounts, PowerAges

\* The types, the boot grace and the reset window of the companion's supply, for every setting of
\* the times and counts.
THEOREM PowerSafetyAlways == PowerSpec => PowerSafety
<1>1. PiInv => PowerTypeOK BY PowerTypes DEF PiInv
<1>2. PiInv /\ [PowerNext]_powerVars
      => (hbTask = "off" /\ relay' = 0 /\ relay = 1 => initAge >= Grace)
  BY DEF PiInv, GraceOver
<1>3. PiInv /\ [PowerNext]_powerVars
      => (hb' = "SAFE_MODE" /\ hb # "SAFE_MODE" => \A i \in Cycles : cycleAge[i] <= ResetWindow)
  BY SafeModeStep
<1>4. PiInv /\ [PowerNext]_powerVars
      => [hbTask = "off" /\ relay' = 0 /\ relay = 1 => initAge >= Grace]_powerVars
  BY <1>2
<1>5. PiInv /\ [PowerNext]_powerVars
      => [hb' = "SAFE_MODE" /\ hb # "SAFE_MODE"
          => \A i \in Cycles : cycleAge[i] <= ResetWindow]_powerVars
  BY <1>3
<1>6. PowerSpec => []PiInv
  BY PowerInitInv, PowerStepInv, PTL DEF PowerSpec
<1>7. QED
  BY <1>1, <1>4, <1>5, <1>6, PTL
  DEF PowerSpec, PowerSafety, BootGraceRespected, SafeModeJustified

-------------------------------------------------------------------------------
\* What is proved of the two holds of the instance, in which one of them runs.
LEMMA SupplyIsEither == SupplySpec => Spec /\ PowerSpec
<1>1. SupplyInit => Init /\ PowerInit BY DEF SupplyInit
<1>2. [SupplyNext]_<<program, vars, powerVars>> => [Next]_vars /\ [PowerNext]_powerVars
  BY Zenon DEF SupplyNext
<1>3. QED BY <1>1, <1>2, PTL DEF SupplySpec, Spec, PowerSpec

\* Both switched supplies are safe in the instance, whatever the constants: payload rails are
\* accounted for, the companion is cut only after its boot grace and given up on only for power
\* cycles inside the reset window.
THEOREM SupplyCorrect == SupplySpec => []PayloadSafety /\ PowerSafety
<1>1. SupplySpec => []PayloadSafety BY SupplyIsEither, PayloadSafetyAlways, PTL
<1>2. SupplySpec => PowerSafety BY SupplyIsEither, PowerSafetyAlways, PTL
<1>3. QED BY <1>1, <1>2
===============================================================================
