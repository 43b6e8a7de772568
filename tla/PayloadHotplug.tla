----------------------------- MODULE PayloadHotplug -----------------------------
(***************************************************************************)
(* The payload connector: payload_hotplug.c.  One task polls the detect    *)
(* pin and walks the state machine; the battery task calls                 *)
(* payload_power_off from outside.  The state is written under a lock and  *)
(* read in the switch without one, so a state decided on a reading may     *)
(* overwrite one that was set since.  Every access to the I2C expander is  *)
(* locked and may fail.  The VBAT rail is never switched on.               *)
(***************************************************************************)
CONSTANTS
  Payloads,          \* what can be plugged in
  Acceptable,        \* payloads with a valid descriptor within the power budget
  Wants12,           \* payloads whose descriptor asks for 12 V
  NoPayload,         \* an empty connector, and a descriptor that says nothing
  Events             \* what may happen: subset of {"shutdown", "i2cfail"}

ASSUME PayloadAssumption ==
  /\ NoPayload \notin Payloads
  /\ Acceptable \subseteq Payloads /\ Wants12 \subseteq Payloads

VARIABLES
  state,             \* payload_hotplug.c: state
  descriptor,        \* the payload the descriptor describes
  rails,             \* the rails the expander has switched on
  slot,              \* what is in the connector
  task,              \* where payload_hotplug_task is
  next,              \* the state it has switched on, then the one it is about to set
  tmp,               \* the descriptor it has read
  off,               \* where each caller of payload_power_off is
  buf,               \* payload_json_buf, shared by the callers of notify_event
  told,              \* the state last published
  loose              \* history: rails that escaped a payload_power_off

taskVars == <<task, next, tmp>>
railVars == <<rails, loose>>
noteVars == <<buf, told>>
vars == <<state, descriptor, railVars, slot, taskVars, off, noteVars>>

PayloadState ==
  {"ABSENT", "DETECTED", "IDENTIFYING", "POWERING", "READY", "FAULT", "REMOVING"}
Rails == {"5V", "12V"}
Callers == {"task", "battery"}
OffPc == Rails \cup {"idle", "absent", "format", "publish"}

Init ==
  /\ state = "ABSENT" /\ descriptor = NoPayload
  /\ rails = {} /\ loose = {} /\ slot = NoPayload
  /\ task = "switch" /\ next = "ABSENT" /\ tmp = NoPayload
  /\ off = [c \in Callers |-> "idle"]
  /\ buf = "ABSENT" /\ told = "ABSENT"

-------------------------------------------------------------------------------
(* The connector.                                                          *)

Insert(p) ==
  /\ slot = NoPayload /\ slot' = p
  /\ UNCHANGED <<state, descriptor, railVars, taskVars, off, noteVars>>

Remove ==
  /\ slot # NoPayload /\ slot' = NoPayload
  /\ UNCHANGED <<state, descriptor, railVars, taskVars, off, noteVars>>

\* read_detect_pin: a failed read says that nothing is there.
Detect == (IF slot # NoPayload THEN {TRUE} ELSE {FALSE})
          \cup (IF "i2cfail" \in Events THEN {FALSE} ELSE {})

\* read_eeprom_descriptor
Descriptors == {slot} \cup (IF "i2cfail" \in Events THEN {NoPayload} ELSE {})

-------------------------------------------------------------------------------
(* payload_power_off, run by the hot-plug task and by the battery task.    *)

OffFrame == UNCHANGED <<descriptor, slot, next, tmp>>

\* The caller's next step; the hot-plug task goes on with what called it.
OffGoes(c, pc) ==
  /\ off' = [off EXCEPT ![c] = pc]
  /\ task' = IF c = "task" /\ pc = "idle"
             THEN (IF next = "ABSENT" THEN "cleanup" ELSE "commit") ELSE task

\* Mutant: only the 5 V rail is switched off.
OffWrite_Only5(c) ==
  /\ off[c] \in Rails
  /\ rails' = rails \ {"5V"} /\ loose' = loose \ {"5V"}
  /\ OffGoes(c, IF off[c] = "12V" THEN "5V" ELSE "absent")
  /\ UNCHANGED <<state, noteVars>> /\ OffFrame

\* One rail after the other; a write that fails, also after the bus recovery, is passed over.
OffWrite(c) ==
  /\ off[c] \in Rails
  /\ \/ rails' = rails \ {off[c]} /\ loose' = loose \ {off[c]}
     \/ "i2cfail" \in Events /\ rails' = rails /\ loose' = loose \cup ({off[c]} \cap rails)
  /\ OffGoes(c, IF off[c] = "12V" THEN "5V" ELSE "absent")
  /\ UNCHANGED <<state, noteVars>> /\ OffFrame

OffAbsent(c) ==
  /\ off[c] = "absent"
  /\ state' = "ABSENT"
  /\ OffGoes(c, "format")
  /\ UNCHANGED <<railVars, noteVars>> /\ OffFrame

\* notify_event: payload_event_handler formats the state as it is now ...
OffFormat(c) ==
  /\ off[c] = "format"
  /\ buf' = state
  /\ OffGoes(c, "publish")
  /\ UNCHANGED <<state, railVars, told>> /\ OffFrame

\* ... and publishes the buffer as it is then.
OffPublish(c) ==
  /\ off[c] = "publish"
  /\ told' = buf
  /\ OffGoes(c, "idle")
  /\ UNCHANGED <<state, railVars, buf>> /\ OffFrame

PowerOff(c) == OffWrite(c) \/ OffAbsent(c) \/ OffFormat(c) \/ OffPublish(c)

\* battery_task calls it when a critical voltage has lasted (PiPower: CutLoads).
BatteryShutdown ==
  /\ "shutdown" \in Events /\ off["battery"] = "idle"
  /\ off' = [off EXCEPT !["battery"] = "12V"]
  /\ UNCHANGED <<state, descriptor, railVars, slot, taskVars, noteVars>>

-------------------------------------------------------------------------------
(* payload_hotplug_task.                                                   *)

\* The state is read once; the calls of the case that follow may wait for the I2C lock.
Switch ==
  /\ task = "switch"
  /\ task' = "case" /\ next' = state
  /\ UNCHANGED <<state, descriptor, railVars, slot, tmp, off, noteVars>>

Case(s) == task = "case" /\ next = s
TaskFrame == UNCHANGED <<state, descriptor, slot, noteVars>>

Rest == task' = "switch" /\ UNCHANGED next
Decide(s) == task' = "commit" /\ next' = s
CallPowerOff(s) == task' = "off" /\ next' = s /\ off' = [off EXCEPT !["task"] = "12V"]

Absent ==
  /\ Case("ABSENT")
  /\ \E seen \in Detect : IF seen THEN Decide("DETECTED") ELSE Rest
  /\ UNCHANGED <<railVars, tmp, off>> /\ TaskFrame

Detected ==
  /\ Case("DETECTED")
  /\ task' = "debounce"
  /\ UNCHANGED <<railVars, next, tmp, off>> /\ TaskFrame

Debounce ==
  /\ task = "debounce"
  /\ \E seen \in Detect : Decide(IF seen THEN "IDENTIFYING" ELSE "ABSENT")
  /\ UNCHANGED <<railVars, tmp, off>> /\ TaskFrame

Identify ==
  /\ Case("IDENTIFYING")
  /\ tmp' \in Descriptors
  /\ Decide(IF tmp' \in Acceptable THEN "POWERING" ELSE "FAULT")
  /\ UNCHANGED <<railVars, off>> /\ TaskFrame

\* The battery task has switched r off and not yet set ABSENT: the write undoes it.
Escapes(r) == off["battery"] = "absent" \/ (r = "12V" /\ off["battery"] = "5V")

\* The result of the write is not looked at.
SwitchOn(r) ==
  \/ /\ rails' = rails \cup {r}
     /\ loose' = IF Escapes(r) THEN loose \cup {r} ELSE loose \ {r}
  \/ "i2cfail" \in Events /\ UNCHANGED railVars

PowerOn5 ==
  /\ Case("POWERING")
  /\ task' = "ramp"
  /\ SwitchOn("5V")
  /\ UNCHANGED <<next, tmp, off>> /\ TaskFrame

PowerOn12 ==
  /\ task = "ramp"
  /\ task' = "init"
  /\ IF descriptor \in Wants12 THEN SwitchOn("12V") ELSE UNCHANGED railVars
  /\ UNCHANGED <<next, tmp, off>> /\ TaskFrame

\* Mutant: a payload that is gone is a fault, and its rails stay on.
CheckInit_KeepsPower ==
  /\ task = "init"
  /\ \E seen \in Detect : Decide(IF seen THEN "READY" ELSE "FAULT")
  /\ UNCHANGED <<railVars, tmp, off>> /\ TaskFrame

CheckInit ==
  /\ task = "init"
  /\ \E seen \in Detect : IF seen THEN Decide("READY") /\ UNCHANGED off ELSE CallPowerOff("FAULT")
  /\ UNCHANGED <<railVars, tmp>> /\ TaskFrame

\* Mutant: a removal is not noticed.
MonitorRemoval_Never ==
  /\ Case("READY")
  /\ Rest
  /\ UNCHANGED <<railVars, tmp, off>> /\ TaskFrame

MonitorRemoval ==
  /\ Case("READY")
  /\ \E seen \in Detect : IF seen THEN Rest ELSE Decide("REMOVING")
  /\ UNCHANGED <<railVars, tmp, off>> /\ TaskFrame

Removing ==
  /\ Case("REMOVING")
  /\ CallPowerOff("ABSENT")
  /\ UNCHANGED <<railVars, tmp>> /\ TaskFrame

\* Mutant: a fault is reset by an insertion.
Fault_Inserted ==
  /\ Case("FAULT")
  /\ \E seen \in Detect : task' = IF seen THEN "recheck" ELSE "switch"
  /\ UNCHANGED <<railVars, next, tmp, off>> /\ TaskFrame

\* A fault waits for the removal.
Fault ==
  /\ Case("FAULT")
  /\ \E seen \in Detect : task' = IF seen THEN "switch" ELSE "recheck"
  /\ UNCHANGED <<railVars, next, tmp, off>> /\ TaskFrame

Recheck ==
  /\ task = "recheck"
  /\ \E seen \in Detect : IF seen THEN Rest ELSE Decide("ABSENT")
  /\ UNCHANGED <<railVars, tmp, off>> /\ TaskFrame

\* The decided state is set under the lock, whatever the state has become meanwhile.
Commit ==
  /\ task = "commit"
  /\ state' = next
  /\ descriptor' = IF next = "POWERING" THEN tmp ELSE descriptor
  /\ task' = IF next \in {"READY", "FAULT"} THEN "format" ELSE "switch"
  /\ UNCHANGED <<railVars, slot, next, tmp, off, noteVars>>

\* The end of REMOVING.
Cleanup ==
  /\ task = "cleanup"
  /\ state' = "ABSENT" /\ descriptor' = NoPayload
  /\ task' = "format"
  /\ UNCHANGED <<railVars, slot, next, tmp, off, noteVars>>

Format ==
  /\ task = "format"
  /\ buf' = state /\ task' = "publish"
  /\ UNCHANGED <<state, descriptor, railVars, slot, next, tmp, off, told>>

Publish ==
  /\ task = "publish"
  /\ told' = buf /\ task' = "switch"
  /\ UNCHANGED <<state, descriptor, railVars, slot, next, tmp, off, buf>>

HotplugTask ==
  \/ Switch \/ Absent \/ Detected \/ Debounce \/ Identify
  \/ PowerOn5 \/ PowerOn12 \/ CheckInit
  \/ MonitorRemoval \/ Removing \/ Fault \/ Recheck
  \/ Commit \/ Cleanup \/ Format \/ Publish
  \/ PowerOff("task")

-------------------------------------------------------------------------------
Next ==
  \/ \E p \in Payloads : Insert(p)
  \/ Remove
  \/ BatteryShutdown \/ PowerOff("battery")
  \/ HotplugTask

Spec == Init /\ [][Next]_vars

\* Both tasks are scheduled for ever; nobody has to plug anything in or out.
FairSpec == Spec /\ WF_vars(HotplugTask) /\ WF_vars(PowerOff("battery"))

-------------------------------------------------------------------------------
(* Properties.                                                             *)

\* Every variable keeps its type, and only rails that are on have escaped.
TypeOK ==
  /\ state \in PayloadState /\ next \in PayloadState
  /\ descriptor \in Payloads \cup {NoPayload} /\ tmp \in Payloads \cup {NoPayload}
  /\ slot \in Payloads \cup {NoPayload}
  /\ rails \subseteq Rails /\ loose \subseteq rails
  /\ task \in {"switch", "case", "debounce", "ramp", "init", "off", "recheck", "commit", "cleanup",
               "format", "publish"}
  /\ off \in [Callers -> OffPc]
  /\ buf \in PayloadState /\ told \in PayloadState

Switching ==
  \/ task \in {"ramp", "init"} \/ (task = "commit" /\ next = "READY")
  \/ \E c \in Callers : off[c] \in Rails

\* Power on the connector has an owner: a payload being powered, in use or being removed,
\* although another task may switch it off at any step.  What it may leave on without one
\* are the rails that escaped a power-off: a write that failed, or one of the hot-plug task
\* that fell between the battery's writes and its ABSENT.
RailsAccounted ==
  rails \ loose # {} => state \in {"POWERING", "READY", "REMOVING"} \/ Switching

\* 12 V is on only for a payload that asked for it, also after any number of exchanges.
OnlyRequested == "12V" \in rails \ loose => descriptor \in Wants12

\* A payload is powered and reported only with a descriptor that passed the checks, although
\* a shutdown may reset the state between the reading and its use.
ReadyIdentified == state \in {"POWERING", "READY"} => descriptor \in Acceptable

\* An empty connector loses its power.
RemovedUnpowered == slot = NoPayload ~> (slot # NoPayload \/ rails \subseteq loose)

\* The removal of a payload that was reported ready is reported.
RemovalReported == (told = "READY" /\ slot = NoPayload) ~> (told # "READY" \/ slot # NoPayload)

\* A fault ends when the payload is taken out.
FaultReset == (state = "FAULT" /\ slot = NoPayload) ~> (state # "FAULT" \/ slot # NoPayload)

\* What the driver told of a payload that is gone is taken back: its removal is reported, and
\* its fault ends.
GoneIsNoticed == RemovalReported /\ FaultReset

\* The safety of the connector: every powered rail is accounted for, was asked for, and belongs
\* to a payload that was identified.
PayloadSafety == TypeOK /\ RailsAccounted /\ OnlyRequested /\ ReadyIdentified
===============================================================================
