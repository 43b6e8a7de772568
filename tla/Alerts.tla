------------------------------- MODULE Alerts -------------------------------
(***************************************************************************)
(* How a battery or E-stop condition reaches the people who watch the      *)
(* robot: diagnostics_node.py turns the two topics into a periodic array   *)
(* of statuses, notification_dispatcher.py turns that into webhook calls   *)
(* (a window against duplicates, quiet hours, one thread per call), and    *)
(* mqtt_bridge_node.py publishes it to the fleet server.                   *)
(*                                                                         *)
(* A tick is a good part of a minute: long against the period of the       *)
(* diagnostics (1 s) and the timeout of a webhook call (10 s), short       *)
(* against the quiet hours.                                                *)
(***************************************************************************)
EXTENDS Naturals, Integers, Sequences, HealthMonitor

CONSTANTS Channels,        \* the webhook channels of notifications.yaml
          SeverityFilter,  \* [Channels -> SUBSET severities]
          Configured,      \* channels whose url variable is set
          BatteryLevels,   \* levels the battery status goes through
          Window,          \* duplicate_window_seconds, in ticks
          Hours, QuietHours,   \* hours of the day, those that are quiet
          AllowedLevels,   \* severities that quiet hours let through
          OutboxCap, DropCap, StepBackCap, FailCap   \* bounds of the model

\* The hours of a day begin with 0.
ASSUME AlertsAssumption ==
    /\ Window \in Nat /\ 0 \in Hours
    /\ OutboxCap \in Nat /\ DropCap \in Nat /\ StepBackCap \in Nat /\ FailCap \in Nat

Severity == [error |-> "critical", warn |-> "warning"]
Snapshots == [battery : BatteryLevels \cup {"stale"}, safety : {"ok", "error"}]
Keys == {<<n, l>> : n \in {"battery", "safety"}, l \in DOMAIN Severity}
Reported == {k \in Keys : k[1] = "battery" => k[2] \in BatteryLevels}

VARIABLES
    battery, estop,          \* _battery_state, _estop_active of the diagnostics node
    due,                     \* the diagnostics timer has not run in this tick
    toDispatcher, toBridge,  \* the /diagnostics queues
    age,                     \* clock ticks since each key was last dispatched
    hour,
    sends,                   \* webhook calls under way: <<channel, key>>
    told,                    \* calls that arrived since their condition began
    link, connected,         \* the session with the broker; _connected
    outbox,                  \* safety levels the MQTT library still has to deliver
    view,                    \* the one the fleet server shows
    drops, stepsBack, failures   \* counters for the bounds

node == <<battery, estop, due>>
queues == <<toDispatcher, toBridge>>
dispatcher == <<age, hour, sends, told, stepsBack, failures>>
mqtt == <<link, connected, outbox, view, drops>>
vars == <<node, queues, dispatcher, mqtt>>

Init ==
    /\ battery = "stale" /\ estop = FALSE /\ due = TRUE
    /\ toDispatcher = <<>> /\ toBridge = <<>>
    /\ age = [k \in Reported |-> Window] /\ hour \in Hours
    /\ sends = {} /\ told = {}
    /\ link = FALSE /\ connected = FALSE /\ outbox = <<>>
    /\ view = "ok"
    /\ drops = 0 /\ stepsBack = 0 /\ failures = 0

-----------------------------------------------------------------------------
(* diagnostics_node.py                                                     *)

OnBattery(level) ==
    /\ level # battery /\ battery' = level
    /\ told' = {t \in told : t[2][1] # "battery"}
    /\ UNCHANGED <<estop, due, queues, age, hour, sends, stepsBack, failures, mqtt>>

OnEstop ==
    /\ estop' = ~estop
    /\ told' = {t \in told : t[2][1] # "safety"}
    /\ UNCHANGED <<battery, due, queues, age, hour, sends, stepsBack, failures, mqtt>>

Snapshot == [battery |-> battery, safety |-> IF estop THEN "error" ELSE "ok"]

PublishDiagnostics ==
    /\ due /\ due' = FALSE
    /\ toDispatcher' = <<Snapshot>> /\ toBridge' = <<Snapshot>>
    /\ UNCHANGED <<battery, estop, dispatcher, mqtt>>

-----------------------------------------------------------------------------
(* notification_dispatcher.py                                              *)

Events(s) == {k \in Reported : s[k[1]] = k[2]}

\* Mutant: an event that is held back for being a duplicate starts the window again.
NewAge_Rearmed(k, dispatched, events) == IF k \in events THEN 0 ELSE age[k]

\* _recent_events: set for the events that are dispatched.
NewAge(k, dispatched, events) == IF k \in dispatched THEN 0 ELSE age[k]

ShouldDispatch(k) ==
    /\ age[k] >= Window
    /\ hour \in QuietHours => Severity[k[2]] \in AllowedLevels

SentTo(k) == {c \in Configured : Severity[k[2]] \in SeverityFilter[c]}

DispatcherOnDiagnostics ==
    /\ toDispatcher # <<>>
    /\ LET events == Events(Head(toDispatcher))
           dispatched == {k \in events : ShouldDispatch(k)} IN
       /\ age' = [k \in Reported |-> NewAge(k, dispatched, events)]
       /\ sends' = sends \cup UNION {SentTo(k) \X {k} : k \in dispatched}
    /\ toDispatcher' = Tail(toDispatcher)
    /\ UNCHANGED <<node, toBridge, hour, told, stepsBack, failures, mqtt>>

\* A webhook thread ends: the call arrived, or it failed and is not repeated.
SendArrives(t) ==
    /\ t \in sends /\ sends' = sends \ {t}
    /\ told' = told \cup {t}
    /\ UNCHANGED <<node, queues, age, hour, stepsBack, failures, mqtt>>

SendFails(t) ==
    /\ t \in sends /\ sends' = sends \ {t}
    /\ failures < FailCap /\ failures' = failures + 1
    /\ UNCHANGED <<node, queues, age, hour, told, stepsBack, mqtt>>

-----------------------------------------------------------------------------
(* mqtt_bridge_node.py and the MQTT library under it.                      *)

SessionLost ==
    /\ link /\ drops < DropCap
    /\ link' = FALSE /\ drops' = drops + 1
    /\ UNCHANGED <<node, queues, dispatcher, connected, outbox, view>>

OnMqttDisconnect ==
    /\ ~link /\ connected /\ connected' = FALSE
    /\ UNCHANGED <<node, queues, dispatcher, link, outbox, view, drops>>

\* The broker takes the session, or refuses it; on_connect runs either way.
SessionMade ==
    /\ ~link /\ ~connected
    /\ link' = TRUE /\ connected' = TRUE
    /\ UNCHANGED <<node, queues, dispatcher, outbox, view, drops>>

SessionRefused ==
    /\ ~link /\ ~connected /\ drops < DropCap
    /\ connected' = TRUE /\ drops' = drops + 1
    /\ UNCHANGED <<node, queues, dispatcher, link, outbox, view>>

\* Mutant: only what is wrong is published.
BridgeSends_ErrorsOnly(s) == connected /\ \E n \in DOMAIN s : s[n] # "ok"

BridgeSends(s) == connected

BridgeOnDiagnostics ==
    /\ toBridge # <<>>
    /\ outbox' = IF BridgeSends(Head(toBridge)) THEN Append(outbox, Head(toBridge).safety) ELSE outbox
    /\ Len(outbox') <= OutboxCap
    /\ toBridge' = Tail(toBridge)
    /\ UNCHANGED <<node, toDispatcher, dispatcher, link, connected, view, drops>>

FleetReceives ==
    /\ link /\ outbox # <<>>
    /\ view' = Head(outbox) /\ outbox' = Tail(outbox)
    /\ UNCHANGED <<node, queues, dispatcher, link, connected, drops>>

-----------------------------------------------------------------------------
(* Time.                                                                   *)

AtMost(n, m) == IF n > m THEN m ELSE n

\* The callbacks and the calls of a tick end within it.
Tick ==
    /\ ~due /\ toDispatcher = <<>> /\ toBridge = <<>> /\ sends = {}
    /\ due' = TRUE
    /\ age' = [k \in Reported |-> AtMost(age[k] + 1, Window)]
    /\ hour' = IF hour + 1 \in Hours THEN hour + 1 ELSE 0
    /\ UNCHANGED <<battery, estop, queues, sends, told, stepsBack, failures, mqtt>>

\* The window is measured with time.time(), which may be set back.
ClockSetBack ==
    /\ stepsBack < StepBackCap /\ stepsBack' = stepsBack + 1
    /\ age' = [k \in Reported |-> age[k] - 1]
    /\ UNCHANGED <<node, queues, hour, sends, told, failures, mqtt>>

-----------------------------------------------------------------------------
Next ==
    \/ \E level \in BatteryLevels : OnBattery(level)
    \/ OnEstop \/ PublishDiagnostics
    \/ DispatcherOnDiagnostics
    \/ \E t \in sends : SendArrives(t) \/ SendFails(t)
    \/ SessionLost \/ OnMqttDisconnect \/ SessionMade \/ SessionRefused
    \/ BridgeOnDiagnostics \/ FleetReceives \/ Tick \/ ClockSetBack

Spec == Init /\ [][Next]_vars

\* Timers and callbacks run and calls end, each within its tick, time goes
\* on, the broker is reached again, and calls do not fail for ever.
Work == \/ PublishDiagnostics \/ DispatcherOnDiagnostics \/ BridgeOnDiagnostics \/ Tick
        \/ \E t \in sends : SendArrives(t)
MqttWork == OnMqttDisconnect \/ SessionMade \/ FleetReceives

FairSpec == Spec /\ WF_vars(Work) /\ WF_vars(MqttWork)

-----------------------------------------------------------------------------
(* Properties.                                                             *)

\* Every variable has its type, and no call is ever under way or counted as
\* told to a channel that did not ask for that severity or has no address.
TypeOK ==
    /\ battery \in BatteryLevels \cup {"stale"} /\ estop \in BOOLEAN /\ due \in BOOLEAN
    /\ toDispatcher \in Seq(Snapshots) /\ toBridge \in Seq(Snapshots)
    /\ \A q \in {toDispatcher, toBridge} : Len(q) <= 1
    /\ age \in [Reported -> -StepBackCap..Window] /\ hour \in Hours
    /\ \A t \in sends \cup told :
          t[1] \in Configured /\ t[2] \in Reported /\ Severity[t[2][2]] \in SeverityFilter[t[1]]
    /\ link \in BOOLEAN /\ connected \in BOOLEAN
    /\ outbox \in Seq({"ok", "error"}) /\ Len(outbox) <= OutboxCap /\ view \in {"ok", "error"}
    /\ drops \in 0..DropCap /\ stepsBack \in 0..StepBackCap /\ failures \in 0..FailCap

\* An E-stop that lasts is told on every channel that wants critical events,
\* at whatever hour, also when one shorter than the window came just before
\* it, when a call failed, and when the clock was set back meanwhile.
EstopTold ==
    \A c \in SentTo(<<"safety", "error">>) :
        estop ~> (<<c, <<"safety", "error">>>> \in told \/ ~estop)

\* A battery warning that lasts is told in the end, whether it began in the
\* quiet hours or not: what they hold back is not taken for sent.
WarningTold ==
    \A c \in SentTo(<<"battery", "warn">>) :
        battery = "warn" ~> (<<c, <<"battery", "warn">>>> \in told \/ battery # "warn")

\* Whenever the nodes publish, and whatever the sensors read: the health score
\* stays in range, no sensor in error and no silent radio leaves it high, and
\* a reading that gets worse never raises it (health_monitor_node.py).
ScoreHonest == [][PublishDiagnostics => Honest]_vars

\* What the fleet server shows of the E-stop becomes what is so, in both
\* directions, though all that is published without a session is dropped.
FleetAgrees ==
    /\ estop ~> (view = "error" \/ ~estop)
    /\ ~estop ~> (view = "ok" \/ estop)

\* What is published of the robot's health is honest, and no call goes to a channel that did
\* not ask for it.
HealthHonest == []TypeOK /\ ScoreHonest

\* A condition that lasts is told to whoever wants to know of it.
ConditionsTold == EstopTold /\ WarningTold
=============================================================================
