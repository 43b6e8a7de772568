----------------------------- MODULE Alerts_proof -----------------------------
(***************************************************************************)
(* Proofs about what is told of the robot, for every value of the          *)
(* constants: the health score, and the types of the diagnostics node,     *)
(* the dispatcher and the MQTT bridge.                                     *)
(***************************************************************************)
EXTENDS Alerts, TLAPS

-------------------------------------------------------------------------------
Taken(s, v) == Penalty(s, Evaluate(s, v))

\* What each sensor can cost; in error at least 30.
LEMMA TakenRange ==
  ASSUME NEW v \in Int \cup {None}
  PROVE  /\ Taken("cpu", v) \in {0, 20, 50} /\ Taken("memory", v) \in {0, 15, 40}
         /\ Taken("wifi", v) \in {0, 15, 30, 35} /\ Taken("disk", v) \in {0, 10, 30}
         /\ \A s \in Sensors : Evaluate(s, v) = "error" => Taken(s, v) >= 30
<1>1. \A s \in Sensors : Evaluate(s, v) \in Levels BY DEF Evaluate, Levels
<1>2. \A l \in Levels :
         /\ Penalty("cpu", l) \in {0, 20, 50} /\ Penalty("memory", l) \in {0, 15, 40}
         /\ Penalty("wifi", l) \in {0, 15, 30, 35} /\ Penalty("disk", l) \in {0, 10, 30}
  BY DEF Levels, Penalty
<1>3. \A s \in Sensors : Penalty(s, "error") >= 30 BY DEF Sensors, Penalty
<1>4. {"cpu", "memory", "wifi", "disk"} = Sensors BY DEF Sensors
<1>5. QED BY <1>1, <1>2, <1>3, <1>4, Zenon DEF Taken

\* No sensor adds points.
LEMMA TakenNat ==
  ASSUME NEW s \in Sensors, NEW v \in Int \cup {None} PROVE Taken(s, v) \in Nat
<1>1. /\ Taken("cpu", v) \in Nat /\ Taken("memory", v) \in Nat
      /\ Taken("wifi", v) \in Nat /\ Taken("disk", v) \in Nat
  BY TakenRange
<1>2. QED BY <1>1, Zenon DEF Sensors

\* A worse reading costs at least as much.
LEMMA TakenGrows ==
  ASSUME NEW s \in Sensors, NEW v \in Int, NEW w \in Int, Worse(s, v, w)
  PROVE  Taken(s, v) <= Taken(s, w)
<1>1. v # None /\ w # None BY HealthAssumption
<1>2. CASE s = "cpu"
  <2>1. w > v BY <1>2 DEF Worse, RisesToBad
  <2>2. \A x \in {v, w} :
           Evaluate(s, x) = IF x >= 85 THEN "error" ELSE IF x >= 75 THEN "warn" ELSE "ok"
    BY <1>1, <1>2 DEF Evaluate, Reaches, RisesToBad, WarnAt, CriticalAt
  <2>3. \A x \in {v, w} : Taken(s, x) = IF x >= 85 THEN 50 ELSE IF x >= 75 THEN 20 ELSE 0
    BY <1>2, <2>2 DEF Taken, Penalty
  <2>4. QED BY <2>1, <2>3
<1>3. CASE s = "memory"
  <2>1. w > v BY <1>3 DEF Worse, RisesToBad
  <2>2. \A x \in {v, w} :
           Evaluate(s, x) = IF x >= 95 THEN "error" ELSE IF x >= 85 THEN "warn" ELSE "ok"
    BY <1>1, <1>3 DEF Evaluate, Reaches, RisesToBad, WarnAt, CriticalAt
  <2>3. \A x \in {v, w} : Taken(s, x) = IF x >= 95 THEN 40 ELSE IF x >= 85 THEN 15 ELSE 0
    BY <1>3, <2>2 DEF Taken, Penalty
  <2>4. QED BY <2>1, <2>3
<1>4. CASE s = "wifi"
  <2>1. w < v BY <1>4 DEF Worse, RisesToBad
  <2>2. \A x \in {v, w} :
           Evaluate(s, x) = IF x <= -85 THEN "error" ELSE IF x <= -75 THEN "warn" ELSE "ok"
    BY <1>1, <1>4 DEF Evaluate, Reaches, RisesToBad, WarnAt, CriticalAt
  <2>3. \A x \in {v, w} : Taken(s, x) = IF x <= -85 THEN 35 ELSE IF x <= -75 THEN 15 ELSE 0
    BY <1>4, <2>2 DEF Taken, Penalty
  <2>4. QED BY <2>1, <2>3
<1>5. CASE s = "disk"
  <2>1. w < v BY <1>5 DEF Worse, RisesToBad
  <2>2. \A x \in {v, w} :
           Evaluate(s, x) = IF x <= 5 THEN "error" ELSE IF x <= 20 THEN "warn" ELSE "ok"
    BY <1>1, <1>5 DEF Evaluate, Reaches, RisesToBad, WarnAt, CriticalAt
  <2>3. \A x \in {v, w} : Taken(s, x) = IF x <= 5 THEN 30 ELSE IF x <= 20 THEN 10 ELSE 0
    BY <1>5, <2>2 DEF Taken, Penalty
  <2>4. QED BY <2>1, <2>3
<1>6. QED BY <1>2, <1>3, <1>4, <1>5 DEF Sensors

\* What is tried is a reading or none.
LEMMA ReadingsAreNumbers ==
  ASSUME NEW s \in Sensors, NEW v \in ReadingsOf(s) PROVE v \in Int \cup {None}
<1>1. \A t \in {WarnAt, CriticalAt} : t[s] \in Int BY DEF Sensors, WarnAt, CriticalAt
<1>2. \A t \in {WarnAt, CriticalAt} : (t[s] - Near)..(t[s] + Near) \subseteq Int
  BY <1>1, HealthAssumption
<1>3. QED BY <1>2, Zenon DEF ReadingsOf

ScoreOf(lost) == IF lost > 100 THEN 0 ELSE 100 - lost

\* The readings a score is made of.
Readings == [Sensors -> Int \cup {None}]

\* The score by what each of the four sensors costs.
LEMMA ScoreIs ==
  ASSUME NEW r \in Readings
  PROVE  /\ Score(r) = ScoreOf(Taken("cpu", r["cpu"]) + Taken("memory", r["memory"])
                               + Taken("wifi", r["wifi"]) + Taken("disk", r["disk"]))
         /\ \A s \in Sensors : r[s] \in Int \cup {None}
<1>1. \A s \in Sensors : r[s] \in Int \cup {None} BY DEF Readings
<1>2. QED BY <1>1, Zenon DEF Score, ScoreOf, Taken

\* The score for every assignment of integer readings, missing ones included: it is in 0..100, at most
\* 70 with an error among them, and below 100 without a signal strength.
THEOREM ScoreFacts ==
  ASSUME NEW r \in Readings
  PROVE  /\ Score(r) \in 0..100
         /\ (\E s \in Sensors : Evaluate(s, r[s]) = "error") => Score(r) <= 70
         /\ r["wifi"] = None => Score(r) < 100
<1> DEFINE c == Taken("cpu", r["cpu"])
           m == Taken("memory", r["memory"])
           w == Taken("wifi", r["wifi"])
           d == Taken("disk", r["disk"])
<1>1. "cpu" \in Sensors /\ "memory" \in Sensors /\ "wifi" \in Sensors /\ "disk" \in Sensors
  BY DEF Sensors
<1>2. c \in {0, 20, 50} BY <1>1, ScoreIs, TakenRange
<1>3. m \in {0, 15, 40} BY <1>1, ScoreIs, TakenRange
<1>4. w \in {0, 15, 30, 35} BY <1>1, ScoreIs, TakenRange
<1>5. d \in {0, 10, 30} BY <1>1, ScoreIs, TakenRange
<1>6. Score(r) = ScoreOf(c + m + w + d) BY ScoreIs
<1>7. (\E s \in Sensors : Evaluate(s, r[s]) = "error") => c >= 30 \/ m >= 30 \/ w >= 30 \/ d >= 30
  <2>1. \A s \in Sensors : Evaluate(s, r[s]) = "error" => Taken(s, r[s]) >= 30
    BY ScoreIs, TakenRange
  <2>2. QED BY <2>1 DEF Sensors
<1>8. r["wifi"] = None => w = 30
  BY DEF Taken, Evaluate, Penalty
<1> HIDE DEF c, m, w, d
<1>9. QED BY <1>2, <1>3, <1>4, <1>5, <1>6, <1>7, <1>8 DEF ScoreOf

\* For every assignment of readings: a worse reading of any sensor does not raise the score.
THEOREM ScoreFalls ==
  ASSUME NEW r \in Readings, NEW s \in Sensors, NEW v \in Int \cup {None}, Worse(s, r[s], v)
  PROVE  Score([r EXCEPT ![s] = v]) <= Score(r)
<1> DEFINE q == [r EXCEPT ![s] = v]
<1>1. q \in Readings BY DEF Readings
<1>2. q[s] = v /\ \A t \in Sensors : t # s => q[t] = r[t] BY DEF Readings
<1>3. r[s] \in Int /\ v \in Int BY DEF Readings, Worse
<1>4. \A t \in Sensors : Taken(t, r[t]) <= Taken(t, q[t]) /\ Taken(t, r[t]) \in Nat
                         /\ Taken(t, q[t]) \in Nat
  <2> SUFFICES ASSUME NEW t \in Sensors
               PROVE  Taken(t, r[t]) <= Taken(t, q[t]) /\ Taken(t, r[t]) \in Nat
                      /\ Taken(t, q[t]) \in Nat
    OBVIOUS
  <2> HIDE DEF q
  <2>1. r[t] \in Int \cup {None} /\ q[t] \in Int \cup {None} BY <1>1 DEF Readings
  <2>2. Taken(t, r[t]) \in Nat /\ Taken(t, q[t]) \in Nat BY <2>1, TakenNat
  <2>3. CASE t = s
    <3>1. Taken(s, r[s]) <= Taken(s, v) BY <1>3, TakenGrows
    <3>2. QED BY <1>2, <2>2, <2>3, <3>1
  <2>4. CASE t # s
    <3>1. q[t] = r[t] BY <1>2, <2>4
    <3>2. QED BY <2>2, <3>1
  <2>5. QED BY <2>3, <2>4
<1> HIDE DEF q
<1>5. Score(q) = ScoreOf(Taken("cpu", q["cpu"]) + Taken("memory", q["memory"])
                         + Taken("wifi", q["wifi"]) + Taken("disk", q["disk"]))
  BY <1>1, ScoreIs
<1>6. Score(r) = ScoreOf(Taken("cpu", r["cpu"]) + Taken("memory", r["memory"])
                         + Taken("wifi", r["wifi"]) + Taken("disk", r["disk"]))
  BY ScoreIs
<1>7. "cpu" \in Sensors /\ "memory" \in Sensors /\ "wifi" \in Sensors /\ "disk" \in Sensors
  BY DEF Sensors
<1> DEFINE c1 == Taken("cpu", r["cpu"])     c2 == Taken("cpu", q["cpu"])
           m1 == Taken("memory", r["memory"])  m2 == Taken("memory", q["memory"])
           w1 == Taken("wifi", r["wifi"])   w2 == Taken("wifi", q["wifi"])
           d1 == Taken("disk", r["disk"])   d2 == Taken("disk", q["disk"])
<1>8. /\ c1 \in Nat /\ c2 \in Nat /\ c1 <= c2 /\ m1 \in Nat /\ m2 \in Nat /\ m1 <= m2
      /\ w1 \in Nat /\ w2 \in Nat /\ w1 <= w2 /\ d1 \in Nat /\ d2 \in Nat /\ d1 <= d2
  BY <1>4, <1>7, Zenon
<1> HIDE DEF c1, c2, m1, m2, w1, w2, d1, d2
<1>9. Score(q) <= Score(r)
  <2>1. Score(q) = ScoreOf(c2 + m2 + w2 + d2) BY <1>5 DEF c2, m2, w2, d2
  <2>2. Score(r) = ScoreOf(c1 + m1 + w1 + d1) BY <1>6 DEF c1, m1, w1, d1
  <2>3. QED BY <1>8, <2>1, <2>2 DEF ScoreOf
<1>10. QED BY <1>9 DEF q

\* The readings that TLC tries are among those.
LEMMA AlwaysHonest == Honest
<1> SUFFICES ASSUME NEW cpu \in ReadingsOf("cpu"), NEW memory \in ReadingsOf("memory"),
                    NEW wifi \in ReadingsOf("wifi"), NEW disk \in ReadingsOf("disk")
             PROVE  LET r == [cpu |-> cpu, memory |-> memory, wifi |-> wifi, disk |-> disk] IN
                    /\ Score(r) \in 0..100
                    /\ (\E s \in Sensors : Evaluate(s, r[s]) = "error") => Score(r) <= 70
                    /\ r["wifi"] = None => Score(r) < 100
                    /\ \A s \in Sensors : \A w \in ReadingsOf(s) :
                          Worse(s, r[s], w) => Score([r EXCEPT ![s] = w]) <= Score(r)
  BY Zenon DEF Honest
<1> DEFINE r == [cpu |-> cpu, memory |-> memory, wifi |-> wifi, disk |-> disk]
<1>1. /\ cpu \in Int \cup {None} /\ memory \in Int \cup {None}
      /\ wifi \in Int \cup {None} /\ disk \in Int \cup {None}
  BY ReadingsAreNumbers DEF Sensors
<1>2. r \in Readings BY <1>1 DEF Readings, Sensors
<1> HIDE DEF r
<1>3. ASSUME NEW s \in Sensors, NEW w \in ReadingsOf(s), Worse(s, r[s], w)
      PROVE  Score([r EXCEPT ![s] = w]) <= Score(r)
  <2>1. w \in Int \cup {None} BY ReadingsAreNumbers
  <2>2. QED BY <1>2, <1>3, <2>1, ScoreFalls
<1>4. /\ Score(r) \in 0..100
      /\ (\E s \in Sensors : Evaluate(s, r[s]) = "error") => Score(r) <= 70
      /\ r["wifi"] = None => Score(r) < 100
  BY <1>2, ScoreFacts
<1>5. QED BY <1>3, <1>4, Zenon DEF r

-----------------------------------------------------------------------------
Tellers == {t \in Configured \X Reported : Severity[t[2][2]] \in SeverityFilter[t[1]]}

QueueTypes ==
  /\ battery \in BatteryLevels \cup {"stale"} /\ estop \in BOOLEAN /\ due \in BOOLEAN
  /\ toDispatcher \in {<<>>} \cup {<<s>> : s \in Snapshots}
  /\ toBridge \in {<<>>} \cup {<<s>> : s \in Snapshots}
  /\ sends \subseteq Tellers /\ told \subseteq Tellers
  /\ hour \in Hours

LinkTypes ==
  /\ link \in BOOLEAN /\ connected \in BOOLEAN /\ view \in {"ok", "error"}
  /\ outbox \in Seq({"ok", "error"})

AgeTypes == age \in [Reported -> (-stepsBack)..Window]

CapTypes ==
  /\ Len(outbox) <= OutboxCap
  /\ drops \in 0..DropCap /\ stepsBack \in 0..StepBackCap /\ failures \in 0..FailCap

AlertsInv == QueueTypes /\ LinkTypes /\ AgeTypes /\ CapTypes

\* The invariant gives the types.
LEMMA AlertsInvTypes == AlertsInv => TypeOK
<1> SUFFICES ASSUME AlertsInv PROVE TypeOK OBVIOUS
<1> USE DEF AlertsInv
<1>1. \A q \in {<<>>} \cup {<<s>> : s \in Snapshots} : q \in Seq(Snapshots) /\ Len(q) <= 1
  <2>1. <<>> \in Seq(Snapshots) /\ Len(<<>>) <= 1 OBVIOUS
  <2>2. ASSUME NEW s \in Snapshots PROVE <<s>> \in Seq(Snapshots) /\ Len(<<s>>) <= 1
    <3>1. \A S : \A x \in S : <<x>> \in Seq(S) /\ Len(<<x>>) = 1 OBVIOUS
    <3>2. 1 <= 1 OBVIOUS
    <3>3. QED BY <3>1, <3>2, Zenon
  <2>3. QED BY <2>1, <2>2, Zenon
<1>2. age \in [Reported -> -StepBackCap..Window]
  BY AlertsAssumption DEF AgeTypes, CapTypes
<1>3. \A t \in sends \cup told :
          t[1] \in Configured /\ t[2] \in Reported /\ Severity[t[2][2]] \in SeverityFilter[t[1]]
  BY DEF QueueTypes, Tellers
<1>4. QED BY <1>1, <1>2, <1>3, Zenon DEF TypeOK, QueueTypes, LinkTypes, CapTypes

\* It holds of the nodes as they start.
LEMMA AlertsInit == Init => AlertsInv
<1> SUFFICES ASSUME Init PROVE AlertsInv OBVIOUS
<1>1. QueueTypes BY Zenon DEF Init, QueueTypes
<1>2. LinkTypes
  <2>1. <<>> \in Seq({"ok", "error"}) OBVIOUS
  <2>2. QED BY <2>1, Zenon DEF Init, LinkTypes
<1>3. AgeTypes BY AlertsAssumption DEF Init, AgeTypes
<1>4. CapTypes BY AlertsAssumption DEF Init, CapTypes
<1>5. QED BY <1>1, <1>2, <1>3, <1>4 DEF AlertsInv

\* Every step of node, dispatcher, bridge and clock keeps it.
LEMMA AlertsNext == AlertsInv /\ [Next]_vars => AlertsInv'
<1> SUFFICES ASSUME AlertsInv, [Next]_vars PROVE AlertsInv' OBVIOUS
<1> USE DEF AlertsInv
<1>1. CASE UNCHANGED vars
  BY <1>1, Zenon DEF vars, node, queues, dispatcher, mqtt, QueueTypes, LinkTypes, AgeTypes, CapTypes
<1>2. ASSUME NEW level \in BatteryLevels, OnBattery(level) PROVE AlertsInv'
  <2>1. battery' = level /\ told' \subseteq told BY <1>2 DEF OnBattery
  <2>2. UNCHANGED <<estop, due, queues, age, hour, sends, stepsBack, failures, mqtt>>
    BY <1>2 DEF OnBattery
  <2>3. told' \subseteq Tellers /\ battery' \in BatteryLevels \cup {"stale"}
    BY <2>1 DEF QueueTypes
  <2>4. QED BY <2>2, <2>3, Zenon DEF queues, mqtt, QueueTypes, LinkTypes, AgeTypes, CapTypes
<1>3. CASE OnEstop
  <2>1. estop' \in BOOLEAN /\ told' \subseteq told BY <1>3 DEF OnEstop
  <2>2. UNCHANGED <<battery, due, queues, age, hour, sends, stepsBack, failures, mqtt>>
    BY <1>3 DEF OnEstop
  <2>3. told' \subseteq Tellers BY <2>1 DEF QueueTypes
  <2>4. QED BY <2>1, <2>2, <2>3, Zenon DEF queues, mqtt, QueueTypes, LinkTypes, AgeTypes, CapTypes
<1>4. CASE PublishDiagnostics
  <2>1. /\ due' = FALSE /\ toDispatcher' = <<Snapshot>> /\ toBridge' = <<Snapshot>>
        /\ UNCHANGED <<battery, estop, dispatcher, mqtt>>
    BY <1>4 DEF PublishDiagnostics
  <2>2. Snapshot \in Snapshots BY DEF Snapshot, Snapshots, QueueTypes
  <2>3. due' \in BOOLEAN BY <2>1
  <2>4. QED
    BY <2>1, <2>2, <2>3, Zenon DEF dispatcher, mqtt, QueueTypes, LinkTypes, AgeTypes, CapTypes
<1>5. CASE DispatcherOnDiagnostics
  <2> DEFINE events == Events(Head(toDispatcher))
             dispatched == {k \in events : ShouldDispatch(k)}
  <2>1. /\ toDispatcher # <<>> /\ toDispatcher' = Tail(toDispatcher)
        /\ age' = [k \in Reported |-> NewAge(k, dispatched, events)]
        /\ sends' = sends \cup UNION {SentTo(k) \X {k} : k \in dispatched}
        /\ UNCHANGED <<node, toBridge, hour, told, stepsBack, failures, mqtt>>
    BY <1>5 DEF DispatcherOnDiagnostics
  <2>2. dispatched \subseteq Reported BY DEF Events
  <2> HIDE DEF dispatched, events
  <2>3. \A k \in Reported : SentTo(k) \X {k} \subseteq Tellers BY DEF SentTo, Tellers
  <2>4. sends' \subseteq Tellers BY <2>1, <2>2, <2>3 DEF QueueTypes
  <2>5. toDispatcher' \in {<<>>} \cup {<<s>> : s \in Snapshots}
    <3>1. \A x : Tail(<<x>>) = <<>> OBVIOUS
    <3>2. QED BY <2>1, <3>1, Zenon DEF QueueTypes
  <2>6. AgeTypes'
    <3>1. 0 \in (-stepsBack)..Window BY AlertsAssumption DEF CapTypes
    <3>2. \A k \in Reported : NewAge(k, dispatched, events) \in (-stepsBack)..Window
      BY <3>1, Zenon DEF NewAge, AgeTypes
    <3>3. QED BY <2>1, <3>2 DEF AgeTypes
  <2>7. QED BY <2>1, <2>4, <2>5, <2>6, Zenon DEF node, mqtt, QueueTypes, LinkTypes, CapTypes
<1>6. ASSUME NEW t \in sends, SendArrives(t) \/ SendFails(t) PROVE AlertsInv'
  <2>1. /\ sends' = sends \ {t} /\ told' \in {told, told \cup {t}}
        /\ UNCHANGED <<node, queues, age, hour, stepsBack, mqtt>>
    BY <1>6 DEF SendArrives, SendFails
  <2>2. sends' \subseteq Tellers /\ told' \subseteq Tellers BY <2>1 DEF QueueTypes
  <2>3. failures' \in 0..FailCap
    <3>1. failures' = failures \/ (failures < FailCap /\ failures' = failures + 1)
      BY <1>6 DEF SendArrives, SendFails
    <3>2. QED BY <3>1, AlertsAssumption DEF CapTypes
  <2>4. QED
    BY <2>1, <2>2, <2>3, Zenon DEF node, queues, mqtt, QueueTypes, LinkTypes, AgeTypes, CapTypes
<1>7. CASE SessionLost \/ OnMqttDisconnect \/ SessionMade \/ SessionRefused
  <2>1. UNCHANGED <<node, queues, dispatcher, outbox, view>>
    BY <1>7, Zenon DEF SessionLost, OnMqttDisconnect, SessionMade, SessionRefused
  <2>2. link' \in BOOLEAN /\ connected' \in BOOLEAN
    BY <1>7, Zenon DEF SessionLost, OnMqttDisconnect, SessionMade, SessionRefused, LinkTypes
  <2>3. drops' = drops \/ (drops < DropCap /\ drops' = drops + 1)
    BY <1>7 DEF SessionLost, OnMqttDisconnect, SessionMade, SessionRefused
  <2>4. drops' \in 0..DropCap BY <2>3, AlertsAssumption DEF CapTypes
  <2>5. QED
    BY <2>1, <2>2, <2>4, Zenon
    DEF node, queues, dispatcher, QueueTypes, LinkTypes, AgeTypes, CapTypes
<1>8. CASE BridgeOnDiagnostics
  <2>1. /\ toBridge # <<>> /\ toBridge' = Tail(toBridge) /\ Len(outbox') <= OutboxCap
        /\ outbox' \in {outbox, Append(outbox, Head(toBridge).safety)}
        /\ UNCHANGED <<node, toDispatcher, dispatcher, link, connected, view, drops>>
    BY <1>8 DEF BridgeOnDiagnostics
  <2>2. PICK s \in Snapshots : toBridge = <<s>> BY <2>1, Zenon DEF QueueTypes
  <2>3. \A x : Tail(<<x>>) = <<>> /\ Head(<<x>>) = x OBVIOUS
  <2>4. Head(toBridge).safety \in {"ok", "error"}
    <3>1. s.safety \in {"ok", "error"} BY DEF Snapshots
    <3>2. QED BY <2>2, <2>3, <3>1, Zenon
  <2>5. toBridge' = <<>> BY <2>1, <2>2, <2>3, Zenon
  <2>6. outbox' \in Seq({"ok", "error"})
    <3>1. \A S : \A q \in Seq(S) : \A x \in S : Append(q, x) \in Seq(S) OBVIOUS
    <3>2. QED BY <2>1, <2>4, <3>1, Zenon DEF LinkTypes
  <2>7. QED
    BY <2>1, <2>5, <2>6, Zenon DEF node, dispatcher, QueueTypes, LinkTypes, AgeTypes, CapTypes
<1>9. CASE FleetReceives
  <2>1. /\ outbox # <<>> /\ view' = Head(outbox) /\ outbox' = Tail(outbox)
        /\ UNCHANGED <<node, queues, dispatcher, link, connected, drops>>
    BY <1>9 DEF FleetReceives
  <2>2. \A S : \A q \in Seq(S) : q # <<>> =>
           Head(q) \in S /\ Tail(q) \in Seq(S) /\ Len(Tail(q)) = Len(q) - 1 /\ Len(q) \in Nat
    OBVIOUS
  <2>3. /\ view' \in {"ok", "error"} /\ outbox' \in Seq({"ok", "error"})
        /\ Len(outbox') = Len(outbox) - 1 /\ Len(outbox) \in Nat
    BY <2>1, <2>2, Zenon DEF LinkTypes
  <2>4. Len(outbox') <= OutboxCap BY <2>3, AlertsAssumption DEF CapTypes
  <2>5. QED
    BY <2>1, <2>3, <2>4, Zenon
    DEF node, queues, dispatcher, QueueTypes, LinkTypes, AgeTypes, CapTypes
<1>10. CASE Tick
  <2>1. /\ due' = TRUE /\ age' = [k \in Reported |-> AtMost(age[k] + 1, Window)]
        /\ hour' = IF hour + 1 \in Hours THEN hour + 1 ELSE 0
        /\ UNCHANGED <<battery, estop, queues, sends, told, stepsBack, failures, mqtt>>
    BY <1>10 DEF Tick
  <2>2. hour' \in Hours BY <2>1, AlertsAssumption
  <2>3. due' \in BOOLEAN BY <2>1
  <2>4. AgeTypes'
    <3>1. \A a \in (-stepsBack)..Window : AtMost(a + 1, Window) \in (-stepsBack)..Window
      BY AlertsAssumption DEF CapTypes, AtMost
    <3>2. \A k \in Reported : AtMost(age[k] + 1, Window) \in (-stepsBack)..Window
      BY <3>1, Zenon DEF AgeTypes
    <3>3. QED BY <2>1, <3>2 DEF AgeTypes
  <2>5. QED
    BY <2>1, <2>2, <2>3, <2>4, Zenon DEF queues, mqtt, QueueTypes, LinkTypes, CapTypes
<1>11. CASE ClockSetBack
  <2>1. /\ stepsBack < StepBackCap /\ stepsBack' = stepsBack + 1
        /\ age' = [k \in Reported |-> age[k] - 1]
        /\ UNCHANGED <<node, queues, hour, sends, told, failures, mqtt>>
    BY <1>11 DEF ClockSetBack
  <2>2. stepsBack' \in 0..StepBackCap BY <2>1, AlertsAssumption DEF CapTypes
  <2>3. AgeTypes'
    <3>1. \A a \in (-stepsBack)..Window : a - 1 \in (-(stepsBack'))..Window
      BY <2>1, AlertsAssumption DEF CapTypes
    <3>2. \A k \in Reported : age[k] - 1 \in (-(stepsBack'))..Window
      BY <3>1, Zenon DEF AgeTypes
    <3>3. QED BY <2>1, <3>2 DEF AgeTypes
  <2>4. QED
    BY <2>1, <2>2, <2>3, Zenon DEF node, queues, mqtt, QueueTypes, LinkTypes, CapTypes
<1>12. QED BY <1>1, <1>2, <1>3, <1>4, <1>5, <1>6, <1>7, <1>8, <1>9, <1>10, <1>11, Zenon DEF Next

\* The score is in 0..100, a worse reading does not raise it, an error costs at least 30 points and a
\* missing signal strength some; with the types of the node, the dispatcher and the bridge.
THEOREM HealthHonestAlways == Spec => HealthHonest
<1>1. Spec => []TypeOK
  <2>1. Spec => []AlertsInv BY AlertsInit, AlertsNext, PTL DEF Spec
  <2>2. QED BY <2>1, AlertsInvTypes, PTL
<1>2. [PublishDiagnostics => Honest]_vars BY AlwaysHonest
<1>3. Spec => ScoreHonest BY <1>2, PTL DEF ScoreHonest
<1>4. QED BY <1>1, <1>3, PTL DEF HealthHonest
===============================================================================
