---------------------------- MODULE HealthMonitor ----------------------------
(***************************************************************************)
(* The health score of the companion computer (health_monitor_node.py):    *)
(* four readings, each judged against two thresholds, and the penalties    *)
(* that are taken from 100.  A reading is an integer, or None when the     *)
(* file or the command it comes from could not be read; the disk is in     *)
(* tenths of a GB.                                                         *)
(***************************************************************************)
EXTENDS Integers

CONSTANTS None, Near    \* Near: how far from a threshold the readings go

\* None is no number.
ASSUME HealthAssumption == None \notin Int /\ Near \in Nat

Sensors == {"cpu", "memory", "wifi", "disk"}
Levels == {"ok", "warn", "error", "stale"}

\* HealthThresholds: the default parameters.
WarnAt == [cpu |-> 75, memory |-> 85, wifi |-> -75, disk |-> 20]
CriticalAt == [cpu |-> 85, memory |-> 95, wifi |-> -85, disk |-> 5]

RisesToBad == {"cpu", "memory"}
Reaches(s, v, threshold) == IF s \in RisesToBad THEN v >= threshold[s] ELSE v <= threshold[s]

Evaluate(s, v) ==
    IF v = None THEN "stale"
    ELSE IF Reaches(s, v, CriticalAt) THEN "error"
    ELSE IF Reaches(s, v, WarnAt) THEN "warn" ELSE "ok"

\* Mutant: a WiFi that cannot be read costs nothing, as with the other sensors.
Penalty_StaleFree(s, level) ==
    LET of == [cpu |-> [warn |-> 20, error |-> 50], memory |-> [warn |-> 15, error |-> 40],
               wifi |-> [warn |-> 15, error |-> 35], disk |-> [warn |-> 10, error |-> 30]]
    IN  IF level \in {"ok", "stale"} THEN 0 ELSE of[s][level]

Penalty(s, level) ==
    LET of == [cpu |-> [warn |-> 20, error |-> 50, stale |-> 0],
               memory |-> [warn |-> 15, error |-> 40, stale |-> 0],
               wifi |-> [warn |-> 15, error |-> 35, stale |-> 30],
               disk |-> [warn |-> 10, error |-> 30, stale |-> 0]]
    IN  IF level = "ok" THEN 0 ELSE of[s][level]

Score(readings) ==
    LET taken(s) == Penalty(s, Evaluate(s, readings[s]))
        lost == taken("cpu") + taken("memory") + taken("wifi") + taken("disk")
    IN  IF lost > 100 THEN 0 ELSE 100 - lost

-----------------------------------------------------------------------------
ReadingsOf(s) == {None} \cup UNION {(t[s] - Near)..(t[s] + Near) : t \in {WarnAt, CriticalAt}}

Worse(s, v, w) == v # None /\ w # None /\ (IF s \in RisesToBad THEN w > v ELSE w < v)

\* The score the node publishes can be relied on: it stays in 0..100, no
\* sensor in error leaves it above 70, a robot whose radio cannot be read is
\* never at 100, and no reading that gets worse raises the score.
Honest ==
    \A cpu \in ReadingsOf("cpu"), memory \in ReadingsOf("memory"),
       wifi \in ReadingsOf("wifi"), disk \in ReadingsOf("disk") :
        LET r == [cpu |-> cpu, memory |-> memory, wifi |-> wifi, disk |-> disk] IN
        /\ Score(r) \in 0..100
        /\ (\E s \in Sensors : Evaluate(s, r[s]) = "error") => Score(r) <= 70
        /\ r["wifi"] = None => Score(r) < 100
        /\ \A s \in Sensors : \A w \in ReadingsOf(s) :
              Worse(s, r[s], w) => Score([r EXCEPT ![s] = w]) <= Score(r)
=============================================================================
