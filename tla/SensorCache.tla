---------------------------- MODULE SensorCache -----------------------------
(***************************************************************************)
(* The readings a program of the threewe SDK gets (robot.py) from the ROS  *)
(* backends (backends/real.py, gazebo.py): the spin thread of the node     *)
(* (backends/_ros2_node.py) stores each message as it comes, and the       *)
(* program's thread reads what is stored.                                  *)
(***************************************************************************)
EXTENDS Integers, Sequences

CONSTANTS
    Feeds,          \* [topic -> the readings a message of it has]
    Fragile,        \* topics with messages a callback cannot take apart
    Modalities,     \* the lists get_observation may be pending for
    MessageCap, LinkCap      \* bounds of the model: messages of a topic, connections

Topics == DOMAIN Feeds
Readings == UNION {Feeds[t] : t \in Topics}

ASSUME SensorAssumption ==
    /\ \A s, t \in Topics : s # t => Feeds[s] \cap Feeds[t] = {}
    /\ Fragile \subseteq Topics
    /\ Modalities \subseteq Seq(Readings)
    /\ {MessageCap, LinkCap} \subseteq Nat

VARIABLES
    backend,        \* "real" or "gazebo"
    linked,         \* the backend has a node: "none", "spinning", or "dead" when its
                    \* thread has ended
    links,          \* connections so far
    sent,           \* [topic -> messages the robot has sent]
    waiting,        \* [topic -> the message in the subscription, 0: none]
    cache,          \* [reading -> the message it is of, 0: the default]
    last,           \* history: [topic -> the newest one the program was given since connect]
    pending,        \* get_observation: the readings it still has to get
    obs             \* ... and those it has got: [reading, of]

sensorVars == <<backend, linked, links, sent, waiting, cache, last, pending, obs>>

Empty == [r \in Readings |-> 0]

SensorInit ==
    /\ backend \in {"real", "gazebo"}
    /\ linked = "none" /\ links = 0
    /\ sent = [t \in Topics |-> 0] /\ waiting = [t \in Topics |-> 0]
    /\ cache = Empty /\ last = [t \in Topics |-> 0]
    /\ pending = <<>> /\ obs = <<>>

TopicOf(r) == CHOOSE t \in Topics : r \in Feeds[t]

-----------------------------------------------------------------------------
(* The connection.  An observation is got in one piece, as far as the program's own *)
(* thread goes.                                                                      *)

\* Another node with an empty cache; one that was there goes on, unread.
ConnectRobot ==
    /\ pending = <<>> /\ links < LinkCap
    /\ linked' = "spinning" /\ links' = links + 1
    /\ cache' = Empty /\ waiting' = [t \in Topics |-> 0] /\ last' = [t \in Topics |-> 0]
    /\ obs' = <<>>
    /\ UNCHANGED <<backend, sent, pending>>

DisconnectRobot ==
    /\ pending = <<>> /\ linked # "none" /\ linked' = "none"
    /\ UNCHANGED <<backend, links, sent, waiting, cache, last, pending, obs>>

-----------------------------------------------------------------------------
(* The spin thread.                                                        *)

\* Best effort: the subscription holds the last message, and any may be lost.
SensorSends(t) ==
    /\ sent[t] < MessageCap
    /\ sent' = [sent EXCEPT ![t] = @ + 1]
    /\ waiting' \in {waiting, [waiting EXCEPT ![t] = sent'[t]]}
    /\ UNCHANGED <<backend, linked, links, cache, last, pending, obs>>

\* Mutant: of a message with two readings the second is that of the message before.
Stored_OneBehind(t) ==
    [r \in Readings |-> IF r = "velocity" /\ t = "odom" THEN cache["pose"]
                        ELSE IF r \in Feeds[t] THEN waiting[t] ELSE cache[r]]

\* All the readings of a message are stored under one lock.
Stored(t) == [r \in Readings |-> IF r \in Feeds[t] THEN waiting[t] ELSE cache[r]]

\* A message may also be passed over: an unknown depth encoding, too few wheels.
Callback(t) ==
    /\ linked = "spinning" /\ waiting[t] # 0
    /\ cache' \in {cache, Stored(t)}
    /\ waiting' = [waiting EXCEPT ![t] = 0]
    /\ UNCHANGED <<backend, linked, links, sent, last, pending, obs>>

\* An exception in a callback ends the thread, and is_connected stays true.
CallbackRaises(t) ==
    /\ linked = "spinning" /\ waiting[t] # 0 /\ t \in Fragile
    /\ linked' = "dead" /\ waiting' = [waiting EXCEPT ![t] = 0]
    /\ UNCHANGED <<backend, links, sent, cache, last, pending, obs>>

-----------------------------------------------------------------------------
(* The program.                                                            *)

\* One of the node's getters, under the lock.
Given(r) == cache[r]

\* RealBackend and GazeboBackend have defaults of their own, and a node is always there
\* when they are pending.
RealGives(r) == IF linked = "none" THEN 0 ELSE Given(r)
GazeboGives(r) == IF linked = "none" THEN 0 ELSE Given(r)
BackendGives(r) == IF backend = "real" THEN RealGives(r) ELSE GazeboGives(r)

Newest(t, n) == [last EXCEPT ![t] = IF n > @ THEN n ELSE @]

\* _ensure_connected
Connected == linked # "none"

Get(r) ==
    /\ Connected /\ pending = <<>>
    /\ last' = Newest(TopicOf(r), BackendGives(r))
    /\ UNCHANGED <<backend, linked, links, sent, waiting, cache, pending, obs>>

GetObservation(list) ==
    /\ Connected /\ pending = <<>> /\ list # <<>>
    /\ pending' = list /\ obs' = <<>>
    /\ UNCHANGED <<backend, linked, links, sent, waiting, cache, last>>

\* One modality after the other; depth comes with the image of the same moment.
NextModality ==
    /\ pending # <<>> /\ pending' = Tail(pending)
    /\ LET r == Head(pending) IN
          /\ obs' = Append(obs, [reading |-> r, of |-> BackendGives(r)])
          /\ last' = Newest(TopicOf(r), BackendGives(r))
    /\ UNCHANGED <<backend, linked, links, sent, waiting, cache>>

SensorNext ==
    \/ ConnectRobot \/ DisconnectRobot
    \/ \E t \in Topics : SensorSends(t) \/ Callback(t) \/ CallbackRaises(t)
    \/ \E r \in Readings : Get(r)
    \/ \E list \in Modalities : GetObservation(list)
    \/ NextModality

SensorSpec == SensorInit /\ [][SensorNext]_sensorVars

-----------------------------------------------------------------------------
(* Properties.                                                             *)

\* What a program is given never goes back: with messages lost, passed over or stored
\* between any two of its readings, nothing it may be given next is older than what it
\* was given of the same topic on this connection, and a reading that comes later in an
\* observation is not older than one of the same message stream before it.
ReadingsAdvance ==
    /\ \A t \in Topics : \A r \in Feeds[t] : cache[r] >= last[t]
    /\ \A i, j \in DOMAIN obs :
          i < j /\ TopicOf(obs[i].reading) = TopicOf(obs[j].reading) => obs[i].of <= obs[j].of

=============================================================================
