----------------------------- MODULE MissionClient -----------------------------
(***************************************************************************)
(* The asynchronous payload client (async_client.py): coroutines on an     *)
(* asyncio loop, and an executor thread that runs the ROS callbacks.  A    *)
(* coroutine runs undisturbed from one await to the next; a ROS callback   *)
(* reaches the loop only by call_soon_threadsafe, some time later.         *)
(* Modelled are a mission of waypoints over Nav2, the E-stop service call, *)
(* a snapshot of a topic (get_battery_state, get_payload_state), and       *)
(* connect and disconnect in between.                                      *)
(***************************************************************************)
EXTENDS Naturals

CONSTANTS
  N,                 \* waypoints of a mission
  Goals,             \* Nav2 goals that may be under way at once (bound)
  Messages           \* messages of a topic the loop has not taken yet (bound)

ASSUME MissionAssumption == N \in Nat \ {0} /\ 0 \notin Goals /\ Messages \in Nat \ {0}

VARIABLES
  connected,
  mission, wp, goal, \* execute_mission: where it is, its waypoint, and that waypoint's goal
  nav,               \* where each goal is at Nav2
  heard,             \* goals whose action client is still there to hear of them
  known,             \* goals in their goal_handle_ref
  fut, soon,         \* asyncio_future of each goal; the value on its way to it
  call, reply,       \* call_service: the future; the reply on its way to it
  asked, served,     \* is the request at the service; has the service carried it out?
  snap, coming, full, \* a snapshot: where it is, messages on their way, the queue of size 1
  own                \* the coroutines whose client or subscription is of the present node

connVars == <<connected, own>>
missionVars == <<mission, wp, goal>>
goalVars == <<nav, heard, known, fut, soon>>
callVars == <<call, reply, asked, served>>
snapVars == <<snap, coming, full>>
vars == <<connVars, missionVars, goalVars, callVars, snapVars>>

Ended == {"idle", "succeeded", "failed", "raised"}
UnderWay == {"sent", "active", "stopping"}

Init ==
  /\ connected = FALSE /\ own = {}
  /\ mission = "idle" /\ wp = 1 /\ goal = 0
  /\ nav = [g \in Goals |-> "none"] /\ heard = {} /\ known = {}
  /\ fut = [g \in Goals |-> "none"] /\ soon = [g \in Goals |-> "none"]
  /\ call = "idle" /\ reply = "none" /\ asked = FALSE /\ served = FALSE
  /\ snap = "idle" /\ coming = 0 /\ full = FALSE

-------------------------------------------------------------------------------
(* The connection.  disconnect awaits nothing: the executor, its thread    *)
(* and the node are gone before another coroutine runs, and nobody waiting *)
(* is told.                                                                *)

Connect ==
  /\ ~ connected /\ connected' = TRUE
  /\ UNCHANGED <<own, missionVars, goalVars, callVars, snapVars>>

Disconnect ==
  /\ connected /\ connected' = FALSE
  /\ heard' = {} /\ own' = {}
  /\ UNCHANGED <<missionVars, nav, known, fut, soon, callVars, snapVars>>

-------------------------------------------------------------------------------
(* send_nav_goal, up to the future it awaits.                              *)

SendNavGoal ==
  \/ \E g \in Goals :
       /\ nav[g] = "none" /\ fut[g] # "pending" /\ soon[g] = "none" /\ g # goal
       /\ connected
       /\ goal' = g /\ mission' = "running"
       /\ nav' = [nav EXCEPT ![g] = "sent"] /\ fut' = [fut EXCEPT ![g] = "pending"]
       /\ heard' = (heard \ {goal}) \cup {g} /\ known' = known \ {g}
  \* not connected, or no server in ten seconds
  \/ /\ mission' = "raised"
     /\ heard' = heard \ {goal}
     /\ UNCHANGED <<goal, nav, known, fut>>

StartMission ==
  /\ mission \in Ended /\ wp' = 1
  /\ SendNavGoal
  /\ UNCHANGED <<connVars, soon, callVars, snapVars>>

\* The future's value ends the wait; the action client is destroyed before the next goal is sent.
Arrive ==
  /\ mission = "running" /\ fut[goal] = "true"
  /\ wp' = wp + 1
  /\ IF wp = N
     THEN /\ mission' = "succeeded" /\ heard' = heard \ {goal}
          /\ UNCHANGED <<goal, nav, known, fut>>
     ELSE SendNavGoal
  /\ UNCHANGED <<connVars, soon, callVars, snapVars>>

\* Mutant: the action client is not destroyed.
GiveUp_KeepsClient ==
  /\ mission = "running" /\ fut[goal] = "false"
  /\ mission' = "failed"
  /\ UNCHANGED <<connVars, wp, goal, goalVars, callVars, snapVars>>

GiveUp ==
  /\ mission = "running" /\ fut[goal] = "false"
  /\ mission' = "failed" /\ heard' = heard \ {goal}
  /\ UNCHANGED <<connVars, wp, goal, nav, known, fut, soon, callVars, snapVars>>

\* Mutant: a goal that has taken too long is left behind for the next waypoint.
NavTimeout_GoesOn ==
  /\ mission = "running" /\ fut[goal] = "pending"
  /\ wp' = wp + 1
  /\ SendNavGoal
  /\ UNCHANGED <<connVars, soon, callVars, snapVars>>

\* Mutant: the goal's future is awaited without a timeout.
NavTimeout_Never == FALSE /\ UNCHANGED vars

\* wait_for cancels the future; a goal is cancelled at Nav2 only if its handle has come.
NavTimeout ==
  /\ mission = "running" /\ fut[goal] = "pending"
  /\ fut' = [fut EXCEPT ![goal] = "cancelled"]
  /\ nav' = IF goal \in known /\ nav[goal] = "active" /\ goal \in heard
            THEN [nav EXCEPT ![goal] = "stopping"] ELSE nav
  /\ mission' = "failed" /\ heard' = heard \ {goal}
  /\ UNCHANGED <<connVars, wp, goal, known, soon, callVars, snapVars>>

-------------------------------------------------------------------------------
(* Nav2 and the executor's callbacks.                                      *)

NavFrame == UNCHANGED <<connVars, missionVars, heard, fut, callVars, snapVars>>

\* Only a client that is still there hears of it.
Tell(g, value) == soon' = IF g \in heard THEN [soon EXCEPT ![g] = value] ELSE soon

Accepted(g) ==
  /\ nav[g] = "sent" /\ nav' = [nav EXCEPT ![g] = "active"]
  /\ known' = IF g \in heard THEN known \cup {g} ELSE known
  /\ UNCHANGED soon /\ NavFrame

Rejected(g) ==
  /\ nav[g] = "sent" /\ nav' = [nav EXCEPT ![g] = "none"]
  /\ Tell(g, "false")
  /\ UNCHANGED known /\ NavFrame

Reached(g) ==
  /\ nav[g] \in {"active", "stopping"} /\ nav' = [nav EXCEPT ![g] = "none"]
  /\ Tell(g, "true")
  /\ UNCHANGED known /\ NavFrame

Failed(g) ==
  /\ nav[g] \in {"active", "stopping"} /\ nav' = [nav EXCEPT ![g] = "none"]
  /\ Tell(g, "false")
  /\ UNCHANGED known /\ NavFrame

\* The callback on the loop.
SetResult(g) ==
  /\ soon[g] # "none" /\ soon' = [soon EXCEPT ![g] = "none"]
  /\ fut' = IF fut[g] = "pending" THEN [fut EXCEPT ![g] = soon[g]] ELSE fut
  /\ UNCHANGED <<connVars, missionVars, nav, heard, known, callVars, snapVars>>

-------------------------------------------------------------------------------
(* trigger_estop, a call_service with a timeout of two seconds.            *)

CallFrame == UNCHANGED <<connected, missionVars, goalVars, snapVars>>

TriggerEstop ==
  /\ call \in {"idle", "answered", "raised"} /\ reply = "none" /\ ~ asked
  /\ served' = FALSE
  /\ \/ connected /\ call' = "waiting" /\ asked' = TRUE /\ own' = own \cup {"call"}
     \* not connected, or no service
     \/ call' = "raised" /\ UNCHANGED <<asked, own>>
  /\ UNCHANGED reply /\ CallFrame

\* The service may be later than the timeout.
ServeEstop ==
  /\ asked /\ asked' = FALSE /\ served' = TRUE
  /\ reply' = IF call = "waiting" /\ "call" \in own THEN "here" ELSE "none"
  /\ UNCHANGED <<call, own>> /\ CallFrame

\* The reply meets a future that is pending, or one the timeout has cancelled.
TakeReply ==
  /\ reply = "here" /\ reply' = "none"
  /\ call' = IF call = "waiting" THEN "replied" ELSE call
  /\ UNCHANGED <<asked, served, own>> /\ CallFrame

\* Leaving the call needs the node: without one the reply is lost in an AttributeError.
ReturnReply ==
  /\ call = "replied"
  /\ call' = IF connected THEN "answered" ELSE "raised"
  /\ UNCHANGED <<reply, asked, served, own>> /\ CallFrame

CallTimeout ==
  /\ call = "waiting"
  /\ call' = "raised"
  /\ UNCHANGED <<reply, asked, served, own>> /\ CallFrame

-------------------------------------------------------------------------------
(* A snapshot: the first message of a subscription, through a queue of     *)
(* size 1 that the executor's thread looks at and the loop fills later.    *)

SnapFrame == UNCHANGED <<connected, missionVars, goalVars, callVars>>

GetState ==
  /\ snap \in {"idle", "got", "raised"} /\ coming = 0
  /\ IF connected THEN snap' = "waiting" /\ own' = own \cup {"snap"}
                  ELSE snap' = "raised" /\ UNCHANGED own
  /\ full' = FALSE
  /\ UNCHANGED coming /\ SnapFrame

Message ==
  /\ snap = "waiting" /\ "snap" \in own /\ ~ full /\ coming < Messages
  /\ coming' = coming + 1
  /\ UNCHANGED <<snap, full, own>> /\ SnapFrame

\* A second message finds the queue full: the loop reports QueueFull and drops it.
Put ==
  /\ coming > 0 /\ coming' = coming - 1
  /\ full' = (snap = "waiting")
  /\ UNCHANGED <<snap, own>> /\ SnapFrame

TakeMessage ==
  /\ snap = "waiting" /\ full
  /\ snap' = (IF connected THEN "got" ELSE "raised") /\ full' = FALSE
  /\ UNCHANGED <<coming, own>> /\ SnapFrame

SnapTimeout ==
  /\ snap = "waiting" /\ ~ full
  /\ snap' = "raised"
  /\ UNCHANGED <<coming, full, own>> /\ SnapFrame

-------------------------------------------------------------------------------
Mission == Arrive \/ GiveUp \/ NavTimeout
Nav2(g) == Accepted(g) \/ Rejected(g) \/ Reached(g) \/ Failed(g)
Estop == TakeReply \/ ReturnReply \/ CallTimeout
Snapshot == Put \/ TakeMessage \/ SnapTimeout

Next ==
  \/ Connect \/ Disconnect
  \/ StartMission \/ Mission
  \/ \E g \in Goals : Nav2(g) \/ SetResult(g)
  \/ TriggerEstop \/ ServeEstop \/ Estop
  \/ GetState \/ Message \/ Snapshot

Spec == Init /\ [][Next]_vars

\* The loop runs what is ready, timeouts included; nothing is asked of Nav2 or of the service.
FairSpec ==
  /\ Spec
  /\ WF_vars(Mission) /\ WF_vars(Estop) /\ WF_vars(Snapshot)
  /\ \A g \in Goals : WF_vars(SetResult(g))

-------------------------------------------------------------------------------
(* Properties.                                                             *)

\* Every variable keeps to its values.
TypeOK ==
  /\ connected \in BOOLEAN
  /\ mission \in Ended \cup {"running"} /\ wp \in 1 .. N + 1 /\ goal \in Goals \cup {0}
  /\ nav \in [Goals -> UnderWay \cup {"none"}]
  /\ heard \subseteq Goals /\ known \subseteq Goals
  /\ fut \in [Goals -> {"none", "pending", "true", "false", "cancelled"}]
  /\ soon \in [Goals -> {"none", "true", "false"}]
  /\ call \in {"idle", "waiting", "replied", "answered", "raised"}
  /\ reply \in {"none", "here"} /\ asked \in BOOLEAN /\ served \in BOOLEAN
  /\ own \subseteq {"call", "snap"}
  /\ snap \in {"idle", "waiting", "got", "raised"}
  /\ coming \in 0 .. Messages /\ full \in BOOLEAN

\* While a mission runs the client hears of one goal only, the one of its present waypoint, and
\* the future of that goal is the one the mission waits for: a late result of an earlier goal
\* cannot move it on.
OneGoalHeard ==
  /\ heard \subseteq {goal}
  /\ mission \in Ended => heard = {}
  /\ mission = "running" => goal \in Goals /\ fut[goal] \in {"pending", "true", "false"}

\* A value on its way to a future, or in it, means that Nav2 is through with the goal.
ValuesAreOver ==
  \A g \in Goals : soon[g] # "none" \/ fut[g] \in {"true", "false"} => nav[g] = "none"

\* A mission moves on, or succeeds, only when Nav2 is through with the waypoint's goal: no
\* waypoint is sent while the one before it is still being driven to.
WaypointDoneFirst ==
  [][(wp' = wp + 1) => nav[goal] = "none" /\ fut[goal] = "true"]_vars

\* trigger_estop reports an E-stop only if the service has carried it out.
EstopReal == call \in {"replied", "answered"} \/ reply = "here" => served

\* No coroutine waits for ever: whatever Nav2 and the services leave unanswered, and whenever
\* the client is disconnected under it, a mission, a call and a snapshot come to an end.
CallsEnd ==
  /\ mission = "running" ~> mission \in Ended
  /\ call = "waiting" ~> call \in {"answered", "raised"}
  /\ snap = "waiting" ~> snap \in {"got", "raised"}

\* The safety of the client: a waypoint waits for its own goal only, and an E-stop is
\* reported only when it was made.
ClientSafety == TypeOK /\ OneGoalHeard /\ EstopReal

===============================================================================
