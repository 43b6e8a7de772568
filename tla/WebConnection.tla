----------------------------- MODULE WebConnection -----------------------------
(***************************************************************************)
(* The rosbridge connection of the web control panel: connection.ts, the   *)
(* connect button of main.ts and the components that subscribe and call.   *)
(*                                                                         *)
(* JavaScript runs one task at a time, so every method and every event     *)
(* handler is one action; what interleaves is the order of the events.     *)
(* The handlers of a socket that disconnect() closed stay attached until   *)
(* its close event has run.                                                *)
(***************************************************************************)
EXTENDS Naturals

CONSTANTS
  Sockets,           \* identities for WebSocket objects, reused once closed
  Topics, Views,     \* topics, and the components that subscribe to them
  Calls,             \* service calls that may be outstanding at once
  MaxMissedPongs,    \* maxMissedPongs
  MaxAttempts,       \* bound of reconnectAttempts: the delay grows no further
  QuickConnect       \* Connect may be pressed before the close event of a Disconnect

ASSUME WebAssumption ==
  /\ 0 \notin Sockets
  /\ MaxMissedPongs \in Nat /\ MaxAttempts \in Nat
  /\ QuickConnect \in BOOLEAN

None == 0

VARIABLES
  state,             \* RosbridgeConnection.state
  ws,                \* this.ws, or None
  net,               \* every socket as the network has it
  timer,             \* reconnectTimer is running
  reconnectAttempts,
  intentionalClose,
  heartbeat,         \* heartbeatTimer is running
  missedPongs,
  subscribers,       \* the callbacks of every topic
  served,            \* the topics rosbridge serves on every socket
  pending            \* pendingServices: the socket a call was sent on, or None

retry == <<timer, reconnectAttempts>>
beat  == <<heartbeat, missedPongs>>
webVars  == <<state, ws, net, retry, intentionalClose, beat, subscribers, served, pending>>

\* "lost": open as far as the browser knows, and nothing arrives any more.
NetState == {"free", "connecting", "open", "lost", "closing"}

isConnected == ws # None /\ net[ws] \in {"open", "lost"}
Free == {s \in Sockets : net[s] = "free"}
Wanted == {t \in Topics : subscribers[t] # {}}

\* A message sent now: rosbridge gets it unless the socket is lost.
Sent(topics) ==
  served' = IF isConnected /\ net[ws] = "open" THEN [served EXCEPT ![ws] = topics] ELSE served

WebInit ==
  /\ state = "disconnected" /\ ws = None
  /\ net = [s \in Sockets |-> "free"]
  /\ timer = FALSE /\ reconnectAttempts = 0
  /\ intentionalClose = FALSE
  /\ heartbeat = FALSE /\ missedPongs = 0
  /\ subscribers = [t \in Topics |-> {}]
  /\ served = [s \in Sockets |-> {}]
  /\ pending = [c \in Calls |-> None]

-------------------------------------------------------------------------------
(* connect, disconnect and the reconnect timer.                            *)

scheduleReconnect ==
  /\ timer' = TRUE
  /\ reconnectAttempts' = IF reconnectAttempts < MaxAttempts THEN reconnectAttempts + 1
                                                             ELSE reconnectAttempts

\* The old socket is closed with its handlers detached: nobody hears of it again.
Detached == [s \in Sockets |-> IF s = ws THEN "free" ELSE net[s]]
Unserved == [s \in Sockets |-> IF s = ws THEN {} ELSE served[s]]

\* connect with an acceptable URL.
connect ==
  /\ intentionalClose' = FALSE
  /\ heartbeat' = FALSE
  /\ served' = Unserved
  /\ \/ \E s \in Sockets :
          /\ Detached[s] = "free"
          /\ state' = "connecting" /\ ws' = s
          /\ net' = [Detached EXCEPT ![s] = "connecting"]
          /\ timer' = FALSE
          /\ UNCHANGED reconnectAttempts
     \/ /\ state' = "error" /\ ws' = None     \* the constructor threw
        /\ net' = Detached
        /\ scheduleReconnect
  /\ UNCHANGED <<missedPongs, subscribers, pending>>

\* The button shows Connect or Retry.
ConnectClick ==
  /\ state \notin {"connected", "connecting"}
  /\ QuickConnect \/ \A s \in Sockets : net[s] # "free" => s = ws
  /\ connect

\* A URL connect() refuses changes the label and nothing else.
RefusedUrl ==
  /\ state \notin {"connected", "connecting"}
  /\ state' = "error"
  /\ UNCHANGED <<ws, net, retry, intentionalClose, beat, subscribers, served, pending>>

\* The handlers stay attached to the closing socket.
disconnect ==
  /\ intentionalClose' = TRUE
  /\ timer' = FALSE /\ reconnectAttempts' = 0
  /\ heartbeat' = FALSE
  /\ pending' = [c \in Calls |-> None]
  /\ net' = [s \in Sockets |-> IF s = ws THEN "closing" ELSE net[s]]
  /\ ws' = None
  /\ state' = "disconnected"
  /\ UNCHANGED <<missedPongs, subscribers, served>>

\* The button shows Disconnect or Cancel.
DisconnectClick == state \in {"connected", "connecting"} /\ disconnect

TimerFires ==
  /\ timer
  /\ IF state # "connected" /\ ~intentionalClose
     THEN connect
     ELSE /\ timer' = FALSE
          /\ UNCHANGED <<state, ws, net, reconnectAttempts, intentionalClose, beat, subscribers,
                         served, pending>>

-------------------------------------------------------------------------------
(* The events of a socket.                                                 *)

\* Mutant: nothing is subscribed again.
Opened_NoResubscribe(s) ==
  /\ net[s] = "connecting"
  /\ net' = [net EXCEPT ![s] = "open"]
  /\ state' = "connected"
  /\ reconnectAttempts' = 0
  /\ heartbeat' = TRUE /\ missedPongs' = 0
  /\ UNCHANGED <<ws, timer, intentionalClose, subscribers, served, pending>>

\* onopen.  resubscribeAll sends on this.ws, which need not be the socket that opened.
Opened(s) ==
  /\ net[s] = "connecting"
  /\ net' = [net EXCEPT ![s] = "open"]
  /\ state' = "connected"
  /\ reconnectAttempts' = 0
  /\ served' = IF ws # None /\ net'[ws] = "open"
               THEN [served EXCEPT ![ws] = @ \cup Wanted] ELSE served
  /\ heartbeat' = TRUE /\ missedPongs' = 0
  /\ UNCHANGED <<ws, timer, intentionalClose, subscribers, pending>>

\* onerror, if the socket failed, and onclose in the same task.
Closed(s) ==
  /\ net[s] # "free"
  /\ net' = [net EXCEPT ![s] = "free"]
  /\ served' = [served EXCEPT ![s] = {}]
  /\ ws' = None
  /\ heartbeat' = FALSE
  /\ IF intentionalClose
     THEN state' = "disconnected" /\ UNCHANGED retry
     ELSE state' = "connecting" /\ scheduleReconnect
  /\ UNCHANGED <<intentionalClose, missedPongs, subscribers, pending>>

\* The peer is gone and no one tells the browser.
Lost(s) ==
  /\ net[s] = "open"
  /\ net' = [net EXCEPT ![s] = "lost"]
  /\ served' = [served EXCEPT ![s] = {}]
  /\ UNCHANGED <<state, ws, retry, intentionalClose, beat, subscribers, pending>>

\* Mutant: the pings are sent and never counted.
Ping_Uncounted ==
  /\ heartbeat /\ isConnected
  /\ IF missedPongs >= MaxMissedPongs
     THEN heartbeat' = FALSE /\ net' = [net EXCEPT ![ws] = "closing"] /\ UNCHANGED missedPongs
     ELSE missedPongs' = 0 /\ UNCHANGED <<heartbeat, net>>
  /\ UNCHANGED <<state, ws, retry, intentionalClose, subscribers, served, pending>>

\* startHeartbeat's interval.
Ping ==
  /\ heartbeat /\ isConnected
  /\ IF missedPongs >= MaxMissedPongs
     THEN heartbeat' = FALSE /\ net' = [net EXCEPT ![ws] = "closing"] /\ UNCHANGED missedPongs
     ELSE missedPongs' = missedPongs + 1 /\ UNCHANGED <<heartbeat, net>>
  /\ UNCHANGED <<state, ws, retry, intentionalClose, subscribers, served, pending>>

\* Also on a socket that is closing or no longer this.ws: its onmessage is attached.
Pong(s) ==
  /\ net[s] \in {"open", "closing"} /\ missedPongs > 0
  /\ missedPongs' = 0
  /\ UNCHANGED <<state, ws, net, retry, intentionalClose, heartbeat, subscribers, served, pending>>

-------------------------------------------------------------------------------
(* subscribe, callService and their ends.                                  *)

subscribe(t, v) ==
  /\ v \notin subscribers[t]
  /\ subscribers' = [subscribers EXCEPT ![t] = @ \cup {v}]
  /\ Sent(IF isConnected THEN served[ws] \cup {t} ELSE {})
  /\ UNCHANGED <<state, ws, net, retry, intentionalClose, beat, pending>>

\* Only the last component of a topic ends the subscription.
unsubscribe(t, v) ==
  /\ v \in subscribers[t]
  /\ subscribers' = [subscribers EXCEPT ![t] = @ \ {v}]
  /\ IF subscribers[t] = {v} THEN Sent(IF isConnected THEN served[ws] \ {t} ELSE {})
                             ELSE UNCHANGED served
  /\ UNCHANGED <<state, ws, net, retry, intentionalClose, beat, pending>>

callService(c) ==
  /\ pending[c] = None /\ isConnected
  /\ pending' = [pending EXCEPT ![c] = ws]
  /\ UNCHANGED <<state, ws, net, retry, intentionalClose, beat, subscribers, served>>

Settle(c) ==
  /\ pending' = [pending EXCEPT ![c] = None]
  /\ UNCHANGED <<state, ws, net, retry, intentionalClose, beat, subscribers, served>>

ServiceResponse(c) ==
  /\ pending[c] # None /\ net[pending[c]] = "open"
  /\ Settle(c)

\* Mutant: the timeout waits for a connection.
ServiceTimeout_Connected(c) == pending[c] # None /\ isConnected /\ Settle(c)
ServiceTimeout(c) == pending[c] # None /\ Settle(c)

-------------------------------------------------------------------------------
WebNext ==
  \/ \E t \in Topics, v \in Views : subscribe(t, v) \/ unsubscribe(t, v)
  \/ ConnectClick \/ RefusedUrl \/ DisconnectClick \/ TimerFires
  \/ \E s \in Sockets : Opened(s) \/ Closed(s) \/ Lost(s) \/ Pong(s)
  \/ Ping
  \/ \E c \in Calls : callService(c) \/ ServiceResponse(c) \/ ServiceTimeout(c)

WebSpec == WebInit /\ [][WebNext]_webVars

\* Timers fire, and a socket that was told to close does.  Nothing makes the network work.
Fairness ==
  /\ WF_webVars(TimerFires) /\ WF_webVars(Ping)
  /\ \A s \in Sockets : WF_webVars(net[s] = "closing" /\ Closed(s))
  /\ \A c \in Calls : WF_webVars(ServiceTimeout(c))

WebFairSpec == WebSpec /\ Fairness

-------------------------------------------------------------------------------
(* Properties.                                                             *)

\* Every variable keeps its type.
WebTypeOK ==
  /\ state \in {"disconnected", "connecting", "connected", "error"}
  /\ ws \in Sockets \cup {None}
  /\ net \in [Sockets -> NetState]
  /\ timer \in BOOLEAN /\ reconnectAttempts \in 0 .. MaxAttempts
  /\ intentionalClose \in BOOLEAN
  /\ heartbeat \in BOOLEAN /\ missedPongs \in 0 .. MaxMissedPongs
  /\ subscribers \in [Topics -> SUBSET Views]
  /\ served \in [Sockets -> SUBSET Topics]
  /\ pending \in [Calls -> Sockets \cup {None}]

\* No socket lives on unowned: one that is not this.ws was closed by the user and is on
\* its way out.
NoOrphanSocket ==
  \A s \in Sockets : net[s] # "free" /\ s # ws => net[s] = "closing" /\ intentionalClose

\* Once the user has disconnected nothing is left that could connect again.
DisconnectSticks == intentionalClose => ~timer /\ ws = None /\ ~heartbeat

\* On a working connection rosbridge serves exactly the topics some component listens to,
\* whatever was subscribed and dropped before, during and after the reconnects.
TopicsServed == ws # None /\ net[ws] = "open" => served[ws] = Wanted

\* A connection that says it is connecting and has no socket gets one, or stops saying so.
ReconnectTried ==
  (state = "connecting" /\ ws = None) ~> (ws # None \/ state # "connecting")

\* A peer that vanished without a word is noticed.
LostPeerNoticed == \A s \in Sockets : (net[s] = "lost" /\ ws = s) ~> net[s] # "lost"

\* No caller waits for ever, also when the connection never comes back.
CallSettles == \A c \in Calls : pending[c] # None ~> pending[c] = None

\* The safety of the connection: no socket without an owner, none after a disconnect, and the
\* topics that are wanted are the ones served.
WebSafety == WebTypeOK /\ NoOrphanSocket /\ DisconnectSticks /\ TopicsServed

\* Neither a reconnect that was announced nor a call waits for ever.
NothingLeftWaiting == ReconnectTried /\ CallSettles
===============================================================================
