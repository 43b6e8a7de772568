------------------------- MODULE RemoteControl_proof --------------------------
(***************************************************************************)
(* Proofs about the two ways to control the robot from outside:            *)
(* DtlsAuthority, for every number of slots, every set of operator         *)
(* priorities and every timeout, and WebConnection, for any number of      *)
(* sockets, topics, components and calls.                                  *)
(***************************************************************************)
EXTENDS MCRemoteControl, TLAPS

-------------------------------------------------------------------------------
(***************************************************************************)
(* The authority over the wheels.                                          *)
(***************************************************************************)

\* Ages saturate at a number.
LEMMA AgesInRange == IdleTimeout + 1 \in Nat /\ SessionTimeout + 1 \in Nat
BY DtlsAssumption DEF DtlsAssumption

\* Nobody has no slot.
LEMMA NoOneNoSlot == NoOne \notin Slots
BY DtlsAssumption DEF DtlsAssumption, NoOne, Slots

\* No session, no authority.
LEMMA InitInv == Init => AuthorityInv
<1> SUFFICES ASSUME Init PROVE AuthorityInv OBVIOUS
<1>1. session \in [Slots -> [state : SessionState, priority : Priorities \cup {0}]]
  BY DEF Init, Empty, SessionState
<1>2. TypeOK BY <1>1, AgesInRange DEF Init, TypeOK, Message
<1>3. HolderLive /\ GrantBelieved /\ WheelsFollowAuthority
  BY DEF Init, HolderLive, GrantBelieved, WheelsFollowAuthority
<1>4. QED BY <1>2, <1>3 DEF AuthorityInv

\* Emptying slots takes the authority from their occupants and from nobody else.
LEMMA CleanupInv ==
  ASSUME AuthorityInv, NEW gone \in SUBSET Slots, Cleanup(gone),
         UNCHANGED moving, pc' \in {"io", "idle"}, ready' \subseteq Slots
  PROVE  AuthorityInv'
<1> USE DEF AuthorityInv, TypeOK, Cleanup, Release, authority
<1>1. session' \in [Slots -> [state : SessionState, priority : Priorities \cup {0}]]
  BY DEF Empty, SessionState
<1>2. TypeOK' BY <1>1, AgesInRange DEF Message
<1>3. HolderLive' BY NoOneNoSlot DEF HolderLive
<1>4. GrantBelieved' BY DEF GrantBelieved
<1>5. WheelsFollowAuthority' BY DEF WheelsFollowAuthority
<1>6. QED BY <1>2, <1>3, <1>4, <1>5

\* The steps of the task between two sessions.
LEMMA LoopInv ==
  ASSUME AuthorityInv, Select \/ Accept \/ AllServed \/ CheckIdle \/ Tick
  PROVE  AuthorityInv'
<1> USE DEF AuthorityInv, TypeOK, HolderLive, GrantBelieved, WheelsFollowAuthority, authority
<1>1. CASE Select BY <1>1 DEF Select, Live
<1>2. CASE Accept
  <2>1. ASSUME NEW s \in Slots \ Live,
               session' = [session EXCEPT ![s].state = "HANDSHAKING"],
               recvAge' = [recvAge EXCEPT ![s] = 0],
               ready' = ready \cup {s}
        PROVE  AuthorityInv'
    <3>1. session' \in [Slots -> [state : SessionState, priority : Priorities \cup {0}]]
      BY <2>1 DEF SessionState
    <3>2. 0 \in 0 .. SessionTimeout + 1 BY DtlsAssumption DEF DtlsAssumption
    <3>3. recvAge' \in [Slots -> 0 .. SessionTimeout + 1] BY <2>1, <3>2
    <3>4. holder_idx # s BY <2>1, NoOneNoSlot DEF Live
    <3>5. HolderLive' BY <1>2, <2>1, <3>4, NoOneNoSlot DEF Accept
    <3>6. QED BY <1>2, <2>1, <3>1, <3>3, <3>5 DEF Accept
  <2>2. CASE UNCHANGED <<session, recvAge, ready>> BY <1>2, <2>2 DEF Accept
  <2>3. QED BY <1>2, <2>1, <2>2 DEF Accept
<1>3. CASE AllServed BY <1>3 DEF AllServed
<1>4. CASE CheckIdle BY <1>4, AgesInRange, NoOneNoSlot DEF CheckIdle, Release
<1>5. CASE Tick
  <2>1. recvAge' \in [Slots -> 0 .. SessionTimeout + 1]
    BY <1>5, DtlsAssumption DEF Tick, DtlsAssumption
  <2>2. cmdAge' \in 0 .. IdleTimeout + 1 BY <1>5, DtlsAssumption DEF Tick, DtlsAssumption
  <2>3. QED BY <1>5, <2>1, <2>2 DEF Tick
<1>6. QED BY <1>1, <1>2, <1>3, <1>4, <1>5

\* The steps of the task at one session: handshake, message, timeout.
LEMMA SessionIoInv ==
  ASSUME AuthorityInv, NEW s \in Slots, SessionIo(s)
  PROVE  AuthorityInv'
<1> USE NoOneNoSlot DEF AuthorityInv, TypeOK, Received, Serving, Served, authority
<1>1. CASE Nothing(s)
  BY <1>1 DEF Nothing, HolderLive, GrantBelieved, WheelsFollowAuthority
<1>2. CASE HandshakeDone(s)
  <2>1. TypeOK' BY <1>2, AgesInRange DEF HandshakeDone, SessionState
  <2>2. HolderLive' BY <1>2 DEF HandshakeDone, HolderLive
  <2>3. GrantBelieved' /\ WheelsFollowAuthority'
    BY <1>2 DEF HandshakeDone, GrantBelieved, WheelsFollowAuthority
  <2>4. QED BY <2>1, <2>2, <2>3
<1>3. CASE SessionEnds(s)
  <2>1. pc' \in {"io", "idle"} /\ ready' \subseteq Slots BY <1>3 DEF SessionEnds
  <2>2. QED BY <1>3, <2>1, CleanupInv DEF SessionEnds
<1>4. CASE RequestGranted(s)
  <2>1. TypeOK' BY <1>4, AgesInRange DEF RequestGranted, Grant, Message
  <2>2. HolderLive' BY <1>4 DEF RequestGranted, Grant, HolderLive
  <2>3. GrantBelieved' BY <1>4 DEF RequestGranted, Grant, GrantBelieved
  <2>4. WheelsFollowAuthority' BY <1>4 DEF RequestGranted, Grant, WheelsFollowAuthority
  <2>5. QED BY <2>1, <2>2, <2>3, <2>4
<1>5. CASE RequestPreempts(s)
  <2>1. TypeOK' BY <1>5, AgesInRange DEF RequestPreempts, Grant, Message
  <2>2. HolderLive' BY <1>5 DEF RequestPreempts, Grant, HolderLive
  <2>3. GrantBelieved' BY <1>5 DEF RequestPreempts, Grant, GrantBelieved, HolderLive
  <2>4. WheelsFollowAuthority' BY <1>5 DEF RequestPreempts, WheelsFollowAuthority
  <2>5. QED BY <2>1, <2>2, <2>3, <2>4
<1>6. CASE RequestDenied(s)
  BY <1>6, AgesInRange DEF RequestDenied, Message, HolderLive, GrantBelieved, WheelsFollowAuthority
<1>7. CASE CtrlRelease(s)
  <2>1. TypeOK' BY <1>7, AgesInRange DEF CtrlRelease, Release, Message
  <2>2. HolderLive' BY <1>7 DEF CtrlRelease, Release, HolderLive
  <2>3. GrantBelieved' BY <1>7 DEF CtrlRelease, Release, GrantBelieved
  <2>4. WheelsFollowAuthority' BY <1>7 DEF CtrlRelease, Release, WheelsFollowAuthority
  <2>5. QED BY <2>1, <2>2, <2>3, <2>4
<1>8. CASE Command(s)
  <2>1. TypeOK' BY <1>8, AgesInRange DEF Command
  <2>2. HolderLive' BY <1>8 DEF Command, HolderLive
  <2>3. GrantBelieved' BY <1>8 DEF Command, GrantBelieved
  <2>4. WheelsFollowAuthority' BY <1>8 DEF Command, WheelsFollowAuthority
  <2>5. QED BY <2>1, <2>2, <2>3, <2>4
<1>9. QED BY <1>1, <1>2, <1>3, <1>4, <1>5, <1>6, <1>7, <1>8 DEF SessionIo

\* Every step keeps the invariant.
LEMMA StepInv == AuthorityInv /\ [Next]_vars => AuthorityInv'
<1> SUFFICES ASSUME AuthorityInv, [Next]_vars PROVE AuthorityInv' OBVIOUS
<1>1. CASE Select \/ Accept \/ AllServed \/ CheckIdle \/ Tick BY <1>1, LoopInv
<1>2. ASSUME NEW s \in Slots, SessionIo(s) PROVE AuthorityInv' BY <1>2, SessionIoInv
<1>3. CASE EvictSessions
  <2>1. TimedOut \in SUBSET Slots BY DEF TimedOut, Live
  <2>2. pc' \in {"io", "idle"} /\ ready' \subseteq Slots
    BY <1>3 DEF EvictSessions, AuthorityInv, TypeOK
  <2>3. QED BY <1>3, <2>1, <2>2, CleanupInv DEF EvictSessions
<1>4. CASE UNCHANGED vars
  BY <1>4 DEF vars, authority, AuthorityInv, TypeOK, HolderLive, GrantBelieved,
              WheelsFollowAuthority
<1>5. QED BY <1>1, <1>2, <1>3, <1>4 DEF Next

\* The authority of dtls_authority.c is consistent with the sessions of dtls_transport.c.
THEOREM AuthorityCorrect == Spec => []AuthorityInv
<1>1. QED BY InitInv, StepInv, PTL DEF Spec

\* A reused slot never inherits the authority of its former occupant.
THEOREM HolderLiveAlways == Spec => []HolderLive
<1>1. AuthorityInv => HolderLive BY DEF AuthorityInv
<1>2. QED BY AuthorityCorrect, <1>1, PTL

\* Every displaced controller is told so: who was last told GRANTED is the holder, unless it
\* let the authority lapse.
THEOREM GrantBelievedAlways == Spec => []GrantBelieved
<1>1. AuthorityInv => GrantBelieved BY DEF AuthorityInv
<1>2. QED BY AuthorityCorrect, <1>1, PTL

\* The wheels never follow a displaced or a denied peer.
THEOREM WheelsFollowAuthorityAlways == Spec => []WheelsFollowAuthority
<1>1. AuthorityInv => WheelsFollowAuthority BY DEF AuthorityInv
<1>2. QED BY AuthorityCorrect, <1>1, PTL

-------------------------------------------------------------------------------
(* The transport implements ControlAuthority.                              *)

\* At one session the authority is acquired, taken over, given up, or left alone.
LEMMA SessionIoImplements ==
  ASSUME AuthorityInv, NEW s \in Slots, SessionIo(s)
  PROVE  [Authority!Next]_<<holder_idx, holder_priority>>
<1> USE NoOneNoSlot DEF AuthorityInv, TypeOK, HolderLive, authority, Authority!Next,
      Authority!Acquire, Authority!TakeOver, Authority!GiveUp
<1>1. session[s].priority \in Priorities \cup {0} OBVIOUS
<1>2. CASE RequestGranted(s) BY <1>1, <1>2 DEF RequestGranted, Grant
<1>3. CASE RequestPreempts(s) BY <1>1, <1>3 DEF RequestPreempts, Grant, Outranks
<1>4. CASE SessionEnds(s) BY <1>4 DEF SessionEnds, Cleanup, Release
<1>5. CASE CtrlRelease(s) BY <1>5 DEF CtrlRelease, Release
<1>6. CASE Nothing(s) \/ HandshakeDone(s) \/ RequestDenied(s) \/ Command(s)
  BY <1>6 DEF Nothing, HandshakeDone, RequestDenied, Command
<1>7. QED BY <1>2, <1>3, <1>4, <1>5, <1>6 DEF SessionIo

\* One controller at a time, displaced only by a higher priority: the transport refines the
\* specification of what the authority promises.
THEOREM AuthorityRefined == Spec => ImplementsAuthority
<1>1. Init => Authority!Init BY DEF Init, Authority!Init
<1>2. AuthorityInv /\ [Next]_vars => [Authority!Next]_<<holder_idx, holder_priority>>
  <2> SUFFICES ASSUME AuthorityInv, [Next]_vars
               PROVE  [Authority!Next]_<<holder_idx, holder_priority>> OBVIOUS
  <2>1. CASE Select \/ Accept \/ AllServed \/ Tick
    BY <2>1 DEF Select, Accept, AllServed, Tick, authority
  <2>2. ASSUME NEW s \in Slots, SessionIo(s)
        PROVE  [Authority!Next]_<<holder_idx, holder_priority>>
    BY <2>2, SessionIoImplements
  <2>3. CASE EvictSessions
    BY <2>3, NoOneNoSlot DEF EvictSessions, Cleanup, TimedOut, Live, Release, authority,
       Authority!Next, Authority!GiveUp
  <2>4. CASE CheckIdle BY <2>4 DEF CheckIdle, Release, authority, Authority!Next, Authority!GiveUp
  <2>5. CASE UNCHANGED vars BY <2>5 DEF vars, authority
  <2>6. QED BY <2>1, <2>2, <2>3, <2>4, <2>5 DEF Next
<1>3. QED BY <1>1, <1>2, AuthorityCorrect, PTL DEF Spec, ImplementsAuthority, Authority!Spec

-------------------------------------------------------------------------------
(***************************************************************************)
(* The web panel: no socket is left without an owner, a disconnect         *)
(* sticks, and what rosbridge serves is what the components listen to.     *)
(* All of it for a user who does not press Connect before the socket of    *)
(* the last Disconnect has closed.                                         *)
(***************************************************************************)

\* The types, in the parts that different steps disturb.
SocketTypes ==
  /\ ws \in Sockets \cup {None}
  /\ net \in [Sockets -> NetState]
  /\ served \in [Sockets -> SUBSET Topics]
  /\ subscribers \in [Topics -> SUBSET Views]
CountTypes ==
  /\ reconnectAttempts \in 0 .. MaxAttempts
  /\ missedPongs \in 0 .. MaxMissedPongs
  /\ pending \in [Calls -> Sockets \cup {None}]
FlagTypes ==
  /\ state \in {"disconnected", "connecting", "connected", "error"}
  /\ timer \in BOOLEAN /\ intentionalClose \in BOOLEAN /\ heartbeat \in BOOLEAN

\* A socket that has not opened has no subscriptions from the one that had its name before.
FreshUnserved == \A s \in Sockets : net[s] \in {"free", "connecting"} => served[s] = {}

\* What the steps preserve together: which socket is owned, what it serves, and that the
\* user's disconnect holds.
WebInv ==
  SocketTypes /\ FreshUnserved /\ NoOrphanSocket /\ DisconnectSticks /\ TopicsServed

\* No socket and nothing wanted.
LEMMA InitWebInv == WebInit => WebInv /\ CountTypes /\ FlagTypes
<1> SUFFICES ASSUME WebInit  PROVE WebInv /\ CountTypes /\ FlagTypes
  OBVIOUS
<1> USE WebAssumption DEF WebAssumption, WebInit, None
<1>1. WebInv
  BY SMT DEF WebInv, SocketTypes, NetState, FreshUnserved, NoOrphanSocket, DisconnectSticks,
             TopicsServed
<1>2. CountTypes
  BY SMT DEF CountTypes
<1>3. FlagTypes
  BY Zenon DEF FlagTypes
<1> QED  BY <1>1, <1>2, <1>3

-------------------------------------------------------------------------------
(* The steps that give a socket, take it, or close it.                     *)

\* A connect that finds no socket but its own leaves exactly the one it opens.
LEMMA ConnectKeeps ==
  ASSUME WebInv, connect, \A s \in Sockets : net[s] # "free" => s = ws
  PROVE  WebInv'
<1> USE WebAssumption DEF WebAssumption, WebInv, SocketTypes, NetState, None
<1>1. /\ intentionalClose' = FALSE /\ subscribers' = subscribers
      /\ served' = [s \in Sockets |-> IF s = ws THEN {} ELSE served[s]]
  BY DEF connect, Unserved
<1>2. Detached = [s \in Sockets |-> "free"] /\ served' = [s \in Sockets |-> {}]
  BY <1>1, SMT DEF Detached, FreshUnserved
<1>3. CASE \E s \in Sockets : ws' = s /\ net' = [Detached EXCEPT ![s] = "connecting"]
  <2>1. PICK s \in Sockets : ws' = s /\ net' = [Detached EXCEPT ![s] = "connecting"]
    BY <1>3
  <2>2. net' = [z \in Sockets |-> IF z = s THEN "connecting" ELSE "free"]
    BY <2>1, <1>2, SMT
  <2>3. SocketTypes' /\ FreshUnserved'
    BY <2>1, <2>2, <1>1, <1>2, SMT DEF FreshUnserved
  <2>4. NoOrphanSocket' /\ DisconnectSticks' /\ TopicsServed'
    BY <2>1, <2>2, <1>1, SMT DEF NoOrphanSocket, DisconnectSticks, TopicsServed
  <2> QED  BY <2>3, <2>4
<1>4. CASE ws' = None /\ net' = Detached
  <2> QED
    BY <1>4, <1>1, <1>2, SMT
       DEF FreshUnserved, NoOrphanSocket, DisconnectSticks, TopicsServed
<1> QED  BY <1>3, <1>4 DEF connect

\* Connect, Disconnect and the reconnect timer: the only ones that open a socket.
LEMMA ButtonsKeep ==
  ASSUME QuickConnect = FALSE, WebInv,
         ConnectClick \/ RefusedUrl \/ DisconnectClick \/ TimerFires
  PROVE  WebInv'
<1> USE WebAssumption DEF WebAssumption, WebInv, SocketTypes, NetState, None
<1>1. CASE ConnectClick
  BY <1>1, ConnectKeeps DEF ConnectClick
<1>2. CASE RefusedUrl
  BY <1>2, SMT DEF RefusedUrl, retry, beat, FreshUnserved, NoOrphanSocket, DisconnectSticks,
                   TopicsServed, Wanted
<1>3. CASE DisconnectClick
  <2>1. /\ intentionalClose' = TRUE /\ timer' = FALSE /\ heartbeat' = FALSE
        /\ net' = [s \in Sockets |-> IF s = ws THEN "closing" ELSE net[s]]
        /\ ws' = None /\ UNCHANGED <<subscribers, served>>
    BY <1>3 DEF DisconnectClick, disconnect
  <2>2. SocketTypes' /\ FreshUnserved' /\ NoOrphanSocket'
    BY <2>1, SMT DEF FreshUnserved, NoOrphanSocket
  <2>3. DisconnectSticks' /\ TopicsServed'
    BY <2>1 DEF DisconnectSticks, TopicsServed
  <2> QED  BY <2>2, <2>3
<1>4. CASE TimerFires /\ state # "connected" /\ ~intentionalClose
  <2>1. \A s \in Sockets : net[s] # "free" => s = ws
    BY <1>4 DEF NoOrphanSocket
  <2> QED  BY <1>4, <2>1, ConnectKeeps DEF TimerFires
<1>5. CASE TimerFires /\ ~(state # "connected" /\ ~intentionalClose)
  <2>1. timer' = FALSE /\ UNCHANGED <<ws, net, intentionalClose, heartbeat, subscribers, served>>
    BY <1>5 DEF TimerFires, beat
  <2> QED  BY <2>1, SMT DEF FreshUnserved, NoOrphanSocket, DisconnectSticks, TopicsServed, Wanted
<1> QED  BY <1>1, <1>2, <1>3, <1>4, <1>5

-------------------------------------------------------------------------------
(* The events of a socket.                                                 *)

\* The events of a socket, the present one or one already given up.
LEMMA EventsKeep ==
  ASSUME WebInv, NEW s \in Sockets, Opened(s) \/ Closed(s) \/ Lost(s) \/ Pong(s)
  PROVE  WebInv'
<1> USE WebAssumption DEF WebAssumption, WebInv, SocketTypes, NetState, None
<1>1. CASE Opened(s)
  <2>1. s = ws /\ served[s] = {} /\ ~intentionalClose
    BY <1>1, SMT DEF Opened, NoOrphanSocket, DisconnectSticks, FreshUnserved
  <2>2. /\ net' = [net EXCEPT ![s] = "open"]
        /\ UNCHANGED <<ws, timer, intentionalClose, subscribers>>
        /\ served' = [served EXCEPT ![s] = Wanted]
    BY <1>1, <2>1, SMT DEF Opened
  <2>3. Wanted \subseteq Topics /\ Wanted' = Wanted
    BY <2>2 DEF Wanted
  <2> QED
    BY <2>1, <2>2, <2>3, SMT
       DEF FreshUnserved, NoOrphanSocket, DisconnectSticks, TopicsServed
<1>2. CASE Closed(s)
  <2>1. /\ net' = [net EXCEPT ![s] = "free"] /\ served' = [served EXCEPT ![s] = {}]
        /\ ws' = None /\ heartbeat' = FALSE /\ UNCHANGED <<intentionalClose, subscribers>>
        /\ intentionalClose => timer' = timer
    BY <1>2 DEF Closed, retry
  <2>2. s = ws \/ ws = None
    BY <1>2 DEF Closed, NoOrphanSocket, DisconnectSticks
  <2> QED
    BY <2>1, <2>2, SMT DEF FreshUnserved, NoOrphanSocket, DisconnectSticks, TopicsServed
<1>3. CASE Lost(s)
  <2>1. /\ net[s] = "open"
        /\ net' = [net EXCEPT ![s] = "lost"] /\ served' = [served EXCEPT ![s] = {}]
        /\ UNCHANGED <<ws, timer, heartbeat, intentionalClose, subscribers>>
    BY <1>3 DEF Lost, retry, beat
  <2>2. s = ws
    BY <2>1 DEF NoOrphanSocket
  <2> QED
    BY <2>1, <2>2, SMT DEF FreshUnserved, NoOrphanSocket, DisconnectSticks, TopicsServed
<1>4. CASE Pong(s)
  BY <1>4, SMT DEF Pong, retry, FreshUnserved, NoOrphanSocket, DisconnectSticks, TopicsServed,
                   Wanted
<1> QED  BY <1>1, <1>2, <1>3, <1>4

\* The heartbeat may give a socket up.
LEMMA PingKeeps == ASSUME WebInv, Ping  PROVE WebInv'
<1> USE WebAssumption DEF WebAssumption, WebInv, SocketTypes, NetState, None
<1>1. ws \in Sockets /\ UNCHANGED <<ws, timer, intentionalClose, subscribers, served>>
  BY DEF Ping, isConnected, retry
<1>2. CASE heartbeat' = FALSE /\ net' = [net EXCEPT ![ws] = "closing"]
  BY <1>1, <1>2, SMT DEF FreshUnserved, NoOrphanSocket, DisconnectSticks, TopicsServed
<1>3. CASE UNCHANGED <<heartbeat, net>>
  BY <1>1, <1>3, SMT DEF FreshUnserved, NoOrphanSocket, DisconnectSticks, TopicsServed, Wanted
<1> QED  BY <1>2, <1>3 DEF Ping

-------------------------------------------------------------------------------
(* Subscriptions and calls.                                                *)

\* Components come and go; what is wanted is told to the present socket.
LEMMA SubscriptionsKeep ==
  ASSUME WebInv, NEW t \in Topics, NEW v \in Views, subscribe(t, v) \/ unsubscribe(t, v)
  PROVE  WebInv'
<1> USE WebAssumption DEF WebAssumption, WebInv, SocketTypes, NetState, None
<1>1. UNCHANGED <<ws, net, timer, intentionalClose, heartbeat>>
  BY DEF subscribe, unsubscribe, retry, beat
<1>2. NoOrphanSocket' /\ DisconnectSticks'
  BY <1>1 DEF NoOrphanSocket, DisconnectSticks
<1>3. subscribers' \in [Topics -> SUBSET Views]
  BY SMT DEF subscribe, unsubscribe
<1>4. CASE ws # None /\ net[ws] = "open"
  <2>1. isConnected /\ served[ws] = Wanted
    BY <1>4 DEF isConnected, TopicsServed
  <2>2. served' = [served EXCEPT ![ws] = Wanted']
    <3>1. CASE subscribe(t, v)
      <4>1. Wanted' = Wanted \cup {t}
        BY <3>1, SMT DEF subscribe, Wanted
      <4> QED  BY <3>1, <4>1, <2>1, <1>4 DEF subscribe, Sent
    <3>2. CASE unsubscribe(t, v) /\ subscribers[t] = {v}
      <4>1. Wanted' = Wanted \ {t}
        BY <3>2, SMT DEF unsubscribe, Wanted
      <4> QED  BY <3>2, <4>1, <2>1, <1>4 DEF unsubscribe, Sent
    <3>3. CASE unsubscribe(t, v) /\ subscribers[t] # {v}
      <4>1. Wanted' = Wanted /\ served' = served
        BY <3>3, SMT DEF unsubscribe, Wanted
      <4> QED  BY <4>1, <2>1, SMT
    <3> QED  BY <3>1, <3>2, <3>3
  <2>3. Wanted' \subseteq Topics
    BY DEF Wanted
  <2> QED
    BY <1>1, <1>2, <1>3, <1>4, <2>2, <2>3, SMT DEF FreshUnserved, TopicsServed
<1>5. CASE ~(ws # None /\ net[ws] = "open")
  <2>1. served' = served
    BY <1>5 DEF subscribe, unsubscribe, Sent, isConnected
  <2> QED
    BY <1>1, <1>2, <1>3, <1>5, <2>1 DEF FreshUnserved, TopicsServed
<1> QED  BY <1>4, <1>5

\* A call leaves the connection alone, and so does its end.
LEMMA CallsKeep ==
  ASSUME WebInv, NEW c \in Calls, callService(c) \/ ServiceResponse(c) \/ ServiceTimeout(c)
  PROVE  WebInv'
<1>1. UNCHANGED <<ws, net, timer, intentionalClose, heartbeat, subscribers, served>>
  BY DEF callService, ServiceResponse, ServiceTimeout, Settle, retry, beat
<1> QED
  BY <1>1 DEF WebInv, SocketTypes, FreshUnserved, NoOrphanSocket, DisconnectSticks, TopicsServed,
              Wanted

\* Every step keeps the invariant.
LEMMA WebInvStep ==
  ASSUME QuickConnect = FALSE, WebInv, [WebNext]_webVars
  PROVE  WebInv'
<1>1. CASE UNCHANGED webVars
  BY <1>1 DEF webVars, retry, beat, WebInv, SocketTypes, FreshUnserved, NoOrphanSocket,
              DisconnectSticks, TopicsServed, Wanted
<1> QED
  BY <1>1, ButtonsKeep, EventsKeep, PingKeeps, SubscriptionsKeep, CallsKeep DEF WebNext

-------------------------------------------------------------------------------
(* The rest of the types.                                                  *)

\* The counts stay within their bounds.
LEMMA CountTypesStep == WebInv /\ CountTypes /\ [WebNext]_webVars => CountTypes'
<1> SUFFICES ASSUME WebInv, CountTypes, [WebNext]_webVars  PROVE CountTypes'
  OBVIOUS
<1> USE WebAssumption DEF WebAssumption, CountTypes, webVars, retry, beat
<1>1. CASE ConnectClick \/ TimerFires
  BY <1>1, SMT DEF ConnectClick, TimerFires, connect, scheduleReconnect
<1>2. CASE RefusedUrl \/ DisconnectClick \/ Ping
  BY <1>2, SMT DEF RefusedUrl, DisconnectClick, disconnect, None, Ping
<1>3. CASE \E s \in Sockets : Opened(s) \/ Closed(s) \/ Lost(s) \/ Pong(s)
  BY <1>3, SMT DEF Opened, Closed, scheduleReconnect, Lost, Pong
<1>4. CASE \E t \in Topics, v \in Views : subscribe(t, v) \/ unsubscribe(t, v)
  BY <1>4, SMT DEF subscribe, unsubscribe
<1>5. CASE \E c \in Calls : callService(c) \/ ServiceResponse(c) \/ ServiceTimeout(c)
  <2>1. ws \in Sockets \cup {None} /\ UNCHANGED <<reconnectAttempts, missedPongs>>
    BY <1>5 DEF WebInv, SocketTypes, callService, ServiceResponse, ServiceTimeout, Settle
  <2> QED
    BY <1>5, <2>1, SMT DEF callService, ServiceResponse, ServiceTimeout, Settle, None
<1>6. CASE UNCHANGED webVars
  BY <1>6
<1> QED  BY <1>1, <1>2, <1>3, <1>4, <1>5, <1>6 DEF WebNext

\* The flags keep to their values.
LEMMA FlagTypesStep == FlagTypes /\ [WebNext]_webVars => FlagTypes'
<1> SUFFICES ASSUME FlagTypes, [WebNext]_webVars  PROVE FlagTypes'
  OBVIOUS
<1> USE DEF FlagTypes, webVars, retry, beat
<1>1. CASE ConnectClick \/ TimerFires
  BY <1>1, Zenon DEF ConnectClick, TimerFires, connect, scheduleReconnect
<1>2. CASE RefusedUrl \/ DisconnectClick \/ Ping
  BY <1>2, Zenon DEF RefusedUrl, DisconnectClick, disconnect, Ping
<1>3. CASE \E s \in Sockets : Opened(s) \/ Closed(s) \/ Lost(s) \/ Pong(s)
  BY <1>3, Zenon DEF Opened, Closed, scheduleReconnect, Lost, Pong
<1>4. CASE \E t \in Topics, v \in Views : subscribe(t, v) \/ unsubscribe(t, v)
  BY <1>4, Zenon DEF subscribe, unsubscribe
<1>5. CASE \E c \in Calls : callService(c) \/ ServiceResponse(c) \/ ServiceTimeout(c)
  BY <1>5, Zenon DEF callService, ServiceResponse, ServiceTimeout, Settle
<1>6. CASE UNCHANGED webVars
  BY <1>6, Zenon
<1> QED  BY <1>1, <1>2, <1>3, <1>4, <1>5, <1>6 DEF WebNext

-------------------------------------------------------------------------------
\* connection.ts: the safety of the connection, for any number of sockets, topics, components
\* and calls, as long as Connect waits for the socket of the last Disconnect.
THEOREM SpecWebSafety ==
  ASSUME QuickConnect = FALSE
  PROVE  WebSpec => []WebSafety
<1>1. WebInv /\ [WebNext]_webVars => WebInv'
  BY WebInvStep
<1>2. WebInv /\ CountTypes /\ FlagTypes => WebSafety
  <2> SUFFICES ASSUME WebInv, CountTypes, FlagTypes  PROVE WebSafety
    OBVIOUS
  <2> QED  BY Zenon DEF WebInv, SocketTypes, CountTypes, FlagTypes, WebSafety, WebTypeOK
<1> QED  BY InitWebInv, <1>1, CountTypesStep, FlagTypesStep, <1>2, PTL DEF WebSpec

-------------------------------------------------------------------------------
\* The instance is a sum of the two: each of its behaviours is one of either component in which
\* the other stays as it began.
LEMMA RemoteIsEither == RemoteSpec => Spec /\ WebSpec
<1>1. RemoteInit => Init /\ WebInit BY DEF RemoteInit
<1>2. [RemoteNext]_<<program, vars, webVars>> => [Next]_vars /\ [WebNext]_webVars
  BY Zenon DEF RemoteNext
<1>3. QED BY <1>1, <1>2, PTL DEF RemoteSpec, Spec, WebSpec

\* What the run checks of the instance holds of it whatever the constants: authority is sound and
\* granted as the abstract specification grants it, and the browser's connection is safe.
THEOREM RemoteCorrect ==
  ASSUME QuickConnect = FALSE
  PROVE  RemoteSpec => /\ [](AuthorityInv /\ WebSafety)
                       /\ ImplementsAuthority
<1>1. RemoteSpec => []AuthorityInv BY RemoteIsEither, AuthorityCorrect, PTL
<1>2. RemoteSpec => ImplementsAuthority BY RemoteIsEither, AuthorityRefined, PTL
<1>3. RemoteSpec => []WebSafety
  <2>1. WebSpec => []WebSafety BY SpecWebSafety
  <2>2. QED BY <2>1, RemoteIsEither, PTL
<1>4. QED BY <1>1, <1>2, <1>3, PTL
===============================================================================
