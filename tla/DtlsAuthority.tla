----------------------------- MODULE DtlsAuthority -----------------------------
(***************************************************************************)
(* The DTLS control channel of the ESP32: the session slots of             *)
(* dtls_transport.c and the control authority of dtls_authority.c.         *)
(*                                                                         *)
(* One task owns both.  A turn of its loop is a select, at most one new    *)
(* connection, one datagram of every ready session in slot order, and the  *)
(* eviction of silent sessions and of an idle holder.  Peers send in any   *)
(* order, fall silent, vanish, and come back in another slot.              *)
(***************************************************************************)
EXTENDS Integers, FiniteSets

CONSTANTS
  MaxSessions,       \* current_config.max_sessions
  Priorities,        \* priorities of the operators that can complete a handshake
  IdleTimeout,       \* authority_idle_timeout_ms, in ticks
  SessionTimeout     \* session_timeout_ms, in ticks

ASSUME DtlsAssumption ==
  /\ MaxSessions \in Nat \ {0}
  /\ Priorities \subseteq Nat
  /\ IdleTimeout \in Nat /\ SessionTimeout \in Nat

Slots == 0 .. MaxSessions - 1
NoOne == -1

VARIABLES
  session,           \* state and priority of every slot
  recvAge,           \* ticks since sessions[i].last_recv_us
  holder_idx, holder_priority,
  cmdAge,            \* ticks since last_cmd_us
  pc,                \* where dtls_task is
  ready,             \* the read_fds still to be served in this turn
  told,              \* last control message sent to the peer of the slot
  moving,            \* the slot whose command the wheels follow
  lapsed             \* history: slots that lost authority without a motor_stop_all

authority == <<holder_idx, holder_priority, cmdAge>>
vars == <<session, recvAge, authority, pc, ready, told, moving, lapsed>>

SessionState == {"EMPTY", "HANDSHAKING", "ACTIVE"}
Message == {"none", "granted", "denied", "preempted"}
Empty == [state |-> "EMPTY", priority |-> 0]

Live == {s \in Slots : session[s].state # "EMPTY"}
\* The loop over the slots serves the lowest ready one next.
Serving(s) == pc = "io" /\ s \in ready /\ \A r \in ready : s <= r

Init ==
  /\ session = [s \in Slots |-> Empty]
  /\ recvAge = [s \in Slots |-> 0]
  /\ holder_idx = NoOne /\ holder_priority = 0 /\ cmdAge = IdleTimeout + 1
  /\ pc = "select" /\ ready = {}
  /\ told = [s \in Slots |-> "none"]
  /\ moving = NoOne /\ lapsed = {}

-------------------------------------------------------------------------------
(* dtls_authority.c.                                                       *)

\* Mutant: the idle release forgets the holder index.
Release_KeepsHolder ==
  /\ holder_idx' = holder_idx /\ holder_priority' = 0 /\ cmdAge' = IdleTimeout + 1

\* last_cmd_us = 0 lies further back than any timeout.
Release ==
  /\ holder_idx' = NoOne /\ holder_priority' = 0 /\ cmdAge' = IdleTimeout + 1

Grant(s) ==
  /\ holder_idx' = s /\ holder_priority' = session[s].priority /\ cmdAge' = 0

\* Mutant: an equal priority displaces the holder.
Outranks_Equal(s) == session[s].priority >= holder_priority
Outranks(s) == session[s].priority > holder_priority

-------------------------------------------------------------------------------
(* dtls_task: select and handle_new_connection.                            *)

Select ==
  /\ pc = "select"
  /\ pc' \in {"accept", "io"}
  /\ ready' \in SUBSET Live
  /\ UNCHANGED <<session, recvAge, authority, told, moving, lapsed>>

\* The accepted socket is the one select reported, so the new slot is served in this turn.
Accept ==
  /\ pc = "accept"
  /\ pc' = "io"
  /\ \/ \E s \in Slots \ Live :
          /\ \A r \in Slots \ Live : s <= r
          /\ session' = [session EXCEPT ![s].state = "HANDSHAKING"]
          /\ recvAge' = [recvAge EXCEPT ![s] = 0]
          /\ ready' = ready \cup {s}
     \/ UNCHANGED <<session, recvAge, ready>>    \* no slot, or accept or ssl_setup failed
  /\ UNCHANGED <<authority, told, moving, lapsed>>

-------------------------------------------------------------------------------
(* handle_session_io.                                                      *)

\* Mutant: the slot is emptied and its occupant keeps the authority.
Cleanup_KeepsAuthority(gone) ==
  /\ session' = [s \in Slots |-> IF s \in gone THEN Empty ELSE session[s]]
  /\ told' = [s \in Slots |-> IF s \in gone THEN "none" ELSE told[s]]
  /\ lapsed' = lapsed \cup (gone \cap {holder_idx})
  /\ UNCHANGED <<authority, recvAge>>

\* cleanup_session, with the release of authority_session_disconnected.
Cleanup(gone) ==
  /\ session' = [s \in Slots |-> IF s \in gone THEN Empty ELSE session[s]]
  /\ told' = [s \in Slots |-> IF s \in gone THEN "none" ELSE told[s]]
  /\ lapsed' = lapsed \cup (gone \cap {holder_idx})
  /\ IF holder_idx \in gone THEN Release ELSE UNCHANGED authority
  /\ UNCHANGED recvAge

Served(s) == ready' = ready \ {s} /\ UNCHANGED pc

\* WANT_READ: nothing is complete.
Nothing(s) ==
  /\ Serving(s)
  /\ Served(s)
  /\ UNCHANGED <<session, recvAge, authority, told, moving, lapsed>>

\* dtls_psk_callback gives the slot its operator's priority.
HandshakeDone(s) ==
  /\ Serving(s) /\ session[s].state = "HANDSHAKING"
  /\ \E p \in Priorities : session' = [session EXCEPT ![s] = [state |-> "ACTIVE", priority |-> p]]
  /\ recvAge' = [recvAge EXCEPT ![s] = 0]
  /\ Served(s)
  /\ UNCHANGED <<authority, told, moving, lapsed>>

\* A failed handshake, a close notify, a read error or a read timeout.
SessionEnds(s) ==
  /\ Serving(s) /\ s \in Live
  /\ Cleanup({s})
  /\ Served(s)
  /\ UNCHANGED moving

Received(s) ==
  /\ Serving(s) /\ session[s].state = "ACTIVE"
  /\ recvAge' = [recvAge EXCEPT ![s] = 0]
  /\ Served(s)
  /\ UNCHANGED session

RequestGranted(s) ==
  /\ Received(s)
  /\ holder_idx \in {NoOne, s}
  /\ IF holder_idx = NoOne THEN Grant(s) ELSE UNCHANGED authority
  /\ told' = [told EXCEPT ![s] = "granted"]
  /\ lapsed' = lapsed \ {s}
  /\ UNCHANGED moving

RequestPreempts(s) ==
  /\ Received(s)
  /\ holder_idx \notin {NoOne, s} /\ Outranks(s)
  /\ Grant(s)
  /\ moving' = NoOne
  /\ told' = [t \in Slots |-> IF t = s THEN "granted"
                              ELSE IF t = holder_idx /\ session[t].state = "ACTIVE"
                                   THEN "preempted" ELSE told[t]]
  /\ lapsed' = lapsed \ {s}

RequestDenied(s) ==
  /\ Received(s)
  /\ holder_idx \notin {NoOne, s} /\ ~Outranks(s)
  /\ told' = [told EXCEPT ![s] = "denied"]
  /\ UNCHANGED <<authority, moving, lapsed>>

CtrlRelease(s) ==
  /\ Received(s)
  /\ IF holder_idx = s THEN Release /\ lapsed' = lapsed \cup {s}
                       ELSE UNCHANGED <<authority, lapsed>>
  /\ told' = [told EXCEPT ![s] = "none"]
  /\ UNCHANGED moving

\* Any other datagram: it feeds the holder's timer and goes to the registered dispatcher.
Command(s) ==
  /\ Received(s)
  /\ IF holder_idx = s THEN cmdAge' = 0 /\ moving' \in {NoOne, s}
                       ELSE UNCHANGED <<cmdAge, moving>>
  /\ UNCHANGED <<holder_idx, holder_priority, told, lapsed>>

SessionIo(s) ==
  \/ Nothing(s) \/ HandshakeDone(s) \/ SessionEnds(s)
  \/ RequestGranted(s) \/ RequestPreempts(s) \/ RequestDenied(s) \/ CtrlRelease(s) \/ Command(s)

AllServed ==
  /\ pc = "io" /\ ready = {}
  /\ pc' = "evict"
  /\ UNCHANGED <<session, recvAge, authority, ready, told, moving, lapsed>>

-------------------------------------------------------------------------------
(* evict_timed_out_sessions.                                               *)

\* Mutant: only established sessions are evicted.
TimedOut_ActiveOnly == {s \in Live : session[s].state = "ACTIVE" /\ recvAge[s] > SessionTimeout}
TimedOut == {s \in Live : recvAge[s] > SessionTimeout}

EvictSessions ==
  /\ pc = "evict"
  /\ pc' = "idle"
  /\ Cleanup(TimedOut)
  /\ UNCHANGED <<ready, moving>>

\* authority_check_idle: the holder is released and not informed.
CheckIdle ==
  /\ pc = "idle"
  /\ pc' = "select"
  /\ IF holder_idx # NoOne /\ cmdAge > IdleTimeout
     THEN Release /\ lapsed' = lapsed \cup {holder_idx}
     ELSE UNCHANGED <<authority, lapsed>>
  /\ UNCHANGED <<session, recvAge, ready, told, moving>>

\* The task waits in select, and in the records of a session it serves.
Tick ==
  /\ pc \in {"select", "io"}
  /\ recvAge' = [s \in Slots |-> IF recvAge[s] > SessionTimeout THEN recvAge[s] ELSE recvAge[s] + 1]
  /\ cmdAge' = IF cmdAge > IdleTimeout THEN cmdAge ELSE cmdAge + 1
  /\ UNCHANGED <<session, holder_idx, holder_priority, pc, ready, told, moving, lapsed>>

Task == Select \/ Accept \/ (\E s \in Slots : SessionIo(s)) \/ AllServed \/ EvictSessions \/ CheckIdle

Next ==
  \/ Select \/ Accept
  \/ \E s \in Slots : SessionIo(s)
  \/ AllServed \/ EvictSessions \/ CheckIdle
  \/ Tick

Spec == Init /\ [][Next]_vars

\* The select of the loop returns after at most 50 ms, and time passes between its turns.
FairSpec == Spec /\ WF_vars(Task) /\ SF_vars(Tick)

-------------------------------------------------------------------------------
(* Properties.                                                             *)

\* The state of every slot, the holder and the loop keep their types.
TypeOK ==
  /\ session \in [Slots -> [state : SessionState, priority : Priorities \cup {0}]]
  /\ recvAge \in [Slots -> 0 .. SessionTimeout + 1]
  /\ holder_idx \in Slots \cup {NoOne}
  /\ holder_priority \in Priorities \cup {0}
  /\ cmdAge \in 0 .. IdleTimeout + 1
  /\ pc \in {"select", "accept", "io", "evict", "idle"}
  /\ ready \subseteq Slots
  /\ told \in [Slots -> Message]
  /\ moving \in Slots \cup {NoOne}
  /\ lapsed \subseteq Slots

\* Authority belongs to the present occupant of an active slot, at the priority of its own
\* handshake: a slot that is reused never inherits it, and no release leaves a priority.
HolderLive ==
  /\ holder_idx # NoOne => /\ session[holder_idx].state = "ACTIVE"
                           /\ holder_priority = session[holder_idx].priority
  /\ holder_idx = NoOne => holder_priority = 0

\* A peer whose last control message is GRANTED holds the authority, unless it was released
\* for idleness, the one loss of which dtls_transport.c tells it nothing.
GrantBelieved == \A s \in Slots : told[s] = "granted" /\ s \notin lapsed => holder_idx = s

\* The wheels follow the holder, or the last command of a peer whose authority lapsed
\* (release, idleness, disconnect: no motor_stop_all); never a displaced peer, never one that
\* was denied.
WheelsFollowAuthority == moving # NoOne => moving = holder_idx \/ moving \in lapsed

\* The transport implements the authority it promises: one controller, displaced only by a
\* higher priority, and given up before the next one of any priority gets it.
Authority == INSTANCE ControlAuthority
  WITH Controllers <- Slots, Ranks <- Priorities \cup {0}, Nobody <- NoOne,
       holder <- holder_idx, rank <- holder_priority

ImplementsAuthority == Authority!Spec

\* A holder that sends nothing loses the authority: other peers are not locked out.
IdleHolderReleased ==
  \A s \in Slots : (holder_idx = s /\ cmdAge > 0) ~> (holder_idx # s \/ cmdAge = 0)

\* A silent peer, also one that never completes its handshake, gives its slot back.
SilentPeerEvicted ==
  \A s \in Slots :
    (s \in Live /\ recvAge[s] > 0) ~> (s \notin Live \/ recvAge[s] = 0)

\* The safety of the control link: authority belongs to the occupant of a slot, its grant is
\* known to it, and the wheels follow nobody else.  This is inductive.
AuthorityInv == TypeOK /\ HolderLive /\ GrantBelieved /\ WheelsFollowAuthority
===============================================================================
