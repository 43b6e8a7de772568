--------------------------- MODULE PayloadSdk_proof ---------------------------
(***************************************************************************)
(* Proofs about the payload SDK and the operators' tools, for every value  *)
(* of the constants: the asynchronous client, the descriptor tool, key     *)
(* provisioning and the hardware validation runner.                        *)
(***************************************************************************)
EXTENDS MCPayloadSdk, Integers, TLAPS

-------------------------------------------------------------------------------
(***************************************************************************)
(* The client, for any number of waypoints and goals: a mission moves on   *)
(* only past a goal Nav2 is through with, and the E-stop is reported only  *)
(* when it was carried out.                                                *)
(***************************************************************************)

\* The types the argument needs.
MissionTypes ==
  /\ wp \in Nat
  /\ nav \in [Goals -> UnderWay \cup {"none"}]
  /\ fut \in [Goals -> {"none", "pending", "true", "false", "cancelled"}]
  /\ soon \in [Goals -> {"none", "true", "false"}]
  /\ goal \in Goals \cup {0}
  /\ mission = "running" => goal \in Goals

ClientInv == MissionTypes /\ ValuesAreOver

\* The invariant holds of a client that has sent nothing.
LEMMA InitClient == Init => ClientInv
BY SMT DEF Init, ClientInv, MissionTypes, ValuesAreOver, UnderWay

\* A goal is sent under a number that is free.
LEMMA SendKeeps ==
  ASSUME ClientInv, SendNavGoal, wp' \in Nat, UNCHANGED soon
  PROVE  ClientInv'
<1> USE DEF ClientInv, MissionTypes, ValuesAreOver, UnderWay
<1>1. CASE \E g \in Goals :
             /\ fut[g] # "pending" /\ soon[g] = "none" /\ goal' = g /\ mission' = "running"
             /\ nav' = [nav EXCEPT ![g] = "sent"] /\ fut' = [fut EXCEPT ![g] = "pending"]
  <2>1. PICK g \in Goals : /\ soon[g] = "none" /\ goal' = g
                           /\ nav' = [nav EXCEPT ![g] = "sent"]
                           /\ fut' = [fut EXCEPT ![g] = "pending"]
    BY <1>1
  <2> QED  BY <2>1, SMT
<1>2. CASE mission' = "raised" /\ UNCHANGED <<goal, nav, fut>>
  BY <1>2, SMT
<1> QED  BY <1>1, <1>2, SMT DEF SendNavGoal

\* The mission's coroutine, and its start.
LEMMA MissionKeeps ==
  ASSUME ClientInv, StartMission \/ Mission
  PROVE  ClientInv'
<1> USE DEF ClientInv, MissionTypes, ValuesAreOver, UnderWay
<1>1. CASE StartMission
  BY <1>1, SendKeeps, SMT DEF StartMission
<1>2. CASE Arrive
  <2>1. CASE wp = N
    BY <1>2, <2>1, SMT DEF Arrive
  <2>2. CASE wp # N
    BY <1>2, <2>2, SendKeeps, SMT DEF Arrive
  <2> QED  BY <2>1, <2>2
<1>3. CASE GiveUp
  BY <1>3, SMT DEF GiveUp
<1>4. CASE NavTimeout
  <2>1. goal \in Goals /\ fut' = [fut EXCEPT ![goal] = "cancelled"] /\ soon' = soon
    BY <1>4, SMT DEF NavTimeout
  <2>2. nav' = nav \/ (nav[goal] = "active" /\ nav' = [nav EXCEPT ![goal] = "stopping"])
    BY <1>4, SMT DEF NavTimeout
  <2>3. UNCHANGED <<wp, goal>> /\ mission' = "failed"
    BY <1>4, SMT DEF NavTimeout
  <2> QED  BY <2>1, <2>2, <2>3, SMT
<1> QED  BY <1>1, <1>2, <1>3, <1>4 DEF Mission

\* Nav2 at work on a goal, and the loop that takes its result.
LEMMA NavKeeps ==
  ASSUME ClientInv, NEW g \in Goals, Nav2(g) \/ SetResult(g)
  PROVE  ClientInv'
<1> USE DEF ClientInv, MissionTypes, ValuesAreOver, UnderWay, NavFrame, missionVars, Tell
<1>1. CASE Accepted(g)
  BY <1>1, SMT DEF Accepted
<1>2. CASE Rejected(g)
  BY <1>2, SMT DEF Rejected
<1>3. CASE Reached(g)
  BY <1>3, SMT DEF Reached
<1>4. CASE Failed(g)
  BY <1>4, SMT DEF Failed
<1>5. CASE SetResult(g)
  BY <1>5, SMT DEF SetResult
<1> QED  BY <1>1, <1>2, <1>3, <1>4, <1>5 DEF Nav2

\* Connections, E-stops, snapshots and messages leave the goals alone.
LEMMA OthersKeep ==
  ASSUME ClientInv,
         Connect \/ Disconnect \/ TriggerEstop \/ ServeEstop \/ Estop \/ GetState \/ Message
           \/ Snapshot \/ UNCHANGED vars
  PROVE  ClientInv'
<1>1. UNCHANGED <<missionVars, nav, fut, soon>>
  BY SMT DEF Connect, Disconnect, TriggerEstop, ServeEstop, Estop, TakeReply, ReturnReply,
             CallTimeout, GetState, Message, Snapshot, Put, TakeMessage, SnapTimeout, CallFrame,
             SnapFrame, vars, goalVars
<1> QED  BY <1>1, SMT DEF ClientInv, MissionTypes, ValuesAreOver, missionVars

\* Every step keeps the invariant.
LEMMA ClientInvStep == ClientInv /\ [Next]_vars => ClientInv'
BY MissionKeeps, NavKeeps, OthersKeep DEF Next

\* It holds in every reachable state.
LEMMA ClientInvAlways == Spec => []ClientInv
BY InitClient, ClientInvStep, PTL DEF Spec

\* async_client.py, send_nav_goal: values reach a future only when the goal is over.
THEOREM SpecValuesAreOver == Spec => []ValuesAreOver
<1>1. ClientInv => ValuesAreOver
  BY DEF ClientInv
<1> QED  BY ClientInvAlways, <1>1, PTL

\* Waypoints are counted from one.
LEMMA WpPositive == Spec => [](wp \in Nat \ {0})
<1>1. Init => wp \in Nat \ {0}
  BY SMT DEF Init
<1>2. wp \in Nat \ {0} /\ [Next]_vars => (wp \in Nat \ {0})'
  <2> SUFFICES ASSUME wp \in Nat \ {0}, [Next]_vars  PROVE wp' \in {1, wp, wp + 1}
    BY SMT
  <2> USE DEF missionVars
  <2>1. CASE StartMission \/ Mission
    BY <2>1, SMT DEF StartMission, Mission, Arrive, GiveUp, NavTimeout
  <2>2. CASE \E g \in Goals : Nav2(g) \/ SetResult(g)
    BY <2>2, SMT DEF Nav2, Accepted, Rejected, Reached, Failed, SetResult, NavFrame
  <2>3. CASE Connect \/ Disconnect \/ TriggerEstop \/ ServeEstop \/ Estop \/ GetState \/ Message
               \/ Snapshot \/ UNCHANGED vars
    BY <2>3, SMT DEF Connect, Disconnect, TriggerEstop, ServeEstop, Estop, TakeReply, ReturnReply,
             CallTimeout, GetState, Message, Snapshot, Put, TakeMessage, SnapTimeout, CallFrame,
             SnapFrame, vars
  <2> QED  BY <2>1, <2>2, <2>3 DEF Next
<1> QED  BY <1>1, <1>2, PTL DEF Spec

\* Only Arrive moves a mission on.
LEMMA OnlyArrive ==
  ASSUME wp \in Nat \ {0}, Next, wp' = wp + 1
  PROVE  Arrive
<1> USE DEF missionVars
<1>1. ~ (StartMission \/ GiveUp \/ NavTimeout)
  BY SMT DEF StartMission, GiveUp, NavTimeout
<1>2. ~ \E g \in Goals : Nav2(g) \/ SetResult(g)
  BY SMT DEF Nav2, Accepted, Rejected, Reached, Failed, SetResult, NavFrame
<1>3. ~ (Connect \/ Disconnect \/ TriggerEstop \/ ServeEstop \/ Estop \/ GetState \/ Message
           \/ Snapshot)
  BY SMT DEF Connect, Disconnect, TriggerEstop, ServeEstop, Estop, TakeReply, ReturnReply,
             CallTimeout, GetState, Message, Snapshot, Put, TakeMessage, SnapTimeout, CallFrame,
             SnapFrame
<1> QED  BY <1>1, <1>2, <1>3 DEF Next, Mission

\* execute_mission: the next waypoint is sent only when the goal of the present one is over.
THEOREM SpecWaypointDoneFirst == Spec => WaypointDoneFirst
<1>1. ClientInv /\ wp \in Nat \ {0} /\ [Next]_vars
        => [(wp' = wp + 1) => nav[goal] = "none" /\ fut[goal] = "true"]_vars
  <2> SUFFICES ASSUME ClientInv, wp \in Nat \ {0}, Next, wp' = wp + 1
               PROVE  nav[goal] = "none" /\ fut[goal] = "true"
    BY DEF vars
  <2>1. Arrive
    BY OnlyArrive
  <2> QED  BY <2>1, SMT DEF Arrive, ClientInv, MissionTypes, ValuesAreOver
<1> QED  BY <1>1, ClientInvAlways, WpPositive, PTL DEF Spec, WaypointDoneFirst

\* trigger_estop: an E-stop is reported only if the service has carried it out.
THEOREM SpecEstopReal == Spec => []EstopReal
<1>1. Init => EstopReal
  BY SMT DEF Init, EstopReal
<1>2. EstopReal /\ [Next]_vars => EstopReal'
  <2> SUFFICES ASSUME EstopReal, [Next]_vars  PROVE EstopReal'
    OBVIOUS
  <2> USE DEF EstopReal, callVars
  <2>1. CASE TriggerEstop \/ ServeEstop \/ Estop
    BY <2>1, SMT DEF TriggerEstop, ServeEstop, Estop, TakeReply, ReturnReply, CallTimeout
  <2>2. CASE StartMission \/ Mission \/ \E g \in Goals : Nav2(g) \/ SetResult(g)
    BY <2>2, SMT DEF StartMission, Mission, Arrive, GiveUp, NavTimeout, Nav2, Accepted, Rejected,
                     Reached, Failed, SetResult, NavFrame
  <2>3. CASE Connect \/ Disconnect \/ GetState \/ Message \/ Snapshot \/ UNCHANGED vars
    BY <2>3, SMT DEF Connect, Disconnect, GetState, Message, Snapshot, Put, TakeMessage,
                     SnapTimeout, SnapFrame, vars
  <2> QED  BY <2>1, <2>2, <2>3 DEF Next
<1> QED  BY <1>1, <1>2, PTL DEF Spec

-------------------------------------------------------------------------------
\* What the mission's own steps keep: the client hears of the present goal only, whose future is
\* settled by its result or is still to be, and the count of waypoints stays within the mission.
MissionInv ==
  /\ ClientInv /\ OneGoalHeard
  /\ wp \in 1 .. N + 1 /\ (mission = "running" => wp <= N)
  /\ mission \in Ended \cup {"running"}
  /\ heard \subseteq Goals /\ known \subseteq Goals

\* No mission, so none that hears of a goal.
LEMMA InitMission == Init => MissionInv
BY InitClient, MissionAssumption, SMT
   DEF MissionAssumption, Init, MissionInv, OneGoalHeard, ClientInv, MissionTypes, ValuesAreOver, Ended

\* Sending a goal leaves the one before it unheard.
LEMMA SendHears ==
  ASSUME MissionInv, SendNavGoal, wp' \in 1 .. N, UNCHANGED soon
  PROVE  MissionInv'
<1> USE MissionAssumption DEF MissionAssumption, MissionInv, OneGoalHeard, Ended
<1>1. ClientInv'
  BY SendKeeps, SMT
<1>2. CASE \E g \in Goals :
             /\ goal' = g /\ mission' = "running" /\ fut' = [fut EXCEPT ![g] = "pending"]
             /\ heard' = (heard \ {goal}) \cup {g} /\ known' = known \ {g}
  <2>1. PICK g \in Goals :
             /\ goal' = g /\ mission' = "running" /\ fut' = [fut EXCEPT ![g] = "pending"]
             /\ heard' = (heard \ {goal}) \cup {g} /\ known' = known \ {g}
    BY <1>2
  <2>2. fut'[g] = "pending"
    BY <2>1, SMT DEF ClientInv, MissionTypes
  <2>3. heard' \subseteq {goal'} /\ heard' \subseteq Goals /\ known' \subseteq Goals
    BY <2>1, SMT
  <2> QED  BY <1>1, <2>1, <2>2, <2>3, SMT
<1>3. CASE mission' = "raised" /\ heard' = heard \ {goal} /\ UNCHANGED <<goal, nav, fut, known>>
  BY <1>1, <1>3, SMT
<1> QED  BY <1>2, <1>3, SMT DEF SendNavGoal

\* The mission and its start: it goes on with a goal of its own.
LEMMA MissionHears ==
  ASSUME MissionInv, StartMission \/ Mission
  PROVE  MissionInv'
<1> USE MissionAssumption DEF MissionAssumption, MissionInv, OneGoalHeard, Ended
<1>1. ClientInv'
  BY MissionKeeps
<1>2. CASE StartMission
  BY <1>2, SendHears, SMT DEF StartMission
<1>3. CASE Arrive
  <2>1. CASE wp = N
    BY <1>1, <1>3, <2>1, SMT DEF Arrive
  <2>2. CASE wp # N
    <3>1. wp' \in 1 .. N /\ SendNavGoal /\ UNCHANGED soon
      BY <1>3, <2>2, SMT DEF Arrive
    <3> QED  BY <3>1, SendHears
  <2> QED  BY <2>1, <2>2
<1>4. CASE GiveUp
  BY <1>1, <1>4, SMT DEF GiveUp
<1>5. CASE NavTimeout
  BY <1>1, <1>5, SMT DEF NavTimeout
<1> QED  BY <1>2, <1>3, <1>4, <1>5 DEF Mission

\* What Nav2 does on a goal is about that goal.
LEMMA NavHears ==
  ASSUME MissionInv, NEW g \in Goals, Nav2(g) \/ SetResult(g)
  PROVE  MissionInv'
<1> USE DEF MissionInv, OneGoalHeard, NavFrame, missionVars
<1>1. ClientInv'
  BY NavKeeps
<1>2. CASE Nav2(g)
  BY <1>1, <1>2, SMT DEF Nav2, Accepted, Rejected, Reached, Failed
<1>3. CASE SetResult(g)
  <2>1. UNCHANGED <<goal, wp, mission, heard, known>>
    BY <1>3, SMT DEF SetResult
  <2>2. fut' = fut \/ (fut' = [fut EXCEPT ![g] = soon[g]] /\ soon[g] \in {"true", "false"})
    BY <1>3, SMT DEF SetResult, ClientInv, MissionTypes
  <2>3. mission' = "running" => fut'[goal'] \in {"pending", "true", "false"}
    BY <2>1, <2>2, SMT DEF ClientInv, MissionTypes
  <2> QED  BY <1>1, <2>1, <2>3, SMT
<1> QED  BY <1>2, <1>3

\* The rest leaves the mission alone; after a disconnect it hears of nothing.
LEMMA OthersHear ==
  ASSUME MissionInv,
         Connect \/ Disconnect \/ TriggerEstop \/ ServeEstop \/ Estop \/ GetState \/ Message
           \/ Snapshot \/ UNCHANGED vars
  PROVE  MissionInv'
<1>1. UNCHANGED <<missionVars, fut, known>> /\ (heard' = heard \/ heard' = {})
  BY SMT DEF Connect, Disconnect, TriggerEstop, ServeEstop, Estop, TakeReply, ReturnReply,
             CallTimeout, GetState, Message, Snapshot, Put, TakeMessage, SnapTimeout, CallFrame,
             SnapFrame, vars, goalVars
<1>2. ClientInv'
  BY OthersKeep DEF MissionInv
<1> QED  BY <1>1, <1>2, SMT DEF MissionInv, OneGoalHeard, missionVars

\* The variables of the connection, the service call and the snapshot keep to their values.
CallValues ==
  /\ call \in {"idle", "waiting", "replied", "answered", "raised"}
  /\ reply \in {"none", "here"}
  /\ snap \in {"idle", "waiting", "got", "raised"}
  /\ coming \in 0 .. Messages

CallFlags ==
  /\ connected \in BOOLEAN /\ asked \in BOOLEAN /\ served \in BOOLEAN /\ full \in BOOLEAN
  /\ own \subseteq {"call", "snap"}

\* A mission does not touch the calls beside it.
LEMMA MissionLeavesCalls ==
  ASSUME StartMission \/ Mission \/ \E g \in Goals : Nav2(g) \/ SetResult(g)
  PROVE  UNCHANGED <<connected, own, call, reply, asked, served, snap, coming, full>>
BY SMT DEF StartMission, Mission, Arrive, GiveUp, NavTimeout, Nav2, Accepted, Rejected, Reached,
           Failed, SetResult, NavFrame, connVars, callVars, snapVars

\* The calls' values keep to their sets.
LEMMA CallValuesStep == CallValues /\ [Next]_vars => CallValues'
<1> SUFFICES ASSUME CallValues, [Next]_vars  PROVE CallValues'
  OBVIOUS
<1> USE MissionAssumption DEF MissionAssumption, CallValues, connVars, callVars, snapVars
<1>1. CASE Connect \/ Disconnect
  BY <1>1, SMT DEF Connect, Disconnect
<1>2. CASE StartMission \/ Mission \/ \E g \in Goals : Nav2(g) \/ SetResult(g)
  BY <1>2, MissionLeavesCalls, SMT
<1>3. CASE TriggerEstop \/ ServeEstop \/ Estop
  BY <1>3, SMT DEF TriggerEstop, ServeEstop, Estop, TakeReply, ReturnReply, CallTimeout, CallFrame
<1>4. CASE GetState \/ Message
  BY <1>4, SMT DEF GetState, Message, SnapFrame
<1>5. CASE Snapshot
  BY <1>5, SMT DEF Snapshot, Put, TakeMessage, SnapTimeout, SnapFrame
<1>6. CASE UNCHANGED vars
  BY <1>6, SMT DEF vars
<1> QED  BY <1>1, <1>2, <1>3, <1>4, <1>5, <1>6 DEF Next

\* The calls' flags keep to theirs.
LEMMA CallFlagsStep == CallFlags /\ [Next]_vars => CallFlags'
<1> SUFFICES ASSUME CallFlags, [Next]_vars  PROVE CallFlags'
  OBVIOUS
<1> USE DEF CallFlags, connVars, callVars, snapVars
<1>1. CASE Connect \/ Disconnect
  BY <1>1, Zenon DEF Connect, Disconnect
<1>2. CASE StartMission \/ Mission \/ \E g \in Goals : Nav2(g) \/ SetResult(g)
  <2>1. UNCHANGED <<connected, asked, served, full, own>>
    BY <1>2, MissionLeavesCalls, SMT
  <2> QED  BY <2>1, Zenon
<1>3. CASE TriggerEstop \/ ServeEstop \/ Estop
  BY <1>3, Zenon DEF TriggerEstop, ServeEstop, Estop, TakeReply, ReturnReply, CallTimeout, CallFrame
<1>4. CASE GetState \/ Message
  BY <1>4, Zenon DEF GetState, Message, SnapFrame
<1>5. CASE Snapshot
  BY <1>5, Zenon DEF Snapshot, Put, TakeMessage, SnapTimeout, SnapFrame
<1>6. CASE UNCHANGED vars
  <2>1. UNCHANGED <<connected, asked, served, full, own>>
    BY <1>6, SMT DEF vars
  <2> QED  BY <2>1, Zenon
<1> QED  BY <1>1, <1>2, <1>3, <1>4, <1>5, <1>6 DEF Next

\* async_client.py: the safety of the client, for any number of waypoints, goals and messages.
THEOREM SpecClientSafety == Spec => []ClientSafety
<1>1. MissionInv /\ [Next]_vars => MissionInv'
  BY MissionHears, NavHears, OthersHear DEF Next
<1>2. Init => CallValues /\ CallFlags
  <2>1. Init => CallValues
    BY MissionAssumption, SMT DEF MissionAssumption, Init, CallValues
  <2>2. Init => CallFlags
    BY Zenon DEF Init, CallFlags
  <2> QED  BY <2>1, <2>2
<1>3. MissionInv /\ CallValues /\ CallFlags /\ EstopReal => ClientSafety
  <2> SUFFICES ASSUME MissionInv, CallValues, CallFlags, EstopReal  PROVE ClientSafety
    OBVIOUS
  <2> QED  BY Zenon DEF MissionInv, CallValues, CallFlags, ClientSafety, TypeOK, ClientInv, MissionTypes
<1> QED
  BY InitMission, <1>1, <1>2, CallValuesStep, CallFlagsStep, SpecEstopReal, <1>3, PTL DEF Spec

-------------------------------------------------------------------------------
(***************************************************************************)
(* The descriptor, for every set of descriptors.                           *)
(***************************************************************************)

\* The ratings of what is on the chip were validated, in a run that is still under way or in one
\* before; only a run that is over has an exit code.
EepromInv ==
  /\ PowerAllowed(FromBytes(chip))
  /\ page # Missing => ValidDescriptor(FromBytes(file)) /\ exitCode # 0
  /\ DescriptorSafe

\* A number is put together again from its high part and its low byte.
LEMMA HighAndLowByte == ASSUME NEW n \in Nat PROVE 256 * (n \div 256) + (n % 256) = n
BY SMT

\* A rating is read as it was written.
LEMMA RatingsKept ==
  ASSUME NEW d, d.power_5v_ma \in Nat, d.power_12v_ma \in Nat
  PROVE  PowerAllowed(FromBytes(ToBytes(d))) <=> PowerAllowed(d)
<1>1. ToBytes(d)[53] = d.power_5v_ma \div 256 BY SMT DEF ToBytes, Offsets
<1>2. ToBytes(d)[54] = d.power_5v_ma % 256 BY SMT DEF ToBytes, Offsets
<1>3. ToBytes(d)[55] = d.power_12v_ma \div 256 BY SMT DEF ToBytes, Offsets
<1>4. ToBytes(d)[56] = d.power_12v_ma % 256 BY SMT DEF ToBytes, Offsets
<1>5. /\ d.power_5v_ma = 256 * ToBytes(d)[53] + ToBytes(d)[54]
      /\ d.power_12v_ma = 256 * ToBytes(d)[55] + ToBytes(d)[56]
  BY <1>1, <1>2, <1>3, <1>4, HighAndLowByte
<1>6. /\ FromBytes(ToBytes(d)).power_5v_ma = d.power_5v_ma
      /\ FromBytes(ToBytes(d)).power_12v_ma = d.power_12v_ma
  BY <1>5 DEF FromBytes
<1>7. QED BY <1>6 DEF PowerAllowed

\* Bytes with the same ratings are allowed the same.
LEMMA RatingsRead ==
  ASSUME NEW b, NEW c, \A o \in {53, 54, 55, 56} : b[o] = c[o]
  PROVE  PowerAllowed(FromBytes(b)) <=> PowerAllowed(FromBytes(c))
BY DEF FromBytes, PowerAllowed

\* An erased chip asks for no power.
LEMMA BlankRated == PowerAllowed(FromBytes(Blank)) /\ FromBytes(Blank).magic = ""
<1> DEFINE none == [magic |-> "", id |-> "", power_5v_ma |-> 0, power_12v_ma |-> 0]
<1>1. PowerAllowed(none) BY DEF PowerAllowed, MAX_5V_MA, MAX_12V_MA, MAX_POWER_MW
<1>2. PowerAllowed(FromBytes(ToBytes(none))) BY <1>1, RatingsKept
<1>3. FromBytes(Blank).magic = "" BY DEF FromBytes, Blank, ToBytes, Offsets
<1>4. QED BY <1>2, <1>3 DEF Blank

\* A page that holds one byte of a rating holds all four.
LEMMA PageRated ==
  ASSUME PowerAllowed(FromBytes(chip)), PowerAllowed(FromBytes(file)), page \in 0..LastPage
  PROVE  PowerAllowed(FromBytes([o \in Offsets |-> IF PageOf(o) = page THEN file[o] ELSE chip[o]]))
<1> DEFINE written == [o \in Offsets |-> IF PageOf(o) = page THEN file[o] ELSE chip[o]]
<1>1. \A o \in {53, 54, 55, 56} : o \in Offsets /\ PageOf(o) = 3 BY DEF Offsets, PageOf
<1>2. CASE page = 3
  <2>1. \A o \in {53, 54, 55, 56} : written[o] = file[o] BY <1>1, <1>2
  <2>2. QED BY <2>1, RatingsRead
<1>3. CASE page # 3
  <2>1. \A o \in {53, 54, 55, 56} : written[o] = chip[o] BY <1>1, <1>3
  <2>2. QED BY <2>1, RatingsRead
<1>4. QED BY <1>2, <1>3

\* Ratings are numbers,
LEMMA TwoBytesNat == TwoBytes \subseteq Nat
BY DEF TwoBytes

\* those of every descriptor among them.
LEMMA DescriptorRatings == \A d \in Descriptors : d.power_5v_ma \in Nat /\ d.power_12v_ma \in Nat
BY DescriptorsAssumption, TwoBytesNat, Zenon

\* The marks of a program that has not begun or has no file are no pages.
LEMMA PageNumbers == Missing # 0 /\ 1 # 0 /\ Missing \notin 0..LastPage
BY SMT DEF Missing

\* Every step of the tool, of a reader and of whoever swaps payloads keeps the invariant.
LEMMA EepromStepInv == EepromInv /\ [EepromNext]_eepromVars => EepromInv'
<1> SUFFICES ASSUME EepromInv, [EepromNext]_eepromVars PROVE EepromInv' OBVIOUS
<1> USE DEF EepromInv, DescriptorSafe, RatedWhole, ProgramTells
<1>1. ASSUME NEW d \in Descriptors, WriteFile(d) PROVE EepromInv'
  BY <1>1, PageNumbers, Zenon DEF WriteFile
<1>2. ASSUME NEW d \in Descriptors, Swap(d) PROVE EepromInv'
  <2>1. ASSUME NEW e \in Descriptors, ValidDescriptor(e) PROVE PowerAllowed(FromBytes(ToBytes(e)))
    BY <2>1, DescriptorRatings, RatingsKept, Zenon DEF ValidDescriptor
  <2>2. PowerAllowed(FromBytes(chip')) BY <1>2, <2>1, BlankRated, Zenon DEF Swap
  <2>3. QED BY <1>2, <2>2, PageNumbers, Zenon DEF Swap
<1>3. CASE StartProgram BY <1>3, PageNumbers, Zenon DEF StartProgram
<1>4. CASE ProgramPage
  <2>1. page # Missing BY <1>4, PageNumbers, Zenon DEF ProgramPage
  <2>2. ValidDescriptor(FromBytes(file)) /\ exitCode # 0 BY <2>1, Zenon
  <2>3. PowerAllowed(FromBytes(file)) BY <2>2, Zenon DEF ValidDescriptor
  <2>4. PowerAllowed(FromBytes(chip')) BY <1>4, <2>3, PageRated, Zenon DEF ProgramPage
  <2>5. QED BY <1>4, <2>2, <2>4, Zenon DEF ProgramPage
<1>5. CASE Verify BY <1>5, PageNumbers, Zenon DEF Verify
<1>6. CASE ProgramCutShort BY <1>6, Zenon DEF ProgramCutShort
<1>7. CASE Discover
  <2>1. PowerAllowed(found') BY <1>7, BlankRated, Zenon DEF Discover
  <2>2. QED BY <1>7, <2>1, Zenon DEF Discover
<1>8. CASE UNCHANGED eepromVars BY <1>8, Zenon DEF eepromVars
<1>9. QED BY <1>1, <1>2, <1>3, <1>4, <1>5, <1>6, <1>7, <1>8 DEF EepromNext

\* What the robot reads from a payload passes the power check, and a success of the programmer is
\* one, for every set of descriptors and wherever a program was cut short.
THEOREM DescriptorSafeAlways == EepromSpec => []DescriptorSafe
<1>1. EepromInit => EepromInv
  BY BlankRated DEF EepromInit, EepromInv, DescriptorSafe, RatedWhole, ProgramTells, Missing
<1>2. EepromInv => DescriptorSafe BY DEF EepromInv
<1>3. QED BY <1>1, <1>2, EepromStepInv, PTL DEF EepromSpec

-------------------------------------------------------------------------------
(***************************************************************************)
(* The keys, for every set of devices, manifests and lists of a batch.     *)
(***************************************************************************)

Runs == [do : {"nothing", "key", "rows", "mark"}, rows : Seq(Devices), force : BOOLEAN,
         file : Files \cup {""}, key : Nat]

KeyTypes ==
  /\ manifest \in [Files -> [key : Nat, provisioned : BOOLEAN]]
  /\ signing \in [Files -> Nat] /\ nvs \in [Devices -> Nat] /\ drawn \in Nat

ToolType == tool \in Runs /\ (tool.do \in {"key", "mark"} => tool.file \in Files)

\* A key whose private half is on disk, will be before the run goes on, or was lost on the way.
Traced(k) ==
  \/ k \in severed \cup overwritten
  \/ \E f \in Files : signing[f] = k
  \/ tool.do = "key" /\ tool.key = k

\* What may be flashed can be followed back, and what a run is about to write over or to mark is
\* accounted for.
KeysUnderWay ==
  /\ \A f \in Files : manifest[f].key # NoKey => Traced(manifest[f].key)
  /\ tool.do = "key" => signing[tool.file] \in overwritten
  /\ tool.do = "mark" => manifest[tool.file].key \in flashed

KeysInv == KeyTypes /\ ToolType /\ KeysUnderWay /\ KeysTraceable

\* A run that has nothing to do.
LEMMA ReadyRun == Ready \in Runs /\ Ready.do = "nothing"
BY DEF Ready, Runs, NoKey

\* What the tool notes of a manifest it has written or is to mark.
LEMMA NotedRun ==
  ASSUME NEW t \in Runs, NEW what \in {"key", "mark"}, NEW f \in Files, NEW k \in Nat
  PROVE  LET u == [t EXCEPT !.do = what, !.file = f, !.key = k]
         IN u \in Runs /\ u.do = what /\ u.file = f /\ u.key = k
BY DEF Runs

\* No keys, so none that cannot be followed back.
LEMMA KeysInitInv == ProvisioningInit => KeysInv
<1> SUFFICES ASSUME ProvisioningInit PROVE KeysInv OBVIOUS
<1>1. KeyTypes BY DEF ProvisioningInit, KeyTypes, NoKey
<1>2. tool = Ready BY DEF ProvisioningInit
<1>3. QED
  BY <1>1, <1>2, ReadyRun
     DEF ProvisioningInit, KeysInv, ToolType, KeysUnderWay, KeysTraceable, SignerKept, ProvisionedTrue

\* A key drawn for a manifest: what it replaces is noted, and its private half comes next.
LEMMA ManifestWritten ==
  ASSUME KeysInv, NEW f \in Files, WriteManifest(f), tool.do \notin {"key", "mark"},
         tool' \in Runs, tool'.do = "key", tool'.file = f, tool'.key = drawn',
         UNCHANGED <<signing, nvs, flashed, severed>>
  PROVE  KeysInv'
<1> USE DEF KeysInv
<1>1. drawn' \in Nat BY DEF WriteManifest, KeyTypes
<1>2. overwritten' = overwritten \cup {manifest[f].key, signing[f]} BY DEF WriteManifest
<1>3. manifest' = [manifest EXCEPT ![f] = [key |-> drawn', provisioned |-> FALSE]]
  BY DEF WriteManifest
<1>4. /\ manifest' \in [Files -> [key : Nat, provisioned : BOOLEAN]]
      /\ manifest'[f].key = drawn' /\ ~ manifest'[f].provisioned
      /\ \A g \in Files \ {f} : manifest'[g] = manifest[g]
  BY <1>1, <1>3 DEF KeyTypes
<1>5. KeyTypes' /\ ToolType' BY <1>1, <1>4 DEF KeyTypes, ToolType
<1>6. KeysUnderWay'
  <2>1. ASSUME NEW g \in Files, manifest'[g].key # NoKey PROVE Traced(manifest[g].key)'
    <3>1. CASE g = f BY <1>4, <3>1 DEF Traced
    <3>2. CASE g # f BY <1>2, <1>4, <2>1, <3>2 DEF KeysUnderWay, Traced
    <3>3. QED BY <3>1, <3>2
  <2>2. QED BY <1>2, <2>1 DEF KeysUnderWay
<1>7. KeysTraceable' BY <1>2, <1>4 DEF KeysTraceable, SignerKept, ProvisionedTrue
<1>8. QED BY <1>5, <1>6, <1>7

\* generate: the manifest is written with a key that is about to be written too.
LEMMA GenerateKeys == ASSUME KeysInv, NEW f \in Files, Generate(f) PROVE KeysInv'
<1>1. tool.do \notin {"key", "mark"} BY ReadyRun DEF Generate
<1>2. drawn' \in Nat BY DEF Generate, WriteManifest, KeysInv, KeyTypes
<1>3. tool' \in Runs /\ tool'.do = "key" /\ tool'.file = f /\ tool'.key = drawn'
  BY <1>2, ReadyRun, NotedRun DEF Generate
<1>4. QED BY <1>1, <1>3, ManifestWritten DEF Generate

\* The private half replaces one that was noted before.
LEMMA PrivateKeyKeys == ASSUME KeysInv, PrivateKey PROVE KeysInv'
<1> USE DEF KeysInv
<1>1. /\ tool.do = "key" /\ tool.file \in Files
      /\ signing' = [signing EXCEPT ![tool.file] = tool.key]
      /\ UNCHANGED <<manifest, nvs, drawn, flashed, severed, overwritten>>
  BY DEF PrivateKey, WritePrivateKey, ToolType
<1>2. tool' \in {Ready, [tool EXCEPT !.do = "rows"]} BY DEF PrivateKey
<1>3. [tool EXCEPT !.do = "rows"] \in Runs /\ [tool EXCEPT !.do = "rows"].do = "rows"
  BY DEF ToolType, Runs
<1>4. KeyTypes' /\ ToolType' /\ tool'.do \in {"nothing", "rows"}
  <2>1. tool' \in Runs /\ tool'.do \in {"nothing", "rows"} BY <1>2, <1>3, ReadyRun
  <2>2. tool.key \in Nat BY DEF ToolType, Runs
  <2>3. QED BY <1>1, <2>1, <2>2 DEF KeyTypes, ToolType
<1>5. signing'[tool.file] = tool.key /\ \A f \in Files \ {tool.file} : signing'[f] = signing[f]
  BY <1>1 DEF KeyTypes
<1>6. signing[tool.file] \in overwritten BY <1>1 DEF KeysUnderWay
<1>7. ASSUME NEW k, Traced(k)
      PROVE  k \in severed \cup overwritten \/ \E f \in Files : signing'[f] = k
  BY <1>1, <1>5, <1>6, <1>7 DEF Traced
<1>8. KeysUnderWay' BY <1>1, <1>4, <1>7 DEF KeysUnderWay, Traced
<1>9. KeysTraceable'
  <2>1. SignerKept' BY <1>1, <1>7 DEF KeysTraceable, SignerKept, Traced
  <2>2. ProvisionedTrue' BY <1>1 DEF KeysTraceable, ProvisionedTrue
  <2>3. QED BY <2>1, <2>2 DEF KeysTraceable
<1>10. QED BY <1>4, <1>8, <1>9

\* A batch begins, and ends when its rows are done.
LEMMA BatchKeys ==
  ASSUME KeysInv, (\E rows \in Lists, force \in BOOLEAN : Batch(rows, force)) \/ BatchDone
  PROVE  KeysInv'
<1>1. UNCHANGED <<manifest, signing, nvs, drawn, flashed, severed, overwritten>>
  BY DEF Batch, BatchDone, disk
<1>2. tool.do \in {"nothing", "rows"} BY ReadyRun DEF Batch, BatchDone
<1>3. tool' \in Runs /\ tool'.do \in {"nothing", "rows"}
  <2>1. ASSUME NEW rows \in Lists, NEW force \in BOOLEAN, Batch(rows, force)
        PROVE  tool' \in Runs /\ tool'.do = "rows"
    <3>1. \A t \in Runs, s \in Seq(Devices) :
            LET u == [t EXCEPT !.do = "rows", !.rows = s, !.force = force]
            IN u \in Runs /\ u.do = "rows"
      BY DEF Runs
    <3>2. rows \in Seq(Devices) BY ProvisioningAssumption
    <3>3. QED BY <2>1, <3>1, <3>2, ReadyRun DEF Batch
  <2>2. CASE BatchDone BY <2>2, ReadyRun DEF BatchDone
  <2>3. QED BY <2>1, <2>2
<1>4. QED
  BY <1>1, <1>2, <1>3
     DEF KeysInv, KeyTypes, ToolType, KeysUnderWay, Traced, KeysTraceable, SignerKept,
         ProvisionedTrue

\* One row of a batch: skipped, or generated like a single device.
LEMMA BatchRowKeys == ASSUME KeysInv, BatchRow PROVE KeysInv'
<1> USE DEF KeysInv
<1> DEFINE f == FileOf[Head(tool.rows)]
           rest == [tool EXCEPT !.rows = Tail(@)]
<1>1. tool.do = "rows" /\ tool.rows # <<>> /\ tool.rows \in Seq(Devices)
  BY DEF BatchRow, ToolType, Runs
<1>2. Head(tool.rows) \in Devices /\ Tail(tool.rows) \in Seq(Devices) BY <1>1
<1>3. f \in Files BY <1>2, ProvisioningAssumption
<1>4. rest \in Runs /\ rest.do = "rows" BY <1>1, <1>2 DEF ToolType, Runs
<1> HIDE DEF f, rest
<1>5. UNCHANGED <<signing, nvs, flashed, severed>> BY DEF BatchRow
<1>6. CASE tool' = rest /\ UNCHANGED <<manifest, drawn, overwritten>>
  <2>1. tool'.do = "rows" BY <1>4, <1>6
  <2>2. KeyTypes' /\ ToolType' BY <1>4, <1>5, <1>6, <2>1 DEF KeyTypes, ToolType
  <2>3. QED
    BY <1>1, <1>5, <1>6, <2>1, <2>2
       DEF KeysUnderWay, Traced, KeysTraceable, SignerKept, ProvisionedTrue
<1>7. CASE /\ WriteManifest(f)
           /\ tool' = [rest EXCEPT !.do = "key", !.file = f, !.key = drawn']
  <2>1. drawn' \in Nat BY <1>7 DEF WriteManifest, KeyTypes
  <2>2. tool' \in Runs /\ tool'.do = "key" /\ tool'.file = f /\ tool'.key = drawn'
    BY <1>3, <1>4, <1>7, <2>1, NotedRun
  <2>3. QED BY <1>1, <1>3, <1>5, <1>7, <2>2, ManifestWritten
<1>8. QED BY <1>6, <1>7 DEF BatchRow, f, rest

\* flash: a key that has a manifest goes to a device.
LEMMA FlashKeys == ASSUME KeysInv, NEW d \in Devices, Flash(d) PROVE KeysInv'
<1> USE DEF KeysInv
<1> DEFINE f == FileOf[d]
<1>1. f \in Files BY ProvisioningAssumption
<1>2. /\ tool.do = "nothing" /\ manifest[f].key # NoKey /\ manifest[f].key \in Nat
      /\ UNCHANGED <<manifest, signing, drawn, severed, overwritten>>
  BY <1>1, ReadyRun DEF Flash, disk, KeysInv, KeyTypes
<1>3. \/ manifest[f].key \in severed \cup overwritten
      \/ \E g \in Files : signing[g] = manifest[f].key
  BY <1>1, <1>2 DEF KeysUnderWay, Traced
<1>4. CASE /\ nvs' = [nvs EXCEPT ![d] = manifest[f].key] /\ flashed' = flashed \cup {nvs'[d]}
           /\ tool' = [Ready EXCEPT !.do = "mark", !.file = f]
  <2>1. tool' \in Runs /\ tool'.do = "mark" /\ tool'.file = f
    <3>1. \A t \in Runs : LET u == [t EXCEPT !.do = "mark", !.file = f]
                         IN u \in Runs /\ u.do = "mark" /\ u.file = f
      BY <1>1 DEF Runs
    <3>2. QED BY <1>4, <3>1, ReadyRun
  <2>2. nvs'[d] = manifest[f].key /\ \A e \in Devices \ {d} : nvs'[e] = nvs[e]
    BY <1>4 DEF KeyTypes
  <2>3. KeyTypes' /\ ToolType' BY <1>1, <1>2, <1>4, <2>1 DEF KeyTypes, ToolType
  <2>4. KeysUnderWay' BY <1>1, <1>2, <1>4, <2>1, <2>2 DEF KeysUnderWay, Traced
  <2>5. SignerKept' BY <1>2, <1>3, <2>2 DEF KeysTraceable, SignerKept
  <2>6. ProvisionedTrue' BY <1>2, <1>4 DEF KeysTraceable, ProvisionedTrue
  <2>7. QED BY <2>3, <2>4, <2>5, <2>6 DEF KeysTraceable
<1>5. CASE nvs' = [nvs EXCEPT ![d] = NoKey] /\ UNCHANGED <<flashed, tool>>
  <2>1. KeyTypes' /\ ToolType' BY <1>2, <1>5 DEF KeyTypes, ToolType, NoKey
  <2>2. QED
    BY <1>2, <1>5, <2>1
       DEF KeyTypes, KeysUnderWay, Traced, KeysTraceable, SignerKept, ProvisionedTrue, NoKey
<1>6. QED BY <1>4, <1>5 DEF Flash

\* The manifest of what was flashed is marked.
LEMMA MarkKeys == ASSUME KeysInv, MarkProvisioned PROVE KeysInv'
<1> USE DEF KeysInv
<1>1. /\ tool.do = "mark" /\ tool.file \in Files /\ tool' = Ready
      /\ manifest' = [manifest EXCEPT ![tool.file].provisioned = TRUE]
      /\ UNCHANGED <<signing, nvs, drawn, flashed, severed, overwritten>>
  BY DEF MarkProvisioned, ToolType
<1>2. tool' \in Runs /\ tool'.do = "nothing" BY <1>1, ReadyRun
<1>3. /\ manifest' \in [Files -> [key : Nat, provisioned : BOOLEAN]]
      /\ \A f \in Files : /\ manifest'[f].key = manifest[f].key
                          /\ f # tool.file => manifest'[f] = manifest[f]
  BY <1>1 DEF KeyTypes
<1>4. KeyTypes' /\ ToolType' BY <1>1, <1>2, <1>3 DEF KeyTypes, ToolType
<1>5. KeysUnderWay' BY <1>1, <1>2, <1>3 DEF KeysUnderWay, Traced
<1>6. KeysTraceable'
  BY <1>1, <1>3 DEF KeysTraceable, SignerKept, ProvisionedTrue, KeysUnderWay
<1>7. QED BY <1>4, <1>5, <1>6

\* A run that is cut short loses at most the key that was under way, which is noted.
LEMMA CutShortKeys == ASSUME KeysInv, RunCutShort PROVE KeysInv'
<1> USE DEF KeysInv
<1>1. /\ tool' = Ready /\ severed' = IF tool.do = "key" THEN severed \cup {tool.key} ELSE severed
      /\ UNCHANGED <<manifest, signing, nvs, drawn, flashed, overwritten>>
  BY DEF RunCutShort, disk
<1>2. KeyTypes' /\ ToolType' BY <1>1, ReadyRun DEF KeyTypes, ToolType
<1>3. KeysUnderWay' BY <1>1, ReadyRun DEF KeysUnderWay, Traced
<1>4. KeysTraceable' BY <1>1 DEF KeysTraceable, SignerKept, ProvisionedTrue
<1>5. QED BY <1>2, <1>3, <1>4

\* Every step keeps the invariant.
LEMMA KeysStepInv == KeysInv /\ [ProvisioningNext]_provisioningVars => KeysInv'
<1> SUFFICES ASSUME KeysInv, [ProvisioningNext]_provisioningVars PROVE KeysInv' OBVIOUS
<1>1. CASE UNCHANGED provisioningVars
  BY <1>1 DEF provisioningVars, disk, KeysInv, KeyTypes, ToolType, KeysUnderWay, Traced, KeysTraceable,
              SignerKept, ProvisionedTrue
<1>2. CASE ProvisioningNext
  BY <1>2, GenerateKeys, PrivateKeyKeys, BatchKeys, BatchRowKeys, FlashKeys, MarkKeys, CutShortKeys
     DEF ProvisioningNext
<1>3. QED BY <1>1, <1>2

\* A key on a device can be followed back to the disk, and a manifest marked as provisioned was
\* flashed, for every set of devices that share manifests and every list of a batch.
THEOREM KeysTraceableAlways == ProvisioningSpec => []KeysTraceable
<1>1. KeysInv => KeysTraceable BY DEF KeysInv
<1>2. QED BY <1>1, KeysInitInv, KeysStepInv, PTL DEF ProvisioningSpec

-------------------------------------------------------------------------------
(***************************************************************************)
(* The validation runner, for every list of tests.                         *)
(***************************************************************************)

\* Where the runner is, and what that says of the child, the robot and the tests to come.
RunnerPlace ==
  /\ mode \in {"ros2", "udp"} /\ turning \in BOOLEAN /\ lost \in BOOLEAN
  /\ sweep \in {"none", "driving", "resting"}
  /\ at \in {"off", "preflight", "test", "sweep", "moving", "stop", "handler", "leaving", "exited"}
  /\ at \in {"off", "preflight"} => ~ turning
  /\ sweep # "none" => at \in {"sweep", "handler", "leaving"}
  /\ at \in {"handler", "leaving"} /\ sweep # "none" => cut # ""
  /\ at = "leaving" /\ turning => lost \/ cut # ""
  /\ at \in {"sweep", "moving"} => todo # <<>>
  /\ at = "stop" => todo = <<>>
  /\ at = "off" => ran = <<>>
  /\ code = 0 => at = "exited" /\ todo = <<>> /\ OverallPassed

\* The results so far and the tests to come are a list the runner may be asked to run.
SuiteSplit(suite) ==
  /\ Len(suite) = Len(ran) + Len(todo)
  /\ \A k \in 1..Len(ran) : suite[k] = ran[k].test
  /\ \A k \in 1..Len(todo) : suite[Len(ran) + k] = todo[k]

Results ==
  /\ ran \in Seq([test : STRING, passed : BOOLEAN]) /\ todo \in Seq(STRING)
  /\ at # "off" => \E suite \in Suites[mode] : SuiteSplit(suite)

HwInv == RunnerPlace /\ Results /\ StoppedAtExit

\* The runner has not begun.
LEMMA HwInitInv == HwInit => HwInv
<1> SUFFICES ASSUME HwInit PROVE HwInv OBVIOUS
<1>1. RunnerPlace
  <2>1. 2 # 0 OBVIOUS
  <2>2. QED BY <2>1, Zenon DEF HwInit, RunnerPlace
<1>2. Results
  <2>1. \A T : <<>> \in Seq(T) OBVIOUS
  <2>2. QED BY <2>1, Zenon DEF HwInit, Results
<1>3. QED BY <1>1, <1>2 DEF HwInit, HwInv, StoppedAtExit

\* A test that leaves a result moves from the list to the results.
LEMMA PassedSplit ==
  ASSUME Results, at # "off", todo # <<>>, NEW ok \in BOOLEAN, Passed(ok), mode' = mode
  PROVE  Results'
<1>1. PICK suite \in Suites[mode] : SuiteSplit(suite) BY DEF Results
<1>2. /\ ran \in Seq([test : STRING, passed : BOOLEAN]) /\ todo \in Seq(STRING)
  BY DEF Results
<1>3. /\ Head(todo) \in STRING /\ todo' = Tail(todo) /\ todo' \in Seq(STRING)
      /\ Len(todo') = Len(todo) - 1 /\ Len(todo) \in Nat \ {0} /\ Head(todo) = todo[1]
      /\ \A k \in 1..Len(todo') : todo'[k] = todo[k + 1]
  BY <1>2 DEF Passed
<1> DEFINE r == [test |-> Head(todo), passed |-> ok]
<1>4. r \in [test : STRING, passed : BOOLEAN] BY <1>3, Zenon
<1>5. ran' = Append(ran, r) BY DEF Passed
<1>6. r.test = todo[1] BY <1>3
<1> HIDE DEF r
<1>7. /\ ran' \in Seq([test : STRING, passed : BOOLEAN]) /\ Len(ran') = Len(ran) + 1
      /\ Len(ran) \in Nat
      /\ \A k \in 1..Len(ran) : ran'[k] = ran[k]
      /\ ran'[Len(ran) + 1] = r
  BY <1>2, <1>4, <1>5
<1>8. SuiteSplit(suite)'
  <2>1. Len(suite) = Len(ran') + Len(todo') BY <1>1, <1>3, <1>7 DEF SuiteSplit
  <2>2. \A k \in 1..Len(ran') : suite[k] = ran'[k].test
    <3>1. TAKE k \in 1..Len(ran')
    <3>2. CASE k \in 1..Len(ran) BY <1>1, <1>7, <3>2 DEF SuiteSplit
    <3>3. CASE k = Len(ran) + 1
      <4>1. suite[Len(ran) + 1] = todo[1] BY <1>1, <1>3 DEF SuiteSplit
      <4>2. QED BY <1>6, <1>7, <3>3, <4>1
    <3>4. QED BY <1>7, <3>2, <3>3
  <2>3. \A k \in 1..Len(todo') : suite[Len(ran') + k] = todo'[k]
    <3>1. TAKE k \in 1..Len(todo')
    <3>2. k + 1 \in 1..Len(todo) /\ Len(ran') + k = Len(ran) + (k + 1) BY <1>3, <1>7
    <3>3. suite[Len(ran) + (k + 1)] = todo[k + 1] BY <1>1, <3>2 DEF SuiteSplit
    <3>4. QED BY <1>3, <3>2, <3>3
  <2>4. QED BY <2>1, <2>2, <2>3 DEF SuiteSplit
<1>9. QED BY <1>1, <1>3, <1>7, <1>8 DEF Results

\* After a stop the robot stands, or the stop is lost.
LEMMA StopSent ==
  ASSUME turning \in BOOLEAN, StopMotors
  PROVE  turning' \in BOOLEAN /\ lost' \in BOOLEAN /\ (turning' => lost')
<1>1. CASE turning' = FALSE /\ lost' = FALSE BY <1>1
<1>2. CASE turning' = turning /\ lost' = turning
  <2>1. CASE turning = TRUE BY <1>2, <2>1
  <2>2. CASE turning = FALSE BY <1>2, <2>2
  <2>3. QED BY <2>1, <2>2
<1>3. QED BY <1>1, <1>2 DEF StopMotors

\* It begins with all the tests of a list before it.
LEMMA BeginRuns == ASSUME HwInv, NEW m \in {"ros2", "udp"}, Begin(m) PROVE HwInv'
<1> USE DEF HwInv
<1>1. /\ at' = "preflight" /\ mode' = m /\ todo' \in Suites[m] /\ ran = <<>>
      /\ UNCHANGED <<ran, sweep, cut, code, turning, lost>> /\ at = "off"
  BY DEF Begin, Hears, RunnerPlace
<1>2. RunnerPlace' BY <1>1, Zenon DEF RunnerPlace
<1>3. SuiteSplit(todo)'
  <2>1. todo' \in Seq(STRING) BY <1>1, SuitesAssumption
  <2>2. QED BY <1>1, <2>1 DEF SuiteSplit
<1>4. Results' BY <1>1, <1>3, SuitesAssumption DEF Results
<1>5. QED BY <1>1, <1>2, <1>4 DEF StoppedAtExit

\* A test that leaves a result.
LEMMA TestRuns ==
  ASSUME HwInv,
         \/ ReadingTest \/ SweepEnds \/ SweepTimesOut \/ UdpStops
         \/ UdpMotorTest /\ ~ UNCHANGED <<todo, ran>>
  PROVE  HwInv'
<1> USE DEF HwInv
<1>1. /\ at \in {"test", "sweep", "moving"} /\ at' = "test" /\ todo # <<>>
      /\ sweep' = "none" /\ UNCHANGED <<mode, cut, code>>
      /\ turning' \in BOOLEAN /\ lost' \in BOOLEAN
      /\ \E ok \in BOOLEAN : Passed(ok)
  <2>1. CASE ReadingTest
    BY <2>1, Zenon
       DEF ReadingTest, EncoderCalibration, UltrasonicLog, BatteryCheck, EstopCheck,
           UdpConnectivity, UdpBattery, UdpUltrasonic, Reads, Testing, Hears, RunnerPlace
  <2>2. CASE SweepEnds BY <2>2, Zenon DEF SweepEnds, StopMotors, Hears, RunnerPlace
  <2>3. CASE SweepTimesOut BY <2>3, Zenon DEF SweepTimesOut, StopMotors, RunnerPlace
  <2>4. CASE UdpStops BY <2>4, Zenon DEF UdpStops, StopMotors, RunnerPlace
  <2>5. CASE UdpMotorTest /\ ~ UNCHANGED <<todo, ran>>
    BY <2>5, Zenon DEF UdpMotorTest, Testing, Turns, Hears, RunnerPlace
  <2>6. QED BY <2>1, <2>2, <2>3, <2>4, <2>5
<1>2. code' # 0 BY <1>1 DEF RunnerPlace
<1>3. RunnerPlace' BY <1>1, <1>2, Zenon DEF RunnerPlace
<1>4. Results' BY <1>1, PassedSplit
<1>5. QED BY <1>1, <1>3, <1>4 DEF StoppedAtExit

\* Every other step leaves the tests and the results as they are.
LEMMA OtherRuns ==
  ASSUME HwInv,
         \/ Preflight \/ SweepStarts \/ SweepDrives \/ SweepRests
         \/ UdpMotorTest /\ UNCHANGED <<todo, ran>>
         \/ Report \/ Finish \/ Interrupt \/ HandlerStops \/ Leave
  PROVE  HwInv'
<1> USE DEF HwInv
<1>1. UNCHANGED <<mode, todo, ran>> /\ at # "off" /\ at' # "off"
  BY Zenon
     DEF Preflight, SweepStarts, SweepDrives, SweepRests, UdpMotorTest, Testing, Report, Finish,
         Interrupt, HandlerStops, Leave, RunnerPlace
<1>2. Results' BY <1>1 DEF Results, SuiteSplit
<1>3. OverallPassed' <=> OverallPassed BY <1>1 DEF OverallPassed
<1>4. 1 # 0 OBVIOUS
<1>5. RunnerPlace' /\ StoppedAtExit'
  <2>1. CASE Preflight
    BY <2>1, <1>1, <1>3, <1>4, Zenon DEF Preflight, Hears, RunnerPlace, StoppedAtExit
  <2>2. CASE SweepStarts
    BY <2>2, <1>1, <1>3, Zenon DEF SweepStarts, Testing, Hears, RunnerPlace, StoppedAtExit
  <2>3. CASE SweepDrives
    BY <2>3, <1>1, <1>3, Zenon DEF SweepDrives, Turns, RunnerPlace, StoppedAtExit
  <2>4. CASE SweepRests
    BY <2>4, <1>1, <1>3, Zenon DEF SweepRests, StopMotors, RunnerPlace, StoppedAtExit
  <2>5. CASE UdpMotorTest
    BY <2>5, <1>1, <1>3, Zenon DEF UdpMotorTest, Testing, Turns, Hears, RunnerPlace, StoppedAtExit
  <2>6. CASE Report
    BY <2>6, <1>1, <1>3, <1>4, Zenon DEF Report, Hears, RunnerPlace, StoppedAtExit
  <2>7. CASE Finish
    <3>1. turning' \in BOOLEAN /\ lost' \in BOOLEAN /\ (turning' => lost')
      BY <2>7, StopSent DEF Finish, RunnerPlace
    <3>2. code' = 0 => OverallPassed BY <2>7, <1>4, Zenon DEF Finish
    <3>3. QED BY <2>7, <1>1, <1>3, <3>1, <3>2, Zenon DEF Finish, RunnerPlace, StoppedAtExit
  <2>8. CASE Interrupt
    BY <2>8, <1>1, <1>3, Zenon DEF Interrupt, Hears, RunnerPlace, StoppedAtExit
  <2>9. CASE HandlerStops
    <3>1. turning' \in BOOLEAN /\ lost' \in BOOLEAN /\ (turning' => lost')
      BY <2>9, StopSent DEF HandlerStops, RunnerPlace
    <3>2. QED BY <2>9, <1>1, <1>3, <3>1, Zenon DEF HandlerStops, RunnerPlace, StoppedAtExit
  <2>10. CASE Leave
    BY <2>10, <1>1, <1>3, <1>4, Zenon DEF Leave, Hears, RunnerPlace, StoppedAtExit
  <2>11. QED BY <2>1, <2>2, <2>3, <2>4, <2>5, <2>6, <2>7, <2>8, <2>9, <2>10
<1>6. QED BY <1>2, <1>5

\* Every step keeps the invariant.
LEMMA HwStepInv == HwInv /\ [HwNext]_hwVars => HwInv'
<1> SUFFICES ASSUME HwInv, [HwNext]_hwVars PROVE HwInv' OBVIOUS
<1>1. CASE UNCHANGED hwVars
  BY <1>1 DEF hwVars, HwInv, RunnerPlace, Results, SuiteSplit, StoppedAtExit, OverallPassed
<1>2. CASE HwNext BY <1>2, BeginRuns, TestRuns, OtherRuns DEF HwNext
<1>3. QED BY <1>1, <1>2

\* For every list of tests: the runner leaves a robot that stands, but for the exceptions that
\* StoppedAtExit names, and succeeds only when the whole list has passed.
THEOREM ValidationHonestAlways == HwSpec => []ValidationHonest
<1>1. HwInv => PassIsEarned
  <2>1. SUFFICES ASSUME HwInv, code = 0 PROVE PassIsEarned BY DEF PassIsEarned
  <2>2. todo = <<>> /\ OverallPassed /\ at # "off" BY <2>1 DEF HwInv, RunnerPlace
  <2>3. PICK suite \in Suites[mode] : SuiteSplit(suite) BY <2>1, <2>2 DEF HwInv, Results
  <2>4. suite \in Seq(STRING) BY <2>1, <2>3, SuitesAssumption DEF HwInv, RunnerPlace
  <2>5. Len(ran) \in Nat BY <2>1 DEF HwInv, Results
  <2>6. Len(suite) = Len(ran) BY <2>2, <2>3, <2>5 DEF SuiteSplit
  <2>7. DOMAIN suite = 1..Len(ran) BY <2>4, <2>6
  <2>8. QED BY <2>2, <2>3, <2>6, <2>7 DEF PassIsEarned, OverallPassed, SuiteSplit
<1>2. HwInv => ValidationHonest BY <1>1 DEF HwInv, ValidationHonest
<1>3. QED BY <1>2, HwInitInv, HwStepInv, PTL DEF HwSpec

-------------------------------------------------------------------------------
\* A behaviour of the instance is one of each of the four, three of which stay as they began.
LEMMA ToolsAreOne == ToolsSpec => Spec /\ EepromSpec /\ ProvisioningSpec /\ HwSpec
<1>1. ToolsInit => Init /\ EepromInit /\ ProvisioningInit /\ HwInit BY DEF ToolsInit
<1>2. [ToolsNext]_<<program, vars, eepromVars, provisioningVars, hwVars>>
      => /\ [Next]_vars /\ [EepromNext]_eepromVars
         /\ [ProvisioningNext]_provisioningVars /\ [HwNext]_hwVars
  BY Zenon DEF ToolsNext
<1>3. QED BY <1>1, <1>2, PTL DEF ToolsSpec, Spec, EepromSpec, ProvisioningSpec, HwSpec

\* A tool that is cut short leaves nothing behind that a later run takes for something it is not,
\* in the payload's EEPROM or among the keys.
THEOREM ToolsLeaveOrderAlways == ToolsSpec => []ToolsLeaveOrder
<1>1. ToolsSpec => [](DescriptorSafe /\ KeysTraceable)
  BY ToolsAreOne, DescriptorSafeAlways, KeysTraceableAlways, PTL
<1>2. DescriptorSafe /\ KeysTraceable => ToolsLeaveOrder BY DEF ToolsLeaveOrder
<1>3. QED BY <1>1, <1>2, PTL

\* All that the run checks of the SDK's safety holds of the instance whatever the constants: the
\* client's view of a mission, the tools cut short, and the verdict of the validation runner.
THEOREM ToolsCorrect ==
  ToolsSpec => [](ClientSafety /\ ToolsLeaveOrder /\ ValidationHonest) /\ WaypointDoneFirst
<1>1. ToolsSpec => []ClientSafety BY ToolsAreOne, SpecClientSafety, PTL
<1>2. ToolsSpec => []ToolsLeaveOrder BY ToolsLeaveOrderAlways
<1>3. ToolsSpec => []ValidationHonest BY ToolsAreOne, ValidationHonestAlways, PTL
<1>4. ToolsSpec => WaypointDoneFirst BY ToolsAreOne, SpecWaypointDoneFirst, PTL
<1>5. QED BY <1>1, <1>2, <1>3, <1>4, PTL
===============================================================================
