--------------------------- MODULE Collection_proof ---------------------------
(***************************************************************************)
(* Proofs about ball collection, for every value of the constants: what    *)
(* the manager counts, and what the detectors and the tracker tell.        *)
(***************************************************************************)
EXTENDS MCCollection, FiniteSetTheorems, WellFoundedInduction, TLAPS

-------------------------------------------------------------------------------
(***************************************************************************)
(* The basket's count stays within its capacity, and no ball is counted    *)
(* without a completed pick.                                               *)
(***************************************************************************)

\* The number of balls counted is below the capacity wherever one more may be counted.
CapacityInv == basket \in Nat /\ CapacityRespected

\* An empty basket and an idle arm.
LEMMA InitInv == Init => CapacityInv /\ CountInv
BY CollectionAssumption, SMT DEF CollectionAssumption, Init, CapacityInv, CapacityRespected, CountInv

\* Steps of the action, of Nav2, the tracker, the battery and time do not touch the pick.
LEMMA OtherSteps ==
  ASSUME CapacityInv, CountInv,
         SendGoal \/ CancelGoal \/ Execute \/ Supervise \/ NavAnswers \/ OnBattery
           \/ (\E where \in {"same", "elsewhere", "nowhere"} : OnDetections(where)) \/ Tick
  PROVE  CapacityInv' /\ CountInv'
<1> USE CollectionAssumption DEF CollectionAssumption, CapacityInv, CapacityRespected, CountInv,
          stageVars, countVars, pickVars, navVars, goalVars, armVars
<1>1. CASE SendGoal \/ CancelGoal
  BY <1>1, SMT DEF SendGoal, CancelGoal, ActionFrame
<1>2. CASE Execute
  BY <1>2, SMT DEF Execute, ActionFrame
<1>3. CASE Supervise
  <2>1. stage' = "IDLE" /\ basket' = basket /\ UNCHANGED <<pickVars, arm, picked>>
    BY <1>3, SMT DEF Supervise, ActionFrame
  <2> QED  BY <2>1, SMT
<1>4. CASE NavAnswers
  <2>1. UNCHANGED <<stageVars, countVars, pickVars, arm, picked>>
    BY <1>4, SMT DEF NavAnswers, NavAccepted, NavRejected, NavResult, NavFrame
  <2> QED  BY <2>1, SMT
<1>5. CASE OnBattery \/ Tick \/ \E where \in {"same", "elsewhere", "nowhere"} : OnDetections(where)
  <2>1. UNCHANGED <<stage, countVars, pickVars, arm, picked>>
    BY <1>5, SMT DEF OnBattery, Tick, OnDetections
  <2> QED  BY <2>1, SMT
<1> QED  BY <1>1, <1>2, <1>3, <1>4, <1>5

\* The control timer, which alone counts balls and starts picks.
LEMMA LoopSteps ==
  ASSUME CapacityInv, CountInv, ControlLoop
  PROVE  CapacityInv' /\ CountInv'
<1> USE CollectionAssumption DEF CollectionAssumption, CapacityInv, CapacityRespected, CountInv,
          stageVars, countVars, pickVars, navVars, goalVars, armVars, LoopFrame, To, Stop
<1>1. CASE OverallTimesOut
  BY <1>1, SMT DEF OverallTimesOut
<1>2. CASE HandleSearching
  BY <1>2, SMT DEF HandleSearching
<1>3. CASE HandleApproaching
  BY <1>3, SMT DEF HandleApproaching, RequestArmPick
<1>4. CASE PickTimesOut
  BY <1>4, SMT DEF PickTimesOut
<1>5. CASE CountBall
  <2>1. basket < Capacity
    BY <1>5, SMT DEF CountBall
  <2>2. basket' = basket + 1 /\ UNCHANGED <<pickVars, arm>> /\ armStatus = "idle"
    BY <1>5, SMT DEF CountBall
  <2>3. stage' \in {"RETURNING", "SEARCHING"} /\ (basket' >= Capacity => stage' = "RETURNING")
    BY <1>5, SMT DEF CountBall
  <2> QED  BY <2>1, <2>2, <2>3, SMT
<1>6. CASE ArmSeenAtWork
  BY <1>6, SMT DEF ArmSeenAtWork
<1>7. CASE PickFailed
  BY <1>7, SMT DEF PickFailed, RequestArmPick
<1>8. CASE HandleReturning
  BY <1>8, SMT DEF HandleReturning
<1>9. CASE HandleDumping
  BY <1>9, SMT DEF HandleDumping
<1> QED
  BY <1>1, <1>2, <1>3, <1>4, <1>5, <1>6, <1>7, <1>8, <1>9 DEF ControlLoop

\* The arm at work, and its status on the way to the manager.
LEMMA ArmSteps ==
  ASSUME CapacityInv, CountInv, Arm \/ OnArmStatus
  PROVE  CapacityInv' /\ CountInv'
<1> USE DEF CapacityInv, CapacityRespected, CountInv, ArmFrame, SetState,
          stageVars, countVars, pickVars
<1>1. CASE StartPick
  BY <1>1, SMT DEF StartPick
<1>2. CASE Hold
  BY <1>2, SMT DEF Hold
<1>3. CASE Drop
  BY <1>3, SMT DEF Drop
<1>4. CASE Fail
  BY <1>4, SMT DEF Fail
<1>5. CASE OnArmStatus
  BY <1>5, SMT DEF OnArmStatus
<1> QED  BY <1>1, <1>2, <1>3, <1>4, <1>5 DEF Arm

\* Every step keeps both invariants.
LEMMA Step == CapacityInv /\ CountInv /\ [Next]_vars => CapacityInv' /\ CountInv'
<1> SUFFICES ASSUME CapacityInv, CountInv, [Next]_vars  PROVE CapacityInv' /\ CountInv'
  OBVIOUS
<1>1. CASE Next
  BY <1>1, OtherSteps, LoopSteps, ArmSteps DEF Next
<1>2. CASE UNCHANGED vars
  BY <1>2, SMT DEF vars, CapacityInv, CapacityRespected, CountInv, stageVars, countVars, pickVars,
                   armVars
<1> QED  BY <1>1, <1>2

\* They hold in every reachable state.
LEMMA Invariant == Spec => [](CapacityInv /\ CountInv)
BY InitInv, Step, PTL DEF Spec

\* collection_manager_node.py: no operation counts more balls into the basket than it holds.
THEOREM SpecCapacityRespected == Spec => []CapacityRespected
<1>1. CapacityInv => CapacityRespected
  BY DEF CapacityInv
<1> QED  BY Invariant, <1>1, PTL

\* The part of the invariant the counts rest on.
THEOREM SpecCountInv == Spec => []CountInv
BY Invariant, PTL

\* Only the control loop counts, and only in CountBall.
LEMMA OnlyCountBallCounts ==
  ASSUME total \in Nat, Next, total' > total
  PROVE  CountBall
<1> USE DEF stageVars, countVars, pickVars, navVars, goalVars, armVars
<1>1. ~ (SendGoal \/ CancelGoal \/ Execute \/ Supervise \/ NavAnswers \/ OnBattery \/ Tick
           \/ \E where \in {"same", "elsewhere", "nowhere"} : OnDetections(where))
  BY SMT DEF SendGoal, CancelGoal, Execute, Supervise, NavAnswers, NavAccepted, NavRejected,
             NavResult, NavFrame, OnBattery, Tick, OnDetections, ActionFrame
<1>2. ~ (Arm \/ OnArmStatus)
  BY SMT DEF Arm, StartPick, Hold, Drop, Fail, OnArmStatus, ArmFrame
<1>3. ControlLoop
  BY <1>1, <1>2 DEF Next
<1>4. ~ (OverallTimesOut \/ HandleSearching \/ PickTimesOut \/ ArmSeenAtWork \/ HandleReturning
           \/ HandleDumping)
  BY SMT DEF OverallTimesOut, HandleSearching, PickTimesOut, ArmSeenAtWork, HandleReturning,
             HandleDumping
<1>5. ~ (HandleApproaching \/ PickFailed)
  BY SMT DEF HandleApproaching, PickFailed
<1> QED  BY <1>3, <1>4, <1>5 DEF ControlLoop

\* The history counter is a number.
LEMMA TotalInNat == Spec => [](total \in Nat)
<1>1. Init => total \in Nat
  BY SMT DEF Init
<1>2. total \in Nat /\ [Next]_vars => (total \in Nat)'
  <2> SUFFICES ASSUME total \in Nat, [Next]_vars  PROVE total' \in Nat
    OBVIOUS
  <2> USE DEF stageVars, countVars, pickVars, navVars, goalVars, armVars
  <2>1. CASE SendGoal \/ CancelGoal \/ Execute \/ Supervise \/ NavAnswers \/ OnBattery \/ Tick
               \/ \E where \in {"same", "elsewhere", "nowhere"} : OnDetections(where)
    BY <2>1, SMT DEF SendGoal, CancelGoal, Execute, Supervise, NavAnswers, NavAccepted, NavRejected,
                NavResult, NavFrame, OnBattery, Tick, OnDetections, ActionFrame
  <2>2. CASE Arm \/ OnArmStatus
    BY <2>2, SMT DEF Arm, StartPick, Hold, Drop, Fail, OnArmStatus, ArmFrame
  <2>3. CASE ControlLoop
    <3>1. CASE OverallTimesOut \/ HandleSearching \/ PickTimesOut \/ ArmSeenAtWork
                 \/ HandleReturning \/ HandleDumping
      BY <3>1, SMT DEF OverallTimesOut, HandleSearching, PickTimesOut, ArmSeenAtWork,
                       HandleReturning, HandleDumping
    <3>2. CASE HandleApproaching \/ PickFailed \/ CountBall
      BY <3>2, SMT DEF HandleApproaching, PickFailed, CountBall
    <3> QED  BY <2>3, <3>1, <3>2 DEF ControlLoop
  <2>4. CASE UNCHANGED vars
    BY <2>4, SMT DEF vars
  <2> QED  BY <2>1, <2>2, <2>3, <2>4 DEF Next
<1> QED  BY <1>1, <1>2, PTL DEF Spec

\* Every ball counted stands for a pick the arm has completed since the ball before it.
THEOREM SpecCountedBallsPicked == Spec => CountedBallsPicked
<1>1. total \in Nat /\ CountInv /\ [Next]_vars => [total' > total => picked]_vars
  <2> SUFFICES ASSUME total \in Nat, CountInv, Next, total' > total  PROVE picked
    BY DEF vars
  <2>1. CountBall
    BY OnlyCountBallCounts
  <2> QED  BY <2>1, SMT DEF CountBall, Waiting, CountInv
<1> QED  BY <1>1, TotalInNat, SpecCountInv, PTL DEF Spec, CountedBallsPicked

-------------------------------------------------------------------------------
\* Four timeouts have a largest one, so time is counted up to a natural number.
LEMMA AgesAreNaturals == Ages \subseteq Nat /\ OpAges \subseteq Nat /\ 0 \in Ages /\ 0 \in OpAges
<1> DEFINE T == {SearchTimeout, PickTimeout, ReturnTimeout, DumpTimeout}
<1>1. T \subseteq Nat /\ OverallTimeout \in Nat
  BY CollectionAssumption DEF CollectionAssumption
<1>2. \E m \in T : \A n \in T : n <= m
  BY CollectionAssumption, SMT DEF CollectionAssumption
<1>3. Largest(T) \in T
  BY <1>2, Zenon DEF Largest
<1>4. Largest(T) \in Nat
  BY <1>1, <1>3
<1>5. Ages = 0 .. Largest(T) + 1
  BY DEF Ages
<1> HIDE DEF T
<1> QED  BY <1>1, <1>4, <1>5, SMT DEF OpAges

\* The stages, the times, the counts and the answers.
Values ==
  /\ stage \in CollectionStage /\ age \in Ages /\ opAge \in OpAges \cup {Unset}
  /\ total \in 0 .. CountCap /\ retries \in 0 .. MaxPickRetries + 1
  /\ armStatus \in ArmState /\ arm \in ArmState /\ picks \in 0 .. PickCap
  /\ nav \in {"none", "sent", "active", "stopping"}
  /\ exec \in Final \cup {"accepted", "running"}
  /\ frames \in 0 .. MinFrames

Flags ==
  /\ target \in BOOLEAN /\ lowBattery \in BOOLEAN /\ picked \in BOOLEAN
  /\ pickRequested \in BOOLEAN
  /\ done \in BOOLEAN /\ succeeded \in BOOLEAN /\ handle \in BOOLEAN /\ cancel \in BOOLEAN

\* An arm at work has a request to work on; after a retry that gave up no further one is tried.
Busy == (arm \in {"moving", "holding"} => picks > 0) /\ (stage = "PICKING" => retries <= MaxPickRetries)

\* The types hold at the start.
LEMMA InitValues == Init => Values /\ Busy /\ Flags
<1>1. Init => Values /\ Busy
  BY CollectionAssumption, AgesAreNaturals, SMT
     DEF CollectionAssumption, Init, Values, Busy, CollectionStage, ArmState, Final, Unset
<1>2. Init => Flags
  BY Zenon DEF Init, Flags
<1> QED  BY <1>1, <1>2

\* The steps outside the control timer and the arm keep the types.
LEMMA OtherValues ==
  ASSUME Values, Busy,
         SendGoal \/ CancelGoal \/ Execute \/ Supervise \/ NavAnswers \/ OnBattery
           \/ (\E where \in {"same", "elsewhere", "nowhere"} : OnDetections(where)) \/ Tick
  PROVE  Values' /\ Busy'
<1> USE CollectionAssumption, AgesAreNaturals
    DEF CollectionAssumption, Values, Busy, CollectionStage, ArmState, Final,
        stageVars, countVars, pickVars, navVars, goalVars, armVars
<1>1. CASE SendGoal \/ CancelGoal
  BY <1>1, SMT DEF SendGoal, CancelGoal, ActionFrame
<1>2. CASE Execute
  BY <1>2, SMT DEF Execute, ActionFrame
<1>3. CASE Supervise
  <2>1. nav' \in {nav, "stopping"}
    BY <1>3, SMT DEF Supervise, CancelNavigation
  <2>2. stage' = "IDLE" /\ exec' \in {"canceled", "aborted", "succeeded"}
    BY <1>3, SMT DEF Supervise
  <2>3. UNCHANGED <<age, opAge, total, retries, armStatus, arm, picks, frames>>
    BY <1>3, SMT DEF Supervise, ActionFrame
  <2> QED  BY <2>1, <2>2, <2>3, SMT
<1>4. CASE NavAnswers
  BY <1>4, SMT DEF NavAnswers, NavAccepted, NavRejected, NavResult, NavFrame
<1>5. CASE OnBattery
  BY <1>5, SMT DEF OnBattery
<1>6. CASE \E where \in {"same", "elsewhere", "nowhere"} : OnDetections(where)
  BY <1>6, SMT DEF OnDetections
<1>7. CASE Tick
  <2>1. age' \in Ages /\ opAge' \in OpAges \cup {Unset}
    BY <1>7, SMT DEF Tick, Older
  <2> QED  BY <1>7, <2>1, SMT DEF Tick
<1> QED  BY <1>1, <1>2, <1>3, <1>4, <1>5, <1>6, <1>7

\* So does the control timer ...
LEMMA LoopValues ==
  ASSUME Values, Busy, ControlLoop
  PROVE  Values' /\ Busy'
<1> USE CollectionAssumption, AgesAreNaturals
    DEF CollectionAssumption, Values, Busy, CollectionStage, ArmState,
        stageVars, countVars, pickVars, navVars, goalVars, armVars, LoopFrame, To, Stop,
        SendNav2, CancelNavigation, RequestArmPick
<1>1. CASE OverallTimesOut
  BY <1>1, SMT DEF OverallTimesOut
<1>2. CASE HandleSearching
  BY <1>2, SMT DEF HandleSearching
<1>3. CASE HandleApproaching
  BY <1>3, SMT DEF HandleApproaching
<1>4. CASE PickTimesOut
  BY <1>4, SMT DEF PickTimesOut
<1>5. CASE CountBall
  BY <1>5, SMT DEF CountBall
<1>6. CASE ArmSeenAtWork
  BY <1>6, SMT DEF ArmSeenAtWork
<1>7. CASE PickFailed
  BY <1>7, SMT DEF PickFailed, MayRetry
<1>8. CASE HandleReturning
  BY <1>8, SMT DEF HandleReturning
<1>9. CASE HandleDumping
  BY <1>9, SMT DEF HandleDumping
<1> QED
  BY <1>1, <1>2, <1>3, <1>4, <1>5, <1>6, <1>7, <1>8, <1>9 DEF ControlLoop

\* ... and the arm.
LEMMA ArmValues ==
  ASSUME Values, Busy, Arm \/ OnArmStatus
  PROVE  Values' /\ Busy'
<1> USE CollectionAssumption DEF CollectionAssumption, Values, Busy, ArmState, ArmFrame, SetState,
          stageVars, countVars, pickVars, navVars, goalVars
<1>1. CASE StartPick
  BY <1>1, SMT DEF StartPick
<1>2. CASE Hold
  BY <1>2, SMT DEF Hold
<1>3. CASE Drop
  BY <1>3, SMT DEF Drop
<1>4. CASE Fail
  BY <1>4, SMT DEF Fail
<1>5. CASE OnArmStatus
  BY <1>5, SMT DEF OnArmStatus
<1> QED  BY <1>1, <1>2, <1>3, <1>4, <1>5 DEF Arm

\* So does every step.
LEMMA ValuesStep == Values /\ Busy /\ [Next]_vars => Values' /\ Busy'
<1> SUFFICES ASSUME Values, Busy, [Next]_vars  PROVE Values' /\ Busy'
  OBVIOUS
<1>1. CASE Next
  BY <1>1, OtherValues, LoopValues, ArmValues DEF Next
<1>2. CASE UNCHANGED vars
  BY <1>2, SMT DEF vars, Values, Busy, stageVars, countVars, pickVars, navVars, goalVars, armVars
<1> QED  BY <1>1, <1>2

\* The flags and stages keep to their values.
LEMMA FlagsStep == Flags /\ [Next]_vars => Flags'
<1> SUFFICES ASSUME Flags, [Next]_vars  PROVE Flags'
  OBVIOUS
<1> USE DEF Flags, stageVars, countVars, pickVars, navVars, goalVars, armVars
<1>1. CASE SendGoal \/ CancelGoal \/ Execute \/ Supervise
  BY <1>1, Zenon DEF SendGoal, CancelGoal, Execute, Supervise, ActionFrame, CancelNavigation
<1>2. CASE NavAnswers
  BY <1>2, Zenon DEF NavAnswers, NavAccepted, NavRejected, NavResult, NavFrame
<1>3. CASE OnBattery \/ Tick
  BY <1>3, Zenon DEF OnBattery, Tick
<1>4. CASE \E where \in {"same", "elsewhere", "nowhere"} : OnDetections(where)
  BY <1>4, Zenon DEF OnDetections
<1>5. CASE ControlLoop
  <2> USE DEF LoopFrame, To, Stop, SendNav2, CancelNavigation, RequestArmPick
  <2>1. CASE OverallTimesOut \/ HandleSearching \/ PickTimesOut
    BY <2>1, Zenon DEF OverallTimesOut, HandleSearching, PickTimesOut
  <2>2. CASE HandleApproaching
    BY <2>2, Zenon DEF HandleApproaching
  <2>3. CASE CountBall
    BY <2>3, Zenon DEF CountBall
  <2>4. CASE ArmSeenAtWork \/ PickFailed
    BY <2>4, Zenon DEF ArmSeenAtWork, PickFailed
  <2>5. CASE HandleReturning \/ HandleDumping
    BY <2>5, Zenon DEF HandleReturning, HandleDumping
  <2> QED  BY <1>5, <2>1, <2>2, <2>3, <2>4, <2>5 DEF ControlLoop
<1>6. CASE Arm \/ OnArmStatus
  BY <1>6, Zenon DEF Arm, StartPick, Hold, Drop, Fail, OnArmStatus, ArmFrame
<1>7. CASE UNCHANGED vars
  <2>1. UNCHANGED <<target, lowBattery, picked, pickRequested, done, succeeded, handle, cancel>>
    BY <1>7, SMT DEF vars
  <2> QED  BY <2>1, Zenon
<1> QED  BY <1>1, <1>2, <1>3, <1>4, <1>5, <1>6, <1>7 DEF Next

\* collection_manager_node.py: types and counts, for every capacity, timeout and number of retries.
THEOREM SpecCollectionSafety == Spec => []CollectionSafety
<1>1. Values /\ Flags /\ CapacityInv => CollectionSafety
  BY Zenon DEF Values, Flags, CapacityInv, CollectionSafety, TypeOK
<1> QED  BY Invariant, InitValues, ValuesStep, FlagsStep, <1>1, PTL DEF Spec

-------------------------------------------------------------------------------
(***************************************************************************)
(* The accelerator is given back, a target was seen in the frames it       *)
(* takes, and of overlapping boxes the best one is left.                   *)
(***************************************************************************)

\* Induction over numbers: every set of them that is not empty has a least element.
LEMMA LeastNat ==
  ASSUME NEW T \in SUBSET Nat, T # {}
  PROVE  \E m \in T : \A k \in T : m <= k
<1> DEFINE Less == OpToRel(<, Nat)
<1>1. \A a, b \in Nat : a < b => <<a, b>> \in Less BY DEF OpToRel
<1>2. IsWellFoundedOn(Less, Nat) BY NatLessThanWellFounded
<1> HIDE DEF Less
<1>3. PICK m \in T : \A k \in T : ~ (<<k, m>> \in Less) BY <1>2, WFMin
<1>4. \A k \in T : ~ (k < m) BY <1>1, <1>3
<1>5. QED BY <1>4

\* Boxes are numbered from 1 on.
LEMMA BoxNumbers == Boxes \subseteq Nat \ {0} /\ Cardinality(Boxes) \in Nat
                    /\ \A b \in Boxes : b <= Cardinality(Boxes)
<1>1. Cardinality(Boxes) \in Nat BY PerceptionAssumption, FS_CardinalityType
<1>2. QED BY <1>1, PerceptionAssumption

-----------------------------------------------------------------------------
\* A choice of boxes is right for one of them: it is in exactly when no chosen
\* one with a higher score overlaps it.
Right(boxes, kept, b) ==
  b \in kept <=> b \in boxes /\ \A a \in Boxes : a < b /\ a \in kept => <<a, b>> \notin Overlap

\* A choice that is right for the boxes up to n can be made right for one more.
LEMMA OneMore ==
  ASSUME NEW boxes \in SUBSET Boxes, NEW n \in Nat, NEW kept \in SUBSET boxes,
         \A b \in Boxes : b <= n => Right(boxes, kept, b)
  PROVE  \E more \in SUBSET boxes : \A b \in Boxes : b <= n + 1 => Right(boxes, more, b)
<1> DEFINE low == {a \in kept : a <= n}
           clear == n + 1 \in boxes /\ \A a \in low : <<a, n + 1>> \notin Overlap
           more == IF clear THEN low \cup {n + 1} ELSE low
<1>1. more \in SUBSET boxes OBVIOUS
<1>2. \A a \in Boxes : a <= n => (a \in more <=> a \in kept) BY BoxNumbers
<1>3. ASSUME NEW b \in Boxes, b <= n + 1 PROVE Right(boxes, more, b)
  <2>1. b \in Nat BY BoxNumbers
  <2>2. CASE b <= n
    <3>1. \A a \in Boxes : a < b => a <= n BY <2>1, <2>2, BoxNumbers
    <3>2. Right(boxes, kept, b) BY <2>2
    <3> HIDE DEF more
    <3>3. QED BY <1>2, <2>2, <3>1, <3>2, Zenon DEF Right
  <2>3. CASE b = n + 1
    <3>1. b \in more <=> clear BY <2>3
    <3>2. \A a \in Boxes : a < b /\ a \in more <=> a \in low
      BY <2>3, BoxNumbers
    <3>3. low \subseteq Boxes OBVIOUS
    <3>4. clear <=> b \in boxes /\ \A a \in low : <<a, b>> \notin Overlap BY <2>3
    <3> HIDE DEF more, low, clear
    <3>5. QED BY <3>1, <3>2, <3>3, <3>4, Zenon DEF Right
  <2>4. QED BY <1>3, <2>1, <2>2, <2>3
<1> HIDE DEF more
<1>4. QED BY <1>1, <1>3

\* There is a right choice of the boxes that stay, by induction over their number.
LEMMA RightChoice ==
  ASSUME NEW boxes \in SUBSET Boxes
  PROVE  \E kept \in SUBSET boxes : \A b \in Boxes : Right(boxes, kept, b)
<1> DEFINE UpTo(n) == \E kept \in SUBSET boxes : \A b \in Boxes : b <= n => Right(boxes, kept, b)
           Bad == {n \in Nat : ~ UpTo(n)}
<1>1. UpTo(0)
  <2>1. \A b \in Boxes : ~ (b <= 0) BY BoxNumbers
  <2>2. QED BY <2>1, Zenon
<1>2. ASSUME NEW n \in Nat, UpTo(n) PROVE UpTo(n + 1)
  <2>1. PICK kept \in SUBSET boxes : \A b \in Boxes : b <= n => Right(boxes, kept, b)
    BY <1>2
  <2>2. QED BY <2>1, OneMore
<1> HIDE DEF UpTo
<1>3. Bad = {}
  <2>1. SUFFICES ASSUME Bad # {} PROVE FALSE OBVIOUS
  <2>2. Bad \in SUBSET Nat OBVIOUS
  <2>3. PICK m \in Bad : \A k \in Bad : m <= k BY <2>1, <2>2, LeastNat
  <2>4. m \in Nat /\ ~ UpTo(m) OBVIOUS
  <2>5. m # 0 BY <1>1, <2>4
  <2>6. m - 1 \in Nat /\ (m - 1) + 1 = m /\ ~ (m <= m - 1) BY <2>4, <2>5
  <2>7. m - 1 \notin Bad BY <2>3, <2>6
  <2>8. UpTo(m - 1) BY <2>6, <2>7
  <2>9. UpTo((m - 1) + 1) BY <1>2, <2>6, <2>8
  <2>10. QED BY <2>4, <2>6, <2>9
<1>4. UpTo(Cardinality(Boxes)) BY <1>3, BoxNumbers
<1>5. QED BY <1>4, BoxNumbers DEF UpTo

\* _nms, for every set of boxes and every overlap: a box stays exactly when no better box that
\* stays overlaps it.
THEOREM NmsRight ==
  ASSUME NEW boxes \in SUBSET Boxes
  PROVE  Nms(boxes) \in SUBSET boxes /\ \A b \in Boxes : Right(boxes, Nms(boxes), b)
<1> DEFINE Eq(f) == f = [b \in Boxes |->
                          /\ b \in boxes
                          /\ \A a \in {x \in Boxes : x < b} : f[a] => <<a, b>> \notin Overlap]
           g == CHOOSE f : Eq(f)
<1>1. PICK kept \in SUBSET boxes : \A b \in Boxes : Right(boxes, kept, b) BY RightChoice
<1>2. Eq([b \in Boxes |-> b \in kept])
  <2> DEFINE f == [b \in Boxes |-> b \in kept]
  <2>1. f \in [Boxes -> BOOLEAN] /\ \A b \in Boxes : f[b] = (b \in kept) OBVIOUS
  <2> HIDE DEF f
  <2>2. \A b \in Boxes :
           f[b] = (/\ b \in boxes
                   /\ \A a \in {x \in Boxes : x < b} : f[a] => <<a, b>> \notin Overlap)
    <3> SUFFICES ASSUME NEW b \in Boxes
                 PROVE  f[b] = (/\ b \in boxes
                                /\ \A a \in {x \in Boxes : x < b} : f[a] => <<a, b>> \notin Overlap)
      OBVIOUS
    <3> DEFINE stays == /\ b \in boxes
                        /\ \A a \in {x \in Boxes : x < b} : f[a] => <<a, b>> \notin Overlap
    <3>1. Right(boxes, kept, b) BY <1>1
    <3>2. f[b] <=> stays BY <2>1, <3>1, Zenon DEF Right
    <3>3. f[b] \in BOOLEAN BY <2>1
    <3>4. stays \in BOOLEAN OBVIOUS
    <3> HIDE DEF stays
    <3>5. f[b] = stays BY <3>2, <3>3, <3>4
    <3>6. QED BY <3>5 DEF stays
  <2>3. f = [b \in Boxes |-> f[b]] BY DEF f
  <2>4. QED BY <2>2, <2>3, Zenon DEF f
<1>3. Eq(g)
  <2> HIDE DEF Eq
  <2>1. QED BY <1>2, Zenon
<1>4. Nms(boxes) = {b \in boxes : g[b]} BY DEF Nms
<1> HIDE DEF g
<1>5. \A b \in Boxes : g[b] <=> b \in boxes
          /\ \A a \in {x \in Boxes : x < b} : g[a] => <<a, b>> \notin Overlap
  BY <1>3
<1> HIDE DEF Eq
<1>6. Nms(boxes) \in SUBSET boxes BY <1>4
<1>7. \A b \in Boxes : b \in Nms(boxes) <=> g[b] BY <1>4, <1>5, Zenon
<1>8. QED BY <1>5, <1>6, <1>7, Zenon DEF Right

-----------------------------------------------------------------------------
Frames == [n : Nat, boxes : SUBSET Boxes]
Messages == [n : Nat, frame : SUBSET Boxes, boxes : SUBSET Boxes]

PerceptionTypes ==
  /\ detector \in {"hailo", "cv"} /\ node \in {"off", "init", "running", "down"}
  /\ frame \in Frames /\ latest \in Frames /\ found \in Seq(Messages)
  /\ counted.count \in Nat
  /\ support \in SUBSET Nat /\ IsFiniteSet(support)

\* A message of the Hailo node.
Thinned(m) ==
  /\ \A a, b \in m.boxes : a # b => <<a, b>> \notin Overlap
  /\ \A b \in m.frame \ m.boxes : \E a \in m.boxes : a < b /\ <<a, b>> \in Overlap

\* The detector that answers each frame once sends its messages in the order of the
\* frames, and what is counted is older than what is still to be read.
InOrder ==
  /\ \A k \in DOMAIN found : found[k].n <= frame.n
  /\ \A j, k \in DOMAIN found : j < k => found[j].n < found[k].n
  /\ \A s \in support : s <= frame.n /\ \A k \in DOMAIN found : s < found[k].n

\* What is counted was seen in as many frames.
Seen == Cardinality(support) >= counted.count

PerceptionInv ==
  /\ PerceptionTypes /\ DeviceReleased /\ TargetsSeen
  /\ detector = "hailo" => \A k \in DOMAIN found : Thinned(found[k])
  /\ detector = "cv" => InOrder /\ Seen

\* The invariant gives the property.
LEMMA PerceptionInvHonest == PerceptionInv => PerceptionHonest
BY Zenon DEF PerceptionInv, PerceptionHonest, BoxesThinned, Thinned

\* What the Hailo node publishes is thinned.
LEMMA NmsThins ==
  ASSUME NEW m \in Messages, m.boxes = Nms(m.frame) PROVE Thinned(m)
<1>1. m.frame \in SUBSET Boxes BY DEF Messages
<1> DEFINE boxes == m.boxes
<1>2. boxes \in SUBSET m.frame /\ \A b \in Boxes : Right(m.frame, boxes, b)
  BY <1>1, NmsRight
<1>3. ASSUME NEW a \in boxes, NEW b \in boxes, a < b PROVE <<a, b>> \notin Overlap
  <2>1. a \in Boxes /\ b \in Boxes /\ Right(m.frame, boxes, b) BY <1>1, <1>2
  <2>2. QED BY <1>3, <2>1, Zenon DEF Right
<1>4. ASSUME NEW a \in boxes, NEW b \in boxes, a # b PROVE <<a, b>> \notin Overlap
  <2>1. a \in Boxes /\ b \in Boxes BY <1>1, <1>2
  <2>2. a < b \/ b < a
    <3>1. a \in Nat /\ b \in Nat BY <2>1, BoxNumbers
    <3>2. QED BY <1>4, <3>1
  <2>3. CASE a < b BY <1>3, <2>3
  <2>4. CASE b < a
    <3>1. <<b, a>> \notin Overlap BY <1>3, <2>4
    <3>2. QED BY <2>1, <3>1, PerceptionAssumption
  <2>5. QED BY <2>2, <2>3, <2>4
<1>5. ASSUME NEW b \in m.frame \ boxes PROVE \E a \in boxes : a < b /\ <<a, b>> \in Overlap
  <2>1. b \in Boxes /\ Right(m.frame, boxes, b) BY <1>1, <1>2
  <2>2. QED BY <2>1, Zenon DEF Right
<1>6. QED BY <1>4, <1>5, Zenon DEF Thinned

\* The queue without its first message.
LEMMA TailFacts ==
  ASSUME NEW S, NEW q \in Seq(S), q # <<>>
  PROVE  /\ Tail(q) \in Seq(S) /\ Len(Tail(q)) = Len(q) - 1
         /\ \A k \in 1..(Len(q) - 1) : Tail(q)[k] = q[k + 1]
OBVIOUS

\* A queue that takes one message more, and what of it is where.
LEMMA AppendPlaces ==
  ASSUME NEW S, NEW q \in Seq(S), NEW m \in S
  PROVE  \A k \in DOMAIN Append(q, m) :
           IF k = Len(Append(q, m)) THEN Append(q, m)[k] = m
           ELSE k \in DOMAIN q /\ Append(q, m)[k] = q[k]
<1>1. Len(q) \in Nat /\ DOMAIN q = 1..Len(q) OBVIOUS
<1>2. DOMAIN Append(q, m) = 1..(Len(q) + 1) /\ Len(Append(q, m)) = Len(q) + 1 OBVIOUS
<1>3. \A l \in Nat : \A k \in 1..(l + 1) : k # l + 1 => k \in 1..l OBVIOUS
<1>4. \A k \in 1..Len(q) : Append(q, m)[k] = q[k] OBVIOUS
<1>5. Append(q, m)[Len(q) + 1] = m OBVIOUS
<1>6. QED BY <1>1, <1>2, <1>3, <1>4, <1>5, Zenon

\* The queue after a message was published: the old ones, perhaps without the first,
\* and the new one.
LEMMA Queued ==
  ASSUME NEW S, NEW q \in Seq(S), NEW m \in S
  PROVE  LET new == Append(IF Len(q) < Depth THEN q ELSE Tail(q), m)
         IN  /\ new \in Seq(S) /\ Len(new) \in Nat /\ DOMAIN new = 1..Len(new)
             /\ \E d \in {0, 1} : \A k \in DOMAIN new :
                  IF k = Len(new) THEN new[k] = m
                  ELSE k + d \in DOMAIN q /\ new[k] = q[k + d]
<1> DEFINE kept == IF Len(q) < Depth THEN q ELSE Tail(q)
           new == Append(kept, m)
<1>1. Len(q) \in Nat /\ DOMAIN q = 1..Len(q) OBVIOUS
<1>2. ~ (Len(q) < Depth) => q # <<>>
  <2>1. Depth \in Nat \ {0} BY PerceptionAssumption
  <2>2. ~ (Len(q) < Depth) => Len(q) > 0 BY <1>1, <2>1
  <2>3. QED BY <2>2
<1>3. kept \in Seq(S) BY <1>2, TailFacts, Zenon
<1>4. \E d \in {0, 1} : \A k \in DOMAIN kept : k + d \in DOMAIN q /\ kept[k] = q[k + d]
  <2>1. CASE Len(q) < Depth
    <3>1. \A k \in DOMAIN q : k + 0 = k BY <1>1
    <3>2. kept = q BY <2>1
    <3>3. QED BY <3>1, <3>2, Zenon
  <2>2. CASE ~ (Len(q) < Depth)
    <3>1. kept = Tail(q) BY <2>2
    <3>2. /\ Tail(q) \in Seq(S) /\ Len(Tail(q)) = Len(q) - 1
          /\ \A k \in 1..(Len(q) - 1) : Tail(q)[k] = q[k + 1]
      BY <1>2, <2>2, TailFacts, Zenon
    <3>3. DOMAIN Tail(q) = 1..(Len(q) - 1)
      <4>1. DOMAIN Tail(q) = 1..Len(Tail(q)) BY <3>2
      <4>2. QED BY <3>2, <4>1, Zenon
    <3>4. \A l \in Nat : \A k \in 1..(l - 1) : k + 1 \in 1..l OBVIOUS
    <3> HIDE DEF kept
    <3>5. \A k \in DOMAIN kept : k + 1 \in DOMAIN q /\ kept[k] = q[k + 1]
      BY <1>1, <3>1, <3>2, <3>3, <3>4, Zenon
    <3>6. QED BY <3>5, Zenon
  <2>3. QED BY <2>1, <2>2
<1> HIDE DEF kept
<1>5. new \in Seq(S) BY <1>3
<1>6. Len(new) \in Nat /\ DOMAIN new = 1..Len(new)
  <2> HIDE DEF new
  <2>1. QED BY <1>5
<1>7. \A k \in DOMAIN new : IF k = Len(new) THEN new[k] = m
                            ELSE k \in DOMAIN kept /\ new[k] = kept[k]
  BY <1>3, AppendPlaces
<1>8. \E d \in {0, 1} : \A k \in DOMAIN new :
         IF k = Len(new) THEN new[k] = m ELSE k + d \in DOMAIN q /\ new[k] = q[k + d]
  <2> HIDE DEF new
  <2>1. QED BY <1>4, <1>7, Zenon
<1>9. QED BY <1>5, <1>6, <1>8, Zenon DEF kept

\* The invariant holds before a detector runs.
LEMMA PerceptionInitInv == PerceptionInit => PerceptionInv
<1> SUFFICES ASSUME PerceptionInit PROVE PerceptionInv OBVIOUS
<1>1. None \in Frames BY DEF None, Frames
<1>2. Nothing.count = 0 /\ 0 \in Nat BY DEF Nothing
<1>3. IsFiniteSet({}) /\ Cardinality({}) = 0 BY FS_EmptySet
<1>4. <<>> \in Seq(Messages) /\ DOMAIN <<>> = {} OBVIOUS
<1>5. PerceptionTypes BY <1>1, <1>2, <1>3, <1>4, Zenon DEF PerceptionInit, PerceptionTypes
<1>6. DeviceReleased /\ TargetsSeen BY DEF PerceptionInit, DeviceReleased, TargetsSeen
<1>7. Seen
  <2>1. support = {} /\ counted.count = 0 BY <1>2 DEF PerceptionInit
  <2>2. QED BY <1>3, <2>1 DEF Seen
<1>8. InOrder
  <2>1. support = {} /\ DOMAIN found = {} BY <1>4 DEF PerceptionInit
  <2>2. QED BY <2>1, Zenon DEF InOrder
<1>9. \A k \in DOMAIN found : Thinned(found[k]) BY <1>4 DEF PerceptionInit
<1>10. QED BY <1>5, <1>6, <1>7, <1>8, <1>9, Zenon DEF PerceptionInv

-----------------------------------------------------------------------------
\* The life of the node touches neither the frames nor what is counted.
LEMMA NodeLifeHonest ==
  ASSUME PerceptionInv, Launch \/ LoadStep \/ LoadFails \/ KilledInInit \/ DestroyNode
  PROVE  PerceptionInv'
<1>1. UNCHANGED <<detector, frame, latest, found, counted, support, tracked>>
  BY Zenon DEF Launch, LoadStep, LoadFails, KilledInInit, DestroyNode, trackerVars
<1>2. node' \in {"off", "init", "running", "down"}
  BY DEF Launch, LoadStep, LoadFails, KilledInInit, DestroyNode
<1>3. node' = "down" => killed' \/ (~ vdevice' /\ ~ pipeline')
  BY DEF Launch, LoadStep, LoadFails, KilledInInit, DestroyNode
<1>4. PerceptionTypes' BY <1>1, <1>2, Zenon DEF PerceptionInv, PerceptionTypes
<1>5. DeviceReleased' BY <1>3 DEF DeviceReleased
<1>6. TargetsSeen' BY <1>1, Zenon DEF PerceptionInv, TargetsSeen
<1>7. InOrder = InOrder' /\ Seen = Seen' BY <1>1, Zenon DEF InOrder, Seen
<1>8. QED BY <1>1, <1>4, <1>5, <1>6, <1>7, Zenon DEF PerceptionInv, Thinned

\* A message of a frame newer than all before it.
LEMMA SendsInOrder ==
  ASSUME PerceptionTypes, InOrder, NEW m \in Messages, frame' \in Frames, frame.n < frame'.n,
         m.n = frame'.n, support' = support,
         found' = Append(IF Len(found) < Depth THEN found ELSE Tail(found), m)
  PROVE  InOrder'
<1>1. found \in Seq(Messages) BY DEF PerceptionTypes
<1>2. /\ DOMAIN found' = 1..Len(found') /\ Len(found') \in Nat
      /\ \E d \in {0, 1} : \A k \in DOMAIN found' :
           IF k = Len(found') THEN found'[k] = m
           ELSE k + d \in DOMAIN found /\ found'[k] = found[k + d]
  BY <1>1, Queued
<1>3. PICK d \in {0, 1} : \A k \in DOMAIN found' :
           IF k = Len(found') THEN found'[k] = m
           ELSE k + d \in DOMAIN found /\ found'[k] = found[k + d]
  BY <1>2
<1>4. \A k \in DOMAIN found : found[k].n \in Nat
  <2>1. \A S : \A q \in Seq(S) : \A k \in DOMAIN q : q[k] \in S OBVIOUS
  <2>2. \A x \in Messages : x.n \in Nat BY DEF Messages
  <2>3. QED BY <1>1, <2>1, <2>2, Zenon
<1>5. frame.n \in Nat /\ frame'.n \in Nat BY DEF PerceptionTypes, Frames
<1>6. support \subseteq Nat BY DEF PerceptionTypes
<1>7. \A k \in DOMAIN found' : k # Len(found')
                                 => k + d \in DOMAIN found /\ found'[k].n = found[k + d].n
  BY <1>3, Zenon
<1>8. \A k \in DOMAIN found' : k = Len(found') => found'[k].n = frame'.n BY <1>3, Zenon
<1>9. \A k \in DOMAIN found' : found'[k].n <= frame'.n /\ found'[k].n \in Nat
  <2> SUFFICES ASSUME NEW k \in DOMAIN found'
               PROVE  found'[k].n <= frame'.n /\ found'[k].n \in Nat
    OBVIOUS
  <2>1. CASE k = Len(found') BY <1>5, <1>8, <2>1
  <2>2. CASE k # Len(found')
    <3>1. k + d \in DOMAIN found /\ found'[k].n = found[k + d].n BY <1>7, <2>2
    <3>2. found[k + d].n <= frame.n /\ found[k + d].n \in Nat
      BY <1>4, <3>1, Zenon DEF InOrder
    <3>3. QED BY <1>5, <3>1, <3>2
  <2>3. QED BY <2>1, <2>2
<1>10. ASSUME NEW j \in DOMAIN found', NEW k \in DOMAIN found', j < k
       PROVE  found'[j].n < found'[k].n
  <2>1. j # Len(found') BY <1>2, <1>10
  <2>2. j + d \in DOMAIN found /\ found'[j].n = found[j + d].n BY <1>7, <2>1
  <2>3. CASE k = Len(found')
    <3>1. found[j + d].n <= frame.n /\ found[j + d].n \in Nat
      BY <1>4, <2>2, Zenon DEF InOrder
    <3>2. QED BY <1>5, <1>8, <2>2, <2>3, <3>1
  <2>4. CASE k # Len(found')
    <3>1. k + d \in DOMAIN found /\ found'[k].n = found[k + d].n BY <1>7, <2>4
    <3>2. j + d < k + d BY <1>2, <1>10
    <3>3. QED BY <2>2, <3>1, <3>2, Zenon DEF InOrder
  <2>5. QED BY <2>3, <2>4
<1>11. ASSUME NEW s \in support'
       PROVE  s <= frame'.n /\ \A k \in DOMAIN found' : s < found'[k].n
  <2>1. s \in Nat /\ s <= frame.n /\ \A k \in DOMAIN found : s < found[k].n
    BY <1>6 DEF InOrder
  <2>2. ASSUME NEW k \in DOMAIN found' PROVE s < found'[k].n
    <3>1. CASE k = Len(found') BY <1>5, <1>8, <2>1, <3>1
    <3>2. CASE k # Len(found') BY <1>7, <2>1, <3>2, Zenon
    <3>3. QED BY <3>1, <3>2
  <2>3. QED BY <1>5, <2>1, <2>2
<1>12. QED BY <1>9, <1>10, <1>11, Zenon DEF InOrder

\* Frames go on, and the queue stays: the numbers stay below the frame's.
LEMMA StaysInOrder ==
  ASSUME PerceptionTypes, InOrder, frame' \in Frames, frame.n < frame'.n,
         support' = support, found' = found
  PROVE  InOrder'
<1>1. frame.n \in Nat /\ frame'.n \in Nat BY DEF PerceptionTypes, Frames
<1>2. \A k \in DOMAIN found : found[k].n \in Nat
  <2>1. found \in Seq(Messages) BY DEF PerceptionTypes
  <2>2. \A S : \A q \in Seq(S) : \A k \in DOMAIN q : q[k] \in S OBVIOUS
  <2>3. \A x \in Messages : x.n \in Nat BY DEF Messages
  <2>4. QED BY <2>1, <2>2, <2>3, Zenon
<1>3. support \subseteq Nat BY DEF PerceptionTypes
<1>4. \A n \in Nat : n <= frame.n => n <= frame'.n BY <1>1
<1>5. QED BY <1>2, <1>3, <1>4, Zenon DEF InOrder

\* A frame, which the detector without an accelerator looks at and publishes.
LEMMA CameraFrameHonest == ASSUME PerceptionInv, CameraFrame PROVE PerceptionInv'
<1>1. PICK boxes \in SUBSET Boxes : frame' = [n |-> frame.n + 1, boxes |-> boxes]
  BY DEF CameraFrame
<1>2. /\ (node = "running" /\ ImageCallback) \/ UNCHANGED <<latest, found>>
      /\ UNCHANGED <<detector, node, available, loaded, vdevice, pipeline, killed,
                     counted, support, tracked>>
  BY Zenon DEF CameraFrame, deviceVars, trackerVars
<1>3. frame \in Frames /\ frame.n \in Nat BY DEF PerceptionInv, PerceptionTypes, Frames
<1>4. frame' \in Frames /\ frame.n < frame'.n /\ frame'.boxes \in SUBSET Boxes
  BY <1>1, <1>3 DEF Frames
<1>5. latest' \in {latest, frame'} BY <1>2 DEF ImageCallback
<1> DEFINE m == [n |-> frame'.n, frame |-> frame'.boxes, boxes |-> frame'.boxes]
<1>6. m \in Messages BY <1>4 DEF Frames, Messages
<1>7. \/ found' = found
      \/ /\ detector # "hailo"
         /\ found' = Append(IF Len(found) < Depth THEN found ELSE Tail(found), m)
  BY <1>2, Zenon DEF ImageCallback, Publish
<1>8. m.n = frame'.n OBVIOUS
<1> HIDE DEF m
<1>9. found \in Seq(Messages) BY DEF PerceptionInv, PerceptionTypes
<1>10. found' \in Seq(Messages) BY <1>6, <1>7, <1>9, Queued, Zenon
<1>11. latest' \in Frames BY <1>4, <1>5 DEF PerceptionInv, PerceptionTypes
<1>12. PerceptionTypes'
  BY <1>2, <1>4, <1>10, <1>11, Zenon DEF PerceptionInv, PerceptionTypes
<1>13. DeviceReleased' /\ TargetsSeen'
  BY <1>2, Zenon DEF PerceptionInv, DeviceReleased, TargetsSeen
<1>14. detector' = "hailo" => \A k \in DOMAIN found' : Thinned(found'[k])
  BY <1>2, <1>7, Zenon DEF PerceptionInv
<1>15. detector' = "cv" => InOrder' /\ Seen'
  <2> SUFFICES ASSUME detector = "cv" PROVE InOrder' /\ Seen' BY <1>2
  <2>1. PerceptionTypes /\ InOrder /\ Seen BY DEF PerceptionInv
  <2>2. Seen' BY <1>2, <2>1, Zenon DEF Seen
  <2> HIDE DEF PerceptionInv
  <2>3. CASE found' = found
    <3>1. support' = support BY <1>2
    <3>2. QED BY <1>4, <2>1, <2>2, <2>3, <3>1, StaysInOrder, Zenon
  <2>4. CASE found' = Append(IF Len(found) < Depth THEN found ELSE Tail(found), m)
    <3>1. support' = support BY <1>2
    <3>2. QED BY <1>4, <1>6, <1>8, <2>1, <2>2, <2>4, <3>1, SendsInOrder, Zenon
  <2>5. QED BY <1>7, <2>2, <2>3, <2>4
<1>16. QED BY <1>12, <1>13, <1>14, <1>15, Zenon DEF PerceptionInv, Thinned

\* The inference timer of the Hailo node.
LEMMA InferenceCallbackHonest == ASSUME PerceptionInv, InferenceCallback PROVE PerceptionInv'
<1> DEFINE m == [n |-> latest.n, frame |-> latest.boxes, boxes |-> Nms(latest.boxes)]
<1>1. /\ detector = "hailo"
      /\ found' = Append(IF Len(found) < Depth THEN found ELSE Tail(found), m)
      /\ UNCHANGED <<detector, node, available, loaded, vdevice, pipeline, killed, frame,
                     latest, counted, support, tracked>>
  BY Zenon DEF InferenceCallback, Publish, deviceVars, trackerVars
<1>2. latest.n \in Nat /\ latest.boxes \in SUBSET Boxes
  BY DEF PerceptionInv, PerceptionTypes, Frames
<1>3. Nms(latest.boxes) \in SUBSET Boxes BY <1>2, NmsRight, Zenon
<1>4. m \in Messages BY <1>2, <1>3 DEF Messages
<1>5. Thinned(m) BY <1>4, NmsThins
<1> HIDE DEF m
<1>6. found \in Seq(Messages) BY DEF PerceptionInv, PerceptionTypes
<1>7. /\ found' \in Seq(Messages)
      /\ \E d \in {0, 1} : \A k \in DOMAIN found' :
           IF k = Len(found') THEN found'[k] = m
           ELSE k + d \in DOMAIN found /\ found'[k] = found[k + d]
  BY <1>1, <1>4, <1>6, Queued
<1>8. \A k \in DOMAIN found' : Thinned(found'[k])
  <2>1. \A k \in DOMAIN found : Thinned(found[k]) BY <1>1 DEF PerceptionInv
  <2>2. QED BY <1>5, <1>7, <2>1, Zenon
<1>9. PerceptionTypes' BY <1>1, <1>7, Zenon DEF PerceptionInv, PerceptionTypes
<1>10. DeviceReleased' /\ TargetsSeen'
  BY <1>1, Zenon DEF PerceptionInv, DeviceReleased, TargetsSeen
<1>11. "hailo" # "cv" OBVIOUS
<1>12. QED BY <1>1, <1>8, <1>9, <1>10, <1>11, Zenon DEF PerceptionInv, Thinned

\* A finite set of numbers that gets one more has one more; it is not empty.
LEMMA OneMoreFrame ==
  ASSUME NEW S \in SUBSET Nat, IsFiniteSet(S), NEW n \in Nat
  PROVE  /\ S \cup {n} \in SUBSET Nat /\ IsFiniteSet(S \cup {n})
         /\ Cardinality(S) \in Nat /\ Cardinality(S \cup {n}) \in Nat
         /\ Cardinality(S \cup {n}) >= 1
         /\ n \notin S => Cardinality(S \cup {n}) = Cardinality(S) + 1
<1>1. IsFiniteSet(S \cup {n}) BY FS_AddElement
<1>2. Cardinality(S) \in Nat /\ Cardinality(S \cup {n}) \in Nat BY <1>1, FS_CardinalityType
<1>3. n \notin S => Cardinality(S \cup {n}) = Cardinality(S) + 1 BY FS_AddElement
<1>4. Cardinality(S \cup {n}) # 0 BY <1>1, FS_EmptySet
<1>5. Cardinality(S \cup {n}) >= 1 BY <1>2, <1>4
<1>6. QED BY <1>1, <1>2, <1>3, <1>5

\* The tracker counts frames for a target, or begins anew.
LEMMA TrackDetectionsHonest == ASSUME PerceptionInv, TrackDetections PROVE PerceptionInv'
<1> DEFINE m == Head(found)
           balls == Balls(m)
           key == Closest(balls)
           grown == (IF counted.key = key THEN support ELSE {}) \cup {m.n}
<1>1. /\ found # <<>> /\ found' = Tail(found)
      /\ UNCHANGED <<detector, node, available, loaded, vdevice, pipeline, killed, frame, latest>>
  BY DEF TrackDetections, deviceVars
<1>2. found \in Seq(Messages) /\ counted.count \in Nat
  BY DEF PerceptionInv, PerceptionTypes
<1>3. /\ Tail(found) \in Seq(Messages) /\ Len(Tail(found)) = Len(found) - 1
      /\ \A k \in 1..(Len(found) - 1) : Tail(found)[k] = found[k + 1]
  BY <1>1, <1>2, TailFacts, Zenon
<1>4. /\ DOMAIN found = 1..Len(found) /\ Len(found) \in Nat \ {0} /\ m = found[1]
      /\ 1 \in DOMAIN found
  <2>1. DOMAIN found = 1..Len(found) /\ Len(found) \in Nat BY <1>2
  <2>2. Len(found) # 0 BY <1>1, <1>2
  <2>3. Len(found) \in Nat \ {0} BY <2>1, <2>2
  <2>4. 1 \in DOMAIN found BY <2>1, <2>3
  <2>5. m = found[1] BY <1>1, <1>2
  <2>6. QED BY <2>1, <2>3, <2>4, <2>5, Zenon
<1>5. \A k \in DOMAIN found' : k + 1 \in DOMAIN found /\ found'[k] = found[k + 1] /\ k < k + 1
                               /\ 1 < k + 1
  <2>1. DOMAIN Tail(found) = 1..Len(Tail(found)) BY <1>3
  <2>2. DOMAIN found' = 1..(Len(found) - 1) BY <1>1, <1>3, <2>1, Zenon
  <2>3. \A l \in Nat : \A k \in 1..(l - 1) : k + 1 \in 1..l /\ k < k + 1 /\ 1 < k + 1 OBVIOUS
  <2>4. Len(found) \in Nat BY <1>4
  <2>5. QED BY <1>1, <1>3, <1>4, <2>2, <2>3, <2>4, Zenon
<1>6. m \in Messages
  <2>1. \A S : \A q \in Seq(S) : \A k \in DOMAIN q : q[k] \in S OBVIOUS
  <2>2. found[1] \in Messages BY <1>2, <1>4, <2>1, Zenon
  <2>3. QED BY <1>4, <2>2, Zenon
<1>7. m.n \in Nat /\ m.boxes \in SUBSET Boxes BY <1>6 DEF Messages
<1>8. DeviceReleased' BY <1>1, Zenon DEF PerceptionInv, DeviceReleased
<1>9. detector' = "hailo" => \A k \in DOMAIN found' : Thinned(found'[k])
  BY <1>1, <1>5, Zenon DEF PerceptionInv
<1>10. detector = "cv" => \A j, k \in DOMAIN found' : j < k => found'[j].n < found'[k].n
  <2> SUFFICES ASSUME detector = "cv", NEW j \in DOMAIN found', NEW k \in DOMAIN found', j < k
               PROVE  found'[j].n < found'[k].n
    BY Zenon
  <2>1. j \in Nat /\ k \in Nat
    <3>1. DOMAIN found' = 1..Len(found') BY <1>1, <1>3
    <3>2. QED BY <3>1
  <2>2. j + 1 < k + 1 BY <2>1
  <2>3. InOrder BY DEF PerceptionInv
  <2>4. QED BY <1>5, <2>2, <2>3, Zenon DEF InOrder
<1>11. detector = "cv" => \A k \in DOMAIN found' : found'[k].n <= frame'.n /\ m.n < found'[k].n
  BY <1>1, <1>4, <1>5, Zenon DEF PerceptionInv, InOrder
<1>12. detector = "cv" => \A s \in support :
         s <= frame'.n /\ \A k \in DOMAIN found' : s < found'[k].n
  BY <1>1, <1>5, Zenon DEF PerceptionInv, InOrder
<1>13. detector = "cv" => m.n <= frame'.n /\ m.n \notin support
  <2> SUFFICES ASSUME detector = "cv" PROVE m.n <= frame'.n /\ m.n \notin support OBVIOUS
  <2>1. m.n <= frame'.n /\ \A s \in support : s < m.n
    BY <1>1, <1>4, Zenon DEF PerceptionInv, InOrder
  <2>2. ~ (m.n < m.n) BY <1>7
  <2>3. QED BY <2>1, <2>2, Zenon
<1> HIDE DEF m
<1>14. CASE balls = {}
  <2>1. counted' = Nothing /\ support' = {} /\ tracked' = tracked
    BY <1>14 DEF TrackDetections, m
  <2>2. IsFiniteSet({}) /\ Cardinality({}) = 0 BY FS_EmptySet
  <2>3. Nothing.count = 0 /\ 0 \in Nat BY DEF Nothing
  <2>4. PerceptionTypes'
    BY <1>1, <1>3, <2>1, <2>2, <2>3, Zenon DEF PerceptionInv, PerceptionTypes
  <2>5. TargetsSeen' BY <1>1, <2>1, Zenon DEF PerceptionInv, TargetsSeen
  <2>6. Seen'
    <3>1. support' = {} /\ counted'.count = 0 BY <2>1, <2>3
    <3>2. QED BY <2>2, <3>1 DEF Seen
  <2>7. detector = "cv" => InOrder' BY <1>10, <1>11, <2>1, Zenon DEF InOrder
  <2>8. QED BY <1>1, <1>8, <1>9, <2>4, <2>5, <2>6, <2>7, Zenon DEF PerceptionInv, Thinned
<1>15. CASE balls # {}
  <2>1. /\ counted' = [key |-> key, count |-> Saturated(CountOf(key))]
        /\ support' = grown
        /\ tracked' = IF CountOf(key) >= ConsecutiveFrames
                      THEN [key |-> key, support |-> support'] ELSE tracked
    BY <1>15 DEF TrackDetections, m
  <2>2. support \in SUBSET Nat /\ IsFiniteSet(support) /\ IsFiniteSet({})
    BY FS_EmptySet DEF PerceptionInv, PerceptionTypes
  <2>3. IF counted.key = key THEN support' = support \cup {m.n} /\ CountOf(key) = counted.count + 1
        ELSE support' = {m.n} /\ CountOf(key) = 1
    BY <2>1 DEF CountOf
  <2>4. CountOf(key) \in Nat \ {0} BY <1>2 DEF CountOf
  <2>5. Saturated(CountOf(key)) \in Nat /\ Saturated(CountOf(key)) <= CountOf(key)
    BY <2>4, PerceptionAssumption DEF Saturated
  <2> HIDE DEF key, grown
  <2>6. /\ support' \in SUBSET Nat /\ IsFiniteSet(support') /\ Cardinality(support') \in Nat
        /\ Cardinality(support') >= 1
    <3>1. CASE counted.key = key BY <1>7, <2>2, <2>3, <3>1, OneMoreFrame
    <3>2. CASE counted.key # key
      <4>1. support' = {} \cup {m.n} BY <2>3, <3>2
      <4>2. {} \in SUBSET Nat OBVIOUS
      <4>3. QED BY <1>7, <2>2, <4>1, <4>2, OneMoreFrame, Zenon
    <3>3. QED BY <3>1, <3>2
  <2>7. detector = "cv" => Cardinality(support') >= CountOf(key)
    <3> SUFFICES ASSUME detector = "cv" PROVE Cardinality(support') >= CountOf(key) OBVIOUS
    <3>1. CASE counted.key = key
      <4>1. Cardinality(support') = Cardinality(support) + 1 /\ Cardinality(support) \in Nat
        BY <1>7, <1>13, <2>2, <2>3, <3>1, OneMoreFrame
      <4>2. Cardinality(support) >= counted.count BY DEF PerceptionInv, Seen
      <4>3. QED BY <1>2, <2>3, <3>1, <4>1, <4>2
    <3>2. CASE counted.key # key BY <2>3, <2>6, <3>2
    <3>3. QED BY <3>1, <3>2
  <2>8. counted'.count = Saturated(CountOf(key)) BY <2>1
  <2>9. PerceptionTypes'
    <3>1. counted'.count \in Nat BY <2>5, <2>8
    <3>2. QED BY <1>1, <1>3, <2>6, <3>1, Zenon DEF PerceptionInv, PerceptionTypes
  <2>10. detector = "cv" => Seen' BY <2>4, <2>5, <2>6, <2>7, <2>8 DEF Seen
  <2>11. TargetsSeen'
    <3>1. CASE CountOf(key) >= ConsecutiveFrames
      <4>1. tracked'.support = support' BY <2>1, <3>1
      <4>2. Cardinality(support') >= (IF detector = "cv" THEN ConsecutiveFrames ELSE 1)
        BY <2>4, <2>6, <2>7, <3>1, PerceptionAssumption
      <4>3. QED BY <1>1, <4>1, <4>2, Zenon DEF TargetsSeen
    <3>2. CASE ~ (CountOf(key) >= ConsecutiveFrames)
      <4>1. tracked' = tracked BY <2>1, <3>2
      <4>2. QED BY <1>1, <4>1, Zenon DEF PerceptionInv, TargetsSeen
    <3>3. QED BY <3>1, <3>2
  <2>12. detector = "cv" => InOrder'
    <3>1. \A s \in support' : s \in support \/ s = m.n BY <2>3
    <3>2. QED BY <1>10, <1>11, <1>12, <1>13, <3>1, Zenon DEF InOrder
  <2>13. QED BY <1>1, <1>8, <1>9, <2>9, <2>10, <2>11, <2>12, Zenon DEF PerceptionInv, Thinned
<1>16. QED BY <1>14, <1>15

-----------------------------------------------------------------------------
\* Every step keeps the invariant.
LEMMA PerceptionNextInv == PerceptionInv /\ [PerceptionNext]_perceptionVars => PerceptionInv'
<1> SUFFICES ASSUME PerceptionInv, [PerceptionNext]_perceptionVars PROVE PerceptionInv' OBVIOUS
<1>1. CASE UNCHANGED perceptionVars
  BY <1>1, Zenon DEF PerceptionInv, PerceptionTypes, DeviceReleased, TargetsSeen, InOrder, Seen,
                     Thinned, perceptionVars, deviceVars, trackerVars
<1>2. CASE PerceptionNext
  BY <1>2, NodeLifeHonest, CameraFrameHonest, InferenceCallbackHonest, TrackDetectionsHonest, Zenon
  DEF PerceptionNext
<1>3. QED BY <1>1, <1>2

\* An accelerator is given back unless the process was killed, a target was seen in as many frames
\* as it takes, and of overlapping boxes the best one is left: for any boxes, overlaps and queue,
\* and for both detectors.
THEOREM PerceptionHonestAlways == PerceptionSpec => []PerceptionHonest
<1>1. PerceptionSpec => []PerceptionInv
  BY PerceptionInitInv, PerceptionNextInv, PTL DEF PerceptionSpec
<1>2. QED BY <1>1, PerceptionInvHonest, PTL

-------------------------------------------------------------------------------
\* What is proved of the two holds of the instance, in which one of them runs.
LEMMA CollectorIsEither == CollectorSpec => Spec /\ PerceptionSpec
<1>1. CollectorInit => Init /\ PerceptionInit BY DEF CollectorInit
<1>2. [CollectorNext]_<<program, vars, perceptionVars>>
      => [Next]_vars /\ [PerceptionNext]_perceptionVars
  BY Zenon DEF CollectorNext
<1>3. QED BY <1>1, <1>2, PTL DEF CollectorSpec, Spec, PerceptionSpec

\* The collector as a whole, whatever the constants: the counts keep to their bounds, a ball
\* counted was picked, and what perception reports was seen.
THEOREM CollectorCorrect ==
  CollectorSpec => [](CollectionSafety /\ PerceptionHonest) /\ CountedBallsPicked
<1>1. CollectorSpec => []CollectionSafety BY CollectorIsEither, SpecCollectionSafety, PTL
<1>2. CollectorSpec => []PerceptionHonest BY CollectorIsEither, PerceptionHonestAlways, PTL
<1>3. CollectorSpec => CountedBallsPicked BY CollectorIsEither, SpecCountedBallsPicked, PTL
<1>4. QED BY <1>1, <1>2, <1>3, PTL
===============================================================================
