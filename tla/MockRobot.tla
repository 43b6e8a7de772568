------------------------------ MODULE MockRobot ------------------------------
(***************************************************************************)
(* The simulated robot of the SDK (backends/mock.py), behind the fault     *)
(* injector (sim/fault_injection.py), with the trajectory recorder         *)
(* (data/recorder.py) reading it.                                          *)
(*                                                                         *)
(* The scene is a track of cells, some of them blocked; facing stands for  *)
(* the heading.  Nothing moves by itself: the velocity is integrated when  *)
(* a sensor is read.                                                       *)
(***************************************************************************)
EXTENDS Integers, Sequences

CONSTANTS Track, Blocked,      \* the cells of the scene, and those too near an obstacle
          Origin,              \* where the robot is put
          LongestTick,         \* a longer time between two readings is not integrated
          OfflineFrom, OfflineFor,   \* disconnect_after_s, disconnect_duration_s
          ClockCap, EpisodeCap       \* bounds of the model

ASSUME MockAssumption ==
    /\ Track \subseteq Int /\ Blocked \subseteq Track /\ Origin \in Track \ Blocked
    /\ {LongestTick, OfflineFrom, OfflineFor, ClockCap, EpisodeCap} \subseteq Nat

VARIABLES
    place, facing, speed,   \* _x and _y; the sign of cos(_theta); _vx
    now, ticked,            \* time.monotonic, _last_tick
    trip,                   \* the move_to that sleeps between its steps
    pushed,                 \* history: a reading has moved the robot during the trip
    outcome,                \* until another trip begins, the last move_to's result: [to, at, reason, pushed]
    stale,                  \* _stale_cache: [method -> when it was read; 0: never]
    recording,              \* _current_episode is there
    episode                 \* its steps: when the readings of each were taken

motionVars == <<place, facing, speed>>
tripVars == <<trip, pushed, outcome>>
recordVars == <<recording, episode>>
mockVars == <<motionVars, now, ticked, tripVars, stale, recordVars>>

Methods == {"get_camera_image", "get_pose"}
NoOutcome == [to |-> Origin, at |-> Origin, reason |-> "none", pushed |-> FALSE]
NoTrip == [going |-> FALSE, to |-> Origin, way |-> 0]

Free(c) == c \in Track \ Blocked

MockInit ==
    /\ place = Origin /\ facing = 1 /\ speed = 0
    /\ now = 1 /\ ticked = 1
    /\ trip = NoTrip /\ pushed = FALSE
    /\ outcome = NoOutcome
    /\ stale = [m \in Methods |-> 0]
    /\ recording = FALSE /\ episode = <<>>

-----------------------------------------------------------------------------
(* The robot.                                                              *)

\* _tick: only where it would come out is checked, not the way there.
Integrated ==
    LET ahead == place + speed * facing * (now - ticked)
    IN IF now - ticked \in 1..LongestTick /\ Free(ahead) THEN ahead ELSE place

\* What a reading does to the robot.
TickIf(real) ==
    /\ place' = IF real THEN Integrated ELSE place
    /\ ticked' = IF real THEN now ELSE ticked
    /\ pushed' = (pushed \/ (trip.going /\ place' # place))

\* set_velocity and stop take effect for the time since the last reading too.
SetMockVelocity(v) ==
    /\ speed' = v
    /\ UNCHANGED <<place, facing, now, ticked, tripVars, stale, recordVars>>

Sign(d) == IF d > 0 THEN 1 ELSE IF d < 0 THEN -1 ELSE 0

\* The last free cell on the way from a to b.
Furthest(a, b) ==
    LET way == Sign(b - a)
        steps == CHOOSE n \in 0..(b - a) * way :
                    /\ \A k \in 1..n : Free(a + k * way)
                    /\ n = (b - a) * way \/ ~Free(a + (n + 1) * way)
    IN a + steps * way

Ends(to, reason) ==
    /\ outcome' = [to |-> to, at |-> place', reason |-> reason, pushed |-> pushed']
    /\ trip' = NoTrip

\* Mutant: a robot that was stopped by an obstacle has reached its target.
Reason_Always(to) == "reached"

Reason(to) == IF place' = to THEN "reached" ELSE "collision"

\* move_to without its log runs to the end; it turns the robot and stops it, except
\* when it is there already.
MoveAtOnce(to) ==
    /\ ~trip.going
    /\ place' = Furthest(place, to)
    /\ facing' \in {-1, 1}
    /\ speed' = IF place = to THEN speed ELSE 0
    /\ pushed' = FALSE
    /\ Ends(to, Reason(to))
    /\ UNCHANGED <<now, ticked, stale, recordVars>>

\* With its log it sleeps between its steps.  The way and its length are those it began with.
SetOut(to) ==
    /\ ~trip.going /\ to # place
    /\ trip' = [going |-> TRUE, to |-> to, way |-> to - place] /\ pushed' = FALSE
    /\ outcome' = NoOutcome
    /\ UNCHANGED <<motionVars, now, ticked, stale, recordVars>>

Travel ==
    LET d == Sign(trip.way) IN
    /\ trip.way # 0 /\ Free(place + d)
    /\ place' = place + d
    /\ trip' = [trip EXCEPT !.way = @ - d]
    /\ UNCHANGED <<facing, speed, now, ticked, pushed, outcome, stale, recordVars>>

ArriveOrCollide ==
    /\ trip.going
    /\ trip.way = 0 \/ ~Free(place + Sign(trip.way))
    /\ facing' \in {-1, 1} /\ speed' = 0
    /\ UNCHANGED <<place, pushed>>
    /\ Ends(trip.to, IF trip.way = 0 THEN "reached" ELSE "collision")
    /\ UNCHANGED <<now, ticked, stale, recordVars>>

\* move_forward does not stop the wheels, and rotate cannot fail.
ForwardAtOnce(n) ==
    /\ place' = Furthest(place, place + n * facing)
    /\ pushed' = (pushed \/ (trip.going /\ place' # place))
    /\ UNCHANGED <<facing, speed, now, ticked, trip, outcome, stale, recordVars>>

RotateAtOnce ==
    /\ facing' = -facing
    /\ UNCHANGED <<place, speed, now, ticked, tripVars, stale, recordVars>>

ClockRuns ==
    /\ now < ClockCap /\ now' = now + 1
    /\ UNCHANGED <<motionVars, ticked, tripVars, stale, recordVars>>

-----------------------------------------------------------------------------
(* The fault injector, and the recorder above it.                          *)

IsDisconnected == now >= OfflineFrom /\ now < OfflineFrom + OfflineFor

Refreshed(m) == now

\* A step of the recorder reads the methods one after the other.  One that is dropped
\* gives what was read last, if there is something; so does every one while the backend
\* is disconnected, or the step fails and nothing is recorded.
RecordStep(Dropped) ==
    /\ recording /\ Len(episode) < EpisodeCap
    /\ Dropped \subseteq {m \in Methods : stale[m] # 0}
    /\ IF IsDisconnected
       THEN /\ Dropped = {m \in Methods : stale[m] # 0}
            /\ episode' = IF Dropped = Methods THEN Append(episode, stale) ELSE episode
            /\ UNCHANGED <<place, ticked, pushed, stale>>
       ELSE /\ stale' = [m \in Methods |-> IF m \in Dropped THEN stale[m] ELSE Refreshed(m)]
            /\ episode' = Append(episode, [m \in Methods |-> IF m \in Dropped THEN stale[m] ELSE now])
            /\ TickIf(Dropped # Methods)
    /\ UNCHANGED <<facing, speed, now, trip, outcome, recording>>

\* start_episode forgets an episode that was not ended.
StartEpisode ==
    /\ recording' = TRUE /\ episode' = <<>>
    /\ UNCHANGED <<motionVars, now, ticked, tripVars, stale>>

\* What has been recorded is only exported from here on.
EndEpisode ==
    /\ recording
    /\ recording' = FALSE /\ episode' = <<>>
    /\ UNCHANGED <<motionVars, now, ticked, tripVars, stale>>

-----------------------------------------------------------------------------
MockNext ==
    \/ \E v \in {-1, 0, 1} : SetMockVelocity(v)
    \/ \E c \in Track : MoveAtOnce(c) \/ SetOut(c)
    \/ \E n \in {-2, 2} : ForwardAtOnce(n)
    \/ Travel \/ ArriveOrCollide \/ RotateAtOnce \/ ClockRuns
    \/ \E Dropped \in SUBSET Methods : RecordStep(Dropped)
    \/ StartEpisode \/ EndEpisode

MockSpec == MockInit /\ [][MockNext]_mockVars

-----------------------------------------------------------------------------
(* Properties.                                                             *)

\* Whatever moves the robot, and in whatever order the calls and the readings come,
\* it never stands in an obstacle; and a move that reports "reached" has reached its
\* target, unless a reading moved the robot during the move.
ClearAndThere ==
    /\ place \in Track \ Blocked
    /\ outcome.reason = "reached" /\ ~outcome.pushed => outcome.at = outcome.to

\* The readings of an episode never go back in time, however many were dropped and
\* wherever the disconnection fell.
ReadingsInOrder ==
    \A m \in Methods : \A i, j \in DOMAIN episode :
        i < j => episode[i][m] <= episode[j][m]

\* What a program or a recording is told by the simulated robot is so.
SimulationHonest == ClearAndThere /\ ReadingsInOrder

=============================================================================
