------------------------------ MODULE GymEnvs ------------------------------
(***************************************************************************)
(* The training environments of the SDK: NavigationEnv, ExplorationEnv,    *)
(* ObjectNavEnv and VLNEnv (gym/envs.py), and MultiAgentEnv                *)
(* (gym/multiagent.py), with a caller that resets, steps until it is told  *)
(* the episode is over, and adds up the rewards.                           *)
(*                                                                         *)
(* A pose is a cell of a line: an action moves a robot by at most one      *)
(* cell.  The heading, the second axis and the observations are left out,  *)
(* none of them changes what an environment keeps.                         *)
(***************************************************************************)
EXTENDS Integers, FiniteSets, Sequences, FiniteSetsExt

CONSTANTS Arena,        \* arena_size, in cells
          Span,         \* goals are drawn from -Span..Span (0.8 * arena_size)
          Near,         \* goal_threshold, waypoint_threshold, collision_radius
          Radius,       \* cells marked around a robot
          Fence,        \* MultiAgentEnv keeps its robots in -Fence..Fence
          StepLimit,    \* max_steps of an episode
          Legs,         \* num_waypoints
          Robots, Ego,  \* possible_agents, and the one whose rewards are added
          StartCell     \* [Robots -> where MultiAgentEnv puts a robot]

ASSUME GymAssumption ==
    /\ Arena \in Nat /\ Span \in 0..Arena /\ Near \in Nat \ {0} /\ Radius \in Nat
    /\ StepLimit \in Nat \ {0} /\ Legs \in Nat \ {0}
    /\ IsFiniteSet(Robots) /\ Ego \in Robots
    /\ Fence \in 0..Arena /\ StartCell \in [Robots -> (-Fence)..Fence]

VARIABLES
    env,       \* the environment under way
    pose,      \* [Robots -> cell]; only Ego moves in the others
    route,     \* what is to be reached, in order: sets of cells
    leg,       \* _current_waypoint_idx, from 1
    prev,      \* _prev_distance
    covered,   \* cells explored
    count,     \* _step_count
    over,      \* the last step was terminated or truncated
    return,    \* sum of Ego's rewards since the reset
    from,      \* history: the distances the legs began with, less those they ended with
    hits       \* history: collisions of Ego

gymVars == <<env, pose, route, leg, prev, covered, count, over, return, from, hits>>

Distances == {"NavigationEnv", "ObjectNavEnv", "VLNEnv"}
Coverings == {"ExplorationEnv", "MultiAgentEnv"}

Map == (-Arena)..(Arena - 1)
OffMap(p) == p > Arena \/ p < -Arena
Clip(p, bound) == IF p > bound THEN bound ELSE IF p < -bound THEN -bound ELSE p
Apart(p, q) == IF p > q THEN p - q ELSE q - p

\* _distance_to_goal, _distance_to_nearest_target, _distance_to_current_waypoint.
DistanceTo(r, l, p) == IF l > Len(r) THEN 0 ELSE Min({Apart(p, q) : q \in r[l]})

\* _mark_explored, _update_coverage.
Marked(p) == ((p - Radius)..(p + Radius)) \cap Map

\* What the environments draw at a reset.
Routes(e) ==
    CASE e = "NavigationEnv" -> {<<{g}>> : g \in (-Span)..Span}
      [] e = "ObjectNavEnv"  -> {<<S>> : S \in {S \in SUBSET ((-Span)..Span) : Cardinality(S) \in 1..2}}
      [] e = "VLNEnv"        -> {[l \in 1..Legs |-> {w[l]}] : w \in [1..Legs -> (-Span)..Span]}
      [] OTHER               -> {<<>>}

GymInit ==
    /\ env = "none" /\ pose = [r \in Robots |-> 0] /\ route = <<>> /\ leg = 1 /\ prev = 0
    /\ covered = {} /\ count = 0 /\ over = TRUE /\ return = 0 /\ from = 0 /\ hits = 0

-----------------------------------------------------------------------------
(* reset: the caller resets at first, and when an episode is over.         *)

\* Mutant: the distance of the last episode is kept.
Reset_KeepsDistance(e) ==
    /\ over /\ env' = e /\ route' \in Routes(e)
    /\ pose' = [r \in Robots |-> IF e = "MultiAgentEnv" THEN StartCell[r] ELSE 0]
    /\ leg' = 1 /\ prev' = prev /\ from' = DistanceTo(route', 1, 0)
    /\ covered' = IF e \in Coverings THEN UNION {Marked(pose'[r]) : r \in Robots} ELSE {}
    /\ count' = 0 /\ over' = FALSE /\ return' = 0 /\ hits' = 0

Reset(e) ==
    /\ over
    /\ env' = e /\ route' \in Routes(e)
    /\ pose' = [r \in Robots |-> IF e = "MultiAgentEnv" THEN StartCell[r] ELSE 0]
    /\ leg' = 1 /\ prev' = DistanceTo(route', 1, 0) /\ from' = prev'
    /\ covered' = IF e = "MultiAgentEnv" THEN UNION {Marked(pose'[r]) : r \in Robots}
                  ELSE IF e = "ExplorationEnv" THEN Marked(0) ELSE {}
    /\ count' = 0 /\ over' = FALSE /\ return' = 0 /\ hits' = 0

-----------------------------------------------------------------------------
(* step.                                                                   *)

Truncated == count' >= StepLimit

\* Any action moves Ego by at most a cell.
EgoMoves == \E d \in {-1, 0, 1} : pose' = [pose EXCEPT ![Ego] = @ + d]

\* NavigationEnv and ObjectNavEnv: ten for every cell nearer, and the end.
StepToGoal ==
    /\ ~over /\ env \in {"NavigationEnv", "ObjectNavEnv"}
    /\ EgoMoves /\ count' = count + 1
    /\ LET distance == DistanceTo(route, leg, pose'[Ego])
           reached == distance < Near
       IN /\ prev' = distance
          /\ return' = return + 10 * (prev - distance)
                       + (IF reached THEN 100 ELSE 0) - (IF OffMap(pose'[Ego]) THEN 50 ELSE 0)
          /\ over' = (reached \/ OffMap(pose'[Ego]) \/ Truncated)
    /\ UNCHANGED <<env, route, leg, covered, from, hits>>

\* VLNEnv: five for every cell nearer to the present waypoint.  At a waypoint
\* the next one's distance is taken, so that the change of target pays nothing.
StepAlongRoute ==
    /\ ~over /\ env = "VLNEnv"
    /\ EgoMoves /\ count' = count + 1
    /\ LET distance == DistanceTo(route, leg, pose'[Ego])
           passed == distance < Near
           last == passed /\ leg = Len(route)
       IN /\ leg' = IF passed THEN leg + 1 ELSE leg
          /\ prev' = IF passed /\ ~last THEN DistanceTo(route, leg', pose'[Ego]) ELSE distance
          /\ from' = from + (prev' - distance)
          /\ return' = return + 5 * (prev - distance) + (IF passed THEN 20 ELSE 0)
                       + (IF last THEN 100 ELSE 0) - (IF OffMap(pose'[Ego]) THEN 50 ELSE 0)
          /\ over' = (last \/ OffMap(pose'[Ego]) \/ Truncated)
    /\ UNCHANGED <<env, route, covered, hits>>

\* 95% of the map, and at least that.
Enough(c) == 100 * Cardinality(c) >= 95 * Cardinality(Map)

\* ExplorationEnv: one for every cell explored; the arena's edge stops the robot.
StepToExplore ==
    /\ ~over /\ env = "ExplorationEnv"
    /\ \E d \in {-1, 0, 1} : pose' = [pose EXCEPT ![Ego] = Clip(@ + d, Arena)]
    /\ count' = count + 1
    /\ covered' = covered \cup Marked(pose'[Ego])
    /\ return' = return + (Cardinality(covered') - Cardinality(covered))
                 + (IF Enough(covered') THEN 100 ELSE 0)
    /\ over' = (Enough(covered') \/ Truncated)
    /\ UNCHANGED <<env, route, leg, prev, from, hits>>

Collisions(r) == Cardinality({q \in Robots \ {r} : Apart(pose'[r], pose'[q]) < Near})

\* MultiAgentEnv: the team's new cells pay every robot, collisions cost their two.
StepTeam ==
    /\ ~over /\ env = "MultiAgentEnv"
    /\ \E d \in [Robots -> {-1, 0, 1}] :
          pose' = [r \in Robots |-> Clip(pose[r] + d[r], Fence)]
    /\ count' = count + 1
    /\ covered' = covered \cup UNION {Marked(pose'[r]) : r \in Robots}
    /\ hits' = hits + Collisions(Ego)
    /\ return' = return + 10 * (Cardinality(covered') - Cardinality(covered)) - 5 * Collisions(Ego)
    /\ over' = Truncated
    /\ UNCHANGED <<env, route, leg, prev, from>>

GymNext ==
    \/ \E e \in Distances \cup Coverings : Reset(e)
    \/ StepToGoal \/ StepAlongRoute \/ StepToExplore \/ StepTeam

GymSpec == GymInit /\ [][GymNext]_gymVars

-----------------------------------------------------------------------------
(* Properties.                                                             *)

\* What an episode has earned, read off where it stands.
Earned ==
    LET fined == IF OffMap(pose[Ego]) THEN 50 ELSE 0
        there == IF prev < Near /\ count > 0 THEN 100 ELSE 0
    IN CASE env \in {"NavigationEnv", "ObjectNavEnv"} -> 10 * (from - prev) + there - fined
         [] env = "VLNEnv" ->
              5 * (from - prev) + 20 * (leg - 1) + (IF leg > Len(route) THEN 100 ELSE 0) - fined
         [] env = "ExplorationEnv" ->
              Cardinality(covered) - Cardinality(Marked(0))
              + (IF Enough(covered) /\ count > 0 THEN 100 ELSE 0)
         [] env = "MultiAgentEnv" ->
              10 * (Cardinality(covered) - Cardinality(UNION {Marked(StartCell[r]) : r \in Robots}))
              - 5 * hits
         [] OTHER -> 0

\* The rewards of an episode add up to the progress it made and the bonuses and
\* fines it ended with, whatever way it went: going away and coming back, a change
\* of waypoint, or a cell seen twice pays nothing.
RewardsAddUp == return = Earned

=============================================================================
