---------------------------- MODULE MCCollection ----------------------------
(***************************************************************************)
(* The instance of ball collection that TLC checks (Collection.cfg): the   *)
(* collection manager with its arm, and the way from the camera to a       *)
(* target.  In Collection the targets come as they please, so the two are  *)
(* checked apart: a behaviour is one of the one or of the other, and       *)
(* program says of which.                                                  *)
(***************************************************************************)
EXTENDS Collection, Perception

\* The middle one of three boxes overlaps both others; the nearest one scores lowest.
MCOverlap == {<<1, 2>>, <<2, 1>>, <<2, 3>>, <<3, 2>>}
MCNearer == {<<3, 1>>, <<3, 2>>, <<1, 2>>}

VARIABLE program

\* The choices of the one that does not run do not matter.
CollectorInit ==
    /\ program \in {"manager", "perception"} /\ Init /\ PerceptionInit
    /\ program # "perception" => detector = "cv"

CollectorNext ==
    \/ program = "manager" /\ Next /\ UNCHANGED <<program, perceptionVars>>
    \/ program = "perception" /\ PerceptionNext /\ UNCHANGED <<program, vars>>

\* The fairness of Collection!FairSpec.
CollectorSpec ==
    /\ CollectorInit /\ [][CollectorNext]_<<program, vars, perceptionVars>>
    /\ WF_vars(program = "manager" /\ Execute)
    /\ WF_vars(program = "manager" /\ Supervise)
    /\ WF_vars(program = "manager" /\ Tick)
    /\ WF_vars(program = "manager" /\ OverallTimesOut)
=============================================================================
