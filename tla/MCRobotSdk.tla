----------------------------- MODULE MCRobotSdk -----------------------------
(***************************************************************************)
(* The instance of the threewe SDK that TLC checks (RobotSdk.cfg): the     *)
(* calls on a robot, the readings a program gets, the training             *)
(* environments, and the simulated robot.  The four share nothing here: a  *)
(* behaviour is one of RobotSdk, SensorCache, GymEnvs or MockRobot, and    *)
(* program says of which.                                                  *)
(***************************************************************************)
EXTENDS RobotSdk, SensorCache, GymEnvs, MockRobot

\* MultiAgentEnv puts its robots one cell to either side.
MCStartCell == [r \in Robots |-> IF r = Ego THEN 1 ELSE -1]

\* The camera may send what its callback cannot take apart.
MCFeeds == [camera |-> {"image"}, odom |-> {"pose", "velocity"}]
MCModalities == {<<"image", "pose", "velocity">>, <<"velocity", "pose">>}

VARIABLE program

ThreeweInit ==
    /\ program \in {"sdk", "readings", "gym", "mock"}
    /\ Init /\ SensorInit /\ GymInit /\ MockInit
    /\ program # "readings" => backend = "real"     \* else its choice does not matter

ThreeweNext ==
    \/ program = "sdk" /\ Next /\ UNCHANGED <<program, sensorVars, gymVars, mockVars>>
    \/ program = "readings" /\ SensorNext /\ UNCHANGED <<program, vars, gymVars, mockVars>>
    \/ program = "gym" /\ GymNext /\ UNCHANGED <<program, vars, sensorVars, mockVars>>
    \/ program = "mock" /\ MockNext /\ UNCHANGED <<program, vars, sensorVars, gymVars>>

\* The fairness of RobotSdk!FairSpec.
ThreeweSpec ==
    /\ ThreeweInit /\ [][ThreeweNext]_<<program, vars, sensorVars, gymVars, mockVars>>
    /\ \A t \in Tasks : /\ WF_vars(program = "sdk" /\ Turn(t))
                        /\ WF_vars(program = "sdk" /\ Expires(t))
    /\ WF_vars(program = "sdk" /\ InferenceAsks)
    /\ WF_vars(program = "sdk" /\ InferenceAnswers)
    /\ WF_vars(program = "sdk" /\ AwaitInference)
    /\ WF_vars(program = "sdk" /\ AwaitControl)
    /\ WF_vars(program = "sdk" /\ ControlTurn)
=============================================================================
