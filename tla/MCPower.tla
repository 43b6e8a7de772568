------------------------------ MODULE MCPower -------------------------------
(***************************************************************************)
(* The instance of the switched supplies that TLC checks (Power.cfg): the  *)
(* payload connector's rails, and the companion computer's relay.  They    *)
(* share nothing but the battery task that cuts both: a behaviour is one   *)
(* of either, and program says of which.                                   *)
(***************************************************************************)
EXTENDS PayloadHotplug, PiPower

VARIABLE program

SupplyInit == program \in {"payload", "pi"} /\ Init /\ PowerInit

SupplyNext ==
    \/ program = "payload" /\ Next /\ UNCHANGED <<program, powerVars>>
    \/ program = "pi" /\ PowerNext /\ UNCHANGED <<program, vars>>

\* The fairness of PayloadHotplug!FairSpec and of PiPower!PowerFairSpec.
SupplySpec ==
    /\ SupplyInit /\ [][SupplyNext]_<<program, vars, powerVars>>
    /\ WF_vars(program = "payload" /\ HotplugTask)
    /\ WF_vars(program = "payload" /\ PowerOff("battery"))
    /\ WF_powerVars(program = "pi" /\ HeartbeatTask)
    /\ WF_powerVars(program = "pi" /\ BatteryTask)
    /\ WF_powerVars(program = "pi" /\ PowerTick)
=============================================================================
