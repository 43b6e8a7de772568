---------------------------- MODULE MCPayloadSdk -----------------------------
(***************************************************************************)
(* The instance of the payload SDK and the operators' tools that TLC       *)
(* checks (PayloadSdk.cfg): the asynchronous client, the descriptor        *)
(* tool, key provisioning and the hardware validation runner.  They share  *)
(* nothing: a behaviour is one of the four, and program says of which.     *)
(***************************************************************************)
EXTENDS MissionClient, PayloadEeprom, Provisioning, HardwareValidation

\* Two payloads with ratings that differ in their low byte, their high byte or both.
MCDescriptors ==
    {[magic |-> "PBC4", id |-> i, power_5v_ma |-> p[1], power_12v_ma |-> p[2]] :
        i \in {"A", "B"}, p \in {<<3000, 767>>, <<0, 2560>>, <<2000, 3000>>, <<100, 3000>>}}

\* Two of the devices get the same safe_name.
MCFileOf == [d \in Devices |-> IF d = "d1" THEN "f1" ELSE "f2"]
MCLists == {<<"d1", "d2", "d3">>}

\* --test all, and single tests.
MCSuites == [ros2 |-> {<<"safety", "battery", "motors", "encoders", "ultrasonic">>,
                       <<"motors">>, <<"battery">>},
             udp |-> {<<"connectivity", "motors", "battery", "ultrasonic">>}]

VARIABLE program

ToolsInit ==
    /\ program \in {"client", "eeprom", "keys", "validation"}
    /\ Init /\ EepromInit /\ ProvisioningInit /\ HwInit

ToolsNext ==
    /\ UNCHANGED program
    /\ \/ program = "client" /\ Next /\ UNCHANGED <<eepromVars, provisioningVars, hwVars>>
       \/ program = "eeprom" /\ EepromNext /\ UNCHANGED <<vars, provisioningVars, hwVars>>
       \/ program = "keys" /\ ProvisioningNext /\ UNCHANGED <<vars, eepromVars, hwVars>>
       \/ program = "validation" /\ HwNext /\ UNCHANGED <<vars, eepromVars, provisioningVars>>

\* The fairness of MissionClient!FairSpec.
ToolsSpec ==
    /\ ToolsInit /\ [][ToolsNext]_<<program, vars, eepromVars, provisioningVars, hwVars>>
    /\ WF_vars(program = "client" /\ Mission)
    /\ WF_vars(program = "client" /\ Estop)
    /\ WF_vars(program = "client" /\ Snapshot)
    /\ \A g \in Goals : WF_vars(program = "client" /\ SetResult(g))

\* A tool that is cut short leaves nothing behind that a later run, or another tool, takes
\* for something it is not: not in the payload's EEPROM, not among the keys.
ToolsLeaveOrder == DescriptorSafe /\ KeysTraceable
=============================================================================
