--------------------------- MODULE MCRemoteControl --------------------------
(***************************************************************************)
(* The instance of the two ways to control the robot from outside that     *)
(* TLC checks (RemoteControl.cfg): the DTLS control link, and the web      *)
(* panel's connection to rosbridge.  They share nothing: a behaviour is    *)
(* one of either, and program says of which.                               *)
(***************************************************************************)
EXTENDS DtlsAuthority, WebConnection

VARIABLE program

RemoteInit == program \in {"dtls", "web"} /\ Init /\ WebInit

RemoteNext ==
    \/ program = "dtls" /\ Next /\ UNCHANGED <<program, webVars>>
    \/ program = "web" /\ WebNext /\ UNCHANGED <<program, vars>>

\* The fairness of DtlsAuthority!FairSpec and of WebConnection!WebFairSpec.
RemoteSpec ==
    /\ RemoteInit /\ [][RemoteNext]_<<program, vars, webVars>>
    /\ WF_vars(program = "dtls" /\ Task) /\ SF_vars(program = "dtls" /\ Tick)
    /\ WF_webVars(program = "web" /\ TimerFires) /\ WF_webVars(program = "web" /\ Ping)
    /\ \A s \in Sockets : WF_webVars(program = "web" /\ net[s] = "closing" /\ Closed(s))
    /\ \A c \in Calls : WF_webVars(program = "web" /\ ServiceTimeout(c))
=============================================================================
