----------------------------- MODULE OtaManager -----------------------------
(***************************************************************************)
(* The OTA manager of the companion computer (ota_manager_node.py): an     *)
(* update is announced by a trigger message or found in the manifest of    *)
(* the hourly check; its file is downloaded, its hash and its signature    *)
(* are verified, the packages, the model or the configuration it carries   *)
(* are put in place, and its version is recorded in versions.json.  All of *)
(* it runs in one callback of a single-threaded node, so what can come     *)
(* between two steps is a failed step or the end of the process.           *)
(*                                                                         *)
(* A file or a directory is what can be told of it: the version it holds,  *)
(* Torn when a copy was cut, Absent, or Unverified when it came from a     *)
(* file that is not the publisher's.                                       *)
(***************************************************************************)
EXTENDS Naturals, Sequences, SequencesExt

CONSTANTS Packages,         \* the packages of the ROS 2 workspace
          Model, Config,    \* the model file and the configuration directory
          Versions,         \* versions that are ever published
          Broken,           \* those whose packages do not build
          Manifest,         \* the updates the check URL announces, in order
          Triggers,         \* the updates a trigger message may announce
          RollbackEnabled,  \* the rollback_enabled parameter
          Torn, Absent, Unverified,
          TriggerCap, CrashCap, FailCap   \* bounds of the model

ASSUME OtaAssumption ==
    /\ Manifest \in Seq(ToSet(Manifest)) /\ Manifest # <<>>
    /\ \A u \in ToSet(Manifest) \cup Triggers : u.version \in Versions
    /\ 1 \in Versions /\ Packages # {}
    /\ Versions \cap {Torn, Absent, Unverified} = {} /\ Unverified \notin {Torn, Absent}
    /\ TriggerCap \in Nat /\ CrashCap \in Nat /\ FailCap \in Nat

Types == {"model", "ros2", "config"}
Items == Packages \cup {Model, Config}
ItemsOf == [model |-> {Model}, ros2 |-> Packages, config |-> {Config}]
NoVersion == 0
NoVersions == [t \in Types |-> NoVersion]
Contents == Versions \cup {Torn, Absent, Unverified}
Payloads == {"genuine", "unsigned", "damaged"}

VARIABLES
    pc,          \* where the callback stands; "check" when it is at the manifest
    checks,      \* entries of the manifest still to look at
    inProgress,  \* _update_in_progress
    update,      \* the update being applied
    payload,     \* what was downloaded for it
    todo,        \* items of it not yet in place
    item,        \* the one being replaced
    versions,    \* _current_versions
    saved,       \* versions.json
    disk,        \* what each item holds
    prev,        \* its .prev copy
    triggers, crashes, failures,   \* counters for the bounds
    whole        \* history: items that were whole when this attempt began

attempt == <<update, payload, todo, item, whole>>
files == <<saved, disk, prev>>
counters == <<triggers, crashes, failures>>
vars == <<pc, checks, inProgress, attempt, versions, files, counters>>

Init ==
    /\ pc = "check" /\ checks = <<>> /\ inProgress = FALSE
    /\ update \in {Head(Manifest)} /\ payload = "genuine"
    /\ todo = {} /\ item = Model
    /\ versions = NoVersions /\ saved = NoVersions
    /\ disk = [i \in Items |-> 1] /\ prev = [i \in Items |-> Absent]
    /\ triggers = 0 /\ crashes = 0 /\ failures = 0 /\ whole = {}

-----------------------------------------------------------------------------
(* Start of an attempt, and its end.                                       *)

Idle == pc = "check" /\ checks = <<>>
Current(component) == IF component \in Types THEN versions[component] ELSE NoVersion

Begin(u, rest) ==
    /\ inProgress' = TRUE /\ update' = u /\ checks' = rest /\ pc' = "download"
    /\ whole' = {i \in Items : disk[i] \in Versions}

\* Mutant: the mark is cleared only on the ways out that were thought of.
Over_Marked == pc' = "check" /\ UNCHANGED <<inProgress, checks, attempt>>

\* The finally clause of _apply_update.
Over == pc' = "check" /\ inProgress' = FALSE /\ UNCHANGED <<checks, attempt>>

OnUpdateTrigger(u) ==
    /\ Idle /\ ~inProgress /\ u.url /\ triggers < TriggerCap
    /\ triggers' = triggers + 1
    /\ Begin(u, <<>>)
    /\ UNCHANGED <<payload, todo, item, versions, files, crashes, failures>>

PeriodicCheck ==
    /\ Idle /\ ~inProgress
    /\ checks' = Manifest
    /\ UNCHANGED <<pc, inProgress, attempt, versions, files, counters>>

\* An entry of the manifest that is not the current version is applied
\* (auto_apply); one without a url raises out of the callback and ends the node.
CheckEntry ==
    /\ pc = "check" /\ checks # <<>>
    /\ LET u == Head(checks)
           isNew == u.version # Current(u.component) IN
       \/ /\ isNew /\ u.url /\ Begin(u, Tail(checks))
          /\ UNCHANGED <<payload, todo, item>>
       \/ /\ isNew /\ ~u.url /\ pc' = "down"
          /\ UNCHANGED <<checks, inProgress, attempt>>
       \/ /\ ~isNew /\ checks' = Tail(checks)
          /\ UNCHANGED <<pc, inProgress, attempt>>
    /\ UNCHANGED <<versions, files, counters>>

-----------------------------------------------------------------------------
(* Download and verification.                                              *)

Download ==
    /\ pc = "download"
    /\ payload' \in Payloads
    /\ IF update.sha THEN pc' = "sha" /\ UNCHANGED inProgress
                     ELSE pc' = "check" /\ inProgress' = FALSE
    /\ UNCHANGED <<checks, update, todo, item, whole, versions, files, counters>>

VerifySha ==
    /\ pc = "sha"
    /\ \/ /\ payload # "damaged"
          /\ pc' = "signature" /\ UNCHANGED <<checks, inProgress, attempt, counters>>
       \/ payload = "damaged" /\ Over /\ UNCHANGED counters
    /\ UNCHANGED <<versions, files>>

VerifySignature ==
    /\ pc = "signature"
    /\ \/ /\ payload = "genuine"
          /\ pc' = "apply" /\ UNCHANGED <<checks, inProgress, attempt, counters>>
       \/ payload # "genuine" /\ Over /\ UNCHANGED counters
    /\ UNCHANGED <<versions, files>>

-----------------------------------------------------------------------------
(* Putting the update in place.                                            *)

Content == IF payload = "genuine" THEN update.version ELSE Unverified

Apply ==
    /\ pc = "apply"
    /\ \/ /\ update.type \in Types
          /\ todo' = ItemsOf[update.type]
          /\ pc' = IF update.type = "config" THEN "extract" ELSE "backup"
          /\ UNCHANGED <<checks, inProgress, update, payload, item, whole, counters>>
       \/ update.type \notin Types /\ Over /\ UNCHANGED counters
    /\ UNCHANGED <<versions, files>>

\* Mutant: a copy is kept of the model only.
KeepsCopy_ModelOnly(i) == RollbackEnabled /\ i = Model

KeepsCopy(i) == RollbackEnabled /\ disk[i] # Absent

BackUp ==
    /\ pc = "backup"
    /\ \E i \in todo :
        /\ item' = i
        /\ prev' = IF KeepsCopy(i) THEN [prev EXCEPT ![i] = disk[i]] ELSE prev
    /\ pc' = "install"
    /\ UNCHANGED <<checks, inProgress, update, payload, todo, whole, versions, saved, disk, counters>>

Install ==
    /\ pc = "install"
    /\ disk' = [disk EXCEPT ![item] = Content]
    /\ todo' = todo \ {item}
    /\ pc' = IF todo' # {} THEN "backup"
             ELSE IF update.type = "ros2" THEN "build" ELSE "record"
    /\ UNCHANGED <<checks, inProgress, update, payload, item, whole, versions, saved, prev, counters>>

ExtractConfig ==
    /\ pc = "extract"
    /\ disk' = [disk EXCEPT ![Config] = Content]
    /\ pc' = "record"
    /\ UNCHANGED <<checks, inProgress, attempt, versions, saved, prev, counters>>

CanBuild == \A p \in Packages : disk[p] \notin Broken \cup {Torn, Unverified}

\* Mutant: the return code of the build is not looked at.
Build_Unchecked ==
    /\ pc = "build"
    /\ pc' = "restart"
    /\ UNCHANGED <<checks, inProgress, attempt, counters, versions, files>>

Build ==
    /\ pc = "build"
    /\ \/ CanBuild /\ pc' = "restart" /\ UNCHANGED <<checks, inProgress, attempt, counters>>
       \/ ~CanBuild /\ Over /\ UNCHANGED counters
    /\ UNCHANGED <<versions, files>>

RestartService ==
    /\ pc = "restart"
    /\ pc' = "record"
    /\ UNCHANGED <<checks, inProgress, attempt, versions, files, counters>>

-----------------------------------------------------------------------------
(* The record.                                                             *)

Record ==
    /\ pc = "record"
    /\ versions' = [versions EXCEPT ![update.type] = update.version]
    /\ pc' = "save"
    /\ UNCHANGED <<checks, inProgress, attempt, files, counters>>

SaveCurrentVersions ==
    /\ pc = "save"
    /\ saved' = versions
    /\ Over
    /\ UNCHANGED <<versions, disk, prev, counters>>

-----------------------------------------------------------------------------
(* What is left when a step is cut: by an error, or by the end of the      *)
(* process.  A directory is removed before it is copied, a file is         *)
(* overwritten in place.                                                   *)

Remains(i) == IF i \in Packages THEN {Torn, Absent} ELSE {Torn}

CutShort ==
    \/ UNCHANGED files
    \/ /\ pc = "backup"
       /\ \E i \in todo : KeepsCopy(i) /\ prev' \in {[prev EXCEPT ![i] = c] : c \in Remains(i)}
       /\ UNCHANGED <<saved, disk>>
    \/ /\ pc = "install"
       /\ disk' \in {[disk EXCEPT ![item] = c] : c \in Remains(item)}
       /\ UNCHANGED <<saved, prev>>
    \/ /\ pc = "extract" /\ disk' = [disk EXCEPT ![Config] = Torn]
       /\ UNCHANGED <<saved, prev>>
    \/ /\ pc = "save" /\ saved' = Torn
       /\ UNCHANGED <<disk, prev>>

StepFails ==
    /\ pc \in {"download", "signature", "backup", "install", "extract", "build", "restart", "save"}
    /\ failures < FailCap /\ failures' = failures + 1
    /\ CutShort
    /\ Over
    /\ UNCHANGED <<versions, triggers, crashes>>

Crash ==
    /\ pc # "down" /\ crashes < CrashCap
    /\ CutShort
    /\ pc' = "down" /\ crashes' = crashes + 1
    /\ UNCHANGED <<checks, inProgress, attempt, versions, triggers, failures>>

\* __init__ and _load_current_versions: a file that cannot be read is no file.
Start ==
    /\ pc = "down"
    /\ versions' = IF saved = Torn THEN NoVersions ELSE saved
    /\ pc' = "check" /\ checks' = <<>> /\ inProgress' = FALSE
    /\ UNCHANGED <<attempt, files, counters>>

-----------------------------------------------------------------------------
Step == \/ Download \/ VerifySha \/ VerifySignature \/ Apply \/ BackUp \/ Install
        \/ ExtractConfig \/ Build \/ RestartService \/ Record \/ SaveCurrentVersions

Next == \/ \E u \in Triggers : OnUpdateTrigger(u)
        \/ PeriodicCheck \/ CheckEntry \/ Step \/ StepFails \/ Crash \/ Start

Spec == Init /\ [][Next]_vars

\* The timer goes on, the process is started again, a callback runs to its
\* end, and a server asked again and again at last sends the genuine file.
FairSpec ==
    /\ Spec
    /\ WF_vars(PeriodicCheck) /\ WF_vars(CheckEntry) /\ WF_vars(Start) /\ WF_vars(Step)
    /\ \A u \in ToSet(Manifest) : SF_vars(Download /\ update = u /\ payload' = "genuine")

-----------------------------------------------------------------------------
(* Properties.                                                             *)

\* Every variable has its type, and an attempt is marked as in progress for
\* as long as it lasts and not a step longer, unless the process has ended.
TypeOK ==
    /\ pc \in {"check", "download", "sha", "signature", "apply", "backup", "install",
              "extract", "build", "restart", "record", "save", "down"}
    /\ checks \in Seq(ToSet(Manifest)) /\ inProgress \in BOOLEAN
    /\ pc # "down" => (inProgress <=> pc # "check")
    /\ update \in ToSet(Manifest) \cup Triggers /\ payload \in Payloads
    /\ todo \subseteq Items /\ item \in Items /\ whole \subseteq Items
    /\ versions \in [Types -> Versions \cup {NoVersion}]
    /\ saved \in [Types -> Versions \cup {NoVersion}] \cup {Torn}
    /\ disk \in [Items -> Contents] /\ prev \in [Items -> Contents]
    /\ triggers \in 0..TriggerCap /\ crashes \in 0..CrashCap /\ failures \in 0..FailCap

\* No item, and no copy kept of one, ever holds what came from a file whose
\* hash and signature were not the publisher's (_apply_update).
OnlyVerified == \A i \in Items : disk[i] # Unverified /\ prev[i] # Unverified

\* An item that was whole when an attempt began is, while the attempt goes
\* on and wherever it is cut, whole in its place or in its .prev copy: the
\* copy is complete before the item is touched (_apply_model_update,
\* _apply_ros2_update).  The configuration has no copy.
CopySurvives ==
    RollbackEnabled => \A i \in whole \ {Config} : disk[i] \in Versions \/ prev[i] \in Versions

\* A version is recorded as current only at a moment when every item of the
\* update holds that version, and packages that do not build are not recorded.
RecordedIsInstalled ==
    [][\A t \in Types : versions'[t] # versions[t] /\ pc # "down" =>
        /\ \A i \in ItemsOf[t] : disk'[i] = versions'[t]
        /\ t = "ros2" => versions'[t] \notin Broken]_vars

\* With auto_apply, an update of the manifest that can be installed, and whose
\* type no trigger touches, is in the end installed and recorded for good,
\* whatever was cut before, and whichever entries before it fail.
ManifestInstalled ==
    \A u \in ToSet(Manifest) :
        (/\ u.url /\ u.sha /\ u.type \in Types /\ u.component = u.type
         /\ ~(u.type = "ros2" /\ u.version \in Broken)
         /\ \A t \in Triggers : t.type # u.type)
        => <>[](versions[u.type] = u.version /\ \A i \in ItemsOf[u.type] : disk[i] = u.version)

\* The safety of an update: nothing unverified is installed, and what was whole before it stays
\* whole somewhere.
OtaSafety == TypeOK /\ OnlyVerified /\ CopySurvives
=============================================================================
