---------------------------- MODULE OtaManager_proof ----------------------------
(***************************************************************************)
(* For any packages, versions, manifest and triggers, and for any number   *)
(* of failed steps and of ends of the process: what is installed was       *)
(* verified, what was whole before an update survives it, and a version is *)
(* recorded only of what is installed.                                     *)
(***************************************************************************)
EXTENDS OtaManager, TLAPS

Updates == ToSet(Manifest) \cup Triggers

\* The steps of an update, in the order they come in.
Fetching == {"download", "sha", "signature"}
Replacing == {"backup", "install"}
Finishing == {"build", "restart", "record"}
PcValues ==
  Fetching \cup Replacing \cup Finishing \cup {"check", "apply", "extract", "save", "down"}

AttemptTypes ==
  /\ pc \in PcValues
  /\ checks \in Seq(ToSet(Manifest))
  /\ update \in Updates /\ payload \in Payloads
  /\ todo \subseteq Items /\ item \in Items /\ whole \subseteq Items
FileTypes ==
  /\ versions \in [Types -> Versions \cup {NoVersion}]
  /\ saved \in [Types -> Versions \cup {NoVersion}] \cup {Torn}
  /\ disk \in [Items -> Contents] /\ prev \in [Items -> Contents]
CountTypes ==
  triggers \in 0 .. TriggerCap /\ crashes \in 0 .. CrashCap /\ failures \in 0 .. FailCap

\* The mark of an attempt (_update_in_progress).
Marked ==
  /\ inProgress \in BOOLEAN
  /\ pc # "down" => (inProgress <=> pc # "check")

\* What is put in place is genuine: the verifications lie before it.
Verified ==
  pc \in Replacing \cup Finishing \cup {"apply", "extract"} => payload = "genuine"

\* Until an item is replaced it is what it was, and then its copy is.
Untouched ==
  /\ pc \in Fetching \cup {"apply"} => \A i \in whole : disk[i] \in Versions
  /\ pc \in Replacing => \A i \in whole \cap todo : disk[i] \in Versions
  /\ pc = "install" => /\ item \in todo
                       /\ RollbackEnabled /\ item \in whole => prev[item] \in Versions

\* What has been replaced holds the new version.
Replaced ==
  /\ pc \in Replacing \cup Finishing \cup {"extract"} => update.type \in Types
  /\ pc \in Replacing => todo \subseteq ItemsOf[update.type]
  /\ pc \in Replacing =>
       \A i \in ItemsOf[update.type] \ todo : disk[i] = update.version
  /\ pc = "extract" => update.type = "config"
  /\ pc \in Finishing => \A i \in ItemsOf[update.type] : disk[i] = update.version
  /\ pc \in {"restart", "record"} /\ update.type = "ros2" => CanBuild

OtaInv ==
  AttemptTypes /\ FileTypes /\ Verified /\ OnlyVerified /\ Untouched /\ CopySurvives /\ Replaced

\* What ItemsOf names, and that it names items.
LEMMA ItemsOfTypes ==
  /\ ItemsOf["model"] = {Model} /\ ItemsOf["ros2"] = Packages /\ ItemsOf["config"] = {Config}
  /\ \A t \in Types : ItemsOf[t] \subseteq Items
  /\ Model \in Items /\ Config \in Items /\ Packages \subseteq Items
<1>1. ItemsOf["model"] = {Model} /\ ItemsOf["ros2"] = Packages /\ ItemsOf["config"] = {Config}
  BY SMT DEF ItemsOf
<1>2. Model \in Items /\ Config \in Items /\ Packages \subseteq Items
  BY DEF Items
<1> QED  BY <1>1, <1>2 DEF Types

\* The invariant holds of the robot as it was delivered.
LEMMA InitOta == Init => OtaInv /\ CountTypes /\ Marked
<1> SUFFICES ASSUME Init  PROVE OtaInv /\ CountTypes /\ Marked
  OBVIOUS
<1> USE DEF Init
<1>1. AttemptTypes
  <2>1. Head(Manifest) \in ToSet(Manifest)
    BY OtaAssumption, SMT DEF OtaAssumption
  <2>2. update \in Updates /\ Model \in Items
    BY <2>1, ItemsOfTypes DEF Updates
  <2>3. checks \in Seq(ToSet(Manifest))
    BY SMT
  <2> QED  BY <2>2, <2>3, Zenon DEF AttemptTypes, PcValues, Payloads
<1>2. FileTypes /\ OnlyVerified
  BY OtaAssumption, SMT DEF OtaAssumption, FileTypes, NoVersions, Contents, OnlyVerified
<1>3. CountTypes
  BY OtaAssumption, SMT DEF OtaAssumption, CountTypes
<1>4. Marked
  BY Zenon DEF Marked
<1>5. Verified /\ Untouched /\ CopySurvives /\ Replaced
  BY DEF Verified, Untouched, CopySurvives, Replaced, Fetching, Replacing, Finishing
<1> QED  BY <1>1, <1>2, <1>3, <1>4, <1>5 DEF OtaInv

-------------------------------------------------------------------------------
(* The start of an attempt, and its end.                                   *)

\* A step that changes nothing but where the callback stands, towards the idle check or the
\* end of the process, keeps everything.
LEMMA RestKeeps ==
  ASSUME OtaInv, pc' \in {"check", "down"}, UNCHANGED <<attempt, disk, prev, versions>>,
         checks' \in Seq(ToSet(Manifest)), saved' \in {saved, versions, Torn}
  PROVE  OtaInv'
<1> USE DEF OtaInv
<1>1. AttemptTypes'
  BY Zenon DEF AttemptTypes, attempt, PcValues
<1>2. FileTypes'
  BY Zenon DEF FileTypes
<1>3. OnlyVerified' /\ CopySurvives'
  BY DEF OnlyVerified, CopySurvives, attempt
<1>4. Verified' /\ Untouched' /\ Replaced'
  BY DEF Verified, Untouched, Replaced, Fetching, Replacing, Finishing
<1> QED  BY <1>1, <1>2, <1>3, <1>4

\* An update begins with nothing verified and nothing replaced.
LEMMA BeginKeeps ==
  ASSUME OtaInv, NEW u \in Updates, NEW rest \in Seq(ToSet(Manifest)), Begin(u, rest),
         UNCHANGED <<payload, todo, item, versions, files>>
  PROVE  OtaInv'
<1> USE DEF OtaInv, Begin
<1>1. AttemptTypes'
  BY Zenon DEF AttemptTypes, PcValues, Fetching
<1>2. FileTypes' /\ OnlyVerified'
  BY DEF FileTypes, OnlyVerified, files
<1>3. Verified' /\ Replaced'
  BY DEF Verified, Replaced, Replacing, Finishing
<1>4. Untouched' /\ CopySurvives'
  BY DEF Untouched, CopySurvives, Replacing, files
<1> QED  BY <1>1, <1>2, <1>3, <1>4

\* Triggers and the periodic check only choose what to update.
LEMMA ChecksKeep ==
  ASSUME OtaInv, (\E u \in Triggers : OnUpdateTrigger(u)) \/ PeriodicCheck \/ CheckEntry \/ Start
  PROVE  OtaInv'
<1>1. CASE \E u \in Triggers : OnUpdateTrigger(u)
  <2>1. PICK u \in Triggers : OnUpdateTrigger(u)
    BY <1>1
  <2>2. u \in Updates /\ <<>> \in Seq(ToSet(Manifest))
    BY SMT DEF Updates
  <2> QED  BY <2>1, <2>2, BeginKeeps DEF OnUpdateTrigger
<1>2. CASE PeriodicCheck
  <2>1. pc' = "check"
    BY <1>2 DEF PeriodicCheck, Idle
  <2> QED  BY OtaAssumption, <1>2, <2>1, RestKeeps DEF OtaAssumption, PeriodicCheck, files
<1>3. CASE CheckEntry
  <2>1. /\ Head(checks) \in ToSet(Manifest) /\ Tail(checks) \in Seq(ToSet(Manifest))
        /\ checks \in Seq(ToSet(Manifest))
    BY <1>3, SMT DEF CheckEntry, OtaInv, AttemptTypes
  <2>2. UNCHANGED <<versions, files>> /\ pc = "check"
    BY <1>3 DEF CheckEntry
  <2>3. CASE Begin(Head(checks), Tail(checks)) /\ UNCHANGED <<payload, todo, item>>
    BY <2>1, <2>2, <2>3, BeginKeeps DEF Updates
  <2>4. CASE pc' = "down" /\ UNCHANGED <<checks, attempt>>
    BY <2>1, <2>2, <2>4, RestKeeps DEF files
  <2>5. CASE checks' = Tail(checks) /\ UNCHANGED <<pc, attempt>>
    BY <2>1, <2>2, <2>5, RestKeeps DEF files
  <2> QED  BY <1>3, <2>3, <2>4, <2>5 DEF CheckEntry
<1>4. CASE Start
  <2>1. pc' = "check" /\ checks' = <<>> /\ UNCHANGED <<attempt, files>>
    BY <1>4 DEF Start
  <2>2. versions' \in [Types -> Versions \cup {NoVersion}]
    BY <1>4, SMT DEF Start, OtaInv, FileTypes, NoVersions
  <2>3. FileTypes' /\ OnlyVerified' /\ CopySurvives'
    BY <2>1, <2>2 DEF FileTypes, OtaInv, OnlyVerified, CopySurvives, files, attempt
  <2>4. checks' \in Seq(ToSet(Manifest))
    BY <2>1, SMT
  <2>5. AttemptTypes'
    BY <2>1, <2>4, Zenon DEF OtaInv, AttemptTypes, attempt, PcValues
  <2>6. Verified' /\ Untouched' /\ Replaced'
    BY <2>1 DEF Verified, Untouched, Replaced, Fetching, Replacing, Finishing
  <2> QED  BY <2>3, <2>5, <2>6 DEF OtaInv
<1> QED  BY <1>1, <1>2, <1>3, <1>4

-------------------------------------------------------------------------------
(* The steps of an attempt.                                                *)

\* What Over does to the rest.
LEMMA OverKeeps ==
  ASSUME OtaInv, Over, UNCHANGED <<disk, prev, versions>>, saved' \in {saved, versions, Torn}
  PROVE  OtaInv'
BY RestKeeps DEF Over, OtaInv, AttemptTypes

\* What is downloaded and verified is the payload of the attempt.
LEMMA VerificationKeeps ==
  ASSUME OtaInv, Download \/ VerifySha \/ VerifySignature \/ Apply
  PROVE  OtaInv'
<1> USE DEF OtaInv
<1>1. UNCHANGED <<versions, files, checks, update, item, whole>>
  BY DEF Download, VerifySha, VerifySignature, Apply, Over, attempt
<1>2. FileTypes' /\ OnlyVerified' /\ CopySurvives'
  BY <1>1 DEF FileTypes, OnlyVerified, CopySurvives, files
<1>3. CASE Download
  <2>1. AttemptTypes'
    BY <1>1, <1>3, Zenon DEF Download, AttemptTypes, PcValues, Fetching
  <2>2. pc = "download" /\ pc' \in {"sha", "check"}
    BY <1>3 DEF Download
  <2>3. Verified' /\ Untouched' /\ Replaced'
    BY <1>1, <2>2 DEF Verified, Untouched, Replaced, Fetching, Replacing, Finishing, files
  <2> QED  BY <1>2, <2>1, <2>3
<1>4. CASE (VerifySha \/ VerifySignature \/ Apply) /\ Over
  BY <1>1, <1>4, OverKeeps DEF files
<1>5. CASE (VerifySha \/ VerifySignature) /\ ~Over
  <2>1. UNCHANGED attempt /\ pc' \in {"signature", "apply"} /\ pc \in {"sha", "signature"}
    BY <1>5 DEF VerifySha, VerifySignature
  <2>2. pc' = "apply" => payload = "genuine"
    BY <1>5 DEF VerifySha, VerifySignature
  <2>3. AttemptTypes'
    BY <1>1, <2>1, Zenon DEF AttemptTypes, attempt, PcValues, Fetching
  <2>4. Verified' /\ Untouched' /\ Replaced'
    BY <1>1, <2>1, <2>2
       DEF Verified, Untouched, Replaced, Fetching, Replacing, Finishing, files, attempt
  <2> QED  BY <1>2, <2>3, <2>4
<1>6. CASE Apply /\ ~Over
  <2>1. /\ update.type \in Types /\ todo' = ItemsOf[update.type] /\ payload' = payload
        /\ pc = "apply" /\ pc' = IF update.type = "config" THEN "extract" ELSE "backup"
    BY <1>6 DEF Apply
  <2>2. todo' \subseteq Items
    BY <2>1, ItemsOfTypes
  <2>3. AttemptTypes'
    BY <1>1, <2>1, <2>2, Zenon DEF AttemptTypes, PcValues, Replacing
  <2>4. Verified' /\ Untouched' /\ Replaced'
    BY <1>1, <2>1 DEF Verified, Untouched, Replaced, Fetching, Replacing, Finishing, files
  <2> QED  BY <1>2, <2>3, <2>4
<1> QED  BY <1>3, <1>4, <1>5, <1>6

\* The copy of an item that was whole is whole.
LEMMA BackUpKeeps == ASSUME OtaInv, BackUp  PROVE OtaInv'
<1> USE DEF OtaInv
<1>1. PICK i \in todo : /\ item' = i
                        /\ prev' = IF KeepsCopy(i) THEN [prev EXCEPT ![i] = disk[i]] ELSE prev
  BY DEF BackUp
<1>2. /\ pc = "backup" /\ pc' = "install"
      /\ UNCHANGED <<checks, update, payload, todo, whole, versions, saved, disk>>
  BY DEF BackUp
<1>3. i \in Items
  BY DEF AttemptTypes
<1>4. AttemptTypes'
  BY <1>1, <1>2, <1>3, Zenon DEF AttemptTypes, PcValues, Replacing
<1>5. FileTypes' /\ OnlyVerified'
  BY <1>1, <1>2, <1>3, SMT DEF FileTypes, OnlyVerified
<1>6. \A j \in Items : prev'[j] = prev[j] \/ (j = i /\ prev'[j] = disk[j])
  BY <1>1, <1>3, SMT DEF FileTypes
<1>7. CopySurvives'
  BY <1>1, <1>2, <1>6 DEF CopySurvives, AttemptTypes, Untouched, Replacing
<1>8. Untouched'
  <2>1. ASSUME RollbackEnabled, i \in whole  PROVE prev'[i] \in Versions
    <3>1. disk[i] \in Versions
      BY <1>2, <2>1 DEF Untouched, Replacing
    <3>2. KeepsCopy(i)
      BY OtaAssumption, <2>1, <3>1 DEF OtaAssumption, KeepsCopy
    <3> QED  BY <1>1, <1>3, <3>1, <3>2, SMT DEF FileTypes
  <2> QED  BY <1>1, <1>2, <2>1 DEF Untouched, Fetching, Replacing
<1>9. Verified' /\ Replaced'
  BY <1>2 DEF Verified, Replaced, Replacing, Finishing
<1> QED  BY <1>4, <1>5, <1>7, <1>8, <1>9

\* The content put in place is the version of the update, and it is genuine.
LEMMA ContentGenuine ==
  ASSUME OtaInv, pc \in {"install", "extract"}
  PROVE  Content = update.version /\ Content \in Versions
<1>1. payload = "genuine" /\ update \in Updates
  BY DEF OtaInv, Verified, AttemptTypes, Replacing
<1> QED  BY OtaAssumption, <1>1 DEF OtaAssumption, Content, Updates

\* An item is replaced after its copy was made.
LEMMA InstallKeeps == ASSUME OtaInv, Install  PROVE OtaInv'
<1> USE DEF OtaInv
<1>1. /\ pc = "install" /\ todo' = todo \ {item}
      /\ disk' = [disk EXCEPT ![item] = Content]
      /\ UNCHANGED <<checks, update, payload, item, whole, versions, saved, prev>>
  BY DEF Install
<1>2. pc' = IF todo' # {} THEN "backup" ELSE IF update.type = "ros2" THEN "build" ELSE "record"
  BY DEF Install
<1>3. Content = update.version /\ Content \in Versions
  BY <1>1, ContentGenuine
<1>4. /\ item \in Items /\ disk'[item] = update.version
      /\ \A j \in Items \ {item} : disk'[j] = disk[j]
  BY <1>1, <1>3, SMT DEF AttemptTypes, FileTypes
<1>5. AttemptTypes'
  <2>1. pc' \in PcValues
    BY <1>2 DEF PcValues, Replacing, Finishing
  <2>2. todo' \subseteq Items
    BY <1>1 DEF AttemptTypes
  <2> QED  BY <1>1, <2>1, <2>2, Zenon DEF AttemptTypes
<1>6. FileTypes' /\ OnlyVerified'
  BY OtaAssumption, <1>1, <1>3, <1>4, SMT DEF OtaAssumption, FileTypes, OnlyVerified, Contents
<1>7. CopySurvives'
  BY <1>1, <1>3, <1>4 DEF CopySurvives, AttemptTypes
<1>8. Verified' /\ Untouched'
  BY <1>1, <1>2, <1>4 DEF Verified, Untouched, AttemptTypes, Fetching, Replacing, Finishing
<1>9. Replaced'
  <2>1. update.type \in Types /\ ItemsOf[update.type] \subseteq Items
    BY <1>1, ItemsOfTypes DEF Replaced, Replacing
  <2>2. \A i \in ItemsOf[update.type] \ todo' : disk'[i] = update.version
    BY <1>1, <1>4, <2>1 DEF Replaced, Replacing
  <2>3. todo' \subseteq ItemsOf[update.type]
    BY <1>1 DEF Replaced, Replacing
  <2>4. pc' # "restart" /\ (pc' = "record" => update.type # "ros2") /\ pc' # "extract"
    BY <1>2
  <2>5. pc' \in Finishing => todo' = {}
    BY <1>2 DEF Finishing
  <2> QED  BY <1>1, <2>1, <2>2, <2>3, <2>4, <2>5 DEF Replaced
<1> QED  BY <1>5, <1>6, <1>7, <1>8, <1>9

\* The configuration is extracted from a payload that was verified.
LEMMA ExtractKeeps == ASSUME OtaInv, ExtractConfig  PROVE OtaInv'
<1> USE DEF OtaInv
<1>1. /\ pc = "extract" /\ pc' = "record"
      /\ disk' = [disk EXCEPT ![Config] = Content]
      /\ UNCHANGED <<checks, attempt, versions, saved, prev>>
  BY DEF ExtractConfig
<1>2. Content = update.version /\ Content \in Versions
  BY <1>1, ContentGenuine
<1>3. /\ Config \in Items /\ disk'[Config] = update.version
      /\ \A j \in Items \ {Config} : disk'[j] = disk[j]
  BY <1>1, <1>2, ItemsOfTypes, SMT DEF FileTypes
<1>4. AttemptTypes'
  BY <1>1, Zenon DEF AttemptTypes, attempt, PcValues, Finishing
<1>5. FileTypes' /\ OnlyVerified'
  BY OtaAssumption, <1>1, <1>2, <1>3, SMT DEF OtaAssumption, FileTypes, OnlyVerified, Contents
<1>6. CopySurvives'
  BY <1>1, <1>2, <1>3 DEF CopySurvives, AttemptTypes, attempt
<1>7. Verified' /\ Untouched'
  BY <1>1 DEF Verified, Untouched, Fetching, Replacing, Finishing, attempt
<1>8. Replaced'
  BY <1>1, <1>3, ItemsOfTypes DEF Replaced, Replacing, Finishing, attempt, Types
<1> QED  BY <1>4, <1>5, <1>6, <1>7, <1>8

\* Build, restart and the record of what was installed.
LEMMA FinishKeeps ==
  ASSUME OtaInv, Build \/ RestartService \/ Record \/ SaveCurrentVersions
  PROVE  OtaInv'
<1> USE DEF OtaInv
<1>1. CASE Build /\ Over
  BY <1>1, OverKeeps DEF Build, files
<1>2. CASE (Build /\ ~Over) \/ RestartService
  <2>1. UNCHANGED <<checks, attempt, versions, files>>
    BY <1>2 DEF Build, RestartService
  <2>2. pc \in {"build", "restart"} /\ pc' \in {"restart", "record"}
    BY <1>2 DEF Build, RestartService
  <2>3. update.type = "ros2" => CanBuild
    BY <1>2 DEF Build, RestartService, Replaced
  <2>4. AttemptTypes'
    BY <2>1, <2>2, Zenon DEF AttemptTypes, attempt, PcValues, Finishing
  <2>5. FileTypes' /\ OnlyVerified' /\ CopySurvives'
    BY <2>1 DEF FileTypes, OnlyVerified, CopySurvives, files, attempt
  <2>6. Verified' /\ Untouched'
    BY <2>1, <2>2 DEF Verified, Untouched, Fetching, Replacing, Finishing, attempt
  <2>7. Replaced'
    BY <2>1, <2>2, <2>3 DEF Replaced, Replacing, Finishing, attempt, files, CanBuild
  <2> QED  BY <2>4, <2>5, <2>6, <2>7
<1>3. CASE Record
  <2>1. /\ versions' = [versions EXCEPT ![update.type] = update.version]
        /\ UNCHANGED <<checks, attempt, files>> /\ pc' = "save"
    BY <1>3 DEF Record
  <2>2. update.version \in Versions /\ update.type \in Types
    BY OtaAssumption, <1>3 DEF OtaAssumption, Record, AttemptTypes, Updates, Replaced, Finishing
  <2>3. versions' \in [Types -> Versions \cup {NoVersion}]
    BY <2>1, <2>2, SMT DEF FileTypes
  <2>4. FileTypes' /\ OnlyVerified' /\ CopySurvives'
    BY <2>1, <2>3 DEF FileTypes, OnlyVerified, CopySurvives, files, attempt
  <2>5. AttemptTypes'
    BY <2>1, Zenon DEF AttemptTypes, attempt, PcValues
  <2>6. Verified' /\ Untouched' /\ Replaced'
    BY <2>1 DEF Verified, Untouched, Replaced, Fetching, Replacing, Finishing
  <2> QED  BY <2>4, <2>5, <2>6
<1>4. CASE SaveCurrentVersions
  BY <1>4, OverKeeps DEF SaveCurrentVersions
<1> QED  BY <1>1, <1>2, <1>3, <1>4

-------------------------------------------------------------------------------
(* A step that is cut.                                                     *)

\* Whatever is torn, another part is whole.
LEMMA CutKeepsFiles ==
  ASSUME OtaInv, CutShort, versions' = versions, whole' = whole
  PROVE  FileTypes' /\ OnlyVerified' /\ CopySurvives'
<1> USE DEF OtaInv
<1>1. CASE UNCHANGED files
  BY <1>1 DEF files, FileTypes, OnlyVerified, CopySurvives
<1>2. ASSUME NEW i \in todo, NEW c \in Remains(i), pc = "backup",
             prev' = [prev EXCEPT ![i] = c], UNCHANGED <<saved, disk>>
      PROVE  FileTypes' /\ OnlyVerified' /\ CopySurvives'
  <2>1. i \in Items /\ c \in {Torn, Absent}
    BY <1>2 DEF AttemptTypes, Remains
  <2>2. FileTypes' /\ OnlyVerified'
    BY OtaAssumption, <1>2, <2>1, SMT DEF OtaAssumption, FileTypes, OnlyVerified, Contents
  <2>3. \A j \in Items \ {i} : prev'[j] = prev[j]
    BY <1>2, SMT DEF FileTypes
  <2>4. i \in whole => disk[i] \in Versions
    BY <1>2 DEF Untouched, Replacing
  <2>5. CopySurvives'
    BY <1>2, <2>3, <2>4 DEF CopySurvives, AttemptTypes
  <2> QED  BY <2>2, <2>5
<1>3. ASSUME NEW c \in Remains(item), pc = "install",
             disk' = [disk EXCEPT ![item] = c], UNCHANGED <<saved, prev>>
      PROVE  FileTypes' /\ OnlyVerified' /\ CopySurvives'
  <2>1. item \in Items /\ c \in {Torn, Absent}
    BY <1>3 DEF AttemptTypes, Remains
  <2>2. FileTypes' /\ OnlyVerified'
    BY OtaAssumption, <1>3, <2>1, SMT DEF OtaAssumption, FileTypes, OnlyVerified, Contents
  <2>3. \A j \in Items \ {item} : disk'[j] = disk[j]
    BY <1>3, SMT DEF FileTypes
  <2>4. RollbackEnabled /\ item \in whole => prev[item] \in Versions
    BY <1>3 DEF Untouched
  <2>5. CopySurvives'
    BY <1>3, <2>3, <2>4 DEF CopySurvives, AttemptTypes
  <2> QED  BY <2>2, <2>5
<1>4. CASE pc = "extract" /\ disk' = [disk EXCEPT ![Config] = Torn] /\ UNCHANGED <<saved, prev>>
  <2>1. FileTypes' /\ OnlyVerified'
    BY OtaAssumption, <1>4, ItemsOfTypes, SMT DEF OtaAssumption, FileTypes, OnlyVerified, Contents
  <2>2. \A j \in Items \ {Config} : disk'[j] = disk[j]
    BY <1>4, SMT DEF FileTypes
  <2>3. CopySurvives'
    BY <1>4, <2>2 DEF CopySurvives, AttemptTypes
  <2> QED  BY <2>1, <2>3
<1>5. CASE saved' = Torn /\ UNCHANGED <<disk, prev>>
  BY <1>5 DEF FileTypes, OnlyVerified, CopySurvives
<1> QED  BY <1>1, <1>2, <1>3, <1>4, <1>5, Zenon DEF CutShort

\* A step that fails, or the process that ends, at any place.
LEMMA CutKeeps ==
  ASSUME OtaInv, StepFails \/ Crash
  PROVE  OtaInv'
<1>1. CutShort /\ UNCHANGED <<versions, checks, attempt>> /\ pc' \in {"check", "down"}
  BY DEF StepFails, Crash, Over
<1>2. FileTypes' /\ OnlyVerified' /\ CopySurvives'
  BY <1>1, CutKeepsFiles DEF attempt
<1>3. AttemptTypes'
  BY <1>1, Zenon DEF OtaInv, AttemptTypes, attempt, PcValues
<1>4. Verified' /\ Untouched' /\ Replaced'
  BY <1>1 DEF Verified, Untouched, Replaced, Fetching, Replacing, Finishing
<1> QED  BY <1>2, <1>3, <1>4 DEF OtaInv

\* Every step keeps the invariant.
LEMMA OtaInvStep == OtaInv /\ [Next]_vars => OtaInv'
<1> SUFFICES ASSUME OtaInv, [Next]_vars  PROVE OtaInv'
  OBVIOUS
<1>1. CASE UNCHANGED vars
  BY <1>1 DEF vars, attempt, files, OtaInv, AttemptTypes, FileTypes, Verified, OnlyVerified,
              Untouched, CopySurvives, Replaced, CanBuild
<1>2. CASE Step
  BY <1>2, VerificationKeeps, BackUpKeeps, InstallKeeps, ExtractKeeps, FinishKeeps DEF Step
<1> QED  BY <1>1, <1>2, ChecksKeep, CutKeeps DEF Next

-------------------------------------------------------------------------------
(* The mark and the counters.                                              *)

\* An update is marked as in progress exactly while it is.
LEMMA MarkedStep == Marked /\ [Next]_vars => Marked'
<1> SUFFICES ASSUME Marked, [Next]_vars  PROVE Marked'
  OBVIOUS
<1> USE DEF Marked
<1>1. CASE (\E u \in Triggers : OnUpdateTrigger(u)) \/ PeriodicCheck \/ CheckEntry \/ Start
  <2>1. CASE \E u \in Triggers : OnUpdateTrigger(u)
    BY <2>1, Zenon DEF OnUpdateTrigger, Begin
  <2>2. CASE Start
    BY <2>2, Zenon DEF Start
  <2>3. CASE PeriodicCheck \/ CheckEntry
    <3>1. \/ inProgress' = TRUE /\ pc' = "download"
          \/ inProgress' = inProgress /\ (pc' = "down" \/ pc' = pc)
      BY <2>3 DEF PeriodicCheck, CheckEntry, Begin
    <3>2. CASE inProgress' = TRUE /\ pc' = "download"
      BY <3>2, Zenon
    <3>3. CASE inProgress' = inProgress /\ pc' = "down"
      BY <3>3, Zenon
    <3>4. CASE inProgress' = inProgress /\ pc' = pc
      BY <3>4, Zenon
    <3> QED  BY <3>1, <3>2, <3>3, <3>4
  <2> QED  BY <1>1, <2>1, <2>2, <2>3
<1>2. CASE Download \/ VerifySha \/ VerifySignature \/ Apply
  BY <1>2, Zenon DEF Download, VerifySha, VerifySignature, Apply, Over
<1>3. CASE BackUp \/ Install \/ ExtractConfig
  BY <1>3, Zenon DEF BackUp, Install, ExtractConfig
<1>4. CASE Build \/ RestartService \/ Record \/ SaveCurrentVersions
  BY <1>4, Zenon DEF Build, RestartService, Record, SaveCurrentVersions, Over
<1>5. CASE StepFails \/ Crash
  BY <1>5, Zenon DEF StepFails, Crash, Over
<1>6. CASE UNCHANGED vars
  BY <1>6 DEF vars
<1> QED  BY <1>1, <1>2, <1>3, <1>4, <1>5, <1>6 DEF Next, Step

\* Every step keeps the counts within their bounds.
LEMMA CountTypesStep == CountTypes /\ [Next]_vars => CountTypes'
<1> SUFFICES ASSUME CountTypes, [Next]_vars  PROVE CountTypes'
  OBVIOUS
<1> USE DEF CountTypes, counters
<1>1. CASE (\E u \in Triggers : OnUpdateTrigger(u)) \/ PeriodicCheck \/ CheckEntry \/ Start
  BY OtaAssumption, <1>1, SMT DEF OtaAssumption, OnUpdateTrigger, PeriodicCheck, CheckEntry, Start
<1>2. CASE Step
  BY <1>2, SMT DEF Step, Download, VerifySha, VerifySignature, Apply, BackUp, Install,
                   ExtractConfig, Build, RestartService, Record, SaveCurrentVersions
<1>3. CASE StepFails \/ Crash
  BY OtaAssumption, <1>3, SMT DEF OtaAssumption, StepFails, Crash
<1>4. CASE UNCHANGED vars
  BY <1>4 DEF vars
<1> QED  BY <1>1, <1>2, <1>3, <1>4 DEF Next

-------------------------------------------------------------------------------
(* The theorems.                                                           *)

\* _apply_update: what is installed was verified, and what was whole before an update is whole
\* in its place or in its copy, wherever the update is cut; types included.
THEOREM SpecOtaSafety == Spec => []OtaSafety
<1>1. OtaInv /\ CountTypes /\ Marked => OtaSafety
  <2> SUFFICES ASSUME OtaInv, CountTypes, Marked  PROVE OtaSafety
    OBVIOUS
  <2>1. pc \in {"check", "download", "sha", "signature", "apply", "backup", "install",
                "extract", "build", "restart", "record", "save", "down"}
    BY DEF OtaInv, AttemptTypes, PcValues, Fetching, Replacing, Finishing
  <2> QED
    BY <2>1, Zenon
       DEF OtaInv, AttemptTypes, FileTypes, CountTypes, Marked, Updates, OtaSafety, TypeOK
<1> QED  BY InitOta, OtaInvStep, CountTypesStep, MarkedStep, <1>1, PTL DEF Spec

\* A version is written down only by Record, and of the type of the update.
LEMMA OnlyRecordRecords ==
  ASSUME OtaInv, [Next]_vars, pc # "down", versions' # versions
  PROVE  Record
<1>1. Step \/ StepFails \/ Crash \/ CheckEntry \/ PeriodicCheck
      \/ \E u \in Triggers : OnUpdateTrigger(u)
  BY Zenon DEF Next, vars, Start
<1> QED
  BY <1>1, Zenon DEF OnUpdateTrigger, PeriodicCheck, CheckEntry, StepFails, Crash, Step, Download,
     VerifySha, VerifySignature, Apply, BackUp, Install, ExtractConfig, Build, RestartService,
     SaveCurrentVersions

\* _save_current_versions: a version is recorded only of items that hold it, and of packages
\* only if they built.
THEOREM SpecRecordedIsInstalled == Spec => RecordedIsInstalled
<1>1. OtaInv /\ [Next]_vars =>
        \A t \in Types : versions'[t] # versions[t] /\ pc # "down" =>
          /\ \A i \in ItemsOf[t] : disk'[i] = versions'[t]
          /\ t = "ros2" => versions'[t] \notin Broken
  <2> SUFFICES ASSUME OtaInv, [Next]_vars, NEW t \in Types,
                      versions'[t] # versions[t], pc # "down"
               PROVE  /\ \A i \in ItemsOf[t] : disk'[i] = versions'[t]
                      /\ t = "ros2" => versions'[t] \notin Broken
    OBVIOUS
  <2>1. Record
    BY OnlyRecordRecords
  <2>2. /\ pc = "record" /\ disk' = disk
        /\ versions' = [versions EXCEPT ![update.type] = update.version]
    BY <2>1 DEF Record, files
  <2>3. t = update.type /\ versions'[t] = update.version
    BY <2>2, SMT DEF OtaInv, FileTypes
  <2>4. \A i \in ItemsOf[t] : disk[i] = update.version
    BY <2>2, <2>3 DEF OtaInv, Replaced, Finishing
  <2>5. ASSUME t = "ros2"  PROVE update.version \notin Broken
    <3>1. PICK p \in Packages : disk[p] = update.version
      BY OtaAssumption, <2>4, <2>5, ItemsOfTypes DEF OtaAssumption
    <3> QED  BY <2>2, <2>3, <2>5, <3>1 DEF OtaInv, Replaced, CanBuild
  <2> QED  BY <2>2, <2>3, <2>4, <2>5
<1>2. Spec => []OtaInv
  BY InitOta, OtaInvStep, PTL DEF Spec
<1> QED  BY <1>1, <1>2, PTL DEF Spec, RecordedIsInstalled
===============================================================================
