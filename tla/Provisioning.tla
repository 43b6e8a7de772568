---------------------------- MODULE Provisioning ----------------------------
(***************************************************************************)
(* Key provisioning (sdk/tools/provision_keys.py): the manifests and the   *)
(* signing keys on disk, and what is flashed to the devices.  One run of   *)
(* the tool at a time; a run may be cut short between any two writes.  A   *)
(* key pair and its PSK are one number, drawn anew each time.              *)
(***************************************************************************)
EXTENDS Naturals, Sequences

CONSTANTS Devices, Files,   \* devices, and the manifests' paths
          FileOf,           \* [Devices -> Files], safe_name: two devices may get the same
          Lists,            \* device lists for batch
          KeyCap            \* bound: key pairs drawn

ASSUME ProvisioningAssumption ==
    /\ FileOf \in [Devices -> Files] /\ KeyCap \in Nat
    /\ Lists \subseteq Seq(Devices)

NoKey == 0

VARIABLES
    manifest,    \* [Files -> [key, provisioned]; key 0: no manifest]
    signing,     \* [Files -> the key pair whose private half is in .key.pem]
    nvs,         \* [Devices -> the key its NVS holds]
    tool,        \* what the run still has to do
    drawn,       \* keys drawn so far
    flashed,     \* history: keys that have been flashed
    severed,     \* history: keys whose run was cut short between its two files
    overwritten  \* history: keys whose files were written over

disk == <<manifest, signing>>
provisioningVars == <<disk, nvs, tool, drawn, flashed, severed, overwritten>>

\* The rows of a batch still to come, its --force, the file whose private key is next.
Ready == [do |-> "nothing", rows |-> <<>>, force |-> FALSE, file |-> "", key |-> NoKey]

ProvisioningInit ==
    /\ manifest = [f \in Files |-> [key |-> NoKey, provisioned |-> FALSE]]
    /\ signing = [f \in Files |-> NoKey]
    /\ nvs = [d \in Devices |-> NoKey]
    /\ tool = Ready /\ drawn = 0
    /\ flashed = {} /\ severed = {} /\ overwritten = {}

-----------------------------------------------------------------------------
(* Two files for a key: first the manifest, then the private key.          *)

WriteManifest(f) ==
    /\ drawn < KeyCap /\ drawn' = drawn + 1
    /\ overwritten' = overwritten \cup {manifest[f].key, signing[f]}
    /\ manifest' = [manifest EXCEPT ![f] = [key |-> drawn', provisioned |-> FALSE]]

\* Mutant: the private key is written only where there is none.
WritePrivateKey_Once(f, k) ==
    signing' = [signing EXCEPT ![f] = IF @ = NoKey THEN k ELSE @]

WritePrivateKey(f, k) == signing' = [signing EXCEPT ![f] = k]

\* cmd_generate asks nobody before it writes over a manifest.
Generate(f) ==
    /\ tool = Ready
    /\ WriteManifest(f)
    /\ tool' = [Ready EXCEPT !.do = "key", !.file = f, !.key = drawn']
    /\ UNCHANGED <<signing, nvs, flashed, severed>>

PrivateKey ==
    /\ tool.do = "key"
    /\ WritePrivateKey(tool.file, tool.key)
    /\ tool' = IF tool.rows = <<>> THEN Ready ELSE [tool EXCEPT !.do = "rows"]
    /\ UNCHANGED <<manifest, nvs, drawn, flashed, severed, overwritten>>

Batch(rows, force) ==
    /\ tool = Ready
    /\ tool' = [Ready EXCEPT !.do = "rows", !.rows = rows, !.force = force]
    /\ UNCHANGED <<disk, nvs, drawn, flashed, severed, overwritten>>

\* A row of cmd_batch: a manifest that is there is kept, complete or not, without --force.
BatchRow ==
    /\ tool.do = "rows" /\ tool.rows # <<>>
    /\ LET f == FileOf[Head(tool.rows)]
           rest == [tool EXCEPT !.rows = Tail(@)]
       IN IF manifest[f].key # NoKey /\ ~tool.force
          THEN tool' = rest /\ UNCHANGED <<manifest, drawn, overwritten>>
          ELSE WriteManifest(f) /\ tool' = [rest EXCEPT !.do = "key", !.file = f, !.key = drawn']
    /\ UNCHANGED <<signing, nvs, flashed, severed>>

BatchDone ==
    /\ tool.do = "rows" /\ tool.rows = <<>> /\ tool' = Ready
    /\ UNCHANGED <<disk, nvs, drawn, flashed, severed, overwritten>>

-----------------------------------------------------------------------------
(* cmd_flash: the manifest is read, the partition is made and flashed, and *)
(* the manifest that was read is written back.  A generator that fails,    *)
(* and --dry-run, flash nothing and mark nothing; an esptool that fails    *)
(* leaves no keys that can be read.                                        *)

Flash(d) ==
    /\ tool = Ready /\ manifest[FileOf[d]].key # NoKey
    /\ \/ /\ nvs' = [nvs EXCEPT ![d] = manifest[FileOf[d]].key]
          /\ flashed' = flashed \cup {nvs'[d]}
          /\ tool' = [Ready EXCEPT !.do = "mark", !.file = FileOf[d]]
       \/ nvs' = [nvs EXCEPT ![d] = NoKey] /\ UNCHANGED <<flashed, tool>>
    /\ UNCHANGED <<disk, drawn, severed, overwritten>>

MarkProvisioned ==
    /\ tool.do = "mark"
    /\ manifest' = [manifest EXCEPT ![tool.file].provisioned = TRUE]
    /\ tool' = Ready
    /\ UNCHANGED <<signing, nvs, drawn, flashed, severed, overwritten>>

\* The run is interrupted between two writes.
RunCutShort ==
    /\ tool # Ready /\ tool' = Ready
    /\ severed' = IF tool.do = "key" THEN severed \cup {tool.key} ELSE severed
    /\ UNCHANGED <<disk, nvs, drawn, flashed, overwritten>>

ProvisioningNext ==
    \/ \E f \in Files : Generate(f)
    \/ \E rows \in Lists, force \in BOOLEAN : Batch(rows, force)
    \/ \E d \in Devices : Flash(d)
    \/ PrivateKey \/ BatchRow \/ BatchDone \/ MarkProvisioned \/ RunCutShort

ProvisioningSpec == ProvisioningInit /\ [][ProvisioningNext]_provisioningVars

-----------------------------------------------------------------------------
(* Properties.                                                             *)

\* The private half of the key a device checks its updates with is on disk, whatever
\* the runs before did: unless the run that drew it was cut short between its two
\* files, or another wrote over them.
SignerKept ==
    \A d \in Devices :
        nvs[d] # NoKey => \/ nvs[d] \in severed \cup overwritten
                          \/ \E f \in Files : signing[f] = nvs[d]

\* A manifest that says "provisioned" was flashed with the key it holds now.
ProvisionedTrue ==
    \A f \in Files : manifest[f].provisioned => manifest[f].key \in flashed

\* What is on the devices can be followed back through what is on disk, but for the runs that
\* were cut short or wrote over others.
KeysTraceable == SignerKept /\ ProvisionedTrue

=============================================================================
