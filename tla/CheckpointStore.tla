-------------------------- MODULE CheckpointStore --------------------------
(***************************************************************************)
(* The checkpoint directory of a run: publication of one journal record    *)
(* per attempt (stage, payload, manifest), and recovery from the files.    *)
(*                                                                         *)
(* Two kinds of crash are told apart.  A killed process loses its memory;  *)
(* what it did to the directory stays visible.  A power loss also takes    *)
(* directory changes that no fsync of the directory has made durable.      *)
(*                                                                         *)
(* A journal record embeds its predecessor's digest and the digest of the  *)
(* whole state, so a payload is modelled by the history it stands for; the *)
(* k-th checkpoint, step_(k-1).ckpt, has a history of length k.  Its       *)
(* sequence number and predecessor digest follow from the history.         *)
(***************************************************************************)
EXTENDS Naturals, Sequences

CONSTANTS
    Values,         \* states a coordinator may want to publish next
    Length,         \* bound on checkpoints
    Manifest,       \* the name manifest.json
    Torn,           \* a file whose bytes were not all written
    MaxKills,       \* bound on killed processes and I/O errors, on a disk that
                    \* keeps the order of directory changes
    MaxKillsUnordered, \* and on one that does not
    MaxPowerLosses, \* bound on power losses
    MaxDiscards     \* bound on calls of discard_orphaned_staging

ASSUME StoreAssumption ==
    /\ Length \in Nat
    /\ Manifest \notin Nat
    /\ Torn \notin Seq(Values)
    /\ {MaxKills, MaxKillsUnordered} \subseteq Nat
    /\ {MaxPowerLosses, MaxDiscards} \subseteq Nat

Absent == <<>>
Names == (1..Length) \union {Manifest}
Directories == [Names -> Seq(Values)]

VARIABLES
    directory,  \* the entries every process sees
    images,     \* the directories a power loss may leave behind
    staging,    \* staging entry of the publication: "none", "torn", "whole"
    orphaned,   \* whether staging files of dead publications remain
    pc,         \* the coordinator that holds the run
    memory,     \* the history it has loaded or committed
    target,     \* the history it is publishing
    acked,      \* history: what commit_manifest last returned
    ordered,    \* whether directory changes become durable in order
    kills, powerLosses, discards

disk == <<directory, images>>
environment == <<ordered, kills, powerLosses, discards>>
vars == <<disk, staging, orphaned, pc, memory, target, acked, environment>>

KillBound == IF ordered THEN MaxKills ELSE MaxKillsUnordered

BeforePayload == {"new", "writing", "staged", "renamed"}
BeforeManifest == {"payload", "writingManifest", "manifestStaged"}
Publishing == BeforePayload \union BeforeManifest \union {"replaced"}

(***************************************************************************)
(* The directory                                                           *)
(***************************************************************************)
\* A payload is named for its checkpoint, and the manifest is trusted only
\* together with the payloads its record leads back to.
Loadable(d) ==
    \A n \in 1..Len(d[Manifest]) : d[n] = SubSeq(d[Manifest], 1, n)

\* A directory change is visible at once and durable when it is synced.
Rename(name, content) ==
    /\ directory' = [directory EXCEPT ![name] = content]
    /\ images' = images \union {directory'}

Sync ==
    /\ images' = {directory}
    /\ UNCHANGED directory

\* On a disk that keeps no order, each entry survives on its own.
Mixtures == {[x \in Names |-> pick[x][x]] : pick \in [Names -> images]}
Survivors == IF ordered THEN images ELSE Mixtures

\* The bytes a rename publishes.
Staged == IF staging = "whole" THEN target ELSE Torn

Init ==
    /\ directory = [x \in Names |-> Absent]
    /\ images = {directory}
    /\ staging = "none"
    /\ orphaned = FALSE
    /\ pc = "idle"
    /\ memory = <<>>
    /\ target = <<>>
    /\ acked = <<>>
    /\ ordered \in BOOLEAN
    /\ kills = 0
    /\ powerLosses = 0
    /\ discards = 0

----------------------------------------------------------------------------
(***************************************************************************)
(* The coordinator                                                         *)
(***************************************************************************)
\* Its memory is gone; what it staged stays behind under a random name.
Exit ==
    /\ pc' = "idle"
    /\ memory' = <<>>
    /\ target' = <<>>
    /\ staging' = "none"
    /\ orphaned' = (orphaned \/ staging # "none")

\* The whole committed chain is verified; a directory without a manifest
\* takes an initial record.
Open ==
    /\ pc = "idle"
    /\ Loadable(directory)
    /\ memory' = directory[Manifest]
    /\ pc' = "open"
    /\ UNCHANGED <<disk, staging, orphaned, target, acked, environment>>

\* The record of the next state, built upon the committed one.
Construct ==
    /\ pc = "open"
    /\ Len(memory) < Length
    /\ directory[Manifest] = memory
    /\ \E v \in Values : target' = Append(memory, v)
    /\ pc' = "new"
    /\ UNCHANGED <<disk, staging, orphaned, memory, acked, environment>>

\* Mutant: an existing payload is refused, whatever its bytes.
AdoptNothing ==
    /\ pc = "new"
    /\ directory[Len(target)] = target
    /\ Exit
    /\ UNCHANGED <<disk, acked, environment>>

\* An identical payload that an interrupted publication left is adopted.
Adopt ==
    /\ pc = "new"
    /\ directory[Len(target)] = target
    /\ pc' = "payload"
    /\ UNCHANGED <<disk, staging, orphaned, memory, target, acked, environment>>

\* Another payload under the same name is refused.
RefuseDifferentBytes ==
    /\ pc = "new"
    /\ directory[Len(target)] \notin {Absent, target}
    /\ Exit
    /\ UNCHANGED <<disk, acked, environment>>

\* Otherwise the payload is written and synced under a name nothing reads.
CreateStaging ==
    /\ pc = "new"
    /\ directory[Len(target)] = Absent
    /\ staging' = "torn"
    /\ pc' = "writing"
    /\ UNCHANGED <<disk, orphaned, memory, target, acked, environment>>

\* The descriptor stays good when the name is discarded meanwhile.
FillStaging ==
    staging' = IF staging = "none" THEN "none" ELSE "whole"

WriteStaging ==
    /\ pc = "writing"
    /\ FillStaging
    /\ pc' = "staged"
    /\ UNCHANGED <<disk, orphaned, memory, target, acked, environment>>

RenamePayload ==
    /\ pc = "staged"
    /\ staging # "none"
    /\ directory[Len(target)] = Absent
    /\ Rename(Len(target), Staged)
    /\ staging' = "none"
    /\ pc' = "renamed"
    /\ UNCHANGED <<orphaned, memory, target, acked, environment>>

\* Mutant: the directory is not synced after the payload's rename.
SkipPayloadSync ==
    /\ pc = "renamed"
    /\ pc' = "payload"
    /\ UNCHANGED <<disk, staging, orphaned, memory, target, acked, environment>>

SyncPayload ==
    /\ pc = "renamed"
    /\ Sync
    /\ pc' = "payload"
    /\ UNCHANGED <<staging, orphaned, memory, target, acked, environment>>

CreateManifestStaging ==
    /\ pc = "payload"
    /\ staging' = "torn"
    /\ pc' = "writingManifest"
    /\ UNCHANGED <<disk, orphaned, memory, target, acked, environment>>

WriteManifestStaging ==
    /\ pc = "writingManifest"
    /\ FillStaging
    /\ pc' = "manifestStaged"
    /\ UNCHANGED <<disk, orphaned, memory, target, acked, environment>>

\* The commit point.
ReplaceManifest ==
    /\ pc = "manifestStaged"
    /\ staging # "none"
    /\ Rename(Manifest, Staged)
    /\ staging' = "none"
    /\ pc' = "replaced"
    /\ UNCHANGED <<orphaned, memory, target, acked, environment>>

\* Mutant: the commit is acknowledged without syncing the directory.
AcknowledgeEarly ==
    /\ pc = "replaced"
    /\ acked' = target
    /\ memory' = target
    /\ target' = <<>>
    /\ pc' = "open"
    /\ UNCHANGED <<disk, staging, orphaned, environment>>

\* Only now is the caller told.
SyncManifest ==
    /\ pc = "replaced"
    /\ Sync
    /\ acked' = target
    /\ memory' = target
    /\ target' = <<>>
    /\ pc' = "open"
    /\ UNCHANGED <<staging, orphaned, environment>>

\* The staging file is gone: the rename fails, and so does the invocation.
StagingMissing ==
    /\ pc \in {"staged", "manifestStaged"}
    /\ staging = "none"
    /\ Exit
    /\ UNCHANGED <<disk, acked, environment>>

----------------------------------------------------------------------------
(***************************************************************************)
(* Failures                                                                *)
(***************************************************************************)
Kill ==
    /\ pc # "idle"
    /\ kills < KillBound
    /\ kills' = kills + 1
    /\ Exit
    /\ UNCHANGED <<disk, acked, ordered, powerLosses, discards>>

\* An I/O error ends the invocation; a manifest that was not yet in place
\* takes its staging file along.
IoError ==
    /\ pc \in Publishing
    /\ kills < KillBound
    /\ kills' = kills + 1
    /\ pc' = "idle"
    /\ memory' = <<>>
    /\ target' = <<>>
    /\ staging' = "none"
    /\ orphaned' = (orphaned \/ (pc \in BeforePayload /\ staging # "none"))
    /\ UNCHANGED <<disk, acked, ordered, powerLosses, discards>>

PowerLoss ==
    /\ powerLosses < MaxPowerLosses
    /\ powerLosses' = powerLosses + 1
    /\ \E d \in Survivors : directory' = d /\ images' = {d}
    /\ pc' = "idle"
    /\ memory' = <<>>
    /\ target' = <<>>
    /\ staging' = "none"
    /\ orphaned' \in BOOLEAN
    /\ orphaned' => orphaned \/ staging # "none"
    /\ UNCHANGED <<acked, ordered, kills, discards>>

\* Removes every staging name, a live publication's too, and syncs.
discard_orphaned_staging ==
    /\ discards < MaxDiscards
    /\ discards' = discards + 1
    /\ orphaned \/ staging # "none"
    /\ staging' = "none"
    /\ orphaned' = FALSE
    /\ Sync
    /\ UNCHANGED <<pc, memory, target, acked, ordered, kills, powerLosses>>

Stage == Adopt \/ RefuseDifferentBytes \/ CreateStaging \/ WriteStaging
CommitPayload == RenamePayload \/ SyncPayload
CommitManifest == CreateManifestStaging \/ WriteManifestStaging
                    \/ ReplaceManifest \/ SyncManifest
Work == Open \/ Construct \/ Stage \/ CommitPayload \/ CommitManifest
          \/ StagingMissing

Next == Work \/ Kill \/ IoError \/ PowerLoss \/ discard_orphaned_staging

Spec == Init /\ [][Next]_vars

\* The next state is the one an interrupted publication left a payload of.
Retry == Construct /\ directory[Len(target')] \in {Absent, target'}

\* A run is resumed, a publication goes on, and what was interrupted is tried
\* again sooner or later; nothing is assumed of failures.
FairSpec == Spec /\ WF_vars(Work) /\ SF_vars(Retry)

----------------------------------------------------------------------------
(***************************************************************************)
(* Properties                                                              *)
(***************************************************************************)
TypeOK ==
    /\ directory \in Directories
    /\ images \subseteq Directories
    /\ staging \in {"none", "torn", "whole"}
    /\ orphaned \in BOOLEAN
    /\ pc \in {"idle", "open"} \union Publishing
    /\ {memory, target, acked} \subseteq Seq(Values)
    /\ ordered \in BOOLEAN
    /\ kills \in 0..KillBound
    /\ powerLosses \in 0..MaxPowerLosses
    /\ discards \in 0..MaxDiscards

\* At every instant, after any sequence of kills, retries and power losses,
\* the manifest names a state whose payload and whose predecessors' payloads
\* are all there with the right bytes: "a crash at any transition resumes
\* from the last fully durable state rather than from a half-written one"
\* (checkpoints.py:5-7), and load_runtime_checkpoint never refuses.
ChainIsLoadable ==
    /\ directory[Manifest] # Torn
    /\ Loadable(directory)

\* The store implements a log with a commit point: whatever step of a
\* publication is interrupted, the authoritative state changes only by one
\* entry appended, and a crash takes back no checkpoint that commit_manifest
\* has returned (checkpoints.py:298-301).
Promise == INSTANCE CommitLog WITH log <- directory[Manifest]
ImplementsCommitLog == Promise!Spec

\* A coordinator that retries the same states always finishes: an interrupted
\* publication can be completed, and never strands its name ("Retrying the
\* same checkpoint must be able to finish it", checkpoints.py:356-359).
AllGetPublished == <>[](Len(directory[Manifest]) = Length)
=============================================================================
