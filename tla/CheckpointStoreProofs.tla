----------------------- MODULE CheckpointStoreProofs -----------------------
(***************************************************************************)
(* What holds of the checkpoint directory (CheckpointStore) for every set  *)
(* of states, every length and every number of crashes, and of what its    *)
(* records say (Journal).                                                  *)
(*                                                                         *)
(* The inductive invariant of the directory speaks of every directory a    *)
(* power loss may leave behind, not only of the visible one: each is       *)
(* loadable, holds what was acknowledged and is not ahead of the visible   *)
(* one.  That of the journal says which states its records are of.         *)
(***************************************************************************)
EXTENDS CheckpointStore, Journal, SequenceTheorems, NaturalsInduction,
        WellFoundedInduction, TLAPS

(***************************************************************************)
(* Prefixes                                                                *)
(***************************************************************************)
Prefix(s, t) == Len(s) <= Len(t) /\ s = SubSeq(t, 1, Len(s))

\* Appending to a history leaves its prefixes alone.
LEMMA SubSeqOfAppend ==
    ASSUME NEW s \in Seq(Values), NEW v \in Values, NEW n \in 0..Len(s)
    PROVE  SubSeq(Append(s, v), 1, n) = SubSeq(s, 1, n)
<1>1. /\ Append(s, v) \in Seq(Values)
      /\ Len(Append(s, v)) = Len(s) + 1
      /\ \A i \in 1..Len(s) : Append(s, v)[i] = s[i]
      /\ Len(s) \in Nat
  BY AppendProperties, LenProperties
<1>2. /\ SubSeq(Append(s, v), 1, n) = [i \in 1..n |-> Append(s, v)[i]]
      /\ SubSeq(s, 1, n) = [i \in 1..n |-> s[i]]
  BY <1>1
<1>. QED
  BY <1>1, <1>2

\* A whole history is the longest of its own prefixes.
LEMMA SubSeqWhole ==
    ASSUME NEW s \in Seq(Values)
    PROVE  /\ Len(s) \in Nat
           /\ SubSeq(s, 1, Len(s)) = s
           /\ Prefix(s, s)
<1>1. Len(s) \in Nat /\ s = [i \in 1..Len(s) |-> s[i]]
  BY LenProperties
<1>2. SubSeq(s, 1, Len(s)) = [i \in 1..Len(s) |-> s[i]]
  BY <1>1
<1>. QED
  BY <1>1, <1>2 DEF Prefix

\* A prefix stays one when its history grows.
LEMMA PrefixOfAppend ==
    ASSUME NEW s \in Seq(Values), NEW t \in Seq(Values), NEW v \in Values,
           Prefix(s, t)
    PROVE  Prefix(s, Append(t, v))
<1>1. Len(s) \in 0..Len(t) /\ Len(Append(t, v)) = Len(t) + 1
  BY LenProperties, AppendProperties DEF Prefix
<1>2. SubSeq(Append(t, v), 1, Len(s)) = SubSeq(t, 1, Len(s))
  BY <1>1, SubSeqOfAppend
<1>. QED
  BY <1>1, <1>2, LenProperties DEF Prefix

(***************************************************************************)
(* Type correctness                                                        *)
(***************************************************************************)
\* What is about to be renamed was written, unless it was discarded.
StagingIsWritten ==
    pc \in {"staged", "manifestStaged"} => staging \in {"none", "whole"}

\* A publication under way has a name for its payload.
TargetHasName ==
    pc \in Publishing => target # <<>> /\ Len(target) <= Length

TypeInv == TypeOK /\ StagingIsWritten /\ TargetHasName

LEMMA InitTypeInv == Init => TypeInv
<1>. SUFFICES ASSUME Init PROVE TypeInv
  OBVIOUS
<1>1. directory \in Directories /\ images \subseteq Directories
  BY EmptySeq DEF Init, Directories, Absent
<1>2. /\ KillBound \in Nat /\ MaxPowerLosses \in Nat
      /\ MaxDiscards \in Nat
  BY StoreAssumption DEF Init, KillBound
<1>4. kills \in 0..KillBound /\ powerLosses \in 0..MaxPowerLosses
      /\ discards \in 0..MaxDiscards
  BY <1>2 DEF Init
<1>3. {memory, target, acked} \subseteq Seq(Values)
  BY EmptySeq DEF Init
<1>. QED
  BY <1>1, <1>3, <1>4
  DEF Init, TypeInv, TypeOK, StagingIsWritten, TargetHasName, Publishing,
      BeforePayload, BeforeManifest

\* Renaming a written file keeps the directory's type.
LEMMA RenameType ==
    ASSUME TypeOK, NEW name \in Names, staging = "whole",
           Rename(name, Staged)
    PROVE  directory' \in Directories /\ images' \subseteq Directories
  BY SMTT(30) DEF TypeOK, Rename, Staged, Directories

\* A mixture of well-typed directories is one.
LEMMA SurvivorType ==
    ASSUME TypeOK, NEW d \in Survivors
    PROVE  d \in Directories
<1>1. CASE ordered
  BY <1>1 DEF Survivors, TypeOK
<1>2. CASE ~ordered
  <2>1. PICK pick \in [Names -> images] : d = [x \in Names |-> pick[x][x]]
    BY <1>2 DEF Survivors, Mixtures
  <2>2. \A x \in Names : pick[x][x] \in Seq(Values)
    BY <2>1 DEF TypeOK, Directories
  <2>. QED
    BY <2>1, <2>2 DEF Directories
<1>. QED
  BY <1>1, <1>2

LEMMA NextTypeInv == TypeInv /\ [Next]_vars => TypeInv'
<1>. SUFFICES ASSUME TypeInv, [Next]_vars
              PROVE  TypeInv'
  OBVIOUS
<1>. USE DEF TypeInv, StagingIsWritten, TargetHasName, Publishing,
             BeforePayload, BeforeManifest, KillBound
<1>0. CASE UNCHANGED vars
  BY <1>0 DEF vars, disk, environment, TypeOK
<1>1. CASE Open
  BY <1>1, StoreAssumption
  DEF Open, TypeOK, disk, environment, Directories, Names
<1>2. CASE Construct
  <2>1. PICK v \in Values : target' = Append(memory, v)
    BY <1>2 DEF Construct
  <2>2. /\ target' \in Seq(Values) /\ target' # <<>>
        /\ Len(target') = Len(memory) + 1 /\ Len(memory) \in Nat
    BY <2>1, AppendProperties, LenProperties DEF TypeOK
  <2>3. Len(target') <= Length
    BY <1>2, <2>2, StoreAssumption DEF Construct
  <2>. QED
    BY <1>2, <2>2, <2>3 DEF Construct, TypeOK, disk, environment
<1>3. CASE Adopt
  BY <1>3 DEF Adopt, TypeOK, disk, environment
<1>4. CASE RefuseDifferentBytes
  BY <1>4, EmptySeq DEF RefuseDifferentBytes, Exit, TypeOK, disk, environment
<1>5. CASE CreateStaging
  BY <1>5 DEF CreateStaging, TypeOK, disk, environment
<1>6. CASE WriteStaging
  BY <1>6 DEF WriteStaging, FillStaging, TypeOK, disk, environment
<1>7. CASE RenamePayload
  <2>1. Len(target) \in Names
    BY <1>7, LenProperties, EmptySeq, StoreAssumption
    DEF RenamePayload, TypeOK, Names
  <2>2. directory' \in Directories /\ images' \subseteq Directories
    BY <1>7, <2>1, RenameType DEF RenamePayload
  <2>. QED
    BY <1>7, <2>2 DEF RenamePayload, TypeOK, environment
<1>8. CASE SyncPayload
  BY <1>8 DEF SyncPayload, Sync, TypeOK, environment
<1>9. CASE CreateManifestStaging
  BY <1>9 DEF CreateManifestStaging, TypeOK, disk, environment
<1>10. CASE WriteManifestStaging
  BY <1>10 DEF WriteManifestStaging, FillStaging, TypeOK, disk, environment
<1>11. CASE ReplaceManifest
  <2>1. directory' \in Directories /\ images' \subseteq Directories
    BY <1>11, RenameType DEF ReplaceManifest, Names
  <2>. QED
    BY <1>11, <2>1 DEF ReplaceManifest, TypeOK, environment
<1>12. CASE SyncManifest
  BY <1>12, EmptySeq DEF SyncManifest, Sync, TypeOK, environment
<1>13. CASE StagingMissing
  BY <1>13, EmptySeq DEF StagingMissing, Exit, TypeOK, disk, environment
<1>14. CASE Kill
  BY <1>14, EmptySeq, StoreAssumption DEF Kill, Exit, TypeOK, disk
<1>15. CASE IoError
  BY <1>15, EmptySeq, StoreAssumption DEF IoError, TypeOK, disk
<1>16. CASE PowerLoss
  <2>1. PICK d \in Survivors : directory' = d /\ images' = {d}
    BY <1>16 DEF PowerLoss
  <2>2. d \in Directories
    BY <2>1, SurvivorType
  <2>. QED
    BY <1>16, <2>1, <2>2, EmptySeq, StoreAssumption DEF PowerLoss, TypeOK
<1>17. CASE discard_orphaned_staging
  <2>1. discards' \in 0..MaxDiscards
    BY <1>17, StoreAssumption DEF discard_orphaned_staging, TypeOK
  <2>2. directory' \in Directories /\ images' \subseteq Directories
    BY <1>17 DEF discard_orphaned_staging, Sync, TypeOK
  <2>. QED
    BY <1>17, <2>1, <2>2 DEF discard_orphaned_staging, TypeOK
<1>. QED
  BY <1>0, <1>1, <1>2, <1>3, <1>4, <1>5, <1>6, <1>7, <1>8, <1>9, <1>10,
     <1>11, <1>12, <1>13, <1>14, <1>15, <1>16, <1>17
  DEF Next, Work, Stage, CommitPayload, CommitManifest

\* Every variable keeps its type; above all, no file of which a process or a
\* power loss lost bytes ever bears a name that is read, on ordered disks and
\* on others.
THEOREM TypeCorrect == Spec => []TypeOK
<1>1. TypeInv => TypeOK
  BY DEF TypeInv
<1>. QED
  BY <1>1, InitTypeInv, NextTypeInv, PTL DEF Spec

(***************************************************************************)
(* Recovery on a disk that keeps the order of directory changes            *)
(***************************************************************************)
\* Whatever a power loss would leave behind can be resumed from.
Recoverable(d) ==
    /\ Loadable(d)
    /\ Prefix(acked, d[Manifest])
    /\ Prefix(d[Manifest], directory[Manifest])

ImagesAreRecoverable ==
    /\ directory \in images
    /\ \A d \in images : Recoverable(d)

\* A publication extends the state the manifest names ...
ExtendsCommitted ==
    pc \in BeforePayload \union BeforeManifest =>
        \E v \in Values : target = Append(directory[Manifest], v)

\* ... and its payload is in place before the manifest is touched ...
PayloadInPlace ==
    pc \in {"renamed"} \union BeforeManifest => directory[Len(target)] = target

\* ... which names the new state when the commit is acknowledged.
ManifestInPlace == pc = "replaced" => directory[Manifest] = target

IInv ==
    /\ TypeInv
    /\ ImagesAreRecoverable
    /\ ExtendsCommitted
    /\ PayloadInPlace
    /\ ManifestInPlace

LEMMA InitIInv == Init => IInv
<1>. SUFFICES ASSUME Init PROVE IInv
  OBVIOUS
<1>1. Manifest \in Names /\ directory[Manifest] = <<>> /\ acked = <<>>
  BY DEF Init, Absent, Names
<1>2. Loadable(directory)
  BY <1>1, EmptySeq DEF Loadable
<1>3. Prefix(<<>>, <<>>)
  BY SubSeqWhole, EmptySeq
<1>. QED
  BY <1>1, <1>2, <1>3, InitTypeInv
  DEF Init, IInv, ImagesAreRecoverable, Recoverable, ExtendsCommitted,
      PayloadInPlace, ManifestInPlace, BeforePayload, BeforeManifest

\* An exit forgets the publication and touches no directory.
LEMMA QuietKeepsIInv ==
    ASSUME IInv, TypeInv', UNCHANGED <<disk, acked>>, pc' \in {"idle", "open"}
    PROVE  IInv'
  BY DEF IInv, ImagesAreRecoverable, Recoverable, Loadable, ExtendsCommitted,
         PayloadInPlace, ManifestInPlace, BeforePayload, BeforeManifest, disk

\* A step of a publication before its payload has its name.
LEMMA EarlyStepKeepsIInv ==
    ASSUME IInv, TypeInv', UNCHANGED <<disk, acked, target>>,
           pc \in BeforePayload, pc' \in {"writing", "staged"}
    PROVE  IInv'
  BY DEF IInv, ImagesAreRecoverable, Recoverable, Loadable, ExtendsCommitted,
         PayloadInPlace, ManifestInPlace, BeforePayload, BeforeManifest, disk

\* A step of a publication whose payload has its name.
LEMMA LateStepKeepsIInv ==
    ASSUME IInv, TypeInv', UNCHANGED <<disk, acked, target>>,
           pc \in BeforePayload \union BeforeManifest,
           directory[Len(target)] = target,
           pc' \in BeforeManifest
    PROVE  IInv'
  BY DEF IInv, ImagesAreRecoverable, Recoverable, Loadable, ExtendsCommitted,
         PayloadInPlace, ManifestInPlace, BeforePayload, BeforeManifest, disk

\* Syncing the directory leaves one image, the visible one.
LEMMA SyncKeepsImages ==
    ASSUME IInv, Sync, UNCHANGED acked
    PROVE  ImagesAreRecoverable'
  BY DEF IInv, ImagesAreRecoverable, Recoverable, Loadable, Sync

\* A payload is renamed to a name beyond every manifest's chain.
LEMMA RenamePayloadKeepsIInv ==
    ASSUME IInv, TypeInv', RenamePayload
    PROVE  IInv'
<1>. DEFINE n == Len(target)
<1>1. PICK v \in Values : target = Append(directory[Manifest], v)
  BY DEF IInv, ExtendsCommitted, RenamePayload, BeforePayload
<1>2. /\ directory[Manifest] \in Seq(Values)
      /\ Len(directory[Manifest]) \in Nat
      /\ n = Len(directory[Manifest]) + 1
  BY <1>1, AppendProperties, LenProperties
  DEF IInv, TypeInv, TypeOK, Directories, Names
<1>3. n \in Names /\ n # Manifest
  BY <1>2, StoreAssumption DEF IInv, TypeInv, TargetHasName, RenamePayload,
     Publishing, BeforePayload, Names
<1>4. staging = "whole"
  BY DEF IInv, TypeInv, StagingIsWritten, RenamePayload
<1>5. /\ directory' = [directory EXCEPT ![n] = target]
      /\ images' = images \union {directory'}
  BY <1>4 DEF RenamePayload, Rename, Staged
<1>6. /\ directory'[Manifest] = directory[Manifest]
      /\ directory'[n] = target
      /\ \A k \in 1..Len(directory[Manifest]) : directory'[k] = directory[k]
  BY <1>2, <1>3, <1>5, StoreAssumption
  DEF IInv, TypeInv, TypeOK, Directories, Names
<1>7. Recoverable(directory)
  BY DEF IInv, ImagesAreRecoverable
<1>8. Loadable(directory')
  BY <1>6, <1>7 DEF Recoverable, Loadable
<1>9. /\ Prefix(acked, directory'[Manifest])
      /\ Prefix(directory'[Manifest], directory'[Manifest])
  BY <1>6, <1>7 DEF Recoverable
<1>10. \A d \in images' : Loadable(d) /\ Prefix(acked', d[Manifest])
                          /\ Prefix(d[Manifest], directory'[Manifest])
  BY <1>5, <1>6, <1>8, <1>9
  DEF IInv, ImagesAreRecoverable, Recoverable, RenamePayload
<1>11. ImagesAreRecoverable'
  BY <1>5, <1>10 DEF ImagesAreRecoverable, Recoverable, Loadable
<1>. QED
  BY <1>1, <1>6, <1>11 DEF IInv, RenamePayload, ExtendsCommitted,
     PayloadInPlace, ManifestInPlace, BeforePayload, BeforeManifest

\* The manifest is replaced when all it leads to is in place.
LEMMA ReplaceManifestKeepsIInv ==
    ASSUME IInv, TypeInv', ReplaceManifest
    PROVE  /\ IInv'
           /\ \E v \in Values : directory'[Manifest] = Append(directory[Manifest], v)
           /\ Len(directory[Manifest]) < Length
<1>. DEFINE old == directory[Manifest]
<1>1. PICK v \in Values : target = Append(old, v)
  BY DEF IInv, ExtendsCommitted, ReplaceManifest, BeforeManifest
<1>2. /\ old \in Seq(Values) /\ target \in Seq(Values)
      /\ Len(old) \in Nat /\ Len(target) = Len(old) + 1
  BY <1>1, AppendProperties, LenProperties
  DEF IInv, TypeInv, TypeOK, Directories, Names
<1>3. Len(target) <= Length
  BY DEF IInv, TypeInv, TargetHasName, ReplaceManifest, Publishing,
     BeforeManifest
<1>4. staging = "whole"
  BY DEF IInv, TypeInv, StagingIsWritten, ReplaceManifest
<1>5. /\ directory' = [directory EXCEPT ![Manifest] = target]
      /\ images' = images \union {directory'}
  BY <1>4 DEF ReplaceManifest, Rename, Staged
<1>6. /\ directory'[Manifest] = target
      /\ \A k \in 1..Len(target) : directory'[k] = directory[k]
  <2>1. directory \in [Names -> Seq(Values)] /\ Manifest \in Names
    BY DEF IInv, TypeInv, TypeOK, Directories, Names
  <2>2. \A k \in 1..Len(target) : k \in Names /\ k # Manifest
    BY <1>2, <1>3, StoreAssumption DEF Names
  <2>. QED
    BY <1>5, <2>1, <2>2
<1>7. Recoverable(directory)
  BY DEF IInv, ImagesAreRecoverable
<1>8. Loadable(directory')
  <2>. SUFFICES ASSUME NEW k \in 1..Len(target)
                PROVE  directory[k] = SubSeq(target, 1, k)
    BY <1>6 DEF Loadable
  <2>1. CASE k = Len(target)
    BY <2>1, <1>2, SubSeqWhole
    DEF IInv, PayloadInPlace, ReplaceManifest, BeforeManifest
  <2>2. CASE k # Len(target)
    <3>1. k \in 1..Len(old) /\ k \in 0..Len(old)
      BY <2>2, <1>2
    <3>2. directory[k] = SubSeq(old, 1, k)
      BY <3>1, <1>7 DEF Recoverable, Loadable
    <3>. QED
      BY <3>1, <3>2, <1>1, <1>2, SubSeqOfAppend
  <2>. QED
    BY <2>1, <2>2
<1>9. Prefix(acked, target)
  BY <1>1, <1>2, <1>7, PrefixOfAppend DEF Recoverable, IInv, TypeInv, TypeOK
<1>10. \A d \in images : Prefix(d[Manifest], target)
  BY <1>1, <1>2, PrefixOfAppend
  DEF IInv, ImagesAreRecoverable, Recoverable, TypeInv, TypeOK, Directories,
      Names
<1>11. \A d \in images' : Loadable(d) /\ Prefix(acked', d[Manifest])
                          /\ Prefix(d[Manifest], directory'[Manifest])
  BY <1>2, <1>5, <1>6, <1>8, <1>9, <1>10, SubSeqWhole
  DEF IInv, ImagesAreRecoverable, Recoverable, ReplaceManifest
<1>12. ImagesAreRecoverable'
  BY <1>5, <1>11 DEF ImagesAreRecoverable, Recoverable, Loadable
<1>13. IInv'
  BY <1>6, <1>12 DEF IInv, ReplaceManifest, ExtendsCommitted,
     PayloadInPlace, ManifestInPlace, BeforePayload, BeforeManifest
<1>14. Len(old) < Length
  BY <1>2, <1>3, StoreAssumption
<1>15. \E u \in Values : directory'[Manifest] = Append(old, u)
  BY <1>1, <1>6
<1>. QED
  BY <1>13, <1>14, <1>15

\* What a power loss leaves behind is one of the recoverable directories.
LEMMA PowerLossKeepsIInv ==
    ASSUME ordered, IInv, TypeInv', PowerLoss
    PROVE  /\ IInv'
           /\ Prefix(acked, directory'[Manifest])
           /\ Prefix(directory'[Manifest], directory[Manifest])
<1>1. PICK d \in images : directory' = d /\ images' = {d}
  BY DEF PowerLoss, Survivors
<1>2. Recoverable(d) /\ d[Manifest] \in Seq(Values)
  BY DEF IInv, ImagesAreRecoverable, TypeInv, TypeOK, Directories, Names
<1>3. Prefix(d[Manifest], d[Manifest])
  BY <1>2, SubSeqWhole
<1>4. ImagesAreRecoverable'
  BY <1>1, <1>2, <1>3
  DEF PowerLoss, ImagesAreRecoverable, Recoverable, Loadable
<1>. QED
  BY <1>1, <1>2, <1>4 DEF PowerLoss, IInv, Recoverable, ExtendsCommitted,
     PayloadInPlace, ManifestInPlace, BeforePayload, BeforeManifest

LEMMA NextIInv == ordered /\ IInv /\ [Next]_vars => IInv'
<1>. SUFFICES ASSUME ordered, IInv, [Next]_vars
              PROVE  IInv'
  OBVIOUS
<1>0. TypeInv'
  BY NextTypeInv DEF IInv
<1>1. CASE UNCHANGED vars
  BY <1>0, <1>1 DEF vars, disk, IInv, ImagesAreRecoverable, Recoverable,
     Loadable, ExtendsCommitted, PayloadInPlace, ManifestInPlace
<1>2. CASE Open
  BY <1>0, <1>2, QuietKeepsIInv DEF Open
<1>3. CASE Construct
  BY <1>0, <1>3
  DEF Construct, IInv, ImagesAreRecoverable, Recoverable, Loadable,
      ExtendsCommitted, PayloadInPlace, ManifestInPlace, BeforePayload,
      BeforeManifest, disk
<1>4. CASE Adopt
  BY <1>0, <1>4, LateStepKeepsIInv DEF Adopt, BeforePayload, BeforeManifest
<1>5. CASE RefuseDifferentBytes
  BY <1>0, <1>5, QuietKeepsIInv DEF RefuseDifferentBytes, Exit
<1>6. CASE CreateStaging
  BY <1>0, <1>6, EarlyStepKeepsIInv DEF CreateStaging, BeforePayload
<1>7. CASE WriteStaging
  BY <1>0, <1>7, EarlyStepKeepsIInv DEF WriteStaging, BeforePayload
<1>8. CASE RenamePayload
  BY <1>0, <1>8, RenamePayloadKeepsIInv
<1>9. CASE SyncPayload
  <2>1. ImagesAreRecoverable'
    BY <1>9, SyncKeepsImages DEF SyncPayload
  <2>. QED
    BY <1>0, <1>9, <2>1 DEF SyncPayload, Sync, IInv, ExtendsCommitted,
       PayloadInPlace, ManifestInPlace, BeforePayload, BeforeManifest
<1>10. CASE CreateManifestStaging
  BY <1>0, <1>10, LateStepKeepsIInv
  DEF CreateManifestStaging, BeforeManifest, IInv, PayloadInPlace
<1>11. CASE WriteManifestStaging
  BY <1>0, <1>11, LateStepKeepsIInv
  DEF WriteManifestStaging, BeforeManifest, IInv, PayloadInPlace
<1>12. CASE ReplaceManifest
  BY <1>0, <1>12, ReplaceManifestKeepsIInv
<1>13. CASE SyncManifest
  <2>1. /\ directory[Manifest] = target
        /\ directory' = directory
        /\ images' = {directory}
        /\ acked' = target
    BY <1>13 DEF SyncManifest, Sync, IInv, ManifestInPlace
  <2>2. Recoverable(directory) /\ target \in Seq(Values)
    BY DEF IInv, ImagesAreRecoverable, TypeInv, TypeOK
  <2>3. Prefix(target, target)
    BY <2>2, SubSeqWhole
  <2>4. ImagesAreRecoverable'
    BY <2>1, <2>2, <2>3 DEF ImagesAreRecoverable, Recoverable, Loadable
  <2>. QED
    BY <1>0, <1>13, <2>4 DEF SyncManifest, IInv, ExtendsCommitted,
       PayloadInPlace, ManifestInPlace, BeforePayload, BeforeManifest
<1>14. CASE StagingMissing
  BY <1>0, <1>14, QuietKeepsIInv DEF StagingMissing, Exit
<1>15. CASE Kill
  BY <1>0, <1>15, QuietKeepsIInv DEF Kill, Exit
<1>16. CASE IoError
  BY <1>0, <1>16, QuietKeepsIInv DEF IoError
<1>17. CASE PowerLoss
  BY <1>0, <1>17, PowerLossKeepsIInv
<1>18. CASE discard_orphaned_staging
  <2>1. ImagesAreRecoverable'
    BY <1>18, SyncKeepsImages DEF discard_orphaned_staging
  <2>. QED
    BY <1>0, <1>18, <2>1 DEF discard_orphaned_staging, Sync, IInv,
       ExtendsCommitted, PayloadInPlace, ManifestInPlace
<1>. QED
  BY <1>1, <1>2, <1>3, <1>4, <1>5, <1>6, <1>7, <1>8, <1>9, <1>10, <1>11,
     <1>12, <1>13, <1>14, <1>15, <1>16, <1>17, <1>18
  DEF Next, Work, Stage, CommitPayload, CommitManifest

\* A disk does not change its kind.
LEMMA OrderRemains == [Next]_vars => ordered' = ordered
BY DEF Next, Work, Stage, CommitPayload, CommitManifest, vars, environment,
      Open, Construct, Adopt, RefuseDifferentBytes, CreateStaging,
      WriteStaging, RenamePayload, SyncPayload, CreateManifestStaging,
      WriteManifestStaging, ReplaceManifest, SyncManifest, StagingMissing,
      Kill, IoError, PowerLoss, discard_orphaned_staging

LEMMA OrderedInvariance == Spec => [](ordered => IInv)
<1>1. Init => (ordered => IInv)
  BY InitIInv
<1>2. (ordered => IInv) /\ [Next]_vars => (ordered => IInv)'
  BY NextIInv, OrderRemains
<1>. QED
  BY <1>1, <1>2, PTL DEF Spec

\* A disk that keeps the order of directory changes: the manifest always
\* names a state that can be loaded, however processes are killed, retried
\* and the power is lost, at whatever step of a publication.
THEOREM AlwaysLoadable == Spec => [](ordered => ChainIsLoadable)
<1>1. IInv => ChainIsLoadable
  <2>. SUFFICES ASSUME IInv PROVE ChainIsLoadable
    OBVIOUS
  <2>1. directory[Manifest] \in Seq(Values)
    BY DEF IInv, TypeInv, TypeOK, Directories, Names
  <2>. QED
    BY <2>1, StoreAssumption
    DEF IInv, ImagesAreRecoverable, Recoverable, ChainIsLoadable
<1>. QED
  BY <1>1, OrderedInvariance, PTL

(***************************************************************************)
(* Refinement                                                              *)
(***************************************************************************)
\* What a step that leaves the manifest and the acknowledgement alone is to
\* the log.
LEMMA Stutter ==
    ASSUME directory'[Manifest] = directory[Manifest], acked' = acked
    PROVE  [Promise!Next]_(Promise!vars)
  BY DEF Promise!vars

LEMMA StepImplements ==
    ordered /\ IInv /\ IInv' /\ [Next]_vars => [Promise!Next]_(Promise!vars)
<1>. SUFFICES ASSUME ordered, IInv, IInv', [Next]_vars
              PROVE  [Promise!Next]_(Promise!vars)
  OBVIOUS
<1>0. TypeInv'
  BY DEF IInv
<1>1. CASE RenamePayload
  <2>1. Len(target) # Manifest
    BY <1>1, LenProperties, StoreAssumption DEF IInv, TypeInv, TypeOK
  <2>2. directory'[Manifest] = directory[Manifest]
    BY <1>1, <2>1 DEF RenamePayload, Rename, IInv, TypeInv, TypeOK,
       Directories, Names
  <2>. QED
    BY <1>1, <2>2, Stutter DEF RenamePayload
<1>2. CASE ReplaceManifest
  <2>1. acked' = acked
    BY <1>2 DEF ReplaceManifest
  <2>. QED
    BY <1>0, <1>2, <2>1, ReplaceManifestKeepsIInv
    DEF Promise!Next, Promise!Commit
<1>3. CASE SyncManifest
  BY <1>3 DEF SyncManifest, Sync, IInv, ManifestInPlace, Promise!Next,
     Promise!Acknowledge
<1>4. CASE PowerLoss
  <2>1. /\ Prefix(acked, directory'[Manifest])
        /\ Prefix(directory'[Manifest], directory[Manifest])
    BY <1>0, <1>4, PowerLossKeepsIInv
  <2>2. /\ Len(acked) \in Nat
        /\ Len(directory'[Manifest]) \in Nat
        /\ Len(directory[Manifest]) \in Nat
    BY LenProperties DEF IInv, TypeInv, TypeOK, Directories, Names
  <2>3. Len(directory'[Manifest]) \in Len(acked)..Len(directory[Manifest])
    BY <2>1, <2>2 DEF Prefix
  <2>4. acked' = acked
    BY <1>4 DEF PowerLoss
  <2>. QED
    BY <2>1, <2>3, <2>4 DEF Prefix, Promise!Next, Promise!Lose
<1>5. CASE UNCHANGED <<directory, acked>>
  BY <1>5, Stutter
<1>. QED
  BY <1>1, <1>2, <1>3, <1>4, <1>5
  DEF Next, Work, Stage, CommitPayload, CommitManifest, vars, disk, environment,
      Open, Construct, Adopt, RefuseDifferentBytes, CreateStaging,
      WriteStaging, SyncPayload, Sync, CreateManifestStaging,
      WriteManifestStaging, StagingMissing, Kill, IoError, Exit,
      discard_orphaned_staging

\* On such a disk the store implements its promise: one commit point per
\* state, and no acknowledged checkpoint is ever taken back.
THEOREM CheckpointsAreACommitLog == Spec /\ ordered => ImplementsCommitLog
<1>1. Init => Promise!Init
  BY DEF Init, Promise!Init, Names, Absent
<1>2. ordered /\ [Next]_vars => ordered'
  BY OrderRemains
<1>3. ordered /\ (ordered => IInv) /\ ordered' /\ (ordered => IInv)' /\ [Next]_vars
        => [Promise!Next]_(Promise!vars)
  BY StepImplements
<1>. QED
  BY <1>1, <1>2, <1>3, OrderedInvariance, PTL
  DEF Spec, ImplementsCommitLog, Promise!Spec
(***************************************************************************)
(* The journal.                                                            *)
(***************************************************************************)
LEMMA LeastExists ==
    ASSUME NEW S, S \subseteq Nat, S # {}
    PROVE  \E t \in S : \A u \in S : t <= u
<1>1. \E t \in S : \A u \in S : ~(<<u, t>> \in OpToRel(<, Nat))
  BY NatLessThanWellFounded, WFMin, Zenon
<1>2. PICK t \in S : \A u \in S : ~(<<u, t>> \in OpToRel(<, Nat))
  BY <1>1, Zenon
<1>3. ASSUME NEW u \in S PROVE t <= u
  <2>1. t \in Nat /\ u \in Nat /\ <<u, t>> \in Nat \X Nat
    OBVIOUS
  <2>2. ~(u < t)
    BY <1>2, <2>1, Zenon DEF OpToRel
  <2> QED BY <2>1, <2>2
<1> QED BY <1>3

LEMMA UpTo ==
    ASSUME NEW n \in Nat, NEW S, 0 \in S, \A k \in 1 .. n : k - 1 \in S => k \in S
    PROVE  0 .. n \subseteq S
<1> DEFINE Missing == (0 .. n) \ S
<1>1. SUFFICES ASSUME Missing # {} PROVE FALSE
  OBVIOUS
<1>2. Missing \subseteq Nat
  OBVIOUS
<1>3. PICK m \in Missing : \A u \in Missing : m <= u
  <2> HIDE DEF Missing
  <2> QED BY <1>1, <1>2, LeastExists
<1>4. m \in 1 .. n /\ m \notin S
  <2>1. m \in 0 .. n /\ m \notin S
    OBVIOUS
  <2>2. m # 0
    BY <2>1
  <2> QED BY <2>1, <2>2
<1>5. m - 1 \in 0 .. n /\ ~(m <= m - 1)
  BY <1>4
<1>6. m - 1 \in S
  <2>1. m - 1 \notin Missing
    <3> HIDE DEF Missing
    <3> QED BY <1>3, <1>5
  <2> QED BY <1>5, <2>1
<1> QED BY <1>4, <1>6


(***************************************************************************)
(* The recursions.  Each is a function on 0 .. Levels that is defined by    *)
(* its value below; that there is such a function is shown level by level.  *)
(***************************************************************************)
JsonOver(lower) ==
  Plain \cup [list : Seq(lower)]
             \cup [object : [Fields -> lower \cup {NoEntry}]]

LEMMA JsonIsDefined ==
    /\ Json[0] = Plain
    /\ \A d \in 1 .. Levels : Json[d] = JsonOver(Json[d - 1])
<1> DEFINE Up(n, f) == f = [d \in 0 .. n |-> IF d = 0 THEN Plain ELSE JsonOver(f[d - 1])]
           S == {n \in 0 .. Levels : \E f : Up(n, f)}
<1>0. Levels \in Nat
  BY JournalAssumption
<1>1. 0 \in S
  <2> DEFINE f == [d \in 0 .. 0 |-> Plain]
  <2>1. f = [d \in 0 .. 0 |-> IF d = 0 THEN Plain ELSE JsonOver(f[d - 1])]
    OBVIOUS
  <2>2. Up(0, f)
    BY <2>1
  <2> HIDE DEF f, Up
  <2> QED BY <1>0, <2>2
<1>2. ASSUME NEW n \in 1 .. Levels, n - 1 \in S PROVE n \in S
  <2>1. PICK g : Up(n - 1, g)
    BY <1>2
  <2> DEFINE last == JsonOver(g[n - 1])
             f == [d \in 0 .. n |-> IF d = n THEN last ELSE g[d]]
  <2>2. ASSUME NEW d \in 0 .. n
        PROVE  f[d] = IF d = 0 THEN Plain ELSE JsonOver(f[d - 1])
    <3>1. CASE d = n
      <4>1. d # 0 /\ n - 1 \in 0 .. n /\ n - 1 # n
        BY <3>1
      <4> QED BY <3>1, <4>1
    <3>2. CASE d # n
      <4>1. d \in 0 .. n - 1 /\ f[d] = g[d]
        BY <3>2
      <4>2. d # 0 => d - 1 \in 0 .. n /\ d - 1 # n
        BY <3>2
      <4>3. d # 0 => f[d - 1] = g[d - 1]
        BY <4>2
      <4>4. g[d] = IF d = 0 THEN Plain ELSE JsonOver(g[d - 1])
        BY <2>1, <4>1
      <4> HIDE DEF f, last
      <4> QED BY <4>1, <4>3, <4>4
    <3> QED BY <3>1, <3>2
  <2>3. f = [d \in 0 .. n |-> IF d = 0 THEN Plain ELSE JsonOver(f[d - 1])]
    <3>1. f = [d \in 0 .. n |-> f[d]]
      OBVIOUS
    <3> HIDE DEF f
    <3> QED BY <2>2, <3>1
  <2>4. Up(n, f) /\ n \in 0 .. Levels
    BY <2>3
  <2> HIDE DEF f, Up
  <2> QED BY <2>4
<1>3. Levels \in S
  <2>1. \A k \in 1 .. Levels : k - 1 \in S => k \in S
    BY <1>2
  <2> HIDE DEF S
  <2>2. 0 .. Levels \subseteq S
    BY <1>0, <1>1, <2>1, UpTo
  <2> QED BY <1>0, <2>2
<1>4. \E f : Up(Levels, f)
  BY <1>3
<1>5. Up(Levels, CHOOSE f : Up(Levels, f))
  <2> HIDE DEF Up
  <2> QED BY <1>4
<1>6. Json = CHOOSE f : Up(Levels, f)
  BY DEF Json, JsonOver
<1>7. Up(Levels, Json)
  BY <1>5, <1>6
<1> QED BY <1>0, <1>7
ChangesOfPlain == [replace : Json[0]]
ChangesOver(d, lower) ==
  [replace : Json[d]] \cup [append : Seq(Json[d - 1])]
       \cup [keyed : lower, order : Seq(Fields)]
       \cup [changed : [Fields -> lower \cup {NoEntry}],
             remove : SUBSET Fields]

LEMMA ChangesIsDefined ==
    /\ Changes[0] = ChangesOfPlain
    /\ \A d \in 1 .. Levels : Changes[d] = ChangesOver(d, Changes[d - 1])
<1> DEFINE Up(n, f) == f = [d \in 0 .. n |-> IF d = 0 THEN ChangesOfPlain ELSE ChangesOver(d, f[d - 1])]
           S == {n \in 0 .. Levels : \E f : Up(n, f)}
<1>0. Levels \in Nat
  BY JournalAssumption
<1>1. 0 \in S
  <2> DEFINE f == [d \in 0 .. 0 |-> ChangesOfPlain]
  <2>1. f = [d \in 0 .. 0 |-> IF d = 0 THEN ChangesOfPlain ELSE ChangesOver(d, f[d - 1])]
    OBVIOUS
  <2>2. Up(0, f)
    BY <2>1
  <2> HIDE DEF f, Up
  <2> QED BY <1>0, <2>2
<1>2. ASSUME NEW n \in 1 .. Levels, n - 1 \in S PROVE n \in S
  <2>1. PICK g : Up(n - 1, g)
    BY <1>2
  <2> DEFINE last == ChangesOver(n, g[n - 1])
             f == [d \in 0 .. n |-> IF d = n THEN last ELSE g[d]]
  <2>2. ASSUME NEW d \in 0 .. n
        PROVE  f[d] = IF d = 0 THEN ChangesOfPlain ELSE ChangesOver(d, f[d - 1])
    <3>1. CASE d = n
      <4>1. d # 0 /\ n - 1 \in 0 .. n /\ n - 1 # n
        BY <3>1
      <4> QED BY <3>1, <4>1
    <3>2. CASE d # n
      <4>1. d \in 0 .. n - 1 /\ f[d] = g[d]
        BY <3>2
      <4>2. d # 0 => d - 1 \in 0 .. n /\ d - 1 # n
        BY <3>2
      <4>3. d # 0 => f[d - 1] = g[d - 1]
        BY <4>2
      <4>4. g[d] = IF d = 0 THEN ChangesOfPlain ELSE ChangesOver(d, g[d - 1])
        BY <2>1, <4>1
      <4> HIDE DEF f, last
      <4> QED BY <4>1, <4>3, <4>4
    <3> QED BY <3>1, <3>2
  <2>3. f = [d \in 0 .. n |-> IF d = 0 THEN ChangesOfPlain ELSE ChangesOver(d, f[d - 1])]
    <3>1. f = [d \in 0 .. n |-> f[d]]
      OBVIOUS
    <3> HIDE DEF f
    <3> QED BY <2>2, <3>1
  <2>4. Up(n, f) /\ n \in 0 .. Levels
    BY <2>3
  <2> HIDE DEF f, Up
  <2> QED BY <2>4
<1>3. Levels \in S
  <2>1. \A k \in 1 .. Levels : k - 1 \in S => k \in S
    BY <1>2
  <2> HIDE DEF S
  <2>2. 0 .. Levels \subseteq S
    BY <1>0, <1>1, <2>1, UpTo
  <2> QED BY <1>0, <2>2
<1>4. \E f : Up(Levels, f)
  BY <1>3
<1>5. Up(Levels, CHOOSE f : Up(Levels, f))
  <2> HIDE DEF Up
  <2> QED BY <1>4
<1>6. Changes = CHOOSE f : Up(Levels, f)
  BY DEF Changes, ChangesOver, ChangesOfPlain
<1>7. Up(Levels, Changes)
  BY <1>5, <1>6
<1> QED BY <1>0, <1>7
DeltaOfPlain == [before \in Json[0] |-> [after \in Json[0] |-> [replace |-> after]]]
DeltaOver(d, lower) ==
  [before \in Json[d] |-> [after \in Json[d] |->
    IF IsObject(before) /\ IsObject(after)
      THEN LET old == before.object
               new == after.object
           IN  [changed |-> [k \in Fields |->
                   IF new[k] = NoEntry \/ new[k] = old[k] THEN NoEntry
                   ELSE IF old[k] = NoEntry THEN [replace |-> new[k]]
                   ELSE lower[old[k]][new[k]]],
                remove |-> NamesIn(old) \ NamesIn(new)]
    ELSE IF IsList(before) /\ IsList(after) /\ IsPrefix(before.list, after.list)
      THEN [append |-> SubSeq(after.list, Len(before.list) + 1, Len(after.list))]
    ELSE IF IsKeyed(before) /\ IsKeyed(after)
      THEN [keyed |-> lower[AsObject(before)][AsObject(after)],
            order |-> OrderOf(after)]
    ELSE [replace |-> after]]]

LEMMA DeltaIsDefined ==
    /\ Delta[0] = DeltaOfPlain
    /\ \A d \in 1 .. Levels : Delta[d] = DeltaOver(d, Delta[d - 1])
<1> DEFINE Up(n, f) == f = [d \in 0 .. n |-> IF d = 0 THEN DeltaOfPlain ELSE DeltaOver(d, f[d - 1])]
           S == {n \in 0 .. Levels : \E f : Up(n, f)}
<1>0. Levels \in Nat
  BY JournalAssumption
<1>1. 0 \in S
  <2> DEFINE f == [d \in 0 .. 0 |-> DeltaOfPlain]
  <2>1. f = [d \in 0 .. 0 |-> IF d = 0 THEN DeltaOfPlain ELSE DeltaOver(d, f[d - 1])]
    OBVIOUS
  <2>2. Up(0, f)
    BY <2>1
  <2> HIDE DEF f, Up
  <2> QED BY <1>0, <2>2
<1>2. ASSUME NEW n \in 1 .. Levels, n - 1 \in S PROVE n \in S
  <2>1. PICK g : Up(n - 1, g)
    BY <1>2
  <2> DEFINE last == DeltaOver(n, g[n - 1])
             f == [d \in 0 .. n |-> IF d = n THEN last ELSE g[d]]
  <2>2. ASSUME NEW d \in 0 .. n
        PROVE  f[d] = IF d = 0 THEN DeltaOfPlain ELSE DeltaOver(d, f[d - 1])
    <3>1. CASE d = n
      <4>1. d # 0 /\ n - 1 \in 0 .. n /\ n - 1 # n
        BY <3>1
      <4> QED BY <3>1, <4>1
    <3>2. CASE d # n
      <4>1. d \in 0 .. n - 1 /\ f[d] = g[d]
        BY <3>2
      <4>2. d # 0 => d - 1 \in 0 .. n /\ d - 1 # n
        BY <3>2
      <4>3. d # 0 => f[d - 1] = g[d - 1]
        BY <4>2
      <4>4. g[d] = IF d = 0 THEN DeltaOfPlain ELSE DeltaOver(d, g[d - 1])
        BY <2>1, <4>1
      <4> HIDE DEF f, last
      <4> QED BY <4>1, <4>3, <4>4
    <3> QED BY <3>1, <3>2
  <2>3. f = [d \in 0 .. n |-> IF d = 0 THEN DeltaOfPlain ELSE DeltaOver(d, f[d - 1])]
    <3>1. f = [d \in 0 .. n |-> f[d]]
      OBVIOUS
    <3> HIDE DEF f
    <3> QED BY <2>2, <3>1
  <2>4. Up(n, f) /\ n \in 0 .. Levels
    BY <2>3
  <2> HIDE DEF f, Up
  <2> QED BY <2>4
<1>3. Levels \in S
  <2>1. \A k \in 1 .. Levels : k - 1 \in S => k \in S
    BY <1>2
  <2> HIDE DEF S
  <2>2. 0 .. Levels \subseteq S
    BY <1>0, <1>1, <2>1, UpTo
  <2> QED BY <1>0, <2>2
<1>4. \E f : Up(Levels, f)
  BY <1>3
<1>5. Up(Levels, CHOOSE f : Up(Levels, f))
  <2> HIDE DEF Up
  <2> QED BY <1>4
<1>6. Delta = CHOOSE f : Up(Levels, f)
  BY DEF Delta, DeltaOver, DeltaOfPlain
<1>7. Up(Levels, Delta)
  BY <1>5, <1>6
<1> QED BY <1>0, <1>7
ApplyToPlain == [before \in Json[0] |-> [change \in Changes[0] |-> change.replace]]
ApplyOver(d, lower) ==
  [before \in Json[d] |-> [change \in Changes[d] |->
    IF "replace" \in DOMAIN change THEN change.replace
    ELSE IF "append" \in DOMAIN change /\ IsList(before)
      THEN List(before.list \o change.append)
    ELSE IF "order" \in DOMAIN change /\ IsKeyed(before)
      THEN LET result == lower[AsObject(before)][change.keyed]
           IN  IF /\ IsInjective(change.order) /\ IsObject(result)
                  /\ NamesIn(result.object) = ToSet(change.order)
               THEN InOrder(result.object, change.order) ELSE Invalid
    ELSE IF /\ "remove" \in DOMAIN change /\ IsObject(before)
            /\ change.remove \subseteq NamesIn(before.object) \ NamesIn(change.changed)
      THEN LET old == before.object
               new == change.changed
           IN  Object([k \in Fields |->
                 IF k \in change.remove THEN NoEntry
                 ELSE IF new[k] = NoEntry THEN old[k]
                 ELSE IF old[k] # NoEntry THEN lower[old[k]][new[k]]
                 ELSE IF "replace" \in DOMAIN new[k] THEN new[k].replace
                 ELSE Invalid])
    ELSE Invalid]]

LEMMA ApplyIsDefined ==
    /\ Apply[0] = ApplyToPlain
    /\ \A d \in 1 .. Levels : Apply[d] = ApplyOver(d, Apply[d - 1])
<1> DEFINE Up(n, f) == f = [d \in 0 .. n |-> IF d = 0 THEN ApplyToPlain ELSE ApplyOver(d, f[d - 1])]
           S == {n \in 0 .. Levels : \E f : Up(n, f)}
<1>0. Levels \in Nat
  BY JournalAssumption
<1>1. 0 \in S
  <2> DEFINE f == [d \in 0 .. 0 |-> ApplyToPlain]
  <2>1. f = [d \in 0 .. 0 |-> IF d = 0 THEN ApplyToPlain ELSE ApplyOver(d, f[d - 1])]
    OBVIOUS
  <2>2. Up(0, f)
    BY <2>1
  <2> HIDE DEF f, Up
  <2> QED BY <1>0, <2>2
<1>2. ASSUME NEW n \in 1 .. Levels, n - 1 \in S PROVE n \in S
  <2>1. PICK g : Up(n - 1, g)
    BY <1>2
  <2> DEFINE last == ApplyOver(n, g[n - 1])
             f == [d \in 0 .. n |-> IF d = n THEN last ELSE g[d]]
  <2>2. ASSUME NEW d \in 0 .. n
        PROVE  f[d] = IF d = 0 THEN ApplyToPlain ELSE ApplyOver(d, f[d - 1])
    <3>1. CASE d = n
      <4>1. d # 0 /\ n - 1 \in 0 .. n /\ n - 1 # n
        BY <3>1
      <4> QED BY <3>1, <4>1
    <3>2. CASE d # n
      <4>1. d \in 0 .. n - 1 /\ f[d] = g[d]
        BY <3>2
      <4>2. d # 0 => d - 1 \in 0 .. n /\ d - 1 # n
        BY <3>2
      <4>3. d # 0 => f[d - 1] = g[d - 1]
        BY <4>2
      <4>4. g[d] = IF d = 0 THEN ApplyToPlain ELSE ApplyOver(d, g[d - 1])
        BY <2>1, <4>1
      <4> HIDE DEF f, last
      <4> QED BY <4>1, <4>3, <4>4
    <3> QED BY <3>1, <3>2
  <2>3. f = [d \in 0 .. n |-> IF d = 0 THEN ApplyToPlain ELSE ApplyOver(d, f[d - 1])]
    <3>1. f = [d \in 0 .. n |-> f[d]]
      OBVIOUS
    <3> HIDE DEF f
    <3> QED BY <2>2, <3>1
  <2>4. Up(n, f) /\ n \in 0 .. Levels
    BY <2>3
  <2> HIDE DEF f, Up
  <2> QED BY <2>4
<1>3. Levels \in S
  <2>1. \A k \in 1 .. Levels : k - 1 \in S => k \in S
    BY <1>2
  <2> HIDE DEF S
  <2>2. 0 .. Levels \subseteq S
    BY <1>0, <1>1, <2>1, UpTo
  <2> QED BY <1>0, <2>2
<1>4. \E f : Up(Levels, f)
  BY <1>3
<1>5. Up(Levels, CHOOSE f : Up(Levels, f))
  <2> HIDE DEF Up
  <2> QED BY <1>4
<1>6. Apply = CHOOSE f : Up(Levels, f)
  BY DEF Apply, ApplyOver, ApplyToPlain
<1>7. Up(Levels, Apply)
  BY <1>5, <1>6
<1> QED BY <1>0, <1>7

\* What a value may be: none of its three kinds is another.
IsPlain(v) == v \in Plain /\ ~IsList(v) /\ ~IsObject(v)
ListOver(v, lower) == v = List(v.list) /\ v.list \in Seq(lower) /\ IsList(v) /\ ~IsObject(v)
ObjectOver(v, lower) ==
  /\ v = Object(v.object) /\ v.object \in [Fields -> lower \cup {NoEntry}]
  /\ IsObject(v) /\ ~IsList(v)

LEMMA PlainKind == \A v \in Plain : IsPlain(v) /\ v # NoEntry
<1>1. ASSUME NEW v \in [number : Int] PROVE IsPlain(v) /\ v # NoEntry
  <2>1. DOMAIN v = {"number"} /\ DOMAIN NoEntry = {"absent"}
    BY DEF NoEntry
  <2> QED BY <2>1 DEF IsPlain, Plain, IsList, IsObject
<1>2. ASSUME NEW v \in [name : Fields] PROVE IsPlain(v) /\ v # NoEntry
  <2>1. DOMAIN v = {"name"} /\ DOMAIN NoEntry = {"absent"}
    BY DEF NoEntry
  <2> QED BY <2>1 DEF IsPlain, Plain, IsList, IsObject
<1> QED BY <1>1, <1>2 DEF Plain

LEMMA ListKind ==
    ASSUME NEW lower, NEW v \in [list : Seq(lower)]
    PROVE  ListOver(v, lower) /\ v # NoEntry
<1>1. DOMAIN v = {"list"} /\ DOMAIN NoEntry = {"absent"}
  BY DEF NoEntry
<1>2. v = [list |-> v.list] /\ v.list \in Seq(lower)
  OBVIOUS
<1> QED BY <1>1, <1>2 DEF ListOver, List, IsList, IsObject

LEMMA ObjectKind ==
    ASSUME NEW lower, NEW v \in [object : [Fields -> lower \cup {NoEntry}]]
    PROVE  ObjectOver(v, lower) /\ v # NoEntry
<1> DEFINE T == [Fields -> lower \cup {NoEntry}]
<1>1. v \in [object : T]
  OBVIOUS
<1> HIDE DEF T
<1>2. DOMAIN v = {"object"} /\ DOMAIN NoEntry = {"absent"}
  BY <1>1 DEF NoEntry
<1>3. v = [object |-> v.object] /\ v.object \in T
  BY <1>1
<1>4. v.object \in [Fields -> lower \cup {NoEntry}]
  BY <1>3 DEF T
<1> QED BY <1>2, <1>3, <1>4 DEF ObjectOver, Object, IsList, IsObject

LEMMA Kinds ==
    ASSUME NEW d \in 0 .. Levels, NEW v \in Json[d]
    PROVE  /\ v # NoEntry
           /\ \/ IsPlain(v)
              \/ d \in 1 .. Levels /\ ListOver(v, Json[d - 1])
              \/ d \in 1 .. Levels /\ ObjectOver(v, Json[d - 1])
<1>0. Levels \in Nat
  BY JournalAssumption
<1>1. CASE d = 0
  BY <1>1, JsonIsDefined, PlainKind
<1>2. CASE d # 0
  <2>1. d \in 1 .. Levels
    BY <1>0, <1>2
  <2>2. v \in JsonOver(Json[d - 1])
    BY <2>1, JsonIsDefined
  <2> DEFINE L == [list : Seq(Json[d - 1])]
             O == [object : [Fields -> Json[d - 1] \cup {NoEntry}]]
  <2>3. v \in Plain \/ v \in L \/ v \in O
    BY <2>2 DEF JsonOver
  <2>4. CASE v \in Plain
    BY <2>4, PlainKind
  <2>5. CASE v \in L
    BY <2>1, <2>5, ListKind
  <2>6. CASE v \in O
    BY <2>1, <2>6, ObjectKind
  <2> QED BY <2>3, <2>4, <2>5, <2>6
<1> QED BY <1>1, <1>2

LEMMA KindsMade ==
    ASSUME NEW d \in 1 .. Levels
    PROVE  /\ Plain \subseteq Json[d]
           /\ \A s \in Seq(Json[d - 1]) : List(s) \in Json[d]
           /\ \A f \in [Fields -> Json[d - 1] \cup {NoEntry}] : Object(f) \in Json[d]
<1> DEFINE L == [list : Seq(Json[d - 1])]
           O == [object : [Fields -> Json[d - 1] \cup {NoEntry}]]
<1>1. Json[d] = Plain \cup L \cup O
  BY JsonIsDefined DEF JsonOver
<1>2. \A s \in Seq(Json[d - 1]) : List(s) \in L
  BY DEF List
<1>3. ASSUME NEW f \in [Fields -> Json[d - 1] \cup {NoEntry}] PROVE Object(f) \in O
  BY DEF Object
<1> HIDE DEF L, O
<1> QED BY <1>1, <1>2, <1>3

\* A keyed list is its dictionary in its order.
LEMMA KeyedInOrder ==
    ASSUME NEW d \in 0 .. Levels, NEW v \in Json[d], IsKeyed(v)
    PROVE  /\ d \in 1 .. Levels
           /\ AsObject(v) \in Json[d - 1]
           /\ OrderOf(v) \in Seq(Fields) /\ IsInjective(OrderOf(v))
           /\ NamesIn(AsObject(v).object) = ToSet(OrderOf(v))
           /\ InOrder(AsObject(v).object, OrderOf(v)) = v
           /\ IsObject(AsObject(v)) /\ IsList(v)
<1> DEFINE s == v.list
           names == OrderOf(v)
           entries == AsObject(v).object
           At(k) == CHOOSE i \in DOMAIN s : KeyOf(s[i]) = k
<1>0. Levels \in Nat
  BY JournalAssumption
<1>1. d \in 1 .. Levels /\ ListOver(v, Json[d - 1])
  <2>1. IsList(v)
    BY DEF IsKeyed
  <2> QED BY <2>1, Kinds DEF IsPlain, ObjectOver
<1>2. s \in Seq(Json[d - 1]) /\ v = List(s) /\ s # <<>>
  BY <1>1 DEF ListOver, IsKeyed
<1>3. ASSUME NEW i \in DOMAIN s
      PROVE  /\ d - 1 \in 1 .. Levels
             /\ s[i].list[2] \in Json[d - 2] /\ KeyOf(s[i]) \in Fields
             /\ s[i] = Pair(KeyOf(s[i]), s[i].list[2])
  <2>1. s[i] \in Json[d - 1] /\ d - 1 \in 0 .. Levels
    BY <1>0, <1>1, <1>2
  <2>2. IsList(s[i]) /\ Len(s[i].list) = 2 /\ "name" \in DOMAIN s[i].list[1]
    BY DEF IsKeyed
  <2>3. d - 1 \in 1 .. Levels /\ ListOver(s[i], Json[(d - 1) - 1])
    BY <2>1, <2>2, Kinds DEF IsPlain, ObjectOver
  <2>4. (d - 1) - 1 = d - 2 /\ d - 2 \in 0 .. Levels
    BY <1>0, <1>1, <2>3
  <2>5. s[i] = List(s[i].list) /\ s[i].list \in Seq(Json[d - 2])
    BY <2>3, <2>4 DEF ListOver
  <2>6. s[i].list = <<s[i].list[1], s[i].list[2]>>
    BY <2>2, <2>5
  <2>7. s[i].list[1] \in Json[d - 2] /\ s[i].list[2] \in Json[d - 2]
    BY <2>2, <2>5
  <2>8. s[i].list[1] \in [name : Fields]
    <3> DEFINE w == s[i].list[1]
    <3>1. w \in Plain
      <4>1. ~ListOver(w, Json[d - 2 - 1])
        BY <2>2 DEF ListOver, List
      <4>2. ~ObjectOver(w, Json[d - 2 - 1])
        BY <2>2 DEF ObjectOver, Object
      <4> QED BY <2>4, <2>7, <4>1, <4>2, Kinds DEF IsPlain
    <3>2. w \notin [number : Int]
      BY <2>2
    <3> QED BY <3>1, <3>2 DEF Plain
  <2>9. s[i].list[1] = Text(KeyOf(s[i])) /\ KeyOf(s[i]) \in Fields
    BY <2>8 DEF Text, KeyOf
  <2> QED BY <2>3, <2>5, <2>6, <2>7, <2>9 DEF Pair
<1>4. \A i, j \in DOMAIN s : KeyOf(s[i]) = KeyOf(s[j]) => i = j
  BY DEF IsKeyed
<1>5. DOMAIN s = 1 .. Len(s) /\ Len(s) \in Nat /\ d - 1 \in 1 .. Levels
  BY <1>2, <1>3
<1>6. names = [i \in 1 .. Len(s) |-> KeyOf(s[i])]
  BY <1>5 DEF OrderOf
<1>7. names \in Seq(Fields) /\ Len(names) = Len(s)
  BY <1>3, <1>5, <1>6
<1>8. IsInjective(names)
  BY <1>4, <1>5, <1>6 DEF IsInjective
<1>9. entries = [k \in Fields |-> IF \E i \in DOMAIN s : KeyOf(s[i]) = k
                                    THEN s[At(k)].list[2] ELSE NoEntry]
  BY DEF AsObject, Object
<1>10. \A i \in DOMAIN s : At(KeyOf(s[i])) = i
  BY <1>4
<1> HIDE DEF At
<1>11. ASSUME NEW i \in DOMAIN s PROVE entries[KeyOf(s[i])] = s[i].list[2]
  BY <1>3, <1>9, <1>10
<1>12. ASSUME NEW k \in Fields
       PROVE  \/ /\ \E i \in DOMAIN s : KeyOf(s[i]) = k
                 /\ entries[k] \in Json[d - 2]
              \/ ~(\E i \in DOMAIN s : KeyOf(s[i]) = k) /\ entries[k] = NoEntry
  <2>1. CASE \E i \in DOMAIN s : KeyOf(s[i]) = k
    <3>1. PICK i \in DOMAIN s : KeyOf(s[i]) = k
      BY <2>1
    <3> QED BY <1>3, <1>11, <3>1
  <2>2. CASE ~(\E i \in DOMAIN s : KeyOf(s[i]) = k)
    BY <1>9, <2>2
  <2> QED BY <2>1, <2>2
<1>13. \A x \in Json[d - 2] : x # NoEntry
  <2>1. d - 2 \in 0 .. Levels
    BY <1>0, <1>1, <1>5
  <2> QED BY <2>1, Kinds
<1>14. entries \in [Fields -> Json[(d - 1) - 1] \cup {NoEntry}]
  <2>1. (d - 1) - 1 = d - 2
    BY <1>1
  <2>2. entries = [k \in Fields |-> entries[k]]
    BY <1>9
  <2> HIDE DEF entries
  <2>3. \A k \in Fields : entries[k] \in Json[d - 2] \cup {NoEntry}
    BY <1>12
  <2> QED BY <2>1, <2>2, <2>3
<1>15. AsObject(v) = Object(entries) /\ IsObject(AsObject(v))
  BY DEF AsObject, Object, IsObject
<1>16. AsObject(v) \in Json[d - 1]
  <2> HIDE DEF entries
  <2>1. Object(entries) \in Json[d - 1]
    BY <1>5, <1>14, KindsMade
  <2> QED BY <1>15, <2>1
<1> HIDE DEF entries, names
<1>17. NamesIn(entries) = ToSet(names)
  <2>1. ToSet(names) = {KeyOf(s[i]) : i \in DOMAIN s}
    BY <1>5, <1>6 DEF ToSet
  <2>2. \A k \in Fields : entries[k] # NoEntry <=> \E i \in DOMAIN s : KeyOf(s[i]) = k
    BY <1>12, <1>13
  <2>3. \A i \in DOMAIN s : KeyOf(s[i]) \in Fields
    BY <1>3
  <2> QED BY <2>1, <2>2, <2>3 DEF NamesIn
<1>18. InOrder(entries, names) = v
  <2>1. DOMAIN names = DOMAIN s
    BY <1>5, <1>6
  <2>2. \A i \in DOMAIN s : Pair(names[i], entries[names[i]]) = s[i]
    BY <1>3, <1>5, <1>6, <1>11
  <2>3. s = [i \in DOMAIN s |-> s[i]]
    BY <1>2
  <2>4. [i \in DOMAIN names |-> Pair(names[i], entries[names[i]])] = s
    BY <2>1, <2>2, <2>3
  <2> QED BY <1>2, <2>4 DEF InOrder
<1> QED BY <1>1, <1>7, <1>8, <1>15, <1>16, <1>17, <1>18 DEF entries, names, ListOver

LEMMA ChangesMade ==
    ASSUME NEW d \in 1 .. Levels
    PROVE  /\ \A v \in Json[d] : [replace |-> v] \in Changes[d]
           /\ \A s \in Seq(Json[d - 1]) : [append |-> s] \in Changes[d]
           /\ \A c \in Changes[d - 1], s \in Seq(Fields) : [keyed |-> c, order |-> s] \in Changes[d]
           /\ \A f \in [Fields -> Changes[d - 1] \cup {NoEntry}], r \in SUBSET Fields :
                [changed |-> f, remove |-> r] \in Changes[d]
<1> DEFINE R == [replace : Json[d]]
           A == [append : Seq(Json[d - 1])]
           K == [keyed : Changes[d - 1], order : Seq(Fields)]
           M == [changed : [Fields -> Changes[d - 1] \cup {NoEntry}], remove : SUBSET Fields]
<1>1. Changes[d] = R \cup A \cup K \cup M
  BY ChangesIsDefined DEF ChangesOver
<1>2. \A v \in Json[d] : [replace |-> v] \in R
  OBVIOUS
<1>3. \A s \in Seq(Json[d - 1]) : [append |-> s] \in A
  OBVIOUS
<1>4. \A c \in Changes[d - 1], s \in Seq(Fields) : [keyed |-> c, order |-> s] \in K
  OBVIOUS
<1>5. \A f \in [Fields -> Changes[d - 1] \cup {NoEntry}], r \in SUBSET Fields :
        [changed |-> f, remove |-> r] \in M
  OBVIOUS
<1> HIDE DEF R, A, K, M
<1> QED BY <1>1, <1>2, <1>3, <1>4, <1>5

\* A change is not the lack of one.
LEMMA ChangesAreThere ==
    ASSUME NEW d \in 0 .. Levels, NEW c \in Changes[d]
    PROVE  c # NoEntry
<1>0. Levels \in Nat /\ DOMAIN NoEntry = {"absent"}
  BY JournalAssumption DEF NoEntry
<1>1. CASE d = 0
  <2>1. c \in [replace : Json[0]]
    BY <1>1, ChangesIsDefined DEF ChangesOfPlain
  <2>2. DOMAIN c = {"replace"}
    BY <2>1
  <2> QED BY <1>0, <2>2
<1>2. CASE d # 0
  <2>1. d \in 1 .. Levels
    BY <1>0, <1>2
  <2> DEFINE R == [replace : Json[d]]
             A == [append : Seq(Json[d - 1])]
             K == [keyed : Changes[d - 1], order : Seq(Fields)]
             T == [Fields -> Changes[d - 1] \cup {NoEntry}]
             M == [changed : T, remove : SUBSET Fields]
  <2>2. Changes[d] = R \cup A \cup K \cup M
    BY <2>1, ChangesIsDefined DEF ChangesOver
  <2> HIDE DEF T
  <2>3. (c \in R => "replace" \in DOMAIN c) /\ (c \in A => "append" \in DOMAIN c)
    OBVIOUS
  <2>4. c \in K => "order" \in DOMAIN c
    OBVIOUS
  <2>5. c \in M => "remove" \in DOMAIN c
    OBVIOUS
  <2> HIDE DEF R, A, K, M
  <2> QED BY <1>0, <2>2, <2>3, <2>4, <2>5
<1> QED BY <1>1, <1>2

Reverts(d) ==
  \A v, w \in Json[d] :
    /\ Delta[d][v][w] \in Changes[d]
    /\ Apply[d][v][Delta[d][v][w]] = w

LEMMA PlainReverts == Reverts(0)
<1>1. ASSUME NEW v \in Json[0], NEW w \in Json[0]
      PROVE  Delta[0][v][w] \in Changes[0] /\ Apply[0][v][Delta[0][v][w]] = w
  <2>1. Delta[0][v][w] = [replace |-> w]
    BY DeltaIsDefined DEF DeltaOfPlain
  <2>2. [replace |-> w] \in Changes[0]
    BY ChangesIsDefined DEF ChangesOfPlain
  <2>3. \A c \in Changes[0] : Apply[0][v][c] = c.replace
    BY DeltaIsDefined, ApplyIsDefined DEF ApplyToPlain
  <2>4. [replace |-> w].replace = w
    OBVIOUS
  <2> QED BY <2>1, <2>2, <2>3, <2>4
<1> QED BY <1>1 DEF Reverts

\* What Apply makes of a change of each kind.
LEMMA ApplyCases ==
    ASSUME NEW d \in 1 .. Levels, NEW v \in Json[d]
    PROVE  /\ \A w \in Json[d] : Apply[d][v][[replace |-> w]] = w
           /\ IsList(v) => \A s \in Seq(Json[d - 1]) :
                Apply[d][v][[append |-> s]] = List(v.list \o s)
           /\ IsKeyed(v) => \A c \in Changes[d - 1], s \in Seq(Fields) :
                LET r == Apply[d - 1][AsObject(v)][c] IN
                IsInjective(s) /\ IsObject(r) /\ NamesIn(r.object) = ToSet(s) =>
                  Apply[d][v][[keyed |-> c, order |-> s]] = InOrder(r.object, s)
           /\ IsObject(v) => \A f \in [Fields -> Changes[d - 1] \cup {NoEntry}], r \in SUBSET Fields :
                r \subseteq NamesIn(v.object) \ NamesIn(f) =>
                Apply[d][v][[changed |-> f, remove |-> r]] =
                  Object([k \in Fields |->
                     IF k \in r THEN NoEntry
                     ELSE IF f[k] = NoEntry THEN v.object[k]
                     ELSE IF v.object[k] # NoEntry THEN Apply[d - 1][v.object[k]][f[k]]
                     ELSE IF "replace" \in DOMAIN f[k] THEN f[k].replace
                     ELSE Invalid])
<1> DEFINE low == Apply[d - 1]
           Act(change) ==
    IF "replace" \in DOMAIN change THEN change.replace
    ELSE IF "append" \in DOMAIN change /\ IsList(v)
      THEN List(v.list \o change.append)
    ELSE IF "order" \in DOMAIN change /\ IsKeyed(v)
      THEN LET result == low[AsObject(v)][change.keyed]
           IN  IF /\ IsInjective(change.order) /\ IsObject(result)
                  /\ NamesIn(result.object) = ToSet(change.order)
               THEN InOrder(result.object, change.order) ELSE Invalid
    ELSE IF /\ "remove" \in DOMAIN change /\ IsObject(v)
            /\ change.remove \subseteq NamesIn(v.object) \ NamesIn(change.changed)
      THEN LET old == v.object
               new == change.changed
           IN  Object([k \in Fields |->
                 IF k \in change.remove THEN NoEntry
                 ELSE IF new[k] = NoEntry THEN old[k]
                 ELSE IF old[k] # NoEntry THEN low[old[k]][new[k]]
                 ELSE IF "replace" \in DOMAIN new[k] THEN new[k].replace
                 ELSE Invalid])
    ELSE Invalid
<1>1. \A change \in Changes[d] : Apply[d][v][change] = Act(change)
  <2>1. Apply[d] = ApplyOver(d, low)
    BY ApplyIsDefined, SMTT(30)
  <2> HIDE DEF low
  <2>2. ApplyOver(d, low)[v] = [change \in Changes[d] |-> Act(change)]
    BY DEF ApplyOver
  <2> HIDE DEF Act
  <2> QED BY <2>1, <2>2
<1> HIDE DEF low
<1>2. \A w \in Json[d] : Apply[d][v][[replace |-> w]] = w
  <2>1. \A w \in Json[d] : Act([replace |-> w]) = w
    OBVIOUS
  <2> HIDE DEF Act
  <2> QED BY <1>1, <2>1, ChangesMade
<1>3. ASSUME IsList(v), NEW s \in Seq(Json[d - 1])
      PROVE  Apply[d][v][[append |-> s]] = List(v.list \o s)
  <2>1. Act([append |-> s]) = List(v.list \o s)
    BY <1>3
  <2> HIDE DEF Act
  <2> QED BY <1>1, <2>1, ChangesMade
<1>4. ASSUME IsKeyed(v), NEW c \in Changes[d - 1], NEW s \in Seq(Fields),
             LET r == low[AsObject(v)][c] IN
               IsInjective(s) /\ IsObject(r) /\ NamesIn(r.object) = ToSet(s)
      PROVE  Apply[d][v][[keyed |-> c, order |-> s]] = InOrder(low[AsObject(v)][c].object, s)
  <2> DEFINE ch == [keyed |-> c, order |-> s]
  <2>1. ch.keyed = c /\ ch.order = s /\ "order" \in DOMAIN ch
        /\ "replace" \notin DOMAIN ch /\ "append" \notin DOMAIN ch
    OBVIOUS
  <2>2. ch \in Changes[d]
    BY ChangesMade
  <2> HIDE DEF ch
  <2>3. Act(ch) = InOrder(low[AsObject(v)][c].object, s)
    BY <1>4, <2>1
  <2> HIDE DEF Act
  <2> QED BY <1>1, <2>2, <2>3 DEF ch
<1>5. ASSUME IsObject(v), NEW f \in [Fields -> Changes[d - 1] \cup {NoEntry}],
             NEW r \in SUBSET Fields, r \subseteq NamesIn(v.object) \ NamesIn(f)
      PROVE  Apply[d][v][[changed |-> f, remove |-> r]] =
                  Object([k \in Fields |->
                     IF k \in r THEN NoEntry
                     ELSE IF f[k] = NoEntry THEN v.object[k]
                     ELSE IF v.object[k] # NoEntry THEN low[v.object[k]][f[k]]
                     ELSE IF "replace" \in DOMAIN f[k] THEN f[k].replace
                     ELSE Invalid])
  <2> DEFINE ch == [changed |-> f, remove |-> r]
             made == Object([k \in Fields |->
                     IF k \in ch.remove THEN NoEntry
                     ELSE IF ch.changed[k] = NoEntry THEN v.object[k]
                     ELSE IF v.object[k] # NoEntry THEN low[v.object[k]][ch.changed[k]]
                     ELSE IF "replace" \in DOMAIN ch.changed[k] THEN ch.changed[k].replace
                     ELSE Invalid])
  <2>1. ch.changed = f /\ ch.remove = r
    OBVIOUS
  <2>2. /\ "remove" \in DOMAIN ch /\ "order" \notin DOMAIN ch
        /\ "replace" \notin DOMAIN ch /\ "append" \notin DOMAIN ch
    OBVIOUS
  <2>3. ch \in Changes[d]
    BY ChangesMade
  <2> HIDE DEF ch
  <2>4. Act(ch) = made
    <3>1. ch.remove \subseteq NamesIn(v.object) \ NamesIn(ch.changed)
      BY <1>5, <2>1
    <3> QED BY <1>5, <2>2, <3>1
  <2> HIDE DEF Act
  <2>5. Apply[d][v][ch] = made
    BY <1>1, <2>3, <2>4
  <2>6. made = Object([k \in Fields |->
                     IF k \in r THEN NoEntry
                     ELSE IF f[k] = NoEntry THEN v.object[k]
                     ELSE IF v.object[k] # NoEntry THEN low[v.object[k]][f[k]]
                     ELSE IF "replace" \in DOMAIN f[k] THEN f[k].replace
                     ELSE Invalid])
    BY <2>1
  <2> QED BY <2>5, <2>6 DEF ch
<1> QED BY <1>2, <1>3, <1>4, <1>5 DEF low

LEMMA AppendReverts ==
    ASSUME NEW S, NEW s \in Seq(S), NEW t \in Seq(S), IsPrefix(s, t)
    PROVE  /\ SubSeq(t, Len(s) + 1, Len(t)) \in Seq(S)
           /\ s \o SubSeq(t, Len(s) + 1, Len(t)) = t
<1>1. Len(s) <= Len(t) /\ s = SubSeq(t, 1, Len(s))
  BY DEF IsPrefix
<1>2. SubSeq(t, Len(s) + 1, Len(t)) \in Seq(S)
  OBVIOUS
<1>3. ASSUME NEW i \in 1 .. Len(t) PROVE (s \o SubSeq(t, Len(s) + 1, Len(t)))[i] = t[i]
  <2>1. CASE i <= Len(s)
    <3>1. i \in 1 .. Len(s) /\ s[i] = t[i]
      BY <1>1, <2>1
    <3> QED BY <1>1, <1>2, <3>1
  <2>2. CASE ~(i <= Len(s))
    BY <1>1, <2>2
  <2> QED BY <2>1, <2>2
<1>4. Len(s \o SubSeq(t, Len(s) + 1, Len(t))) = Len(t)
  BY <1>1
<1>5. s \o SubSeq(t, Len(s) + 1, Len(t)) \in Seq(S)
  BY <1>2
<1> HIDE DEF IsPrefix
<1> QED BY <1>2, <1>3, <1>4, <1>5, SeqEqual

LEMMA DictionaryReverts ==
    ASSUME NEW d \in 1 .. Levels, Reverts(d - 1),
           NEW v \in Json[d], NEW w \in Json[d], IsObject(v), IsObject(w)
    PROVE  Delta[d][v][w] \in Changes[d] /\ Apply[d][v][Delta[d][v][w]] = w
<1> DEFINE old == v.object
           new == w.object
           low == Delta[d - 1]
           f == [k \in Fields |->
                   IF new[k] = NoEntry \/ new[k] = old[k] THEN NoEntry
                   ELSE IF old[k] = NoEntry THEN [replace |-> new[k]]
                   ELSE low[old[k]][new[k]]]
           r == NamesIn(old) \ NamesIn(new)
<1>0. Levels \in Nat /\ d - 1 \in 0 .. Levels
  BY JournalAssumption
<1>1. /\ old \in [Fields -> Json[d - 1] \cup {NoEntry}]
      /\ new \in [Fields -> Json[d - 1] \cup {NoEntry}]
      /\ w = Object(new)
  BY <1>0, Kinds DEF IsPlain, ListOver, ObjectOver
<1>2. Delta[d][v][w] = [changed |-> f, remove |-> r]
  <2>1. Delta[d] = DeltaOver(d, low)
    BY DeltaIsDefined, SMTT(30)
  <2> HIDE DEF low
  <2>2. DeltaOver(d, low)[v][w] = [changed |-> f, remove |-> r]
    BY DEF DeltaOver
  <2> QED BY <2>1, <2>2
<1> HIDE DEF old, new
<1>3. \A x \in Json[d - 1] : x # NoEntry
  BY <1>0, Kinds
<1>4. \A c \in Changes[d - 1] : c # NoEntry
  BY <1>0, ChangesAreThere
<1>5. \A x, y \in Json[d - 1] : low[x][y] \in Changes[d - 1] /\ Apply[d - 1][x][low[x][y]] = y
  BY DEF Reverts
<1>6. \A x \in Json[d - 1] : [replace |-> x] \in Changes[d - 1]
  <2>1. CASE d - 1 = 0
    BY <2>1, ChangesIsDefined DEF ChangesOfPlain
  <2>2. CASE d - 1 # 0
    <3>1. d - 1 \in 1 .. Levels
      BY <1>0, <2>2
    <3> QED BY <3>1, ChangesMade
  <2> QED BY <2>1, <2>2
<1> DEFINE made(k) ==
             IF k \in r THEN NoEntry
             ELSE IF f[k] = NoEntry THEN old[k]
             ELSE IF old[k] # NoEntry THEN Apply[d - 1][old[k]][f[k]]
             ELSE IF "replace" \in DOMAIN f[k] THEN f[k].replace
             ELSE Invalid
<1>7. ASSUME NEW k \in Fields
      PROVE  /\ f[k] \in Changes[d - 1] \cup {NoEntry}
             /\ f[k] # NoEntry => k \notin r
             /\ made(k) = new[k]
  <2>1. old[k] \in Json[d - 1] \cup {NoEntry} /\ new[k] \in Json[d - 1] \cup {NoEntry}
    BY <1>1
  <2>2. f[k] = IF new[k] = NoEntry \/ new[k] = old[k] THEN NoEntry
               ELSE IF old[k] = NoEntry THEN [replace |-> new[k]]
               ELSE low[old[k]][new[k]]
    OBVIOUS
  <2>3. k \in r <=> old[k] # NoEntry /\ new[k] = NoEntry
    BY DEF NamesIn
  <2> HIDE DEF f, r, low
  <2>4. CASE new[k] = NoEntry
    BY <2>2, <2>3, <2>4
  <2>5. CASE new[k] # NoEntry /\ new[k] = old[k]
    BY <2>2, <2>3, <2>5
  <2>6. CASE new[k] # NoEntry /\ new[k] # old[k] /\ old[k] = NoEntry
    <3>1. f[k] = [replace |-> new[k]] /\ new[k] \in Json[d - 1] /\ k \notin r
      BY <2>1, <2>2, <2>3, <2>6
    <3>2. f[k] \in Changes[d - 1] /\ f[k] # NoEntry
      BY <1>4, <1>6, <3>1
    <3>3. "replace" \in DOMAIN f[k] /\ f[k].replace = new[k]
      BY <3>1
    <3> QED BY <2>6, <3>1, <3>2, <3>3
  <2>7. CASE new[k] # NoEntry /\ new[k] # old[k] /\ old[k] # NoEntry
    <3>1. f[k] = low[old[k]][new[k]] /\ new[k] \in Json[d - 1] /\ old[k] \in Json[d - 1] /\ k \notin r
      BY <2>1, <2>2, <2>3, <2>7
    <3>2. f[k] \in Changes[d - 1] /\ f[k] # NoEntry /\ Apply[d - 1][old[k]][f[k]] = new[k]
      BY <1>4, <1>5, <3>1
    <3> QED BY <2>7, <3>1, <3>2
  <2> QED BY <2>4, <2>5, <2>6, <2>7
<1>8. f \in [Fields -> Changes[d - 1] \cup {NoEntry}] /\ r \in SUBSET Fields
  <2>1. f = [k \in Fields |-> f[k]]
    OBVIOUS
  <2>2. r \in SUBSET Fields
    BY DEF NamesIn
  <2> HIDE DEF f
  <2> QED BY <1>7, <2>1, <2>2
<1>9. r \subseteq NamesIn(old) \ NamesIn(f)
  <2>1. r \subseteq NamesIn(old)
    OBVIOUS
  <2> HIDE DEF f, r
  <2> QED BY <1>7, <2>1 DEF NamesIn
<1> HIDE DEF f, r
<1>10. Apply[d][v][[changed |-> f, remove |-> r]] = Object([k \in Fields |-> made(k)])
  BY <1>8, <1>9, ApplyCases DEF old
<1>11. [k \in Fields |-> made(k)] = new
  <2>1. new = [k \in Fields |-> new[k]]
    BY <1>1
  <2> HIDE DEF made
  <2> QED BY <1>7, <2>1
<1>12. [changed |-> f, remove |-> r] \in Changes[d]
  BY <1>8, ChangesMade
<1> HIDE DEF made
<1> QED BY <1>1, <1>2, <1>10, <1>11, <1>12

LEMMA DeltaReverts == \A d \in 0 .. Levels : Reverts(d)
<1> DEFINE S == {d \in 0 .. Levels : Reverts(d)}
<1>0. Levels \in Nat
  BY JournalAssumption
<1>1. 0 \in S
  BY <1>0, PlainReverts
<1>2. ASSUME NEW d \in 1 .. Levels, d - 1 \in S PROVE d \in S
  <2>0. Reverts(d - 1) /\ d \in 0 .. Levels /\ d - 1 \in 0 .. Levels
    BY <1>2
  <2>1. ASSUME NEW v \in Json[d], NEW w \in Json[d]
        PROVE  Delta[d][v][w] \in Changes[d] /\ Apply[d][v][Delta[d][v][w]] = w
    <3> DEFINE low == Delta[d - 1]
               lists == IsList(v) /\ IsList(w) /\ IsPrefix(v.list, w.list)
    <3>1. Delta[d] = DeltaOver(d, low)
      BY DeltaIsDefined
    <3> HIDE DEF low
    <3>2. CASE IsObject(v) /\ IsObject(w)
      BY <2>0, <3>2, DictionaryReverts
    <3>3. CASE ~(IsObject(v) /\ IsObject(w)) /\ lists
      <4> DEFINE tail == SubSeq(w.list, Len(v.list) + 1, Len(w.list))
      <4>1. DeltaOver(d, low)[v][w] = [append |-> tail]
        BY <3>3 DEF DeltaOver
      <4>2. v.list \in Seq(Json[d - 1]) /\ w.list \in Seq(Json[d - 1]) /\ w = List(w.list)
        BY <2>0, <3>3, Kinds DEF IsPlain, ListOver, ObjectOver
      <4>3. tail \in Seq(Json[d - 1]) /\ v.list \o tail = w.list
        BY <3>3, <4>2, AppendReverts
      <4> HIDE DEF tail
      <4>4. [append |-> tail] \in Changes[d]
        BY <4>3, ChangesMade
      <4>5. Apply[d][v][[append |-> tail]] = List(v.list \o tail)
        BY <3>3, <4>3, ApplyCases
      <4> QED BY <3>1, <4>1, <4>2, <4>3, <4>4, <4>5, SMTT(30)
    <3>4. CASE ~(IsObject(v) /\ IsObject(w)) /\ ~lists /\ IsKeyed(v) /\ IsKeyed(w)
      <4> DEFINE c == low[AsObject(v)][AsObject(w)]
                 s == OrderOf(w)
      <4>1. DeltaOver(d, low)[v][w] = [keyed |-> c, order |-> s]
        BY <3>4 DEF DeltaOver
      <4>2. AsObject(v) \in Json[d - 1] /\ AsObject(w) \in Json[d - 1]
        BY <2>0, <3>4, KeyedInOrder
      <4>3. c \in Changes[d - 1] /\ Apply[d - 1][AsObject(v)][c] = AsObject(w)
        BY <2>0, <4>2 DEF Reverts, low
      <4>4. /\ s \in Seq(Fields) /\ IsInjective(s) /\ IsObject(AsObject(w))
            /\ NamesIn(AsObject(w).object) = ToSet(s)
            /\ InOrder(AsObject(w).object, s) = w
        BY <2>0, <3>4, KeyedInOrder
      <4> HIDE DEF c, s
      <4>5. Apply[d][v][[keyed |-> c, order |-> s]] = InOrder(AsObject(w).object, s)
        BY <3>4, <4>3, <4>4, ApplyCases
      <4> QED BY <3>1, <4>1, <4>3, <4>4, <4>5, ChangesMade, SMTT(30)
    <3>5. CASE ~(IsObject(v) /\ IsObject(w)) /\ ~lists /\ ~(IsKeyed(v) /\ IsKeyed(w))
      <4>1. DeltaOver(d, low)[v][w] = [replace |-> w]
        BY <3>5 DEF DeltaOver
      <4> QED BY <3>1, <4>1, ApplyCases, ChangesMade, SMTT(30)
    <3> QED BY <3>2, <3>3, <3>4, <3>5
  <2> QED BY <2>0, <2>1 DEF Reverts
<1>3. \A d \in 1 .. Levels : d - 1 \in S => d \in S
  BY <1>2
<1> HIDE DEF S
<1>4. 0 .. Levels \subseteq S
  BY <1>0, <1>1, <1>3, UpTo
<1> QED BY <1>4 DEF S

(***************************************************************************)
(* The states of a run: what is committed after n attempts, and what the   *)
(* next transaction makes of it before the tip of its row is known.        *)
(***************************************************************************)
Done(n) == [i \in 1 .. n |-> i]
Committed(n) == {RunState(n, n, body, Done(n)) : body \in Bodies}
Drafted(n) == {RunState(n + 1, n, body, Done(n + 1)) : body \in Bodies}

LEMMA StateParts ==
    ASSUME NEW n \in Int, NEW tip \in Int, NEW body \in Bodies, NEW done
    PROVE  LET s == RunState(n, tip, body, done) IN
           /\ s.compact \in Json[Levels]
           /\ Completed(s) = n /\ s.compact.object.tip.number = tip
           /\ s.attempts = done
           /\ s = [compact |-> s.compact, attempts |-> done]
           /\ \A m \in Int : [s EXCEPT !.compact.object.tip = Num(m)] = RunState(n, m, body, done)
<1> DEFINE Entry(t) == [k \in Fields |->
              CASE k = "completed" -> Num(n)
                [] k = "tip" -> Num(t)
                [] k = "search" -> body
                [] OTHER -> NoEntry]
           s == RunState(n, tip, body, done)
<1>0. /\ Levels \in 1 .. Levels /\ Levels - 1 \in 0 .. Levels /\ body \in Json[Levels - 1]
      /\ "completed" \in Fields /\ "tip" \in Fields /\ "search" \in Fields
  BY JournalAssumption
<1>1. \A t : RunState(n, t, body, done) = [compact |-> Object(Entry(t)), attempts |-> done]
  BY DEF RunState
<1>2. \A m \in Int : Num(m) \in Json[Levels - 1] /\ Num(m).number = m
  <2>1. \A m \in Int : Num(m) \in Plain /\ Num(m).number = m
    BY DEF Num, Plain
  <2>2. Plain \subseteq Json[Levels - 1]
    <3>1. CASE Levels - 1 = 0
      BY <3>1, JsonIsDefined
    <3>2. CASE Levels - 1 # 0
      <4>1. Levels - 1 \in 1 .. Levels
        BY <1>0, <3>2
      <4> QED BY <4>1, KindsMade
    <3> QED BY <3>1, <3>2
  <2> QED BY <2>1, <2>2
<1>3. ASSUME NEW t \in Int
      PROVE  /\ Entry(t) \in [Fields -> Json[Levels - 1] \cup {NoEntry}]
             /\ Entry(t)["completed"] = Num(n) /\ Entry(t)["tip"] = Num(t)
  BY <1>0, <1>2
<1>4. \A m : [Entry(tip) EXCEPT !["tip"] = Num(m)] = Entry(m)
  OBVIOUS
<1> HIDE DEF Entry
<1>5. \A t \in Int : Object(Entry(t)) \in Json[Levels] /\ Object(Entry(t)).object = Entry(t)
  <2>1. \A t \in Int : Object(Entry(t)) \in Json[Levels]
    BY <1>0, <1>3, KindsMade
  <2> QED BY <2>1 DEF Object
<1>6. s = [compact |-> Object(Entry(tip)), attempts |-> done]
  BY <1>1
<1>7. /\ s.compact = Object(Entry(tip)) /\ s.attempts = done
      /\ s.compact.object = Entry(tip)
  BY <1>5, <1>6
<1>8. Completed(s) = n /\ s.compact.object.tip.number = tip
  BY <1>2, <1>3, <1>7 DEF Completed
<1>9. ASSUME NEW m \in Int
      PROVE  [s EXCEPT !.compact.object.tip = Num(m)] = RunState(n, m, body, done)
  <2>1. [s EXCEPT !.compact.object.tip = Num(m)]
          = [compact |-> [object |-> [Entry(tip) EXCEPT !["tip"] = Num(m)]], attempts |-> done]
    BY <1>6 DEF Object
  <2> QED BY <1>1, <1>4, <2>1 DEF Object
<1> HIDE DEF s
<1> QED BY <1>5, <1>6, <1>7, <1>8, <1>9 DEF s

LEMMA DoneGrows ==
    ASSUME NEW n \in Nat
    PROVE  /\ Done(n) \in Seq(Int) /\ Len(Done(n)) = n
           /\ Front(Done(n + 1)) = Done(n) /\ Last(Done(n + 1)) = n + 1
           /\ Append(Done(n), n + 1) = Done(n + 1)
<1>1. Done(n) \in Seq(Int) /\ Len(Done(n)) = n
  BY DEF Done
<1>2. Done(n + 1) \in Seq(Int) /\ Len(Done(n + 1)) = n + 1
  BY DEF Done
<1>3. Last(Done(n + 1)) = n + 1
  BY <1>2 DEF Last, Done
<1>4. Front(Done(n + 1)) = Done(n)
  BY <1>2 DEF Front, Done
<1>5. Append(Done(n), n + 1) = Done(n + 1)
  BY <1>1 DEF Done
<1> QED BY <1>1, <1>3, <1>4, <1>5

\* A change restores what it was made of.
LEMMA ChangeRestores ==
    ASSUME NEW n \in Nat, NEW t \in Int, NEW u \in Int, NEW b \in Bodies, NEW c \in Bodies
    PROVE  LET s == RunState(n, t, b, Done(n))
               w == RunState(n + 1, u, c, Done(n + 1))
           IN  Extends(s, w) /\ Restore(s, Change(s, w)) = w
<1> DEFINE s == RunState(n, t, b, Done(n))
           w == RunState(n + 1, u, c, Done(n + 1))
<1>1. /\ s.compact \in Json[Levels] /\ Completed(s) = n /\ s.attempts = Done(n)
  <2>1. n \in Int
    OBVIOUS
  <2> QED BY <2>1, StateParts
<1>2. /\ w.compact \in Json[Levels] /\ Completed(w) = n + 1 /\ w.attempts = Done(n + 1)
      /\ w = [compact |-> w.compact, attempts |-> Done(n + 1)]
  <2>1. n + 1 \in Int
    OBVIOUS
  <2> QED BY <2>1, StateParts
<1> HIDE DEF s, w
<1>3. Extends(s, w)
  BY <1>1, <1>2, DoneGrows DEF Extends
<1>4. Apply[Levels][s.compact][Delta[Levels][s.compact][w.compact]] = w.compact
  <2>1. Levels \in 0 .. Levels
    BY JournalAssumption
  <2> QED BY <1>1, <1>2, <2>1, DeltaReverts DEF Reverts
<1>5. Change(s, w) = [delta |-> <<Delta[Levels][s.compact][w.compact]>>, attempt |-> n + 1]
  BY <1>2, DoneGrows DEF Change
<1>6. Restore(s, Change(s, w)) = [compact |-> w.compact, attempts |-> Append(Done(n), n + 1)]
  <2> DEFINE x == Delta[Levels][s.compact][w.compact]
             change == [delta |-> <<x>>, attempt |-> n + 1]
  <2>1. change.delta[1] = x /\ change.attempt = n + 1
    OBVIOUS
  <2>2. Change(s, w) = change /\ Apply[Levels][s.compact][x] = w.compact
    BY <1>4, <1>5
  <2> HIDE DEF x, change
  <2> QED BY <1>1, <2>1, <2>2 DEF Restore
<1> QED BY <1>2, <1>3, <1>6, DoneGrows DEF s, w

(***************************************************************************)
(* The inductive invariant.  Record k is of a state after k - 1 attempts   *)
(* and of the state of the record before it; a transaction is of the state *)
(* that was committed last, and a coordinator holds that state.            *)
(***************************************************************************)
State(records, k) == Hash(records[k])

ChainInv ==
  /\ journal \in Seq({journal[k] : k \in DOMAIN journal}) /\ Len(journal) \in Nat \ {0}
  /\ journal[1] \in {[state |-> State(journal, 1)], InitialRecord(State(journal, 1))}
  /\ \A k \in 1 .. Len(journal) : State(journal, k) \in Committed(k - 1)
  /\ \A k \in 2 .. Len(journal) : journal[k] = ChangeRecord(State(journal, k - 1), State(journal, k))
  /\ reached = State(journal, Len(journal))

Restorable(r, t, s) ==
  t \in {[before |-> r, state |-> s],
         [before |-> r, after |-> s, change |-> Change(r, s)]}
DraftInv ==
  \/ transaction = <<>> /\ intended = <<>> /\ ahead = <<>>
  \/ \E s \in Drafted(Len(journal) - 1) :
       /\ intended = <<s>> /\ ahead \in {<<>>, <<s>>}
       /\ \E t : transaction = <<t>> /\ Restorable(reached, t, s)

JournalInv ==
  /\ ChainInv /\ DraftInv
  /\ held \in {<<>>, <<reached>>} /\ (ahead # <<>> => held # <<>>)

----------------------------------------------------------------------------
(* What the chain replays to. *)

ReplayOf(k, prior) ==
  LET r == journal[k]
      first == [compact |-> r.snapshot[1], attempts |-> <<>>]
      next == IF r.snapshot # <<>>
              THEN [compact |-> r.snapshot[1],
                    attempts |-> Append(prior[1].attempts, r.change[1].attempt)]
              ELSE Restore(prior[1], r.change[1])
  IN  IF IsLegacy(r) THEN <<r.state>>
      ELSE IF k = 1
        THEN IF Completed(first) = 0 /\ r.after = first THEN <<first>> ELSE <<>>
      ELSE IF /\ prior # <<>> /\ r.before = prior
              /\ next = r.after
              /\ Completed(next) = Completed(prior[1]) + 1
              /\ (r.snapshot # <<>>) = SnapshotDue(Completed(next))
        THEN <<next>> ELSE <<>>

LEMMA FirstReplays ==
    ASSUME ChainInv, NEW prior
    PROVE  ReplayOf(1, prior) = <<State(journal, 1)>>
<1> DEFINE r == journal[1]
           s == State(journal, 1)
<1>0. 1 \in 1 .. Len(journal)
  BY DEF ChainInv
<1>1. s \in Committed(0)
  BY <1>0 DEF ChainInv
<1>2. PICK body \in Bodies : s = RunState(0, 0, body, Done(0))
  BY <1>1 DEF Committed
<1>3. Completed(s) = 0 /\ s = [compact |-> s.compact, attempts |-> <<>>]
  <2>1. Done(0) = <<>>
    BY DEF Done
  <2> HIDE DEF s
  <2>2. 0 \in Int
    OBVIOUS
  <2>3. Completed(s) = 0 /\ s = [compact |-> s.compact, attempts |-> Done(0)]
    BY <1>2, <2>2, StateParts
  <2> QED BY <2>1, <2>3
<1>4. r \in {[state |-> s], InitialRecord(s)}
  BY DEF ChainInv
<1> HIDE DEF r, s
<1>5. CASE r = [state |-> s]
  <2>1. IsLegacy(r) /\ r.state = s
    BY <1>5 DEF IsLegacy
  <2> QED BY <2>1 DEF ReplayOf, r, s
<1>6. CASE r = InitialRecord(s)
  <2>1. ~IsLegacy(r) /\ r.snapshot = <<s.compact>> /\ r.after = s
    BY <1>6 DEF IsLegacy, InitialRecord
  <2>2. r.snapshot[1] = s.compact
    BY <2>1
  <2>3. [compact |-> r.snapshot[1], attempts |-> <<>>] = s
    BY <1>3, <2>2
  <2> QED BY <1>3, <2>1, <2>3 DEF ReplayOf, r, s
<1> QED BY <1>4, <1>5, <1>6

LEMMA NextReplays ==
    ASSUME ChainInv, NEW k \in 2 .. Len(journal)
    PROVE  ReplayOf(k, <<State(journal, k - 1)>>) = <<State(journal, k)>>
<1> DEFINE r == journal[k]
           p == State(journal, k - 1)
           s == State(journal, k)
           due == SnapshotDue(Completed(s))
           n == k - 2
<1>0. Len(journal) \in Nat /\ k - 1 \in 1 .. Len(journal) /\ k \in 1 .. Len(journal)
      /\ n \in Nat /\ k - 1 - 1 = n /\ k - 1 = n + 1
  BY DEF ChainInv
<1>1. p \in Committed(n) /\ s \in Committed(n + 1) /\ r = ChangeRecord(p, s)
  BY <1>0 DEF ChainInv
<1>2. PICK b \in Bodies, c \in Bodies : /\ p = RunState(n, n, b, Done(n))
                                        /\ s = RunState(n + 1, n + 1, c, Done(n + 1))
  BY <1>1 DEF Committed
<1> HIDE DEF r, p, s, n
<1>3. n + 1 \in Int /\ n \in Int
  BY <1>0
<1>4. /\ Completed(p) = n /\ p.attempts = Done(n)
      /\ Completed(s) = n + 1 /\ s.attempts = Done(n + 1)
      /\ s = [compact |-> s.compact, attempts |-> Done(n + 1)]
  BY <1>2, <1>3, StateParts
<1>5. Restore(p, Change(p, s)) = s
  BY <1>0, <1>2, <1>3, ChangeRestores
<1>6. /\ r.snapshot = IF due THEN <<s.compact>> ELSE <<>>
      /\ r.change = <<IF due THEN [Change(p, s) EXCEPT !.delta = <<>>] ELSE Change(p, s)>>
      /\ r.before = <<p>> /\ r.after = s /\ ~IsLegacy(r)
  BY <1>1 DEF ChangeRecord, IsLegacy
<1>7. Append(Done(n), n + 1) = Done(n + 1) /\ Last(Done(n + 1)) = n + 1
  BY <1>0, DoneGrows
<1> DEFINE next == IF r.snapshot # <<>>
              THEN [compact |-> r.snapshot[1],
                    attempts |-> Append(p.attempts, r.change[1].attempt)]
              ELSE Restore(p, r.change[1])
<1>8. next = s
  <2>1. CASE due
    <3>1. Change(p, s) = [delta |-> Change(p, s).delta, attempt |-> n + 1]
      BY <1>4, <1>7 DEF Change
    <3>2. [Change(p, s) EXCEPT !.delta = <<>>].attempt = n + 1
      BY <3>1
    <3>3. r.snapshot = <<s.compact>> /\ r.change[1].attempt = n + 1
      <4> DEFINE change == [Change(p, s) EXCEPT !.delta = <<>>]
      <4>1. r.snapshot = <<s.compact>> /\ r.change = <<change>>
        BY <1>6, <2>1
      <4>2. <<change>>[1] = change
        OBVIOUS
      <4> HIDE DEF change
      <4>3. r.change[1] = change
        BY <4>1, <4>2
      <4> QED BY <3>2, <4>1, <4>3 DEF change
    <3>4. r.snapshot # <<>> /\ r.snapshot[1] = s.compact
      BY <3>3
    <3> QED BY <1>4, <1>7, <3>3, <3>4
  <2>2. CASE ~due
    <3>1. r.snapshot = <<>> /\ r.change[1] = Change(p, s)
      BY <1>6, <2>2
    <3> QED BY <1>5, <3>1
  <2> QED BY <2>1, <2>2
<1>9. (r.snapshot # <<>>) = due
  <2>1. <<s.compact>> # <<>>
    OBVIOUS
  <2>2. due \in BOOLEAN
    BY DEF SnapshotDue
  <2> HIDE DEF due
  <2>3. CASE due
    <3>1. r.snapshot # <<>>
      BY <1>6, <2>1, <2>3
    <3> QED BY <2>2, <2>3, <3>1
  <2>4. CASE ~due
    <3>1. r.snapshot = <<>>
      BY <1>6, <2>4
    <3> QED BY <2>2, <2>4, <3>1
  <2> QED BY <2>2, <2>3, <2>4
<1> HIDE DEF next
<1>10. k # 1 /\ <<p>> # <<>> /\ <<p>>[1] = p
  BY <1>0
<1>11. ReplayOf(k, <<p>>) =
         IF /\ <<p>> # <<>> /\ r.before = <<p>>
            /\ next = r.after
            /\ Completed(next) = Completed(p) + 1
            /\ (r.snapshot # <<>>) = SnapshotDue(Completed(next))
         THEN <<next>> ELSE <<>>
  BY <1>6, <1>10 DEF ReplayOf, r, next
<1>12. Completed(next) = Completed(p) + 1
  BY <1>4, <1>8
<1> QED BY <1>6, <1>8, <1>9, <1>10, <1>11, <1>12 DEF p, s

LEMMA ChainReplays ==
    ASSUME ChainInv
    PROVE  Replayed[Len(journal)] = <<reached>>
<1> DEFINE D == DOMAIN journal
           Unfolds(f) == f = [k \in D |-> ReplayOf(k, f[k - 1])]
           g == [k \in D |-> <<State(journal, k)>>]
<1>1. D = 1 .. Len(journal) /\ Len(journal) \in Nat \ {0}
  BY DEF ChainInv
<1>2. Unfolds(g)
  <2>1. ASSUME NEW k \in D PROVE <<State(journal, k)>> = ReplayOf(k, g[k - 1])
    <3>1. CASE k = 1
      BY <3>1, FirstReplays
    <3>2. CASE k # 1
      <4>1. k \in 2 .. Len(journal) /\ k - 1 \in D
        BY <1>1, <3>2
      <4>2. g[k - 1] = <<State(journal, k - 1)>>
        BY <4>1
      <4> QED BY <4>1, <4>2, NextReplays
    <3> QED BY <3>1, <3>2
  <2> QED BY <2>1
<1>3. Replayed = CHOOSE f : Unfolds(f)
  BY DEF Replayed, ReplayOf
<1> HIDE DEF g
<1>4. Unfolds(Replayed)
  <2> HIDE DEF Unfolds
  <2> QED BY <1>2, <1>3
<1>5. \A k \in D : Replayed[k] = ReplayOf(k, Replayed[k - 1])
  <2> HIDE DEF D
  <2> QED BY <1>4
<1> DEFINE S == {k \in Nat : k \in D => Replayed[k] = <<State(journal, k)>>}
<1>6. 0 \in S
  BY <1>1
<1>7. ASSUME NEW k \in 1 .. Len(journal), k - 1 \in S PROVE k \in S
  <2>1. CASE k = 1
    BY <1>1, <1>5, <2>1, FirstReplays
  <2>2. CASE k # 1
    <3>1. k \in 2 .. Len(journal) /\ k - 1 \in D /\ k \in D /\ k \in Nat
      BY <1>1, <2>2
    <3>2. Replayed[k - 1] = <<State(journal, k - 1)>>
      BY <1>7, <3>1
    <3>3. Replayed[k] = ReplayOf(k, <<State(journal, k - 1)>>)
      BY <1>5, <3>1, <3>2
    <3>4. Replayed[k] = <<State(journal, k)>>
      BY <3>1, <3>3, NextReplays
    <3> QED BY <3>1, <3>4
  <2> QED BY <2>1, <2>2
<1>8. 0 .. Len(journal) \subseteq S
  <2>1. \A k \in 1 .. Len(journal) : k - 1 \in S => k \in S
    BY <1>7
  <2> HIDE DEF S
  <2> QED BY <1>1, <1>6, <2>1, UpTo
<1>9. Len(journal) \in S /\ Len(journal) \in D
  BY <1>1, <1>8
<1>10. Replayed[Len(journal)] = <<State(journal, Len(journal))>>
  BY <1>9
<1> QED BY <1>10 DEF ChainInv

\* A transaction restores the state it was made of.
LEMMA DraftRecovers ==
    ASSUME ChainInv, NEW s \in Drafted(Len(journal) - 1), NEW t, Restorable(reached, t, s)
    PROVE  Recovered(reached, t) = <<s>>
<1> DEFINE n == Len(journal) - 1
<1>0. n \in Nat /\ n \in Int /\ n + 1 \in Int
  BY DEF ChainInv
<1>1. reached \in Committed(n)
  BY DEF ChainInv
<1>2. PICK b \in Bodies, c \in Bodies : /\ reached = RunState(n, n, b, Done(n))
                                        /\ s = RunState(n + 1, n, c, Done(n + 1))
  BY <1>1 DEF Committed, Drafted
<1> HIDE DEF n
<1>3. Extends(reached, s) /\ Restore(reached, Change(reached, s)) = s
  BY <1>0, <1>2, ChangeRestores
<1>4. CASE t = [before |-> reached, state |-> s]
  <2>1. t.before = reached /\ IsLegacy(t) /\ t.state = s
    BY <1>4 DEF IsLegacy
  <2> QED BY <1>3, <2>1 DEF Recovered
<1>5. CASE t = [before |-> reached, after |-> s, change |-> Change(reached, s)]
  <2>1. t.before = reached /\ ~IsLegacy(t) /\ t.after = s /\ t.change = Change(reached, s)
    BY <1>5 DEF IsLegacy
  <2> QED BY <1>3, <2>1 DEF Recovered
<1> QED BY <1>4, <1>5 DEF Restorable

LEMMA JournalInvReplays == JournalInv => JournalReplays
<1>1. ASSUME JournalInv PROVE Replayed[Len(journal)] = <<reached>>
  BY <1>1, ChainReplays DEF JournalInv
<1>2. ASSUME JournalInv, transaction # <<>> PROVE Recovered(reached, transaction[1]) = intended
  <2>0. PICK s \in Drafted(Len(journal) - 1) :
          intended = <<s>> /\ \E t : transaction = <<t>> /\ Restorable(reached, t, s)
    BY <1>2 DEF JournalInv, DraftInv
  <2>1. PICK t : transaction = <<t>> /\ Restorable(reached, t, s)
    BY <2>0
  <2>2. transaction[1] = t
    BY <2>1
  <2> QED BY <1>2, <2>0, <2>1, <2>2, DraftRecovers DEF JournalInv
<1> QED BY <1>1, <1>2 DEF JournalReplays

----------------------------------------------------------------------------

LEMMA JournalInitInv == JournalInit => JournalInv
<1> SUFFICES ASSUME JournalInit PROVE JournalInv
  OBVIOUS
<1>1. PICK body \in Bodies, old \in BOOLEAN :
        /\ journal = <<IF old THEN [state |-> First(body)] ELSE InitialRecord(First(body))>>
        /\ transaction = IF old THEN <<[before |-> First(body), state |-> Second(body)]>> ELSE <<>>
        /\ intended = IF old THEN <<Second(body)>> ELSE <<>>
        /\ reached = First(body)
        /\ held = <<>> /\ ahead = <<>>
  BY DEF JournalInit
<1>2. First(body) \in Committed(0) /\ Second(body) \in Drafted(0)
  <2>1. Done(0) = <<>> /\ Done(1) = <<1>> /\ 0 + 1 = 1
    BY DEF Done
  <2> QED BY <2>1 DEF First, Second, Committed, Drafted
<1> DEFINE r == IF old THEN [state |-> First(body)] ELSE InitialRecord(First(body))
<1>3. Hash(r) = First(body) /\ r \in {[state |-> First(body)], InitialRecord(First(body))}
  BY DEF Hash, IsLegacy, InitialRecord
<1>4. journal = <<r>>
  BY <1>1
<1> HIDE DEF r
<1>5. /\ Len(journal) = 1 /\ journal[1] = r /\ DOMAIN journal = {1}
      /\ journal \in Seq({journal[k] : k \in DOMAIN journal})
  BY <1>4
<1>6. ChainInv
  <2>1. State(journal, 1) = First(body)
    BY <1>3, <1>5 DEF State
  <2>2. \A k \in 1 .. Len(journal) : k = 1
    BY <1>5
  <2>3. \A k \in 1 .. Len(journal) : State(journal, k) \in Committed(k - 1)
    BY <1>2, <2>1, <2>2
  <2>4. 2 .. Len(journal) = {}
    BY <1>5
  <2> QED BY <1>1, <1>3, <1>5, <2>1, <2>3, <2>4 DEF ChainInv
<1>7. DraftInv
  <2>1. CASE old
    <3>1. Second(body) \in Drafted(Len(journal) - 1)
      BY <1>2, <1>5
    <3>2. Restorable(reached, [before |-> reached, state |-> Second(body)], Second(body))
      BY DEF Restorable
    <3> QED BY <1>1, <2>1, <3>1, <3>2 DEF DraftInv
  <2>2. CASE ~old
    BY <1>1, <2>2 DEF DraftInv
  <2> QED BY <2>1, <2>2
<1> QED BY <1>1, <1>6, <1>7 DEF JournalInv

LEMMA ReopenKeeps == JournalInv /\ Reopen => JournalInv'
<1> SUFFICES ASSUME JournalInv, Reopen PROVE JournalInv'
  OBVIOUS
<1>1. ChainInv' /\ DraftInv'
  <2>1. UNCHANGED <<journal, transaction, ahead, reached, intended>>
    BY DEF Reopen
  <2> QED BY <2>1 DEF JournalInv, ChainInv, DraftInv, Restorable, State
<1>2. held' = <<reached>> /\ reached' = reached /\ ahead' = ahead
  BY ChainReplays DEF JournalInv, Reopen
<1>3. <<reached>> # <<>>
  OBVIOUS
<1> QED BY <1>1, <1>2, <1>3 DEF JournalInv

LEMMA StopKeeps == JournalInv /\ Stop => JournalInv'
<1> SUFFICES ASSUME JournalInv, Stop PROVE JournalInv'
  OBVIOUS
<1>1. /\ UNCHANGED <<journal, transaction, reached, intended>>
      /\ held' = <<>> /\ ahead' = <<>>
  BY DEF Stop
<1>2. ChainInv'
  BY <1>1 DEF JournalInv, ChainInv, State
<1>3. DraftInv'
  BY <1>1 DEF JournalInv, DraftInv, Restorable
<1> QED BY <1>1, <1>2, <1>3 DEF JournalInv

LEMMA PublishChangeKeeps == JournalInv /\ PublishChange => JournalInv'
<1> SUFFICES ASSUME JournalInv, PublishChange PROVE JournalInv'
  OBVIOUS
<1> DEFINE n == Len(journal) - 1
<1>1. /\ UNCHANGED <<journal, held, reached>> /\ held # <<>>
  BY DEF PublishChange
<1>2. held = <<reached>> /\ held[1] = reached
  BY <1>1 DEF JournalInv
<1>3. n \in Nat /\ reached \in Committed(n)
  BY DEF JournalInv, ChainInv
<1>4. PICK b \in Bodies : reached = RunState(n, n, b, Done(n))
  BY <1>3 DEF Committed
<1>5. /\ Completed(reached) = n /\ reached.compact.object.tip.number = n
      /\ reached.attempts = Done(n)
  <2> HIDE DEF n
  <2>1. n \in Int
    BY <1>3, SMTT(30)
  <2> QED BY <1>4, <2>1, StateParts
<1>6. PICK body \in Bodies :
        LET s == held[1]
            step == Completed(s) + 1
            next == RunState(step, s.compact.object.tip.number, body, Append(s.attempts, step))
        IN  /\ ahead' = <<next>>
            /\ transaction' = <<[before |-> s, after |-> next, change |-> Change(s, next)]>>
            /\ intended' = <<next>>
  BY DEF PublishChange
<1> DEFINE next == RunState(n + 1, n, body, Done(n + 1))
<1>7. /\ ahead' = <<next>> /\ intended' = <<next>>
      /\ transaction' = <<[before |-> reached, after |-> next, change |-> Change(reached, next)]>>
  <2>1. Append(Done(n), n + 1) = Done(n + 1)
    BY <1>3, DoneGrows
  <2> QED BY <1>2, <1>5, <1>6, <2>1
<1> DEFINE t == [before |-> reached, after |-> next, change |-> Change(reached, next)]
<1>8. next \in Drafted(Len(journal') - 1)
  BY <1>1 DEF Drafted
<1>9. Restorable(reached', t, next)
  BY <1>1 DEF Restorable
<1> HIDE DEF next, t
<1>10. ChainInv'
  BY <1>1 DEF JournalInv, ChainInv, State
<1>11. DraftInv'
  <2>1. transaction' = <<t>>
    BY <1>7 DEF t
  <2> QED BY <1>7, <1>8, <1>9, <2>1 DEF DraftInv
<1> QED BY <1>1, <1>2, <1>10, <1>11 DEF JournalInv

LEMMA RecoverKeeps == JournalInv /\ Recover => JournalInv'
<1> SUFFICES ASSUME JournalInv, Recover PROVE JournalInv'
  OBVIOUS
<1>1. /\ UNCHANGED <<journal, transaction, held, reached, intended>>
      /\ held # <<>> /\ transaction # <<>> /\ ahead' = Recovered(held[1], transaction[1])
  BY DEF Recover
<1>2. held[1] = reached
  BY <1>1 DEF JournalInv
<1>3. PICK s \in Drafted(Len(journal) - 1) :
        intended = <<s>> /\ \E t : transaction = <<t>> /\ Restorable(reached, t, s)
  BY <1>1 DEF JournalInv, DraftInv
<1>30. PICK t : transaction = <<t>> /\ Restorable(reached, t, s)
  BY <1>3
<1>4. ahead' = <<s>>
  <2>1. transaction[1] = t
    BY <1>30
  <2> QED BY <1>1, <1>2, <1>3, <1>30, <2>1, DraftRecovers DEF JournalInv
<1>5. ChainInv'
  BY <1>1 DEF JournalInv, ChainInv, State
<1>6. DraftInv'
  <2>1. Restorable(reached', t, s)
    BY <1>1, <1>30 DEF Restorable
  <2>2. s \in Drafted(Len(journal') - 1)
    BY <1>1
  <2> QED BY <1>1, <1>3, <1>30, <1>4, <2>1, <2>2 DEF DraftInv
<1> QED BY <1>1, <1>5, <1>6 DEF JournalInv

LEMMA CommitRecordKeeps == JournalInv /\ CommitRecord => JournalInv'
<1> SUFFICES ASSUME JournalInv, CommitRecord PROVE JournalInv'
  OBVIOUS
<1> DEFINE m == Len(journal)
           n == m - 1
<1>1. /\ held # <<>> /\ ahead # <<>>
      /\ ahead' = <<>> /\ transaction' = <<>> /\ intended' = <<>>
  BY DEF CommitRecord
<1>2. held[1] = reached /\ m \in Nat \ {0} /\ n \in Nat /\ n + 1 = m /\ m + 1 - 1 = m
  BY <1>1 DEF JournalInv, ChainInv
<1>3. PICK c \in Bodies : ahead = <<RunState(n + 1, n, c, Done(n + 1))>>
  BY <1>1 DEF JournalInv, DraftInv, Drafted
<1> DEFINE a == RunState(n + 1, n, c, Done(n + 1))
           next == RunState(m, m, c, Done(m))
           r == ChangeRecord(reached, next)
<1>4. Completed(a) = m /\ [a EXCEPT !.compact.object.tip = Num(m)] = next
  <2>1. n + 1 \in Int /\ n \in Int /\ m \in Int
    BY <1>2
  <2> HIDE DEF m, n
  <2>2. Completed(a) = n + 1
    BY <2>1, StateParts
  <2>3. [a EXCEPT !.compact.object.tip = Num(m)] = RunState(n + 1, m, c, Done(n + 1))
    BY <2>1, StateParts
  <2> QED BY <1>2, <2>2, <2>3
<1>5. /\ journal' = Append(journal, r)
      /\ held' = <<next>> /\ reached' = next
  <2>1. ahead[1] = a
    BY <1>3
  <2> HIDE DEF a, next
  <2> QED BY <1>2, <1>4, <2>1 DEF CommitRecord, r
<1>6. next \in Committed(m)
  BY DEF Committed
<1>7. Hash(r) = next
  BY DEF Hash, IsLegacy, ChangeRecord
<1> HIDE DEF next, r, a
<1> DEFINE All == {journal[k] : k \in DOMAIN journal} \cup {r}
<1>8. journal \in Seq(All)
  BY DEF JournalInv, ChainInv
<1> HIDE DEF All
<1>9. /\ Len(journal') = m + 1 /\ DOMAIN journal' = 1 .. m + 1 /\ journal'[m + 1] = r
      /\ \A k \in 1 .. m : journal'[k] = journal[k]
      /\ journal' \in Seq(All \cup {r})
  BY <1>2, <1>5, <1>8
<1>10. journal' \in Seq({journal'[k] : k \in DOMAIN journal'})
  BY <1>9
<1>11. /\ State(journal', m + 1) = next
       /\ \A k \in 1 .. m : State(journal', k) = State(journal, k)
  BY <1>7, <1>9 DEF State
<1>12. ASSUME NEW k \in 1 .. m + 1 PROVE State(journal', k) \in Committed(k - 1)
  <2>1. CASE k = m + 1
    BY <1>2, <1>6, <1>11, <2>1
  <2>2. CASE k # m + 1
    <3>1. k \in 1 .. m
      BY <1>2, <2>2
    <3> QED BY <1>11, <3>1 DEF JournalInv, ChainInv
  <2> QED BY <2>1, <2>2
<1>13. ASSUME NEW k \in 2 .. m + 1
       PROVE  journal'[k] = ChangeRecord(State(journal', k - 1), State(journal', k))
  <2>1. CASE k = m + 1
    <3>1. k - 1 = m /\ m \in 1 .. m
      BY <1>2, <2>1
    <3>2. State(journal', m) = reached
      BY <1>11, <3>1 DEF JournalInv, ChainInv
    <3> QED BY <1>9, <1>11, <2>1, <3>1, <3>2 DEF r
  <2>2. CASE k # m + 1
    <3>1. k \in 2 .. m /\ k \in 1 .. m /\ k - 1 \in 1 .. m
      BY <1>2, <2>2
    <3> QED BY <1>9, <1>11, <3>1 DEF JournalInv, ChainInv
  <2> QED BY <2>1, <2>2
<1>14. journal'[1] \in {[state |-> State(journal', 1)], InitialRecord(State(journal', 1))}
  <2>1. 1 \in 1 .. m
    BY <1>2
  <2> QED BY <1>9, <1>11, <2>1 DEF JournalInv, ChainInv
<1>15. ChainInv'
  <2>1. Len(journal') = m + 1 /\ Len(journal') \in Nat \ {0}
    BY <1>2, <1>9
  <2>2. reached' = State(journal', Len(journal'))
    BY <1>5, <1>11, <2>1
  <2>3. \A k \in 1 .. Len(journal') : State(journal', k) \in Committed(k - 1)
    BY <1>12, <2>1
  <2>4. \A k \in 2 .. Len(journal') :
          journal'[k] = ChangeRecord(State(journal', k - 1), State(journal', k))
    BY <1>13, <2>1
  <2> QED BY <1>10, <1>14, <2>1, <2>2, <2>3, <2>4 DEF ChainInv
<1>16. DraftInv'
  BY <1>1 DEF DraftInv
<1> QED BY <1>1, <1>5, <1>15, <1>16 DEF JournalInv

LEMMA JournalStepKeeps == JournalInv /\ [JournalNext]_journalVars => JournalInv'
<1>1. ASSUME JournalInv, UNCHANGED journalVars PROVE JournalInv'
  <2>1. UNCHANGED <<journal, transaction, held, ahead, reached, intended>>
    BY <1>1 DEF journalVars
  <2>2. ChainInv'
    BY <1>1, <2>1 DEF JournalInv, ChainInv, State
  <2>3. DraftInv'
    BY <1>1, <2>1 DEF JournalInv, DraftInv, Restorable
  <2> QED BY <1>1, <2>1, <2>2, <2>3 DEF JournalInv
<1> QED BY <1>1, ReopenKeeps, PublishChangeKeeps, RecoverKeeps, CommitRecordKeeps, StopKeeps
        DEF JournalNext

\* Whenever a run of any length is killed, with its snapshots at any interval, its
\* journal replays to the state that was committed last, and a transaction restores
\* the state it was made of: apply_delta undoes delta for every JSON value
\* (DeltaReverts), and the chain is one of records of consecutive states.
THEOREM JournalAlwaysReplays == JournalSpec => []JournalReplays
<1>1. JournalSpec => []JournalInv
  BY JournalInitInv, JournalStepKeeps, PTL DEF JournalSpec
<1> QED BY <1>1, JournalInvReplays, PTL
=============================================================================
