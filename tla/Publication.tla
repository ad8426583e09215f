---------------------------- MODULE Publication ----------------------------
(***************************************************************************)
(* How evidence gets its final name (evonn_shared: _run_io.py,             *)
(* artifact_io.py, exports.py, run_workspace.py, datasets.py).             *)
(*                                                                         *)
(* A payload is staged under a name of its own, made durable, and then     *)
(* bound to the final name: a file by a hard link, a directory by a rename *)
(* that never replaces, a report, which can be rebuilt, by one that does.  *)
(* Publishers compete for one name; each may fail, be killed or lose power *)
(* at any step and try again.  What a caller owns alone (its staging name) *)
(* is in its own record, and is never read by anybody else.                *)
(***************************************************************************)
EXTENDS Naturals, FiniteSets

CONSTANTS
  Publishers,
  Pieces,       \* of a payload: what one write or one file of it is
  Documents,    \* pieces of a bundle that write_export stages
  MaxTries,     \* bound: attempts of a publisher
  MaxOutages    \* bound: losses of power

ASSUME PublicationAssumption == Pieces \in Nat /\ Documents \in Nat

VARIABLES
  payload,   \* of the payload: file, cache, source, export, bundle or report
  bound,     \* the final name: <<>> or <<what it is bound to>>
  durable,   \* and what a loss of power cannot take it back from
  publishing,
  outages

publicationVars == <<payload, bound, durable, publishing, outages>>

Kinds == {"file", "cache", "source", "export", "bundle", "report"}
Idle0 == [step |-> "idle", try |-> 1, pieces |-> 0, safe |-> 0]

PublicationInit ==
  /\ payload \in Kinds
  /\ bound = <<>> /\ durable = <<>>
  /\ publishing = [p \in Publishers |-> Idle0]
  /\ outages = 0

\* Payloads differ by publisher, but those of a cache are named by their digest.
Written(p) == [by |-> IF payload \in {"cache", "source"} THEN 0 ELSE p,
               pieces |-> publishing[p].pieces, safe |-> publishing[p].safe]

On(p, step) == publishing[p].step = step
Takes(p, step) == publishing' = [publishing EXCEPT ![p].step = step]
Cached == payload \in {"cache", "source"}

----------------------------------------------------------------------------

\* write_export looks at the destination first; _text_tokens reads the source
\* that is there already and downloads one only if there is none.
BeginFile(p) ==
  /\ On(p, "idle") /\ payload \in {"file", "cache", "report"}
  /\ Takes(p, "write")
  /\ UNCHANGED <<payload, bound, durable, outages>>
BeginExport(p) ==
  /\ On(p, "idle") /\ payload = "export"
  /\ Takes(p, IF bound = <<>> THEN "write" ELSE "refused")
  /\ UNCHANGED <<payload, bound, durable, outages>>
BeginBundle(p) ==
  /\ On(p, "idle") /\ payload = "bundle"
  /\ Takes(p, "write")
  /\ UNCHANGED <<payload, bound, durable, outages>>
BeginSource(p) ==
  /\ On(p, "idle") /\ payload = "source"
  /\ Takes(p, IF bound = <<>> THEN "write" ELSE "refused")
  /\ UNCHANGED <<payload, bound, durable, outages>>

\* A file is written piece by piece, and synced when it is whole.
WritePiece(p) ==
  /\ On(p, "write") /\ payload \in {"file", "cache", "source", "report"}
  /\ publishing[p].pieces < Pieces
  /\ publishing' = [publishing EXCEPT ![p].pieces = @ + 1]
  /\ UNCHANGED <<payload, bound, durable, outages>>
SyncFile(p) ==
  /\ On(p, "write") /\ payload \in {"file", "cache", "source", "report"}
  /\ publishing[p].pieces = Pieces
  /\ publishing' = [publishing EXCEPT ![p].step = "synced",
                                      ![p].safe = publishing[p].pieces]
  /\ UNCHANGED <<payload, bound, durable, outages>>

\* The documents of an export go to a directory that is synced when it holds
\* them all; the documents of a bundle then get a name nobody else knows.
WriteDocument(p) ==
  /\ On(p, "write") /\ payload \in {"export", "bundle"}
  /\ publishing[p].pieces < (IF payload = "export" THEN Pieces ELSE Documents)
  /\ publishing' = [publishing EXCEPT ![p].pieces = @ + 1]
  /\ UNCHANGED <<payload, bound, durable, outages>>
SyncExport(p) ==
  /\ On(p, "write") /\ payload \in {"export", "bundle"}
  /\ publishing[p].pieces = IF payload = "export" THEN Pieces ELSE Documents
  /\ publishing' = [publishing EXCEPT
       ![p].step = IF payload = "export" THEN "synced" ELSE "half",
       ![p].safe = publishing[p].pieces]
  /\ UNCHANGED <<payload, bound, durable, outages>>

\* write_export's directory is filled with the artifacts its documents name.
AddArtifact(p) ==
  /\ On(p, "half") /\ publishing[p].pieces < Pieces
  /\ publishing' = [publishing EXCEPT ![p].pieces = @ + 1]
  /\ UNCHANGED <<payload, bound, durable, outages>>
SyncBundle(p) ==
  /\ On(p, "half") /\ publishing[p].pieces = Pieces
  /\ publishing' = [publishing EXCEPT ![p].step = "synced",
                                      ![p].safe = publishing[p].pieces]
  /\ UNCHANGED <<payload, bound, durable, outages>>

\* The final name: a link and a rename without replacement are refused where
\* the name is taken, and what was staged is removed.
BindFile(p) ==
  /\ On(p, "synced") /\ payload \in {"file", "cache", "source"}
  /\ IF bound = <<>> THEN Takes(p, "bound") /\ bound' = <<Written(p)>>
                     ELSE Takes(p, "refused") /\ UNCHANGED bound
  /\ UNCHANGED <<payload, durable, outages>>
\* Mutant of BindDirectory: a rename that replaces, as os.rename does.
RenameOver(p) ==
  /\ On(p, "synced") /\ payload \in {"export", "bundle"}
  /\ Takes(p, "bound") /\ bound' = <<Written(p)>>
  /\ UNCHANGED <<payload, durable, outages>>
BindDirectory(p) ==
  /\ On(p, "synced") /\ payload \in {"export", "bundle"}
  /\ IF bound = <<>> THEN Takes(p, "bound") /\ bound' = <<Written(p)>>
                     ELSE Takes(p, "refused") /\ UNCHANGED bound
  /\ UNCHANGED <<payload, durable, outages>>
BindReport(p) ==
  /\ On(p, "synced") /\ payload = "report"
  /\ Takes(p, "bound") /\ bound' = <<Written(p)>>
  /\ UNCHANGED <<payload, durable, outages>>

\* The directory of the name is synced, and the caller is told.
Settle(p) ==
  /\ On(p, "bound")
  /\ Takes(p, "done") /\ durable' = bound
  /\ UNCHANGED <<payload, bound, outages>>

\* A loader reads what is there under the name, its own or another's, and
\* checks size and digest.
ReadVerified(p) ==
  /\ Cached /\ publishing[p].step \in {"done", "refused"}
  /\ Takes(p, IF bound # <<>> /\ bound[1].pieces = Pieces THEN "loaded" ELSE "mismatch")
  /\ UNCHANGED <<payload, bound, durable, outages>>

----------------------------------------------------------------------------
(* failures *)

\* A step fails or the process is killed. Before the name is bound its staging
\* is removed, or left where nobody reads it (_cleanup_staging); afterwards the
\* payload is visible, whether it is durable nobody knows, and it stays.
Working(p) == publishing[p].step \in {"write", "half", "synced", "bound"}
PublisherFails(p) ==
  /\ Working(p)
  /\ publishing' = [publishing EXCEPT
       ![p] = [Idle0 EXCEPT !.step = IF On(p, "bound") THEN "unsure" ELSE "failed",
                            !.try = publishing[p].try]]
  /\ UNCHANGED <<payload, bound, durable, outages>>

\* The caller is started again.
TryAgain(p) ==
  /\ publishing[p].try < MaxTries
  /\ publishing[p].step \in {"failed", "unsure", "loaded"} \cup
       (IF Cached THEN {} ELSE {"refused", "done"})
  /\ publishing' = [publishing EXCEPT ![p] = [Idle0 EXCEPT !.try = publishing[p].try + 1]]
  /\ UNCHANGED <<payload, bound, durable, outages>>

\* A name that was not synced may be what it was before, and of a payload that
\* was not synced any part may be gone.
Remains(name) == {[name EXCEPT !.pieces = n] : n \in name.safe .. name.pieces}
PowerLoss ==
  /\ outages < MaxOutages
  /\ outages' = outages + 1
  /\ \E name \in {bound, durable} :
       IF name = <<>> THEN bound' = <<>>
                      ELSE \E n \in Remains(name[1]) : bound' = <<n>>
  /\ durable' = bound'
  /\ publishing' = [p \in Publishers |->
       IF Working(p) \/ On(p, "refused") \/ (Cached /\ On(p, "done"))
         THEN [Idle0 EXCEPT !.step = "failed", !.try = publishing[p].try]
         ELSE publishing[p]]
  /\ UNCHANGED payload

PublicationNext ==
  \/ PowerLoss
  \/ \E p \in Publishers :
       \/ BeginFile(p) \/ BeginExport(p) \/ BeginBundle(p) \/ BeginSource(p)
       \/ WritePiece(p) \/ SyncFile(p) \/ WriteDocument(p) \/ SyncExport(p)
       \/ AddArtifact(p) \/ SyncBundle(p)
       \/ BindFile(p) \/ BindDirectory(p) \/ BindReport(p) \/ Settle(p)
       \/ ReadVerified(p) \/ PublisherFails(p) \/ TryAgain(p)

PublicationSpec == PublicationInit /\ [][PublicationNext]_publicationVars

----------------------------------------------------------------------------

\* What has a final name is whole, whoever failed, was killed or lost power and
\* when; so a cache that is named by its digest never turns loaders away. And
\* once a caller has been told that its payload is published it stays so, and
\* nobody else is told the same of the same name; only a report makes way, and
\* only for another report ("without overwriting an existing evidence file",
\* artifact_io.py:60).
EvidenceStands ==
  /\ bound # <<>> => bound[1].pieces = Pieces
  /\ \A p \in Publishers :
       /\ ~On(p, "mismatch")
       /\ On(p, "done") =>
            /\ bound # <<>> /\ durable # <<>>
            /\ payload # "report" => bound = durable /\ bound[1].by \in {p, 0}
=============================================================================
