------------------------------ MODULE Registry ------------------------------
(* The evidence registry of Compare and its transport. promote enters runs    *)
(* into a hash-chained index with the receipts their sources justify, a pack  *)
(* and a snapshot of it are hydrated on a second host. A registry is under    *)
(* one lock; the workspace it promotes from is read without its own.          *)
EXTENDS Naturals, Sequences, FiniteSets, SequencesExt

CONSTANTS
  Cases,       \* the workspace's cases, each of one run and a seed of its own
  Local,       \* a run exported on the mirror itself
  Copying,     \* the choices of copy_artifacts
  MaxEvents,   \* bound: events of an index
  MaxHarm      \* bound: kills and lost exports together

ASSUME RegistryAssumption ==
  IsFiniteSet(Cases) /\ Copying \subseteq BOOLEAN /\ MaxHarm \in Nat

VARIABLES
  exports,  \* the workspace: none, verified, lost or archived exports of Cases
  reports,  \* its reports: whether all load, and whether the dashboard is there
  index,    \* by host: the events of its registry
  torn,     \* hosts whose index ends in a partial record
  manifest, \* by host: <<>> or <<the events the registry manifest counts>>
  copies,   \* by host: records whose artifacts it keeps
  roots,    \* by host: <<>> or <<events the root map is bound to, its sources>>
  clerk,    \* by host: the process that holds the registry's lock
  parcel,   \* <<>> or the pack and snapshot of the lab's registry
  losses    \* what may still be killed or lost

sourceVars == <<exports, reports>>
registryVars ==
  <<sourceVars, index, torn, manifest, copies, roots, clerk, parcel, losses>>

Hosts == {"lab", "mirror"}
Records == Cases \cup {Local}
ClerkIdle == [op |-> "idle"]

RegistryInit ==
  /\ exports = [c \in Cases |-> "none"] /\ reports = [load |-> TRUE, shown |-> FALSE]
  /\ index = [h \in Hosts |-> <<>>] /\ torn = {}
  /\ manifest = [h \in Hosts |-> <<>>] /\ copies = [h \in Hosts |-> {}]
  /\ roots = [h \in Hosts |-> <<>>] /\ clerk = [h \in Hosts |-> ClerkIdle]
  /\ parcel = <<>> /\ losses = MaxHarm

-----------------------------------------------------------------------------
(* What the registry sees of the workspace, which goes on beside it *)

Bundles == {c \in Cases : exports[c] = "verified"}

FileExport(c) ==
  /\ exports[c] = "none" /\ reports.load
  /\ exports' = [exports EXCEPT ![c] = "verified"]
  /\ UNCHANGED <<reports, index, torn, manifest, copies, roots, clerk, parcel, losses>>

\* The rebuild that ends a matrix leaves the dashboard.
RebuildViews ==
  /\ reports.load /\ Bundles # {} /\ reports' = [reports EXCEPT !.shown = TRUE]
  /\ UNCHANGED <<exports, index, torn, manifest, copies, roots, clerk, parcel, losses>>

\* A matrix killed inside a case leaves reports that no longer load; only a
\* reset, which renames the whole workspace, starts them again.
MatrixKilled ==
  /\ losses > 0 /\ reports' = [reports EXCEPT !.load = FALSE] /\ losses' = losses - 1
  /\ UNCHANGED <<exports, index, torn, manifest, copies, roots, clerk, parcel>>

ResetWorkspace ==
  /\ exports' = [c \in Cases |-> IF c \in Bundles THEN "archived" ELSE exports[c]]
  /\ reports' = [load |-> TRUE, shown |-> FALSE] /\ sourceVars' # sourceVars
  /\ UNCHANGED <<index, torn, manifest, copies, roots, clerk, parcel, losses>>

LoseExport(c) ==
  /\ losses > 0 /\ c \in Bundles
  /\ exports' = [exports EXCEPT ![c] = "lost"] /\ losses' = losses - 1
  /\ UNCHANGED <<reports, index, torn, manifest, copies, roots, clerk, parcel>>

-----------------------------------------------------------------------------
(* The registry *)

RunsOf(events) == {events[i].record : i \in {j \in DOMAIN events : events[j].kind = "run"}}
Entry(events, r) ==
  events[CHOOSE j \in DOMAIN events : events[j].kind = "run" /\ events[j].record = r]
Superseded(events) ==
  {events[i].old : i \in {j \in DOMAIN events : events[j].kind = "supersede"}}

\* The audit of a pack needs repeated runs (of one protocol, two seeds at the
\* lowest budget and one run above it) and the dashboard. Two stand for them.
Audited(sources, shown) ==
  shown /\ Cardinality(sources) > 1

\* A lane is trusted only for a case of the audited workspace: a single export
\* has no contender beside it.
StatusOf(via, sources, shown) ==
  IF via = "workspace" /\ Audited(sources, shown) THEN "candidate" ELSE "exploratory"

\* Verified bytes at the recorded root, on the host where they were exported.
Original(h, r) ==
  IF r = Local THEN h = "mirror"
  ELSE h = "lab" /\ r \in Bundles
\* The dashboard a row names is only a file that must be there.
DashboardAt(h) == h = "lab" /\ reports.shown

\* _relocation: with a root map every source must be in it, and the map must
\* be bound to the index as it is.
Relocated(h) == roots[h] # <<>>
ReadableAt(h, r) == IF Relocated(h) THEN r \in roots[h][2] ELSE Original(h, r)
\* The sources of a row, and the dashboard if its audit saw one.
Sourced(h, e) ==
  /\ \A r \in e.sources \cup {e.record} : ReadableAt(h, r)
  /\ e.dashboard => Relocated(h) \/ DashboardAt(h)
RowStands(h, e) ==
  /\ Sourced(h, e) /\ e.audited = e.dashboard
  /\ e.status = StatusOf(e.via, e.sources, e.audited)

\* validate_registry, with or without the source artifacts.
Copied(h) == \A r \in RunsOf(index[h]) : Entry(index[h], r).copied => r \in copies[h]
Validates(h, artifacts) ==
  /\ h \notin torn /\ manifest[h] = <<index[h]>> /\ Copied(h)
  /\ artifacts => /\ Relocated(h) => roots[h][1] = index[h]
                  /\ \A r \in RunsOf(index[h]) : RowStands(h, Entry(index[h], r))

\* promote: all cases and their audit are read once, then run after run.
BeginPromote(h, via, r, copy) ==
  /\ clerk[h] = ClerkIdle /\ h \notin torn
  /\ \/ /\ via = "workspace" /\ h = "lab" /\ r = Local
        /\ reports.load /\ Bundles # {}
        /\ clerk' = [clerk EXCEPT ![h] =
             [op |-> "promote", via |-> via, todo |-> SetToSeq(Bundles), copy |-> copy,
              sources |-> Bundles, dashboard |-> reports.shown]]
     \/ /\ via = "export" /\ r \in Records /\ Original(h, r)
        /\ clerk' = [clerk EXCEPT ![h] =
             [op |-> "promote", via |-> via, todo |-> <<r>>, copy |-> copy,
              sources |-> {r}, dashboard |-> FALSE]]
  /\ UNCHANGED <<sourceVars, index, torn, manifest, copies, roots, parcel, losses>>

Promoting(h) == clerk[h].op = "promote"
Now(h) == Head(clerk[h].todo)
Advanced(h) ==
  IF Len(clerk[h].todo) = 1 THEN ClerkIdle ELSE [clerk[h] EXCEPT !.todo = Tail(@)]
Known(h) == Now(h) \in RunsOf(index[h])

\* The same evidence again is no event; other evidence of the run is refused.
PromoteKnown(h) ==
  /\ Promoting(h) /\ Known(h)
  /\ clerk' = [clerk EXCEPT ![h] =
       IF Entry(index[h], Now(h)).via = clerk[h].via /\ Original(h, Now(h))
       THEN Advanced(h) ELSE ClerkIdle]
  /\ UNCHANGED <<sourceVars, index, torn, manifest, copies, roots, parcel, losses>>

CopyArtifacts(h) ==
  /\ Promoting(h) /\ ~Known(h) /\ clerk[h].copy /\ Now(h) \notin copies[h]
  /\ IF Original(h, Now(h))
     THEN /\ copies' = [copies EXCEPT ![h] = @ \cup {Now(h)}] /\ UNCHANGED clerk
     ELSE /\ clerk' = [clerk EXCEPT ![h] = ClerkIdle] /\ UNCHANGED copies
  /\ UNCHANGED <<sourceVars, index, torn, manifest, roots, parcel, losses>>

\* A row: its audit is of the cases read at the start, the dashboard it names
\* is looked for as it is written.
Entered(h, sources) ==
  [kind |-> "run", record |-> Now(h), via |-> clerk[h].via, copied |-> clerk[h].copy,
   sources |-> sources, audited |-> clerk[h].dashboard,
   dashboard |-> clerk[h].via = "workspace" /\ reports.shown,
   status |-> StatusOf(clerk[h].via, clerk[h].sources, clerk[h].dashboard)]
\* Mutant: an export names its own record as its only source.
OwnSource(h) == Entered(h, {Now(h)})
Event(h) == Entered(h, clerk[h].sources)

\* _rows on a supersession: both runs are known and neither is replaced yet.
Replaceable(h, old, new) ==
  old # new /\ {old, new} \subseteq RunsOf(index[h]) \ Superseded(index[h])

Ready(h) == Promoting(h) /\ ~Known(h) /\ (clerk[h].copy => Now(h) \in copies[h])

AppendEvent(h) ==
  /\ Ready(h)
  /\ IF Original(h, Now(h)) /\ Len(index[h]) < MaxEvents
     THEN /\ index' = [index EXCEPT ![h] = Append(@, Event(h))]
          /\ clerk' = [clerk EXCEPT ![h] =
               [op |-> "manifest", next |-> Advanced(h)]]
     ELSE clerk' = [clerk EXCEPT ![h] = ClerkIdle] /\ UNCHANGED index
  /\ UNCHANGED <<sourceVars, torn, manifest, copies, roots, parcel, losses>>

WriteManifest(h) ==
  /\ clerk[h].op = "manifest"
  /\ manifest' = [manifest EXCEPT ![h] = <<index[h]>>]
  /\ clerk' = [clerk EXCEPT ![h] = @.next]
  /\ UNCHANGED <<sourceVars, index, torn, copies, roots, parcel, losses>>

Supersede(h, old, new) ==
  /\ clerk[h] = ClerkIdle /\ h \notin torn /\ Len(index[h]) < MaxEvents
  /\ Replaceable(h, old, new)
  /\ index' = [index EXCEPT ![h] = Append(@, [kind |-> "supersede", old |-> old, new |-> new])]
  /\ clerk' = [clerk EXCEPT ![h] = [op |-> "manifest", next |-> ClerkIdle]]
  /\ UNCHANGED <<sourceVars, torn, manifest, copies, roots, parcel, losses>>

\* registry_report first renews the manifest, whatever it then finds.
RegistryReport(h) ==
  /\ clerk[h] = ClerkIdle /\ h \notin torn
  /\ manifest' = [manifest EXCEPT ![h] = <<index[h]>>]
  /\ UNCHANGED <<sourceVars, index, torn, copies, roots, clerk, parcel, losses>>

\* A kill inside the append of a further event leaves half a record.
ClerkDies(h) ==
  /\ clerk[h] # ClerkIdle /\ losses > 0
  /\ clerk' = [clerk EXCEPT ![h] = ClerkIdle] /\ losses' = losses - 1
  /\ \/ UNCHANGED torn
     \/ /\ Ready(h) /\ Original(h, Now(h)) /\ index[h] # <<>>
        /\ torn' = torn \cup {h}
  /\ UNCHANGED <<sourceVars, index, manifest, copies, roots, parcel>>

-----------------------------------------------------------------------------
(* Transport *)

\* pack_registry, once: it reads the sources at their original roots. The
\* snapshot beside the pack is the registry as it validated.
Pack ==
  /\ parcel = <<>> /\ clerk["lab"] = ClerkIdle /\ index["lab"] # <<>>
  /\ Validates("lab", TRUE)
  /\ parcel' = [index |-> index["lab"], copies |-> copies["lab"],
                sources |-> UNION {Entry(index["lab"], r).sources : r \in RunsOf(index["lab"])}]
  /\ UNCHANGED <<sourceVars, index, torn, manifest, copies, roots, clerk, losses>>

\* hydrate_snapshot: a registry that exists must be the one declared, and is
\* only completed.
BeginSnapshot ==
  /\ clerk["mirror"] = ClerkIdle /\ parcel # <<>>
  /\ \/ /\ index["mirror"] = <<>>
        /\ clerk' = [clerk EXCEPT !["mirror"] = [op |-> "snapshot", parcel |-> parcel]]
        /\ UNCHANGED copies
     \/ /\ index["mirror"] = parcel.index /\ Validates("mirror", FALSE)
        /\ copies' = [copies EXCEPT !["mirror"] = @ \cup parcel.copies]
        /\ UNCHANGED clerk
  /\ UNCHANGED <<sourceVars, index, torn, manifest, roots, parcel, losses>>

Snapshot == clerk["mirror"].parcel

\* Its files one by one: the copies, the manifest, the index last.
Missing == Snapshot.copies \ copies["mirror"]
CopyNext ==
  /\ clerk["mirror"].op = "snapshot" /\ Missing # {}
  /\ \E r \in Missing : copies' = [copies EXCEPT !["mirror"] = @ \cup {r}]
  /\ UNCHANGED <<sourceVars, index, torn, manifest, roots, clerk, parcel, losses>>

\* An interrupted copy is resumed; other bytes under a declared name refuse it.
ManifestNext ==
  /\ clerk["mirror"].op = "snapshot" /\ Missing = {}
  /\ IF manifest["mirror"] \in {<<>>, <<Snapshot.index>>}
     THEN /\ manifest' = [manifest EXCEPT !["mirror"] = <<Snapshot.index>>]
          /\ clerk' = [clerk EXCEPT !["mirror"].op = "index"]
     ELSE /\ clerk' = [clerk EXCEPT !["mirror"] = ClerkIdle] /\ UNCHANGED manifest
  /\ UNCHANGED <<sourceVars, index, torn, copies, roots, parcel, losses>>

IndexNext ==
  /\ clerk["mirror"].op = "index"
  /\ index' = [index EXCEPT !["mirror"] = Snapshot.index]
  /\ clerk' = [clerk EXCEPT !["mirror"] = ClerkIdle]
  /\ UNCHANGED <<sourceVars, torn, manifest, copies, roots, parcel, losses>>

\* hydrate_registry: the dependencies, then the map that binds them to the index.
Hydrate ==
  /\ clerk["mirror"] = ClerkIdle /\ "mirror" \notin torn /\ parcel # <<>>
  /\ index["mirror"] = parcel.index
  /\ roots' = [roots EXCEPT !["mirror"] = <<parcel.index, parcel.sources>>]
  /\ UNCHANGED <<sourceVars, index, torn, manifest, copies, clerk, parcel, losses>>

-----------------------------------------------------------------------------
\* A receipt of the registry stays what its sources say: while the index is
\* whole, the manifest and the root map are current and every source can be
\* read, validation with artifacts passes, on the host that promoted the runs
\* and on the one that hydrated them, whatever was interrupted in between.
\* A dashboard that appeared inside a promotion is the one exception: its row
\* names what its audit did not see.
ReceiptsStand ==
  \A h \in Hosts :
    (/\ h \notin torn /\ manifest[h] = <<index[h]>>
     /\ Relocated(h) => roots[h][1] = index[h]
     /\ \A r \in RunsOf(index[h]) :
          LET e == Entry(index[h], r) IN Sourced(h, e) /\ e.audited = e.dashboard)
      => Validates(h, TRUE)

RegistryNext ==
  \/ RebuildViews \/ MatrixKilled \/ ResetWorkspace
  \/ \E c \in Cases : FileExport(c) \/ LoseExport(c)
  \/ \E h \in Hosts :
       \/ \E copy \in Copying :
            \/ BeginPromote(h, "workspace", Local, copy)
            \/ \E r \in Records : BeginPromote(h, "export", r, copy)
       \/ \E old, new \in RunsOf(index[h]) : Supersede(h, old, new)
       \/ PromoteKnown(h) \/ CopyArtifacts(h) \/ AppendEvent(h) \/ WriteManifest(h)
       \/ RegistryReport(h) \/ ClerkDies(h)
  \/ Pack \/ BeginSnapshot \/ CopyNext \/ ManifestNext \/ IndexNext \/ Hydrate

RegistrySpec == RegistryInit /\ [][RegistryNext]_registryVars
=============================================================================
