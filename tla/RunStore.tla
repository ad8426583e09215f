------------------------------ MODULE RunStore ------------------------------
(***************************************************************************)
(* The run store: a database file and its write-ahead log, the advisory    *)
(* lock run.lock with the record of its owner, writers that append         *)
(* evaluations, and readers.  A process may be killed at any step; the     *)
(* kernel then drops its lock, and the files stay as they are.             *)
(*                                                                         *)
(* Rows are chained by digests, so the digest of a row is modelled by the  *)
(* rows up to it, and the tip in the runs table by the rows it covers.     *)
(***************************************************************************)
EXTENDS Naturals, Sequences

CONSTANTS
    Writers, Readers,
    Values,         \* what an evaluation row may record
    Length,         \* bound on rows
    MaxKills,       \* bound on killed processes
    None

ASSUME RunStoreAssumption ==
    /\ Length \in Nat
    /\ MaxKills \in Nat
    /\ None \notin Writers
    /\ Writers \intersect Readers = {}

\* A database: whether it has its schema and runs row, and what is in it.
Databases == [run : BOOLEAN, rows : Seq(Values), tip : Seq(Values)]
Blank == [run |-> FALSE, rows |-> <<>>, tip |-> <<>>]
Genesis == [run |-> TRUE, rows |-> <<>>, tip |-> <<>>]

ASSUME NoneIsNoDatabase == None \notin Databases

\* verify_evaluation_chain: count and tip of the runs row match the rows.
Verifies(db) == db.run /\ db.tip = db.rows

VARIABLES
    file,       \* metrics.duckdb
    wal,        \* metrics.duckdb.wal: the database its replay yields
    record,     \* run.lock: "absent", "empty", "owner"
    exclusive,  \* writer that holds the lock
    shared,     \* readers that hold the lock
    pc,         \* each writer and reader
    creating,   \* writers that were asked to create the store
    stale,      \* writers that found an owner's record under their lock
    transaction,\* each writer's uncommitted view
    view,       \* each reader's snapshot
    acked,      \* history: the rows when append_evaluation last returned
    kills

files == <<file, wal, record>>
locks == <<exclusive, shared>>
locals == <<pc, creating, stale, transaction, view>>
vars == <<files, locks, locals, acked, kills>>

Committed == IF wal # None THEN wal ELSE file

\* The rows anybody can recover.
CommittedRows == IF Committed = None THEN <<>> ELSE Committed.rows

Goto(p, label) == pc' = [pc EXCEPT ![p] = label]

Init ==
    /\ file = None
    /\ wal = None
    /\ record = "absent"
    /\ exclusive = None
    /\ shared = {}
    /\ pc = [p \in Writers \union Readers |-> "idle"]
    /\ creating = {}
    /\ stale = {}
    /\ transaction = [w \in Writers |-> None]
    /\ view = [r \in Readers |-> None]
    /\ acked = <<>>
    /\ kills = 0

----------------------------------------------------------------------------
(***************************************************************************)
(* The writer's lock                                                       *)
(***************************************************************************)
\* Opening creates run.lock; the lock is not waited for.
LockRefused(w) ==
    /\ pc[w] = "idle"
    /\ exclusive # None \/ shared # {}
    /\ record' = IF record = "absent" THEN "empty" ELSE record
    /\ UNCHANGED <<file, wal, locks, locals, acked, kills>>

\* A record left in the file belongs to a process that died.
Lock(w) ==
    /\ pc[w] = "idle"
    /\ exclusive = None /\ shared = {}
    /\ exclusive' = w
    /\ creating' \in {creating \ {w}, creating \union {w}}
    /\ record' = IF record = "absent" THEN "empty" ELSE record
    /\ stale' = IF record = "owner" THEN stale \union {w} ELSE stale \ {w}
    /\ Goto(w, "locked")
    /\ UNCHANGED <<file, wal, shared, transaction, view, acked, kills>>

TruncateRecord(w) ==
    /\ pc[w] = "locked"
    /\ record' = "empty"
    /\ Goto(w, "truncated")
    /\ UNCHANGED <<file, wal, locks, creating, stale, transaction,
                   view, acked, kills>>

WriteRecord(w) ==
    /\ pc[w] = "truncated"
    /\ record' = "owner"
    /\ Goto(w, "owner")
    /\ UNCHANGED <<file, wal, locks, creating, stale, transaction,
                   view, acked, kills>>

ClearRecord(w) ==
    /\ pc[w] = "closed"
    /\ record' = "empty"
    /\ Goto(w, "cleared")
    /\ UNCHANGED <<file, wal, locks, creating, stale, transaction,
                   view, acked, kills>>

Unlock(w) ==
    /\ pc[w] = "cleared"
    /\ exclusive' = None
    /\ Goto(w, "idle")
    /\ UNCHANGED <<files, shared, creating, stale, transaction,
                   view, acked, kills>>

----------------------------------------------------------------------------
(***************************************************************************)
(* The writer's database                                                   *)
(***************************************************************************)
\* Whether the store may be opened is decided under the lock.
OpenRefused(w) ==
    /\ pc[w] = "owner"
    /\ IF w \in creating THEN file # None \/ wal # None ELSE file = None
    /\ Goto(w, "closed")
    /\ UNCHANGED <<files, locks, creating, stale, transaction,
                   view, acked, kills>>

\* Connecting creates a missing file, before there is any schema in it, and
\* replays the log of a writer that died.
Connect(w) ==
    /\ pc[w] = "owner"
    /\ IF w \in creating THEN file = None /\ wal = None ELSE file # None
    /\ file' = IF file = None THEN Blank ELSE file
    /\ Goto(w, IF w \in creating THEN "schema" ELSE "verify")
    /\ UNCHANGED <<wal, record, locks, creating, stale, transaction, view,
                   acked, kills>>

\* Schema and runs row are one transaction.
CreateSchema(w) ==
    /\ pc[w] = "schema"
    /\ wal' = Genesis
    /\ Goto(w, "verify")
    /\ UNCHANGED <<file, record, locks, creating, stale, transaction, view,
                   acked, kills>>

Verify(w) ==
    /\ pc[w] = "verify"
    /\ Goto(w, IF Verifies(Committed) THEN "open" ELSE "closing")
    /\ UNCHANGED <<files, locks, creating, stale, transaction,
                   view, acked, kills>>

\* Mutant: each statement commits on its own.
InsertAutocommitted(w) ==
    /\ pc[w] = "open"
    /\ Len(Committed.rows) < Length
    /\ \E v \in Values :
         LET db == [Committed EXCEPT !.rows = Append(Committed.rows, v)]
         IN  /\ transaction' = [transaction EXCEPT ![w] = db]
             /\ wal' = db
    /\ Goto(w, "inserted")
    /\ UNCHANGED <<file, record, locks, creating, stale, view,
                   acked, kills>>

\* The row and the tip are one transaction.
Insert(w) ==
    /\ pc[w] = "open"
    /\ Len(Committed.rows) < Length
    /\ \E v \in Values :
         transaction' = [transaction EXCEPT
            ![w] = [Committed EXCEPT !.rows = Append(Committed.rows, v)]]
    /\ Goto(w, "inserted")
    /\ UNCHANGED <<files, locks, creating, stale, view, acked, kills>>

UpdateTip(w) ==
    /\ pc[w] = "inserted"
    /\ transaction' = [transaction EXCEPT ![w].tip = transaction[w].rows]
    /\ Goto(w, "updated")
    /\ UNCHANGED <<files, locks, creating, stale, view, acked, kills>>

\* Mutant: the row is returned before the transaction is committed.
ReturnUncommitted(w) ==
    /\ pc[w] = "updated"
    /\ acked' = transaction[w].rows
    /\ Goto(w, "committed")
    /\ UNCHANGED <<files, locks, creating, stale, transaction,
                   view, kills>>

Commit(w) ==
    /\ pc[w] = "updated"
    /\ wal' = transaction[w]
    /\ Goto(w, "committed")
    /\ UNCHANGED <<file, record, locks, creating, stale, transaction, view,
                   acked, kills>>

Return(w) ==
    /\ pc[w] = "committed"
    /\ acked' = Committed.rows
    /\ transaction' = [transaction EXCEPT ![w] = None]
    /\ Goto(w, "open")
    /\ UNCHANGED <<files, locks, creating, stale, view, kills>>

\* Leaving the context, also by an exception, ends the transaction and folds
\* the log into the file.
Close(w) ==
    /\ pc[w] \in {"schema", "verify", "open", "inserted", "updated", "committed",
                 "closing"}
    /\ file' = Committed
    /\ wal' = None
    /\ transaction' = [transaction EXCEPT ![w] = None]
    /\ Goto(w, "closed")
    /\ UNCHANGED <<record, locks, creating, stale, view, acked, kills>>

KillWriter(w) ==
    /\ pc[w] # "idle"
    /\ kills < MaxKills
    /\ kills' = kills + 1
    /\ exclusive' = IF exclusive = w THEN None ELSE exclusive
    /\ transaction' = [transaction EXCEPT ![w] = None]
    /\ Goto(w, "idle")
    /\ UNCHANGED <<files, shared, creating, stale, view, acked>>

----------------------------------------------------------------------------
(***************************************************************************)
(* Readers                                                                 *)
(***************************************************************************)
ShareLock(r) ==
    /\ pc[r] = "idle"
    /\ record # "absent"
    /\ exclusive = None
    /\ shared' = shared \union {r}
    /\ Goto(r, "sharing")
    /\ UNCHANGED <<files, exclusive, creating, stale, transaction,
                   view, acked, kills>>

\* Mutant: readers take a store whose log is not recovered.
ReadableWithLog == file # None /\ Verifies(file)

\* No missing file, no log to recover, and a chain that verifies.
Readable == file # None /\ wal = None /\ Verifies(file)

ReadRefused(r) ==
    /\ pc[r] = "sharing"
    /\ ~Readable
    /\ Goto(r, "unlocking")
    /\ UNCHANGED <<files, locks, creating, stale, transaction,
                   view, acked, kills>>

BeginRead(r) ==
    /\ pc[r] = "sharing"
    /\ Readable
    /\ view' = [view EXCEPT ![r] = file]
    /\ Goto(r, "reading")
    /\ UNCHANGED <<files, locks, creating, stale, transaction,
                   acked, kills>>

\* The end of the context, whatever ended it.
EndRead(r) ==
    /\ pc[r] \in {"reading", "unlocking"}
    /\ shared' = shared \ {r}
    /\ view' = [view EXCEPT ![r] = None]
    /\ Goto(r, "idle")
    /\ UNCHANGED <<files, exclusive, creating, stale, transaction,
                   acked, kills>>

open_run_store(w) ==
    \/ LockRefused(w) \/ Lock(w) \/ TruncateRecord(w) \/ WriteRecord(w)
    \/ OpenRefused(w) \/ Connect(w) \/ CreateSchema(w) \/ Verify(w)
    \/ Close(w) \/ ClearRecord(w) \/ Unlock(w)

append_evaluation(w) == Insert(w) \/ UpdateTip(w) \/ Commit(w) \/ Return(w)

open_run_reader(r) ==
    ShareLock(r) \/ ReadRefused(r) \/ BeginRead(r) \/ EndRead(r)

Next ==
    \/ \E w \in Writers :
         open_run_store(w) \/ append_evaluation(w) \/ KillWriter(w)
    \/ \E r \in Readers : open_run_reader(r)

Spec == Init /\ [][Next]_vars

----------------------------------------------------------------------------
(***************************************************************************)
(* Properties                                                              *)
(***************************************************************************)
WriterLabels == {"idle", "locked", "truncated", "owner", "schema", "verify",
                 "open", "inserted", "updated", "committed", "closing",
                 "closed", "cleared"}
ReaderLabels == {"idle", "sharing", "reading", "unlocking"}

TypeOK ==
    /\ {file, wal} \subseteq Databases \union {None}
    /\ record \in {"absent", "empty", "owner"}
    /\ exclusive \in Writers \union {None}
    /\ shared \subseteq Readers
    /\ pc \in [Writers \union Readers -> WriterLabels \union ReaderLabels]
    /\ \A w \in Writers : pc[w] \in WriterLabels
    /\ \A r \in Readers : pc[r] \in ReaderLabels
    /\ creating \subseteq Writers
    /\ stale \subseteq Writers
    /\ transaction \in [Writers -> Databases \union {None}]
    /\ view \in [Readers -> Databases \union {None}]
    /\ acked \in Seq(Values)
    /\ kills \in 0..MaxKills

\* Whatever writer is killed at whatever step, the rows and the tip that
\* guards them agree in what is left: "a killed writer must leave both
\* unchanged, or both committed" (run_store.py:248-249), so no store with
\* rows is ever refused by verify_evaluation_chain.
TipFollowsRows ==
    Committed # None => IF Committed.run THEN Committed.tip = Committed.rows
                        ELSE Committed = Blank

\* A reader's snapshot is the whole committed store from the beginning to the
\* end of its context: no writer works meanwhile and no row of a writer that
\* was killed is missing (run_store.py:386-394).
ReadersSeeTheCommitted ==
    \A r \in Readers : pc[r] = "reading" => view[r] = Committed

\* The store implements an append-only log: one row at a time, no row that
\* append_evaluation has returned is lost or changed, by several writers one
\* after the other (run_store.py:195-196, 250-260).
Promise == INSTANCE CommitLog WITH log <- CommittedRows
ImplementsCommitLog == Promise!Spec

\* recovered_stale_lock tells a writer of a death there was: whatever is
\* refused, closed or fails in between, a store that everybody left in order
\* never looks like one that was taken over (run_store.py:475-478).
RecoveriesAreReal == stale # {} => kills > 0
=============================================================================
