--------------------------- MODULE RunStoreProofs ---------------------------
(***************************************************************************)
(* What holds of the run store for every number of writers, readers, rows  *)
(* and kills.                                                              *)
(*                                                                         *)
(* The inductive invariant says that at most one writer is anywhere but    *)
(* idle, and then no reader is; and, for the writer's place in its code,   *)
(* what is committed and how far its transaction is ahead of it.           *)
(***************************************************************************)
EXTENDS RunStore, SequenceTheorems, TLAPS

(***************************************************************************)
(* The inductive invariant                                                 *)
(***************************************************************************)
\* The kernel's lock, seen from where the processes are.
Excluded ==
    /\ \A w \in Writers : pc[w] # "idle" => exclusive = w
    /\ \A r \in Readers : pc[r] # "idle" => r \in shared
    /\ exclusive # None => shared = {}

\* There is never a log without its file.
LogHasFile == wal # None => file # None

Opened == {"open", "inserted", "updated", "committed"}

\* What a writer relies on at each point.
Works(w) ==
    /\ pc[w] = "schema" => file = Blank /\ wal = None
    /\ pc[w] \in {"schema", "verify", "closing"} \union Opened => file # None
    /\ pc[w] \in Opened => Verifies(Committed)
    /\ pc[w] \in {"inserted", "updated"} =>
         /\ transaction[w] # None
         /\ Len(Committed.rows) < Length
         /\ transaction[w].run = TRUE
         /\ \E v \in Values : transaction[w].rows = Append(Committed.rows, v)
    /\ pc[w] = "updated" => transaction[w].tip = transaction[w].rows
    /\ pc[w] = "cleared" => record # "owner"

\* A record nobody alive wrote is one of a dead writer.
Recorded ==
    /\ RecoveriesAreReal
    /\ record = "owner" => kills > 0 \/ exclusive # None

IInv ==
    /\ TypeOK
    /\ Excluded
    /\ LogHasFile
    /\ TipFollowsRows
    /\ ReadersSeeTheCommitted
    /\ Recorded
    /\ \A w \in Writers : Works(w)

LEMMA Blanks ==
    /\ Blank \in Databases
    /\ Genesis \in Databases
    /\ Verifies(Genesis)
<1>. <<>> \in Seq(Values)
  BY EmptySeq
<1>. QED
  BY DEF Databases, Blank, Genesis, Verifies

\* A database with one more row is a database.
LEMMA GrownDatabase ==
    ASSUME NEW db \in Databases, NEW v \in Values
    PROVE  LET grown == [db EXCEPT !.rows = Append(db.rows, v)]
           IN  /\ grown \in Databases
               /\ grown.run = db.run
               /\ grown.rows = Append(db.rows, v)
<1>1. db.rows \in Seq(Values) /\ Append(db.rows, v) \in Seq(Values)
  BY AppendProperties DEF Databases
<1>. QED
  BY <1>1 DEF Databases

\* What is committed is a database or nothing.
LEMMA CommittedTyped ==
    ASSUME TypeOK
    PROVE  Committed \in Databases \union {None}
BY DEF TypeOK, Committed

LEMMA InitIInv == Init => IInv
<1>. SUFFICES ASSUME Init PROVE IInv
  OBVIOUS
<1>1. TypeOK
  <2>1. acked \in Seq(Values)
    BY EmptySeq DEF Init
  <2>2. kills \in 0..MaxKills
    BY RunStoreAssumption DEF Init
  <2>. QED
    BY <2>1, <2>2 DEF Init, TypeOK, WriterLabels, ReaderLabels
<1>2. Excluded /\ LogHasFile
  BY DEF Init, Excluded, LogHasFile
<1>3. TipFollowsRows /\ ReadersSeeTheCommitted
  BY DEF Init, TipFollowsRows, ReadersSeeTheCommitted, Committed
<1>4. \A w \in Writers : Works(w)
  BY DEF Init, Works, Opened
<1>5. Recorded
  BY DEF Init, Recorded, RecoveriesAreReal
<1>. QED
  BY <1>1, <1>2, <1>3, <1>4, <1>5 DEF IInv

(***************************************************************************)
(* Types                                                                   *)
(***************************************************************************)
LEMMA WriterType ==
    ASSUME IInv, NEW w \in Writers,
           open_run_store(w) \/ append_evaluation(w) \/ KillWriter(w)
    PROVE  TypeOK'
<1>. USE DEF IInv, files, locks, locals, Goto, WriterLabels, ReaderLabels
<1>0. Committed \in Databases \union {None}
  BY CommittedTyped
<1>l. TypeOK /\ Writers \intersect Readers = {}
  BY RunStoreAssumption
<1>1. CASE LockRefused(w)
  BY <1>1 DEF LockRefused, TypeOK
<1>2. CASE Lock(w)
  BY <1>l, <1>2 DEF Lock, TypeOK
<1>3. CASE TruncateRecord(w)
  BY <1>l, <1>3 DEF TruncateRecord, TypeOK
<1>4. CASE WriteRecord(w)
  BY <1>l, <1>4 DEF WriteRecord, TypeOK
<1>5. CASE OpenRefused(w)
  BY <1>l, <1>5 DEF OpenRefused, TypeOK
<1>6. CASE Connect(w)
  BY <1>l, <1>6, Blanks DEF Connect, TypeOK
<1>7. CASE CreateSchema(w)
  BY <1>l, <1>7, Blanks DEF CreateSchema, TypeOK
<1>8. CASE Verify(w)
  BY <1>l, <1>8 DEF Verify, TypeOK
<1>9. CASE Close(w)
  BY <1>l, <1>9, <1>0 DEF Close, TypeOK
<1>10. CASE ClearRecord(w)
  BY <1>l, <1>10 DEF ClearRecord, TypeOK
<1>11. CASE Unlock(w)
  BY <1>l, <1>11 DEF Unlock, TypeOK
<1>12. CASE Insert(w)
  <2>1. Committed \in Databases
    BY <1>0, <1>12 DEF Insert, Works, Opened, Committed, LogHasFile
  <2>2. PICK v \in Values : transaction' = [transaction EXCEPT
            ![w] = [Committed EXCEPT !.rows = Append(Committed.rows, v)]]
    BY <1>12 DEF Insert
  <2>3. transaction' \in [Writers -> Databases \union {None}]
    BY <2>1, <2>2, GrownDatabase DEF TypeOK
  <2>. QED
    BY <1>l, <1>12, <2>3 DEF Insert, TypeOK
<1>13. CASE UpdateTip(w)
  <2>1. transaction[w] \in Databases
    BY <1>13 DEF UpdateTip, Works, TypeOK
  <2>2. transaction' \in [Writers -> Databases \union {None}]
    BY <1>13, <2>1 DEF UpdateTip, Databases, TypeOK
  <2>. QED
    BY <1>l, <1>13, <2>2 DEF UpdateTip, TypeOK
<1>14. CASE Commit(w)
  BY <1>l, <1>14 DEF Commit, TypeOK
<1>15. CASE Return(w)
  <2>1. Committed \in Databases
    BY <1>0, <1>15 DEF Return, Works, Opened, Committed, LogHasFile
  <2>2. acked' \in Seq(Values)
    BY <1>15, <2>1 DEF Return, Databases
  <2>. QED
    BY <1>l, <1>15, <2>2 DEF Return, TypeOK
<1>16. CASE KillWriter(w)
  BY <1>l, <1>16, RunStoreAssumption DEF KillWriter, TypeOK
<1>. QED
  BY <1>1, <1>2, <1>3, <1>4, <1>5, <1>6, <1>7, <1>8, <1>9, <1>10, <1>11,
     <1>12, <1>13, <1>14, <1>15, <1>16
  DEF open_run_store, append_evaluation

LEMMA ReaderType ==
    ASSUME IInv, NEW r \in Readers, open_run_reader(r)
    PROVE  TypeOK'
<1>. USE DEF IInv, files, locks, locals, Goto, WriterLabels, ReaderLabels
<1>l. TypeOK /\ Writers \intersect Readers = {}
  BY RunStoreAssumption
<1>1. CASE ShareLock(r)
  BY <1>l, <1>1 DEF ShareLock, TypeOK
<1>2. CASE ReadRefused(r)
  BY <1>l, <1>2 DEF ReadRefused, TypeOK
<1>3. CASE BeginRead(r)
  BY <1>l, <1>3 DEF BeginRead, TypeOK
<1>4. CASE EndRead(r)
  BY <1>l, <1>4 DEF EndRead, TypeOK
<1>. QED
  BY <1>1, <1>2, <1>3, <1>4 DEF open_run_reader

LEMMA NextType == IInv /\ [Next]_vars => TypeOK'
<1>. SUFFICES ASSUME IInv, [Next]_vars PROVE TypeOK'
  OBVIOUS
<1>1. CASE UNCHANGED vars
  BY <1>1 DEF IInv, vars, files, locks, locals, TypeOK
<1>2. CASE Next
  BY <1>2, WriterType, ReaderType DEF Next
<1>. QED
  BY <1>1, <1>2

(***************************************************************************)
(* Exclusion and contents                                                  *)
(***************************************************************************)
\* A writer that is anywhere but idle is alone.
LEMMA Alone ==
    ASSUME IInv, NEW w \in Writers, pc[w] # "idle"
    PROVE  /\ exclusive = w
           /\ \A u \in Writers \ {w} : pc[u] = "idle"
           /\ \A r \in Readers : pc[r] = "idle"
BY RunStoreAssumption DEF IInv, Excluded

\* A step of a writer that stays in its code, or leaves it, disturbs nobody.
LEMMA WriterFrame ==
    ASSUME IInv, NEW w \in Writers, pc[w] # "idle",
           NEW label, Goto(w, label), shared' = shared,
           \/ exclusive' = exclusive
           \/ exclusive' = None /\ label = "idle",
           (LogHasFile /\ TipFollowsRows /\ Works(w))'
    PROVE  (Excluded /\ LogHasFile /\ TipFollowsRows
            /\ ReadersSeeTheCommitted /\ \A u \in Writers : Works(u))'
<1>1. /\ exclusive = w
      /\ \A u \in Writers \ {w} : pc'[u] = "idle"
      /\ \A r \in Readers : pc'[r] = "idle"
      /\ pc'[w] = label
  BY Alone, RunStoreAssumption DEF IInv, TypeOK, Goto
<1>2. shared = {}
  BY <1>1, RunStoreAssumption DEF IInv, Excluded
<1>3. Excluded'
  BY <1>1, <1>2 DEF Excluded
<1>4. ReadersSeeTheCommitted'
  BY <1>1 DEF ReadersSeeTheCommitted
<1>5. \A u \in Writers : Works(u)'
  BY <1>1 DEF Works, Opened
<1>. QED
  BY <1>3, <1>4, <1>5

\* A step that leaves the files alone leaves alone what is committed.
LEMMA SameFiles ==
    ASSUME IInv, file' = file, wal' = wal
    PROVE  Committed' = Committed /\ (LogHasFile /\ TipFollowsRows)'
BY DEF IInv, Committed, LogHasFile, TipFollowsRows

LEMMA WriterKeepsContents ==
    ASSUME IInv, NEW w \in Writers,
           open_run_store(w) \/ append_evaluation(w) \/ KillWriter(w)
    PROVE  (Excluded /\ LogHasFile /\ TipFollowsRows
            /\ ReadersSeeTheCommitted /\ \A u \in Writers : Works(u))'
<1>. DEFINE Kept == (Excluded /\ LogHasFile /\ TipFollowsRows
                     /\ ReadersSeeTheCommitted /\ \A u \in Writers : Works(u))'
<1>0. /\ Committed \in Databases \union {None}
      /\ Works(w)
      /\ \A label : Goto(w, label) => pc'[w] = label
  BY CommittedTyped DEF IInv, TypeOK, Goto
<1>1. CASE LockRefused(w)
  BY <1>1, SameFiles
  DEF LockRefused, locks, locals, IInv, Excluded, ReadersSeeTheCommitted, Works
<1>2. CASE Lock(w)
  <2>1. /\ Committed' = Committed /\ (LogHasFile /\ TipFollowsRows)'
    BY <1>2, SameFiles DEF Lock
  <2>2. /\ \A u \in Writers : pc[u] = "idle"
        /\ \A r \in Readers : pc[r] = "idle"
    BY <1>2, RunStoreAssumption DEF Lock, IInv, Excluded
  <2>3. /\ pc'[w] = "locked"
        /\ \A u \in Writers \ {w} : pc'[u] = "idle"
        /\ \A r \in Readers : pc'[r] = "idle"
    BY <1>2, <2>2, RunStoreAssumption DEF Lock, IInv, TypeOK, Goto
  <2>4. Excluded'
    BY <1>2, <2>3 DEF Lock, Excluded
  <2>5. ReadersSeeTheCommitted' /\ \A u \in Writers : Works(u)'
    BY <2>3 DEF ReadersSeeTheCommitted, Works, Opened
  <2>. QED
    BY <2>1, <2>4, <2>5
<1>3. CASE TruncateRecord(w) \/ WriteRecord(w) \/ OpenRefused(w) \/ ClearRecord(w)
  <2>1. PICK label \in {"truncated", "owner", "closed", "cleared"} :
            Goto(w, label) /\ (label = "cleared" => record' = "empty")
    BY <1>3 DEF TruncateRecord, WriteRecord, OpenRefused, ClearRecord
  <2>2. /\ pc[w] # "idle" /\ exclusive' = exclusive /\ shared' = shared
        /\ file' = file /\ wal' = wal
    BY <1>3 DEF TruncateRecord, WriteRecord, OpenRefused, ClearRecord, locks, files
  <2>3. Works(w)'
    BY <1>0, <2>1 DEF Works, Opened
  <2>. QED
    BY <2>1, <2>2, <2>3, SameFiles, WriterFrame
<1>4. CASE Unlock(w) \/ KillWriter(w)
  <2>1. /\ Goto(w, "idle") /\ shared' = shared /\ file' = file /\ wal' = wal
        /\ pc[w] # "idle"
    BY <1>4 DEF Unlock, KillWriter, files
  <2>2. exclusive' = None
    BY <1>4, <2>1, Alone DEF Unlock, KillWriter
  <2>3. Works(w)'
    BY <1>0, <2>1 DEF Works, Opened
  <2>. QED
    BY <2>1, <2>2, <2>3, SameFiles, WriterFrame
<1>5. CASE Connect(w)
  <2>1. PICK label \in {"schema", "verify"} : Goto(w, label)
    BY <1>5 DEF Connect
  <2>2. pc[w] # "idle" /\ exclusive' = exclusive /\ shared' = shared
    BY <1>5 DEF Connect, locks
  <2>3. file' # None /\ wal' = wal
    BY <1>5, Blanks, NoneIsNoDatabase DEF Connect
  <2>4. CASE file = None
    <3>1. wal = None /\ file' = Blank
      BY <1>5, <2>4 DEF Connect
    <3>2. Committed' = Blank
      BY <2>3, <3>1 DEF Committed
    <3>3. (LogHasFile /\ TipFollowsRows)'
      BY <2>3, <3>1, <3>2 DEF LogHasFile, TipFollowsRows, Blank
    <3>4. Works(w)'
      BY <1>0, <2>1, <2>3, <3>1 DEF Works, Opened
    <3>. QED
      BY <2>1, <2>2, <3>3, <3>4, WriterFrame
  <2>5. CASE file # None
    <3>1. file' = file /\ Goto(w, "verify")
      BY <1>5, <2>5 DEF Connect
    <3>2. Works(w)'
      BY <1>0, <2>3, <3>1 DEF Works, Opened
    <3>. QED
      BY <2>2, <2>3, <3>1, <3>2, SameFiles, WriterFrame
  <2>. QED
    BY <2>4, <2>5
<1>6. CASE CreateSchema(w)
  <2>1. /\ pc[w] # "idle" /\ exclusive' = exclusive /\ shared' = shared
        /\ Goto(w, "verify") /\ wal' = Genesis /\ file' = file /\ file # None
    BY <1>0, <1>6 DEF CreateSchema, locks, Works
  <2>2. Committed' = Genesis
    BY <2>1, Blanks, NoneIsNoDatabase DEF Committed
  <2>3. (LogHasFile /\ TipFollowsRows)'
    BY <2>1, <2>2 DEF LogHasFile, TipFollowsRows, Genesis
  <2>4. Works(w)'
    BY <1>0, <2>1 DEF Works, Opened
  <2>. QED
    BY <2>1, <2>3, <2>4, WriterFrame
<1>7. CASE Verify(w)
  <2>1. /\ pc[w] # "idle" /\ exclusive' = exclusive /\ shared' = shared
        /\ file' = file /\ wal' = wal /\ file # None
    BY <1>0, <1>7 DEF Verify, files, locks, Works
  <2>2. Committed' = Committed
    BY <2>1, SameFiles
  <2>3. PICK label \in {"open", "closing"} :
            Goto(w, label) /\ (label = "open" => Verifies(Committed))
    BY <1>7 DEF Verify
  <2>4. Works(w)'
    BY <1>0, <2>1, <2>2, <2>3 DEF Works, Opened, Verifies
  <2>. QED
    BY <2>1, <2>3, <2>4, SameFiles, WriterFrame
<1>8. CASE Insert(w)
  <2>1. /\ pc[w] # "idle" /\ exclusive' = exclusive /\ shared' = shared
        /\ Goto(w, "inserted") /\ file' = file /\ wal' = wal /\ file # None
        /\ Len(Committed.rows) < Length /\ Verifies(Committed)
    BY <1>0, <1>8 DEF Insert, files, locks, Works, Opened
  <2>2. Committed \in Databases /\ Committed' = Committed
    BY <1>0, <2>1, SameFiles DEF Committed, IInv, LogHasFile
  <2>3. PICK v \in Values : transaction' = [transaction EXCEPT
            ![w] = [Committed EXCEPT !.rows = Append(Committed.rows, v)]]
    BY <1>8 DEF Insert
  <2>4. /\ transaction'[w] = [Committed EXCEPT !.rows = Append(Committed.rows, v)]
        /\ transaction'[w] \in Databases
        /\ transaction'[w].run = TRUE
        /\ transaction'[w].rows = Append(Committed.rows, v)
    <3>1. transaction'[w] = [Committed EXCEPT !.rows = Append(Committed.rows, v)]
      BY <2>3 DEF IInv, TypeOK
    <3>2. Committed.run = TRUE
      BY <2>1, <2>2 DEF Verifies, Databases
    <3>. QED
      BY <2>2, <3>1, <3>2, GrownDatabase
  <2>5. transaction'[w] # None
    BY <2>4, NoneIsNoDatabase
  <2>6. Works(w)'
    BY <1>0, <2>1, <2>2, <2>4, <2>5 DEF Works, Opened, Verifies
  <2>. QED
    BY <2>1, <2>6, SameFiles, WriterFrame
<1>9. CASE UpdateTip(w)
  <2>1. /\ pc[w] = "inserted" /\ exclusive' = exclusive /\ shared' = shared
        /\ Goto(w, "updated") /\ file' = file /\ wal' = wal
        /\ transaction' = [transaction EXCEPT ![w].tip = transaction[w].rows]
    BY <1>9 DEF UpdateTip, files, locks
  <2>2. Committed' = Committed
    BY <2>1, SameFiles
  <2>3. transaction[w] \in Databases
    BY <1>0, <2>1 DEF Works, IInv, TypeOK
  <2>4. /\ transaction'[w] \in Databases
        /\ transaction'[w].run = transaction[w].run
        /\ transaction'[w].rows = transaction[w].rows
        /\ transaction'[w].tip = transaction[w].rows
    BY <2>1, <2>3 DEF Databases, IInv, TypeOK
  <2>5. transaction'[w] # None
    BY <2>4, NoneIsNoDatabase
  <2>6. Works(w)'
    BY <1>0, <2>1, <2>2, <2>4, <2>5 DEF Works, Opened, Verifies
  <2>. QED
    BY <2>1, <2>6, SameFiles, WriterFrame
<1>10. CASE Commit(w)
  <2>1. /\ pc[w] = "updated" /\ exclusive' = exclusive /\ shared' = shared
        /\ Goto(w, "committed") /\ file' = file /\ wal' = transaction[w]
        /\ file # None /\ wal' # None /\ Verifies(transaction[w])
    BY <1>0, <1>10 DEF Commit, locks, Works, Opened, Verifies
  <2>2. Committed' = transaction[w]
    BY <2>1 DEF Committed
  <2>3. (LogHasFile /\ TipFollowsRows)'
    BY <2>1, <2>2 DEF LogHasFile, TipFollowsRows, Verifies
  <2>4. Works(w)'
    BY <1>0, <2>1, <2>2 DEF Works, Opened, Verifies
  <2>. QED
    BY <2>1, <2>3, <2>4, WriterFrame
<1>11. CASE Return(w)
  <2>1. /\ pc[w] = "committed" /\ exclusive' = exclusive /\ shared' = shared
        /\ Goto(w, "open") /\ file' = file /\ wal' = wal
    BY <1>11 DEF Return, files, locks
  <2>2. Committed' = Committed
    BY <2>1, SameFiles
  <2>3. Works(w)'
    BY <1>0, <2>1, <2>2 DEF Works, Opened, Verifies
  <2>. QED
    BY <2>1, <2>3, SameFiles, WriterFrame
<1>12. CASE Close(w)
  <2>1. /\ pc[w] # "idle" /\ exclusive' = exclusive /\ shared' = shared
        /\ Goto(w, "closed") /\ file' = Committed /\ wal' = None
    BY <1>12 DEF Close, locks
  <2>2. Committed' = Committed
    BY <2>1 DEF Committed
  <2>3. (LogHasFile /\ TipFollowsRows)'
    BY <2>1, <2>2 DEF LogHasFile, TipFollowsRows, IInv
  <2>4. Works(w)'
    BY <1>0, <2>1 DEF Works, Opened
  <2>. QED
    BY <2>1, <2>3, <2>4, WriterFrame
<1>. QED
  BY <1>1, <1>2, <1>3, <1>4, <1>5, <1>6, <1>7, <1>8, <1>9, <1>10, <1>11, <1>12
  DEF open_run_store, append_evaluation

LEMMA ReaderKeepsContents ==
    ASSUME IInv, NEW r \in Readers, open_run_reader(r)
    PROVE  (Excluded /\ LogHasFile /\ TipFollowsRows
            /\ ReadersSeeTheCommitted /\ \A w \in Writers : Works(w))'
<1>1. file' = file /\ wal' = wal /\ record' = record
      /\ exclusive' = exclusive /\ transaction' = transaction
  BY DEF open_run_reader, ShareLock, ReadRefused, BeginRead, EndRead, files, locks
<1>2. Committed' = Committed /\ (LogHasFile /\ TipFollowsRows)'
  BY <1>1, SameFiles
<1>3. /\ \A w \in Writers : pc'[w] = pc[w]
      /\ \A q \in Readers \ {r} : pc'[q] = pc[q]
  BY RunStoreAssumption
  DEF open_run_reader, ShareLock, ReadRefused, BeginRead, EndRead, Goto, IInv, TypeOK
<1>4. \A w \in Writers : Works(w)'
  BY <1>1, <1>2, <1>3 DEF IInv, Works, Verifies
<1>5. CASE ShareLock(r)
  <2>1. pc'[r] = "sharing" /\ shared' = shared \union {r} /\ exclusive = None
        /\ view' = view
    BY <1>5 DEF ShareLock, Goto, IInv, TypeOK
  <2>2. Excluded'
    BY <1>1, <1>3, <2>1 DEF IInv, Excluded
  <2>3. ReadersSeeTheCommitted'
    BY <1>2, <1>3, <2>1 DEF IInv, ReadersSeeTheCommitted
  <2>. QED
    BY <1>2, <1>4, <2>2, <2>3
<1>6. CASE ReadRefused(r) \/ BeginRead(r)
  <2>1. pc[r] = "sharing" /\ shared' = shared
        /\ pc'[r] \in {"unlocking", "reading"}
    BY <1>6 DEF ReadRefused, BeginRead, Goto, IInv, TypeOK, locks
  <2>2. Excluded'
    BY <1>1, <1>3, <2>1 DEF IInv, Excluded
  <2>3. pc'[r] = "reading" => view'[r] = Committed
    BY <1>6 DEF ReadRefused, BeginRead, Goto, IInv, TypeOK, Readable, Committed
  <2>4. \A q \in Readers \ {r} : view'[q] = view[q]
    BY <1>6 DEF ReadRefused, BeginRead, IInv, TypeOK
  <2>5. ReadersSeeTheCommitted'
    BY <1>2, <1>3, <2>3, <2>4 DEF IInv, ReadersSeeTheCommitted
  <2>. QED
    BY <1>2, <1>4, <2>2, <2>5
<1>7. CASE EndRead(r)
  <2>1. pc'[r] = "idle" /\ shared' = shared \ {r}
        /\ \A q \in Readers \ {r} : view'[q] = view[q]
    BY <1>7 DEF EndRead, Goto, IInv, TypeOK
  <2>2. Excluded'
    BY <1>1, <1>3, <2>1 DEF IInv, Excluded
  <2>3. ReadersSeeTheCommitted'
    BY <1>2, <1>3, <2>1 DEF IInv, ReadersSeeTheCommitted
  <2>. QED
    BY <1>2, <1>4, <2>2, <2>3
<1>. QED
  BY <1>5, <1>6, <1>7 DEF open_run_reader

LEMMA NextRecorded == IInv /\ [Next]_vars => Recorded'
<1>. SUFFICES ASSUME IInv, [Next]_vars PROVE Recorded'
  OBVIOUS
<1>. USE DEF Recorded, RecoveriesAreReal, files, locks, locals
<1>0. Recorded /\ kills \in Nat
  BY RunStoreAssumption DEF IInv, TypeOK
<1>1. CASE UNCHANGED vars
  BY <1>0, <1>1 DEF vars
<1>2. CASE \E r \in Readers : open_run_reader(r)
  BY <1>0, <1>2 DEF open_run_reader, ShareLock, ReadRefused, BeginRead, EndRead
<1>3. ASSUME NEW w \in Writers,
             open_run_store(w) \/ append_evaluation(w) \/ KillWriter(w)
      PROVE  Recorded'
  <2>1. CASE LockRefused(w) \/ Lock(w)
    BY <1>0, <2>1 DEF LockRefused, Lock
  <2>2. CASE WriteRecord(w)
    <3>1. exclusive = w
      BY <2>2, Alone DEF WriteRecord
    <3>. QED
      BY <1>0, <2>2, <3>1, RunStoreAssumption DEF WriteRecord
  <2>3. CASE Unlock(w)
    BY <1>0, <2>3 DEF Unlock, IInv, Works
  <2>4. CASE KillWriter(w)
    BY <1>0, <2>4 DEF KillWriter
  <2>5. CASE \/ TruncateRecord(w) \/ ClearRecord(w) \/ OpenRefused(w)
             \/ Connect(w) \/ CreateSchema(w) \/ Verify(w) \/ Close(w)
             \/ append_evaluation(w)
    BY <1>0, <2>5
    DEF TruncateRecord, ClearRecord, OpenRefused, Connect, CreateSchema, Verify,
        Close, append_evaluation, Insert, UpdateTip, Commit, Return
  <2>. QED
    BY <1>3, <2>1, <2>2, <2>3, <2>4, <2>5 DEF open_run_store
<1>. QED
  BY <1>1, <1>2, <1>3 DEF Next

LEMMA NextIInv == IInv /\ [Next]_vars => IInv'
<1>. SUFFICES ASSUME IInv, [Next]_vars PROVE IInv'
  OBVIOUS
<1>0. TypeOK' /\ Recorded'
  BY NextType, NextRecorded
<1>1. CASE UNCHANGED vars
  <2>1. file' = file /\ wal' = wal /\ pc' = pc /\ view' = view
        /\ exclusive' = exclusive /\ shared' = shared
        /\ transaction' = transaction /\ record' = record
    BY <1>1 DEF vars, files, locks, locals
  <2>2. Committed' = Committed /\ (LogHasFile /\ TipFollowsRows)'
    BY <2>1, SameFiles
  <2>. QED
    BY <1>0, <2>1, <2>2
    DEF IInv, Excluded, ReadersSeeTheCommitted, Works, Verifies
<1>2. CASE Next
  BY <1>0, <1>2, WriterKeepsContents, ReaderKeepsContents DEF Next, IInv
<1>. QED
  BY <1>1, <1>2

LEMMA Invariance == Spec => []IInv
BY InitIInv, NextIInv, PTL DEF Spec

(***************************************************************************)
(* Theorems                                                                *)
(***************************************************************************)
\* The files, the lock's record and the processes' memories keep their types:
\* no torn record is ever left in run.lock by a writer that goes on.
THEOREM TypeCorrectness == Spec => []TypeOK
<1>1. IInv => TypeOK
  BY DEF IInv
<1>. QED
  BY <1>1, Invariance, PTL

\* At whatever step writers are killed, and however often, the rows and the
\* tip that guards them agree in what is left.
THEOREM TipAlwaysFollowsRows == Spec => []TipFollowsRows
<1>1. IInv => TipFollowsRows
  BY DEF IInv
<1>. QED
  BY <1>1, Invariance, PTL

\* Every reader has the whole committed store as long as it reads.
THEOREM ReadersAlwaysSeeTheCommitted == Spec => []ReadersSeeTheCommitted
<1>1. IInv => ReadersSeeTheCommitted
  BY DEF IInv
<1>. QED
  BY <1>1, Invariance, PTL

\* No writer is told of a take-over unless some writer died.
THEOREM RecoveriesAreNotImagined == Spec => []RecoveriesAreReal
<1>1. IInv => RecoveriesAreReal
  BY DEF IInv, Recorded
<1>. QED
  BY <1>1, Invariance, PTL

(***************************************************************************)
(* Refinement                                                              *)
(***************************************************************************)
\* A step that leaves the committed rows and the acknowledgement alone is
\* none of the log's.
LEMMA Quiet ==
    ASSUME CommittedRows' = CommittedRows, acked' = acked
    PROVE  [Promise!Next]_<<CommittedRows, acked>>
OBVIOUS

LEMMA StepImplements ==
    IInv /\ [Next]_vars => [Promise!Next]_<<CommittedRows, acked>>
<1>. SUFFICES ASSUME IInv, [Next]_vars
              PROVE  [Promise!Next]_<<CommittedRows, acked>>
  OBVIOUS
<1>0. file' = file /\ wal' = wal => CommittedRows' = CommittedRows
  BY DEF CommittedRows, Committed
<1>1. CASE UNCHANGED vars
  BY <1>0, <1>1, Quiet DEF vars, files
<1>2. CASE \E r \in Readers : open_run_reader(r)
  BY <1>0, <1>2, Quiet
  DEF open_run_reader, ShareLock, ReadRefused, BeginRead, EndRead, files
<1>3. ASSUME NEW w \in Writers,
             open_run_store(w) \/ append_evaluation(w) \/ KillWriter(w)
      PROVE  [Promise!Next]_<<CommittedRows, acked>>
  <2>0. Works(w)
    BY DEF IInv
  <2>1. CASE \/ LockRefused(w) \/ Lock(w) \/ TruncateRecord(w) \/ WriteRecord(w)
             \/ OpenRefused(w) \/ Verify(w) \/ ClearRecord(w) \/ Unlock(w)
             \/ Insert(w) \/ UpdateTip(w) \/ KillWriter(w)
    BY <1>0, <2>1, Quiet
    DEF LockRefused, Lock, TruncateRecord, WriteRecord, OpenRefused, Verify,
        ClearRecord, Unlock, Insert, UpdateTip, KillWriter, files
  <2>2. CASE Connect(w)
    <3>1. acked' = acked /\ wal' = wal
          /\ (file = None => wal = None /\ file' = Blank)
          /\ (file # None => file' = file)
      BY <2>2 DEF Connect
    <3>2. CASE file = None
      BY <3>1, <3>2, Quiet, Blanks, NoneIsNoDatabase
      DEF CommittedRows, Committed, Blank
    <3>. QED
      BY <1>0, <3>1, <3>2, Quiet
  <2>3. CASE CreateSchema(w)
    <3>1. /\ acked' = acked /\ wal' = Genesis /\ file = Blank /\ wal = None
      BY <2>0, <2>3 DEF CreateSchema, Works
    <3>. QED
      BY <3>1, Quiet, Blanks, NoneIsNoDatabase
      DEF CommittedRows, Committed, Blank, Genesis
  <2>4. CASE Close(w)
    <3>1. acked' = acked /\ file' = Committed /\ wal' = None
      BY <2>4 DEF Close
    <3>2. Committed' = Committed
      BY <3>1 DEF Committed
    <3>. QED
      BY <3>1, <3>2, Quiet DEF CommittedRows
  <2>5. CASE Commit(w)
    <3>1. /\ wal' = transaction[w] /\ acked' = acked
          /\ wal' # None /\ file # None
      BY <2>0, <2>5 DEF Commit, Works, Opened
    <3>2. Committed # None
      BY <3>1 DEF Committed
    <3>3. CommittedRows = Committed.rows /\ CommittedRows' = transaction[w].rows
      BY <3>1, <3>2 DEF CommittedRows, Committed
    <3>4. /\ Len(CommittedRows) < Length
          /\ \E v \in Values : CommittedRows' = Append(CommittedRows, v)
      BY <2>0, <2>5, <3>3 DEF Commit, Works
    <3>. QED
      BY <3>1, <3>4 DEF Promise!Next, Promise!Commit
  <2>6. CASE Return(w)
    <3>1. /\ acked' = Committed.rows /\ file' = file /\ wal' = wal
          /\ Committed # None
      BY <2>0, <2>6 DEF Return, Works, Opened, files, Committed
    <3>2. acked' = CommittedRows
      BY <3>1 DEF CommittedRows
    <3>. QED
      BY <1>0, <3>1, <3>2 DEF Promise!Next, Promise!Acknowledge
  <2>. QED
    BY <1>3, <2>1, <2>2, <2>3, <2>4, <2>5, <2>6
    DEF open_run_store, append_evaluation
<1>. QED
  BY <1>1, <1>2, <1>3 DEF Next

\* The run store implements the abstract log: rows are appended one by one,
\* and none that append_evaluation returned is ever taken back by a kill.
THEOREM RowsAreACommitLog == Spec => ImplementsCommitLog
<1>1. Init => Promise!Init
  BY DEF Init, Promise!Init, CommittedRows, Committed
<1>2. IInv /\ [Next]_vars => [Promise!Next]_(Promise!vars)
  BY StepImplements DEF Promise!vars
<1>. QED
  BY <1>1, <1>2, Invariance, PTL DEF Spec, ImplementsCommitLog, Promise!Spec
=============================================================================
