------------------------------ MODULE Journal ------------------------------
(* The runtime journal of a run (runtime_journal.py): every committed attempt *)
(* is a record that holds the change of the run's state since the one before, *)
(* or a compact snapshot every Interval records; no record holds the attempts *)
(* before its own. A restart replays the chain. The transaction of an attempt *)
(* holds the same change, and is restored against the replayed state.         *)
(* A JSON value is a number, a name, a list or an object; a hash is the value *)
(* it was computed from. How records reach the disk is CheckpointStore.       *)
EXTENDS Integers, Sequences, FiniteSets, SequencesExt

CONSTANTS
  Fields,    \* the names of the entries of dictionaries
  Bodies,    \* search states of a run, as JSON values
  Levels,    \* bound: how deep they are nested; apply_delta follows 100
  Interval,  \* records between compact snapshots (INTERVAL)
  MaxSteps   \* bound: committed attempts

VARIABLES
  journal,      \* the committed chain: one record per checkpoint
  transaction,  \* the published transaction of the next attempt, or <<>>
  held,         \* the state of a running coordinator: <<state>>, or <<>>
  ahead,        \* the next state it is about to commit, or <<>>
  reached,      \* history: the state that was committed last
  intended      \* history: the state the transaction was made of

journalVars == <<journal, transaction, held, ahead, reached, intended>>

----------------------------------------------------------------------------
(* JSON values.  Json[d] are those of at most d levels.  A dictionary gives  *)
(* every name an entry, or NoEntry.                                          *)

Num(n) == [number |-> n]
Text(k) == [name |-> k]
List(s) == [list |-> s]
Object(f) == [object |-> f]
Pair(k, v) == List(<<Text(k), v>>)
NoEntry == [absent |-> TRUE]

Plain == [number : Int] \cup [name : Fields]
Json[d \in 0 .. Levels] ==
  IF d = 0 THEN Plain
  ELSE Plain \cup [list : Seq(Json[d - 1])]
             \cup [object : [Fields -> Json[d - 1] \cup {NoEntry}]]

IsList(v) == "list" \in DOMAIN v
IsObject(v) == "object" \in DOMAIN v
KeyOf(pair) == pair.list[1].name
NamesIn(entries) == {k \in Fields : entries[k] # NoEntry}

\* keyed: a list of pairs with distinct names, such as the weight cache, whose
\* order is that of use.
IsKeyed(v) ==
  /\ IsList(v) /\ v.list # <<>>
  /\ \A i \in DOMAIN v.list :
       /\ IsList(v.list[i]) /\ Len(v.list[i].list) = 2
       /\ "name" \in DOMAIN v.list[i].list[1]
  /\ \A i, j \in DOMAIN v.list : KeyOf(v.list[i]) = KeyOf(v.list[j]) => i = j
AsObject(v) ==
  Object([k \in Fields |->
            IF \E i \in DOMAIN v.list : KeyOf(v.list[i]) = k
              THEN v.list[CHOOSE i \in DOMAIN v.list : KeyOf(v.list[i]) = k].list[2]
              ELSE NoEntry])
OrderOf(v) == [i \in DOMAIN v.list |-> KeyOf(v.list[i])]

----------------------------------------------------------------------------
(* delta and apply_delta, by the levels of what they compare and change.   *)

Delta[d \in 0 .. Levels] ==
  IF d = 0 THEN [before \in Json[0] |-> [after \in Json[0] |-> [replace |-> after]]]
  ELSE [before \in Json[d] |-> [after \in Json[d] |->
    IF IsObject(before) /\ IsObject(after)
      THEN LET old == before.object
               new == after.object
           IN  [changed |-> [k \in Fields |->
                   IF new[k] = NoEntry \/ new[k] = old[k] THEN NoEntry
                   ELSE IF old[k] = NoEntry THEN [replace |-> new[k]]
                   ELSE Delta[d - 1][old[k]][new[k]]],
                remove |-> NamesIn(old) \ NamesIn(new)]
    ELSE IF IsList(before) /\ IsList(after) /\ IsPrefix(before.list, after.list)
      THEN [append |-> SubSeq(after.list, Len(before.list) + 1, Len(after.list))]
    ELSE IF IsKeyed(before) /\ IsKeyed(after)
      THEN [keyed |-> Delta[d - 1][AsObject(before)][AsObject(after)],
            order |-> OrderOf(after)]
    ELSE [replace |-> after]]]

\* What delta may say of values of d levels.
Changes[d \in 0 .. Levels] ==
  IF d = 0 THEN [replace : Json[d]]
  ELSE [replace : Json[d]] \cup [append : Seq(Json[d - 1])]
       \cup [keyed : Changes[d - 1], order : Seq(Fields)]
       \cup [changed : [Fields -> Changes[d - 1] \cup {NoEntry}],
             remove : SUBSET Fields]

\* Mutant: the entries come back in the order of the dictionary.
AsStored(values, order) ==
  List([i \in DOMAIN order |->
          LET k == SetToSeq(NamesIn(values))[i] IN Pair(k, values[k])])

InOrder(values, order) ==
  List([i \in DOMAIN order |-> Pair(order[i], values[order[i]])])

\* What apply_delta raises ValueError for is no value of a state.
Invalid == [invalid |-> TRUE]

Apply[d \in 0 .. Levels] ==
  IF d = 0 THEN [before \in Json[0] |-> [change \in Changes[0] |-> change.replace]]
  ELSE [before \in Json[d] |-> [change \in Changes[d] |->
    IF "replace" \in DOMAIN change THEN change.replace
    ELSE IF "append" \in DOMAIN change /\ IsList(before)
      THEN List(before.list \o change.append)
    ELSE IF "order" \in DOMAIN change /\ IsKeyed(before)
      THEN LET result == Apply[d - 1][AsObject(before)][change.keyed]
           IN  IF /\ IsInjective(change.order) /\ IsObject(result)
                  /\ NamesIn(result.object) = ToSet(change.order)
               THEN InOrder(result.object, change.order) ELSE Invalid
    ELSE IF /\ "remove" \in DOMAIN change /\ IsObject(before)
            /\ change.remove \subseteq NamesIn(before.object) \ NamesIn(change.changed)
      THEN LET old == before.object
               new == change.changed
           IN  Object([k \in Fields |->
                 IF k \in change.remove THEN NoEntry
                 ELSE IF new[k] = NoEntry THEN old[k]
                 ELSE IF old[k] # NoEntry THEN Apply[d - 1][old[k]][new[k]]
                 ELSE IF "replace" \in DOMAIN new[k] THEN new[k].replace
                 ELSE Invalid])
    ELSE Invalid]]

----------------------------------------------------------------------------
(* States of a run, their transitions and the records of them.             *)

Completed(s) == s.compact.object.completed.number

RunState(n, tip, body, done) ==
  [compact |-> Object([k \in Fields |->
      CASE k = "completed" -> Num(n)
        [] k = "tip" -> Num(tip)
        [] k = "search" -> body
        [] OTHER -> NoEntry]),
   attempts |-> done]

\* Nothing of a state is nested deeper than its compact form.
ASSUME JournalAssumption ==
  /\ Interval \in Nat \ {0} /\ MaxSteps \in Nat
  /\ Levels \in 1 .. 100 /\ Bodies \subseteq Json[Levels - 1]
  /\ {"completed", "tip", "search"} \subseteq Fields

\* compact and transition: one attempt more, and the attempts before it kept.
Extends(before, after) ==
  /\ Completed(after) = Completed(before) + 1
  /\ Front(after.attempts) = before.attempts
  /\ Len(after.attempts) = Completed(after)
Change(before, after) ==
  [delta |-> <<Delta[Levels][before.compact][after.compact]>>,
   attempt |-> Last(after.attempts)]

Restore(s, change) ==
  [compact |-> Apply[Levels][s.compact][change.delta[1]],
   attempts |-> Append(s.attempts, change.attempt)]

SnapshotDue(n) == n % Interval = 0

InitialRecord(s) ==
  [snapshot |-> <<s.compact>>, change |-> <<>>, before |-> <<>>, after |-> s]
ChangeRecord(before, after) ==
  LET due == SnapshotDue(Completed(after))
      change == Change(before, after)
  IN  [snapshot |-> IF due THEN <<after.compact>> ELSE <<>>,
       change |-> <<IF due THEN [change EXCEPT !.delta = <<>>] ELSE change>>,
       before |-> <<before>>, after |-> after]

\* What a run from before the journal left: the whole state in one checkpoint.
IsLegacy(record) == "state" \in DOMAIN record
Hash(record) == IF IsLegacy(record) THEN record.state ELSE record.after

\* load_runtime_checkpoint: the state after record k, <<>> when it is refused.
Replayed[k \in DOMAIN journal] ==
  LET r == journal[k]
      prior == Replayed[k - 1]
      first == [compact |-> r.snapshot[1], attempts |-> <<>>]
      next == IF r.snapshot # <<>>
              THEN [compact |-> r.snapshot[1],
                    attempts |-> Append(prior[1].attempts, r.change[1].attempt)]
              ELSE Restore(prior[1], r.change[1])
  IN  IF IsLegacy(r) THEN <<r.state>>
      ELSE IF k = 1
        THEN IF Completed(first) = 0 /\ r.after = first THEN <<first>> ELSE <<>>
      ELSE IF /\ prior # <<>> /\ r.before = prior
              /\ next = r.after
              /\ Completed(next) = Completed(prior[1]) + 1
              /\ (r.snapshot # <<>>) = SnapshotDue(Completed(next))
        THEN <<next>> ELSE <<>>

\* load_transaction: in the form of the journal, or the whole state.
Recovered(s, t) ==
  IF t.before # s THEN <<>>
  ELSE IF IsLegacy(t) THEN IF Extends(s, t.state) THEN <<t.state>> ELSE <<>>
  ELSE LET next == Restore(s, t.change)
       IN  IF next = t.after THEN <<next>> ELSE <<>>

----------------------------------------------------------------------------

First(body) == RunState(0, 0, body, <<>>)
Second(body) == RunState(1, 0, body, <<1>>)

\* publish_initial, or a run whose first checkpoint and transaction are older
\* than the journal.
JournalInit ==
  \E body \in Bodies, old \in BOOLEAN :
    /\ journal = <<IF old THEN [state |-> First(body)]
                          ELSE InitialRecord(First(body))>>
    /\ transaction = IF old THEN <<[before |-> First(body),
                                    state |-> Second(body)]>> ELSE <<>>
    /\ intended = IF old THEN <<Second(body)>> ELSE <<>>
    /\ reached = First(body)
    /\ held = <<>> /\ ahead = <<>>

\* load_runtime_checkpoint at the beginning of an invocation.
Reopen ==
  /\ held = <<>>
  /\ held' = Replayed[Len(journal)]
  /\ held' # <<>>
  /\ UNCHANGED <<journal, transaction, ahead, reached, intended>>

\* An attempt is trained and observed; publish_transaction. The row that is
\* not written yet gives the next state its tip only when it is committed.
PublishChange ==
  /\ held # <<>> /\ ahead = <<>> /\ transaction = <<>>
  /\ Completed(held[1]) < MaxSteps
  /\ \E body \in Bodies :
       LET s == held[1]
           step == Completed(s) + 1
           next == RunState(step, s.compact.object.tip.number, body,
                            Append(s.attempts, step))
       IN  /\ ahead' = <<next>>
           /\ transaction' = <<[before |-> s, after |-> next,
                                change |-> Change(s, next)]>>
           /\ intended' = <<next>>
  /\ UNCHANGED <<journal, held, reached>>

\* A transaction that was left behind is taken up.
Recover ==
  /\ held # <<>> /\ ahead = <<>> /\ transaction # <<>>
  /\ ahead' = Recovered(held[1], transaction[1]) /\ ahead' # <<>>
  /\ UNCHANGED <<journal, transaction, held, reached, intended>>

\* JournalPublication and its commit: the next state, with the tip of its row.
CommitRecord ==
  /\ held # <<>> /\ ahead # <<>>
  /\ held[1] = Hash(Last(journal))
  /\ LET step == Completed(ahead[1])
         next == [ahead[1] EXCEPT !.compact.object.tip = Num(step)]
     IN  /\ Extends(held[1], next)
         /\ journal' = Append(journal, ChangeRecord(held[1], next))
         /\ held' = <<next>> /\ reached' = next
  /\ ahead' = <<>> /\ transaction' = <<>> /\ intended' = <<>>

\* The coordinator is killed, or its invocation ends.
Stop ==
  /\ held # <<>>
  /\ held' = <<>> /\ ahead' = <<>>
  /\ UNCHANGED <<journal, transaction, reached, intended>>

JournalNext == Reopen \/ PublishChange \/ Recover \/ CommitRecord \/ Stop

JournalSpec == JournalInit /\ [][JournalNext]_journalVars

\* Whenever a run is killed, what its snapshots and changes replay to is the
\* state that was committed, every attempt once and every list in its order,
\* and the transaction restores the state it was made of: no check of
\* load_runtime_checkpoint or load_transaction refuses what the run wrote.
JournalReplays ==
  journal # <<>> =>
    /\ Replayed[Len(journal)] = <<reached>>
    /\ transaction # <<>> => Recovered(reached, transaction[1]) = intended
=============================================================================
