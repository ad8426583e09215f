--------------------------- MODULE GuardianProofs ---------------------------
(***************************************************************************)
(* Proofs about the training guardian, for any number of guardian          *)
(* processes, comparisons, kills and faults.                               *)
(*                                                                         *)
(* The lock makes at most one guardian serve at any time, so the inductive *)
(* invariant IInv names that one: every other guardian is idle, and all    *)
(* the rest of the invariant is about the one named, the child it may have *)
(* started and control.json.  The proof that a step keeps IInv goes by     *)
(* what the step does to that guardian: it returns (Returns), it goes on   *)
(* (Proceeds), or something beside it moves (Beside, Exits, ElapseKeeps).  *)
(***************************************************************************)
EXTENDS Guardian, TLAPS

Modes == {"observe", "managed", "repair", "blocked", "complete"}
Steps == {"idle", "look", "probe", "launch", "session", "after", "final",
          "complete", "note", "repair", "block", "codex", "repairing"}
States == [mode : Modes, target : Targets, error : Errors \union {None},
           counts : [Errors -> Nat], repairs : Nat, waiting : BOOLEAN]
Ticks == [pc : Steps, state : States \union {None}, before : Nat]
Children == [kind : {"none", "campaign", "repair"}, target : Nat,
             running : BOOLEAN, ran : BOOLEAN, start : Nat,
             code : {"none", "ok", "failed", "resume", "replace"}]

Repairs == [tried : Nat, begun : [Errors -> Nat], failed : [Errors -> Nat],
            awaiting : Errors \union {None}]
Budgets == [kills : Nat, faults : Nat, late : Nat]

TypeOK ==
    /\ control \in States
    /\ receipt \in Targets \union {None}
    /\ tick \in [Guardians -> Ticks]
    /\ child \in Children
    /\ lock \subseteq Guardians \union {"child"}
    /\ exported \in [Targets -> Nat] /\ completed \in [Targets -> Nat]
    /\ engine \subseteq Targets
    /\ budget \in Budgets
    /\ repairs \in Repairs

Serves(g) == tick[g].pc # "idle"
Waits(g) == tick[g].pc \in {"session", "repairing"}

\* Nobody but g serves; the lock is held by g if it serves, and by the child
\* while it runs.
Holds(g) ==
    /\ \A h \in Guardians \ {g} : ~Serves(h)
    /\ lock \subseteq {g, "child"}
    /\ Serves(g) <=> g \in lock
    /\ "child" \in lock <=> (child.kind # "none" /\ child.code = "none")

\* A guardian that serves has the child it waits for, and no other one.
HasChild(g) ==
    /\ tick[g].pc = "session" => child.kind = "campaign"
    /\ tick[g].pc = "repairing" => child.kind = "repair"
    /\ Serves(g) /\ ~Waits(g) => child.kind = "none"
    /\ child.code # "none" => Waits(g)

\* What a guardian remembers is what the file says.
Remembers(g) == Serves(g) =>
    /\ State(g) \in States
    /\ State(g).counts = control.counts
    /\ State(g).repairs = control.repairs
    /\ State(g).target = control.target

\* A repair has an error to repair.
HasError(g) ==
    /\ control.mode = "repair" => control.error \in Errors
    /\ \/ Serves(g) /\ State(g).mode = "repair"
       \/ tick[g].pc \in {"repair", "block", "codex", "repairing"}
       => State(g).error \in Errors

\* A repair is about to begin only when it has been counted.
MayRepair(g) == tick[g].pc = "codex" =>
    /\ repairs.tried < control.repairs /\ control.repairs <= MaxRepairs
    /\ repairs.begun[State(g).error] < control.counts[State(g).error]
    /\ control.counts[State(g).error] <= SameLimit

Sole(g) ==
    Holds(g) /\ HasChild(g) /\ Remembers(g) /\ HasError(g) /\ MayRepair(g)

TargetTrains ==
    /\ engine \subseteq {control.target}
    /\ child.kind = "campaign" => child.target = control.target

RepairsAreCounted ==
    /\ repairs.tried <= control.repairs /\ repairs.tried <= MaxRepairs
    /\ \A e \in Errors :
         repairs.begun[e] <= control.counts[e] /\ repairs.begun[e] <= SameLimit

Inv(g) == TypeOK /\ Sole(g) /\ TargetTrains /\ RepairsAreCounted

IInv == \E g \in Guardians : Inv(g)

\* A guardian that serves is the one IInv names.
LEMMA Serving ==
    ASSUME IInv, NEW g \in Guardians, tick[g].pc # "idle"
    PROVE  Inv(g)
BY DEF IInv, Inv, Sole, Holds, Serves

\* Under the lock of nobody any guardian will do.
LEMMA NobodyServing ==
    ASSUME IInv, NEW g \in Guardians, lock = {}
    PROVE  Inv(g)
<1>1. PICK h \in Guardians : Inv(h)
  BY DEF IInv
<1>2. \A k \in Guardians : ~Serves(k)
  BY <1>1 DEF Inv, Sole, Holds
<1>3. child.kind = "none" /\ child.code = "none"
  BY <1>1, <1>2 DEF Inv, Sole, Holds, HasChild, TypeOK, Children, Serves,
     Waits
<1> QED
  BY <1>1, <1>2, <1>3, GuardianAssumption DEF Inv, Sole, Holds, HasChild,
     Remembers, HasError, MayRepair, Serves, Waits

----------------------------------------------------------------------------
\* What Fail writes, whatever the error is.
LEMMA FailedState ==
    ASSUME NEW g \in Guardians, IInv, tick[g].pc # "idle", NEW e \in Errors,
           control' = [State(g) EXCEPT !.mode = "repair", !.error = e]
    PROVE  /\ control' \in States /\ control'.error \in Errors
           /\ control'.target = control.target
           /\ control'.counts = control.counts
           /\ control'.repairs = control.repairs
<1>1. Inv(g)
  BY Serving
<1> QED
  BY <1>1 DEF Inv, Sole, Remembers, Serves, States, Modes

LEMMA FaultType ==
    ASSUME TypeOK, NEW kind \in {"kills", "faults", "late"}, Fault(kind)
    PROVE  budget' \in Budgets
BY DEF TypeOK, Fault, Budgets

\* A tick ends: its guardian is idle again, its child is gone or goes on alone,
\* and control.json has the same counters and, unless nothing trains, target.
LEMMA Returns ==
    ASSUME NEW g \in Guardians, IInv, tick[g].pc # "idle",
           tick' \in [Guardians -> Ticks], tick'[g].pc = "idle",
           \A h \in Guardians \ {g} : tick'[h] = tick[h],
           lock' \subseteq lock \ {g},
           child' = child \/ child' = NoChild,
           child'.code = "none",
           "child" \in lock' <=> child'.kind # "none",
           control' \in States,
           control'.mode = "repair" => control'.error \in Errors,
           control'.counts = control.counts, control'.repairs = control.repairs,
           \/ control'.target = control.target
           \/ control'.target \in Targets /\ engine = {} /\ child' = NoChild,
           engine' \subseteq engine,
           receipt' = receipt, exported' = exported, completed' = completed,
           budget' \in Budgets, repairs' \in Repairs,
           repairs'.begun = repairs.begun, repairs'.tried = repairs.tried
    PROVE  IInv'
<1> USE GuardianAssumption
<1>1. NoChild \in Children /\ NoChild.kind = "none"
  BY DEF NoChild, Children
<1>2. Inv(g)
  BY Serving
<1>4. TypeOK'
  BY <1>1, <1>2 DEF Inv, TypeOK, Budgets, Repairs
<1>5. Holds(g)'
  BY <1>2 DEF Inv, Sole, Holds, Serves
<1>6. HasChild(g)' /\ Remembers(g)' /\ HasError(g)' /\ MayRepair(g)'
  BY <1>2 DEF HasChild, Remembers, HasError, MayRepair, Serves
<1>7. TargetTrains'
  BY <1>1, <1>2 DEF Inv, TargetTrains
<1>8. RepairsAreCounted'
  BY <1>2 DEF Inv, RepairsAreCounted
<1> QED
  BY <1>4, <1>5, <1>6, <1>7, <1>8 DEF IInv, Inv, Sole

LEMMA IdleTick == Idle \in Ticks /\ Idle.pc = "idle"
BY DEF Idle, Ticks, Steps

LEMMA ObserveKeeps ==
    ASSUME IInv, NEW g \in Guardians,
           Observe(g) \/ BackOff(g) \/ NoteTerminal(g)
    PROVE  IInv'
<1>1. tick[g].pc # "idle"
  BY DEF Observe, BackOff, NoteTerminal
<1> Inv(g)
  BY <1>1, Serving
<1>2. /\ tick' \in [Guardians -> Ticks] /\ tick'[g].pc = "idle"
      /\ \A h \in Guardians \ {g} : tick'[h] = tick[h]
  BY IdleTick DEF Observe, BackOff, NoteTerminal, Return, Inv, TypeOK
<1>3. /\ lock' \subseteq lock \ {g}
      /\ child' = child \/ child' = NoChild
      /\ child'.code = "none"
      /\ "child" \in lock' <=> child'.kind # "none"
  BY DEF Observe, BackOff, NoteTerminal, Return, NoChild, Inv, TypeOK,
     Children, Sole, Holds, HasChild, Serves, Waits
<1>4. control' = control
  BY DEF Observe, BackOff, NoteTerminal, Return
<1>5. /\ control \in States
      /\ control.mode = "repair" => control.error \in Errors
  BY DEF Inv, TypeOK, Sole, HasError
<1>6. /\ engine' \subseteq engine /\ receipt' = receipt
      /\ exported' = exported /\ completed' = completed
      /\ repairs' = repairs /\ repairs \in Repairs
  BY DEF Observe, BackOff, NoteTerminal, Return, comparisons, Inv, TypeOK
<1>7. budget' \in Budgets
  BY DEF Observe, BackOff, NoteTerminal, Return, Inv, TypeOK
<1> QED
  BY <1>1, <1>2, <1>3, <1>4, <1>5, <1>6, <1>7, Returns

LEMMA RetryLaterKeeps ==
    ASSUME IInv, NEW g \in Guardians, RetryLater(g)
    PROVE  IInv'
<1>1. tick[g].pc # "idle"
  BY DEF RetryLater
<1> Inv(g)
  BY <1>1, Serving
<1>2. /\ tick' \in [Guardians -> Ticks] /\ tick'[g].pc = "idle"
      /\ \A h \in Guardians \ {g} : tick'[h] = tick[h]
  BY IdleTick DEF RetryLater, Return, Inv, TypeOK
<1>3. /\ lock' \subseteq lock \ {g}
      /\ child' = child \/ child' = NoChild
      /\ child'.code = "none"
      /\ "child" \in lock' <=> child'.kind # "none"
  BY DEF RetryLater, Return, NoChild, Inv, TypeOK, Children, Sole, Holds,
     HasChild, Serves, Waits
<1>4. control' = control
  BY DEF RetryLater, Return
<1>5. /\ control \in States
      /\ control.mode = "repair" => control.error \in Errors
  BY DEF Inv, TypeOK, Sole, HasError
<1>6. /\ engine' \subseteq engine /\ receipt' = receipt
      /\ exported' = exported /\ completed' = completed
      /\ repairs' = repairs /\ repairs \in Repairs
  BY DEF RetryLater, Return, comparisons, Inv, TypeOK
<1>7. budget' \in Budgets
  BY DEF RetryLater, Return, Inv, TypeOK
<1> QED
  BY <1>1, <1>2, <1>3, <1>4, <1>5, <1>6, <1>7, Returns

LEMMA KilledKeeps ==
    ASSUME IInv, NEW g \in Guardians, Killed(g)
    PROVE  IInv'
<1>1. tick[g].pc # "idle"
  BY DEF Killed
<1> Inv(g)
  BY <1>1, Serving
<1>2. /\ tick' \in [Guardians -> Ticks] /\ tick'[g].pc = "idle"
      /\ \A h \in Guardians \ {g} : tick'[h] = tick[h]
  BY IdleTick DEF Killed, Return, Fault, Inv, TypeOK
<1>3. /\ lock' \subseteq lock \ {g}
      /\ child' = child \/ child' = NoChild
      /\ child'.code = "none"
      /\ "child" \in lock' <=> child'.kind # "none"
  BY GuardianAssumption DEF Killed, Return, Fault, NoChild, Inv, TypeOK,
     Children, Sole, Holds, HasChild, Serves, Waits
<1>4. control' = control
  BY DEF Killed, Return, Fault
<1>5. /\ control \in States
      /\ control.mode = "repair" => control.error \in Errors
  BY DEF Inv, TypeOK, Sole, HasError
<1>6. /\ engine' \subseteq engine /\ receipt' = receipt
      /\ exported' = exported /\ completed' = completed
      /\ repairs' = repairs /\ repairs \in Repairs
  BY DEF Killed, Return, comparisons, Inv, TypeOK
<1>7. budget' \in Budgets
  BY FaultType DEF Killed, Return, Inv, TypeOK
<1> QED
  BY <1>1, <1>2, <1>3, <1>4, <1>5, <1>6, <1>7, Returns

LEMMA StopStalledKeeps ==
    ASSUME IInv, NEW g \in Guardians, StopStalled(g)
    PROVE  IInv'
<1>1. tick[g].pc # "idle"
  BY DEF StopStalled
<1> Inv(g)
  BY <1>1, Serving
<1>2. /\ tick' \in [Guardians -> Ticks] /\ tick'[g].pc = "idle"
      /\ \A h \in Guardians \ {g} : tick'[h] = tick[h]
  BY IdleTick DEF StopStalled, Fail, Return, Fault, Inv, TypeOK
<1>3. /\ lock' \subseteq lock \ {g}
      /\ child' = child \/ child' = NoChild
      /\ child'.code = "none"
      /\ "child" \in lock' <=> child'.kind # "none"
  BY DEF StopStalled, Fail, Return, Fault, NoChild, Inv, TypeOK, Children,
     Sole, Holds, HasChild, Serves, Waits
<1>4. control' = [State(g) EXCEPT !.mode = "repair", !.error = "stalled"]
  BY DEF StopStalled, Fail, Return, Fault
<1>5. /\ control' \in States /\ control'.error \in Errors
      /\ control'.target = control.target
      /\ control'.counts = control.counts
      /\ control'.repairs = control.repairs
  BY <1>1, <1>4, FailedState DEF Errors
<1>6. /\ engine' \subseteq engine /\ receipt' = receipt
      /\ exported' = exported /\ completed' = completed
      /\ repairs' = repairs /\ repairs \in Repairs
  BY DEF StopStalled, Fail, Return, comparisons, Inv, TypeOK
<1>7. budget' \in Budgets
  BY FaultType DEF StopStalled, Fail, Return, Inv, TypeOK
<1> QED
  BY <1>1, <1>2, <1>3, <1>4, <1>5, <1>6, <1>7, Returns

LEMMA ProbeFailsKeeps ==
    ASSUME IInv, NEW g \in Guardians, ProbeFails(g)
    PROVE  IInv'
<1>1. tick[g].pc # "idle"
  BY DEF ProbeFails
<1> Inv(g)
  BY <1>1, Serving
<1>2. /\ tick' \in [Guardians -> Ticks] /\ tick'[g].pc = "idle"
      /\ \A h \in Guardians \ {g} : tick'[h] = tick[h]
  BY IdleTick DEF ProbeFails, Fail, Return, Fault, Inv, TypeOK
<1>3. /\ lock' \subseteq lock \ {g}
      /\ child' = child \/ child' = NoChild
      /\ child'.code = "none"
      /\ "child" \in lock' <=> child'.kind # "none"
  BY DEF ProbeFails, Fail, Return, Fault, NoChild, Inv, TypeOK, Children,
     Sole, Holds, HasChild, Serves, Waits
<1>4. control' = [State(g) EXCEPT !.mode = "repair", !.error = "probe"]
  BY DEF ProbeFails, Fail, Return, Fault
<1>5. /\ control' \in States /\ control'.error \in Errors
      /\ control'.target = control.target
      /\ control'.counts = control.counts
      /\ control'.repairs = control.repairs
  BY <1>1, <1>4, FailedState DEF Errors
<1>6. /\ engine' \subseteq engine /\ receipt' = receipt
      /\ exported' = exported /\ completed' = completed
      /\ repairs' = repairs /\ repairs \in Repairs
  BY DEF ProbeFails, Fail, Return, comparisons, Inv, TypeOK
<1>7. budget' \in Budgets
  BY FaultType DEF ProbeFails, Fail, Return, Inv, TypeOK
<1> QED
  BY <1>1, <1>2, <1>3, <1>4, <1>5, <1>6, <1>7, Returns

LEMMA SupervisorStoppedKeeps ==
    ASSUME IInv, NEW g \in Guardians, SupervisorStopped(g)
    PROVE  IInv'
<1>1. tick[g].pc # "idle"
  BY DEF SupervisorStopped
<1> Inv(g)
  BY <1>1, Serving
<1>2. /\ tick' \in [Guardians -> Ticks] /\ tick'[g].pc = "idle"
      /\ \A h \in Guardians \ {g} : tick'[h] = tick[h]
  BY IdleTick DEF SupervisorStopped, Fail, Return, Inv, TypeOK
<1>3. /\ lock' \subseteq lock \ {g}
      /\ child' = child \/ child' = NoChild
      /\ child'.code = "none"
      /\ "child" \in lock' <=> child'.kind # "none"
  BY DEF SupervisorStopped, Fail, Return, NoChild, Inv, TypeOK, Children,
     Sole, Holds, HasChild, Serves, Waits
<1>4. control' = [State(g) EXCEPT !.mode = "repair",
                                  !.error = "supervisor stopped"]
  BY DEF SupervisorStopped, Fail, Return
<1>5. /\ control' \in States /\ control'.error \in Errors
      /\ control'.target = control.target
      /\ control'.counts = control.counts
      /\ control'.repairs = control.repairs
  BY <1>1, <1>4, FailedState DEF Errors
<1>6. /\ engine' \subseteq engine /\ receipt' = receipt
      /\ exported' = exported /\ completed' = completed
      /\ repairs' = repairs /\ repairs \in Repairs
  BY DEF SupervisorStopped, Fail, Return, comparisons, Inv, TypeOK
<1>7. budget' \in Budgets
  BY DEF SupervisorStopped, Fail, Return, Inv, TypeOK
<1> QED
  BY <1>1, <1>2, <1>3, <1>4, <1>5, <1>6, <1>7, Returns

LEMMA SessionTimesOutKeeps ==
    ASSUME IInv, NEW g \in Guardians, SessionTimesOut(g)
    PROVE  IInv'
<1>1. tick[g].pc # "idle"
  BY DEF SessionTimesOut
<1> Inv(g)
  BY <1>1, Serving
<1>2. /\ tick' \in [Guardians -> Ticks] /\ tick'[g].pc = "idle"
      /\ \A h \in Guardians \ {g} : tick'[h] = tick[h]
  BY IdleTick DEF SessionTimesOut, Fault, Inv, TypeOK
<1>3. /\ lock' \subseteq lock \ {g}
      /\ child' = child \/ child' = NoChild
      /\ child'.code = "none"
      /\ "child" \in lock' <=> child'.kind # "none"
  BY DEF SessionTimesOut, Fault, NoChild, Inv, TypeOK, Children, Sole,
     Holds, HasChild, Serves, Waits
<1>4. control' = [State(g) EXCEPT !.mode = "repair", !.error = "timeout"]
  BY DEF SessionTimesOut, Fault
<1>5. /\ control' \in States /\ control'.error \in Errors
      /\ control'.target = control.target
      /\ control'.counts = control.counts
      /\ control'.repairs = control.repairs
  BY <1>1, <1>4, FailedState DEF Errors
<1>6. /\ engine' \subseteq engine /\ receipt' = receipt
      /\ exported' = exported /\ completed' = completed
      /\ repairs' = repairs /\ repairs \in Repairs
  BY DEF SessionTimesOut, comparisons, Inv, TypeOK
<1>7. budget' \in Budgets
  BY FaultType DEF SessionTimesOut, Inv, TypeOK
<1> QED
  BY <1>1, <1>2, <1>3, <1>4, <1>5, <1>6, <1>7, Returns

LEMMA RepairTimesOutKeeps ==
    ASSUME IInv, NEW g \in Guardians, RepairTimesOut(g)
    PROVE  IInv'
<1>1. tick[g].pc # "idle"
  BY DEF RepairTimesOut
<1> Inv(g)
  BY <1>1, Serving
<1>2. /\ tick' \in [Guardians -> Ticks] /\ tick'[g].pc = "idle"
      /\ \A h \in Guardians \ {g} : tick'[h] = tick[h]
  BY IdleTick DEF RepairTimesOut, Fault, Inv, TypeOK
<1>3. /\ lock' \subseteq lock \ {g}
      /\ child' = child \/ child' = NoChild
      /\ child'.code = "none"
      /\ "child" \in lock' <=> child'.kind # "none"
  BY DEF RepairTimesOut, Fault, NoChild, Inv, TypeOK, Children, Sole, Holds,
     HasChild, Serves, Waits
<1>4. control' = [State(g) EXCEPT !.mode = "repair", !.error = "repair"]
  BY DEF RepairTimesOut, Fault
<1>5. /\ control' \in States /\ control'.error \in Errors
      /\ control'.target = control.target
      /\ control'.counts = control.counts
      /\ control'.repairs = control.repairs
  BY <1>1, <1>4, FailedState DEF Errors
<1>6. /\ engine' \subseteq engine /\ receipt' = receipt
      /\ exported' = exported /\ completed' = completed
      /\ repairs' = repairs /\ repairs \in Repairs
  BY DEF RepairTimesOut, comparisons, Inv, TypeOK
<1>7. budget' \in Budgets
  BY FaultType DEF RepairTimesOut, Inv, TypeOK
<1> QED
  BY <1>1, <1>2, <1>3, <1>4, <1>5, <1>6, <1>7, Returns

LEMMA NoteFailsKeeps ==
    ASSUME IInv, NEW g \in Guardians, NoteFails(g)
    PROVE  IInv'
<1>1. tick[g].pc # "idle"
  BY DEF NoteFails
<1> Inv(g)
  BY <1>1, Serving
<1>2. /\ tick' \in [Guardians -> Ticks] /\ tick'[g].pc = "idle"
      /\ \A h \in Guardians \ {g} : tick'[h] = tick[h]
  BY IdleTick DEF NoteFails, Fail, Return, Fault, Inv, TypeOK
<1>3. /\ lock' \subseteq lock \ {g}
      /\ child' = child \/ child' = NoChild
      /\ child'.code = "none"
      /\ "child" \in lock' <=> child'.kind # "none"
  BY DEF NoteFails, Fail, Return, Fault, NoChild, Inv, TypeOK, Children,
     Sole, Holds, HasChild, Serves, Waits
<1>4. control' = [State(g) EXCEPT !.mode = "repair", !.error = "repair"]
  BY DEF NoteFails, Fail, Return, Fault
<1>5. /\ control' \in States /\ control'.error \in Errors
      /\ control'.target = control.target
      /\ control'.counts = control.counts
      /\ control'.repairs = control.repairs
  BY <1>1, <1>4, FailedState DEF Errors
<1>6. /\ engine' \subseteq engine /\ receipt' = receipt
      /\ exported' = exported /\ completed' = completed
      /\ repairs' = repairs /\ repairs \in Repairs
  BY DEF NoteFails, Fail, Return, comparisons, Inv, TypeOK
<1>7. budget' \in Budgets
  BY FaultType DEF NoteFails, Fail, Return, Inv, TypeOK
<1> QED
  BY <1>1, <1>2, <1>3, <1>4, <1>5, <1>6, <1>7, Returns

LEMMA DecisionRefusedKeeps ==
    ASSUME IInv, NEW g \in Guardians, DecisionRefused(g)
    PROVE  IInv'
<1>1. tick[g].pc # "idle"
  BY DEF DecisionRefused
<1> Inv(g)
  BY <1>1, Serving
<1>2. /\ tick' \in [Guardians -> Ticks] /\ tick'[g].pc = "idle"
      /\ \A h \in Guardians \ {g} : tick'[h] = tick[h]
  BY IdleTick DEF DecisionRefused, Fail, Return, Fault, Inv, TypeOK
<1>3. /\ lock' \subseteq lock \ {g}
      /\ child' = child \/ child' = NoChild
      /\ child'.code = "none"
      /\ "child" \in lock' <=> child'.kind # "none"
  BY DEF DecisionRefused, Fail, Return, Fault, NoChild, Inv, TypeOK,
     Children, Sole, Holds, HasChild, Serves, Waits
<1>4. control' = [State(g) EXCEPT !.mode = "repair", !.error = "repair"]
  BY DEF DecisionRefused, Fail, Return, Fault
<1>5. /\ control' \in States /\ control'.error \in Errors
      /\ control'.target = control.target
      /\ control'.counts = control.counts
      /\ control'.repairs = control.repairs
  BY <1>1, <1>4, FailedState DEF Errors
<1>6. /\ engine' \subseteq engine /\ receipt' = receipt
      /\ exported' = exported /\ completed' = completed
      /\ repairs' = repairs /\ repairs \in Repairs
  BY DEF DecisionRefused, Fail, Return, comparisons, Inv, TypeOK
<1>7. budget' \in Budgets
  BY FaultType DEF DecisionRefused, Fail, Return, Inv, TypeOK
<1> QED
  BY <1>1, <1>2, <1>3, <1>4, <1>5, <1>6, <1>7, Returns

----------------------------------------------------------------------------
LEMMA Progressing ==
    ASSUME IInv, NEW g \in Guardians, tick[g].pc # "idle",
           control' = [State(g) EXCEPT !.mode = "managed", !.waiting = FALSE]
    PROVE  /\ control' \in States /\ control'.mode = "managed"
           /\ control'.target = control.target
           /\ control'.counts = control.counts
           /\ control'.repairs = control.repairs
<1>1. Inv(g)
  BY Serving
<1> QED
  BY <1>1 DEF Inv, Sole, Remembers, Serves, States, Modes

LEMMA CheckProgressKeeps ==
    ASSUME IInv, NEW g \in Guardians, CheckProgress(g)
    PROVE  IInv'
<1>1. tick[g].pc # "idle"
  BY DEF CheckProgress
<1> Inv(g)
  BY <1>1, Serving
<1>2. /\ tick' \in [Guardians -> Ticks] /\ tick'[g].pc = "idle"
      /\ \A h \in Guardians \ {g} : tick'[h] = tick[h]
  BY IdleTick DEF CheckProgress, Return, Fail, Inv, TypeOK
<1>3. /\ lock' \subseteq lock \ {g} /\ child' = child
      /\ child'.code = "none"
      /\ "child" \in lock' <=> child'.kind # "none"
  BY DEF CheckProgress, Return, Fail, Inv, TypeOK, Children, Sole, Holds,
         HasChild, Serves, Waits
<1>4. \/ control' = [State(g) EXCEPT !.mode = "managed", !.waiting = FALSE]
      \/ control' = [State(g) EXCEPT !.mode = "repair", !.error = "no progress"]
  BY SMTT(30) DEF CheckProgress, Fail
<1>5. /\ control' \in States
      /\ control'.mode = "repair" => control'.error \in Errors
      /\ control'.target = control.target
      /\ control'.counts = control.counts
      /\ control'.repairs = control.repairs
  BY <1>1, <1>4, FailedState, Progressing, Zenon DEF Errors
<1>6. /\ engine' \subseteq engine /\ receipt' = receipt
      /\ exported' = exported /\ completed' = completed
      /\ budget' = budget /\ budget \in Budgets
  BY DEF CheckProgress, comparisons, Inv, TypeOK
<1>7. /\ repairs'.begun = repairs.begun /\ repairs'.tried = repairs.tried
      /\ repairs' \in Repairs
  BY DEF CheckProgress, Inv, TypeOK, Repairs
<1> QED
  BY <1>1, <1>2, <1>3, <1>5, <1>6, <1>7, Returns

\* A decision is accepted only when nothing trains: the target may change.
LEMMA AcceptKeeps ==
    ASSUME IInv, NEW g \in Guardians, AcceptResume(g) \/ AcceptReplacement(g)
    PROVE  IInv'
<1>1. tick[g].pc # "idle" /\ child.code # "none"
  BY DEF AcceptResume, AcceptReplacement
<1> Inv(g)
  BY <1>1, Serving
<1>2. State(g) \in States /\ State(g).target = control.target
      /\ State(g).counts = control.counts /\ State(g).repairs = control.repairs
  BY <1>1 DEF Inv, Sole, Remembers, Serves
<1>3. PICK t \in Targets : Accept(g, t)
  BY <1>2 DEF AcceptResume, AcceptReplacement, States
<1>4. engine = {}
  BY <1>2, <1>3 DEF Accept, Active, Inv, TargetTrains
<1>5. /\ tick' \in [Guardians -> Ticks] /\ tick'[g].pc = "idle"
      /\ \A h \in Guardians \ {g} : tick'[h] = tick[h]
  BY <1>3, IdleTick DEF Accept, Return, Inv, TypeOK
<1>6. /\ lock' \subseteq lock \ {g} /\ child' = NoChild /\ child'.code = "none"
      /\ "child" \in lock' <=> child'.kind # "none"
  BY <1>1, <1>3 DEF Accept, Return, NoChild, Inv, Sole, Holds
<1>7. /\ control' \in States /\ control'.mode = "managed"
      /\ control'.target \in Targets
      /\ control'.counts = control.counts
      /\ control'.repairs = control.repairs
  BY <1>2, <1>3 DEF Accept, States, Modes
<1>8. /\ engine' \subseteq engine /\ receipt' = receipt
      /\ exported' = exported /\ completed' = completed
      /\ budget' = budget /\ budget \in Budgets
      /\ repairs' = repairs /\ repairs \in Repairs
  BY <1>3 DEF Accept, comparisons, Inv, TypeOK
<1> QED
  BY <1>1, <1>4, <1>5, <1>6, <1>7, <1>8, Returns

----------------------------------------------------------------------------
\* A tick goes on under its lock: what it remembers is what control.json says,
\* and the child is the one that its next step waits for.
LEMMA Proceeds ==
    ASSUME IInv, NEW g \in Guardians, tick[g].pc # "idle",
           NEW pc \in Steps \ {"idle"}, NEW state \in States,
           tick' \in [Guardians -> Ticks],
           tick'[g].pc = pc, tick'[g].state = state,
           \A h \in Guardians \ {g} : tick'[h] = tick[h],
           g \in lock', lock' \subseteq {g, "child"},
           "child" \in lock' <=> child'.kind # "none",
           child' \in Children, child'.code = "none",
           CASE pc = "session" -> child'.kind = "campaign"
             [] pc = "repairing" -> child'.kind = "repair"
             [] OTHER -> child'.kind = "none",
           child'.kind = "campaign" => child'.target = control.target,
           control' \in States, control'.target = control.target,
           control'.mode = "repair" => control'.error \in Errors,
           state.counts = control'.counts, state.repairs = control'.repairs,
           state.target = control'.target,
           state.mode = "repair"
             \/ pc \in {"repair", "block", "codex", "repairing"}
             => state.error \in Errors,
           receipt' \in Targets \union {None},
           exported' = exported, completed' = completed, engine' = engine,
           budget' = budget, repairs' \in Repairs,
           MayRepair(g)', RepairsAreCounted'
    PROVE  IInv'
<1>1. Inv(g)
  BY Serving
<1>2. TypeOK'
  BY <1>1 DEF Inv, TypeOK
<1>3. Holds(g)'
  BY <1>1 DEF Inv, Sole, Holds, Serves
<1>4. HasChild(g)'
  BY DEF HasChild, Serves, Waits
<1>5. Remembers(g)' /\ HasError(g)'
  BY DEF Remembers, HasError, Serves, State
<1>6. TargetTrains'
  BY <1>1 DEF Inv, TargetTrains
<1> QED
  BY <1>2, <1>3, <1>4, <1>5, <1>6 DEF IInv, Inv, Sole

LEMMA BeginKeeps ==
    ASSUME IInv, NEW g \in Guardians, Begin(g)
    PROVE  IInv'
<1> Inv(g)
  BY NobodyServing DEF Begin
<1>1. /\ tick'[g].pc = "look" /\ State(g)' = control
      /\ \A h \in Guardians \ {g} : tick'[h] = tick[h]
  BY DEF Begin, Inv, TypeOK, State
<1>2. TypeOK'
  BY DEF Begin, Inv, TypeOK, Ticks, Steps, comparisons
<1>3. Holds(g)'
  BY <1>1, GuardianAssumption DEF Begin, Inv, Sole, Holds, Serves
<1>4. HasChild(g)'
  BY <1>1 DEF Begin, Inv, Sole, Holds, HasChild, TypeOK, Children, Serves,
     Waits
<1>5. Remembers(g)' /\ HasError(g)' /\ MayRepair(g)'
  BY <1>1 DEF Begin, Inv, Sole, Remembers, HasError, MayRepair, Serves, TypeOK
<1>6. TargetTrains' /\ RepairsAreCounted'
  BY DEF Begin, Inv, TargetTrains, RepairsAreCounted
<1> QED
  BY <1>2, <1>3, <1>4, <1>5, <1>6 DEF IInv, Inv, Sole

\* What a guardian that serves can rely on.
LEMMA Serve ==
    ASSUME IInv, NEW g \in Guardians, tick[g].pc # "idle"
    PROVE  /\ State(g) \in States /\ tick[g] \in Ticks
           /\ State(g).counts = control.counts
           /\ State(g).repairs = control.repairs
           /\ State(g).target = control.target
           /\ g \in lock /\ lock \subseteq {g, "child"}
           /\ "child" \in lock <=> (child.kind # "none" /\ child.code = "none")
           /\ tick[g].pc = "session" => child.kind = "campaign"
           /\ tick[g].pc = "repairing" => child.kind = "repair"
           /\ tick[g].pc \notin {"session", "repairing"}
              => child.kind = "none" /\ child.code = "none"
           /\ State(g).mode = "repair"
                \/ tick[g].pc \in {"repair", "block", "codex", "repairing"}
              => State(g).error \in Errors
           /\ control.mode = "repair" => control.error \in Errors
<1>1. Inv(g)
  BY Serving
<1> QED
  BY <1>1 DEF Inv, TypeOK, Sole, Holds, HasChild, HasError, Remembers,
              Serves, Waits

\* What Goto changes.
LEMMA Goes ==
    ASSUME IInv, NEW g \in Guardians, NEW pc \in Steps, Goto(g, pc)
    PROVE  /\ tick' \in [Guardians -> Ticks]
           /\ tick'[g].pc = pc /\ tick'[g].state = tick[g].state
           /\ \A h \in Guardians \ {g} : tick'[h] = tick[h]
BY DEF IInv, Inv, TypeOK, Goto, Ticks

LEMMA ThinkingKeeps ==
    ASSUME IInv, NEW g \in Guardians,
           Decide(g) \/ BeginFinal(g) \/ WriteReceipt(g)
    PROVE  IInv'
<1>1. tick[g].pc \notin {"idle", "session", "repairing"}
  BY DEF Decide, BeginFinal, WriteReceipt
<1> Inv(g)
  BY <1>1, Serving
<1>2. PICK pc \in {"repair", "probe", "final", "complete"} :
        Goto(g, pc) /\ (pc = "repair" => State(g).mode = "repair")
  BY DEF Decide, BeginFinal, WriteReceipt
<1>3. /\ tick' \in [Guardians -> Ticks]
      /\ tick'[g].pc = pc /\ tick'[g].state = tick[g].state
      /\ \A h \in Guardians \ {g} : tick'[h] = tick[h]
  BY <1>2, Goes DEF Steps
<1>4. /\ control' = control /\ child' = child /\ lock' = lock
      /\ exported' = exported /\ completed' = completed /\ engine' = engine
      /\ budget' = budget /\ repairs' = repairs
  BY DEF Decide, BeginFinal, WriteReceipt, comparisons
<1>5. receipt' \in Targets \union {None}
  BY <1>1, Serve DEF Decide, BeginFinal, WriteReceipt, Inv, TypeOK, States
<1>6. MayRepair(g)' /\ RepairsAreCounted'
  BY <1>2, <1>3, <1>4 DEF Inv, MayRepair, RepairsAreCounted
<1>7. /\ child \in Children /\ control \in States /\ repairs \in Repairs
      /\ child.kind = "campaign" => child.target = control.target
  BY DEF Inv, TypeOK, TargetTrains
<1>8. pc \in Steps \ {"idle", "session", "repairing"}
  BY DEF Steps
<1> QED
  BY <1>1, <1>2, <1>3, <1>4, <1>5, <1>6, <1>7, <1>8, Serve, Proceeds DEF State

LEMMA AnnounceKeeps ==
    ASSUME IInv, NEW g \in Guardians, Announce(g)
    PROVE  IInv'
<1> DEFINE state == [State(g) EXCEPT !.mode = "repair", !.error = "interrupted"]
<1>1. tick[g].pc = "probe"
  BY DEF Announce
<1> Inv(g)
  BY <1>1, Serving
<1>2. /\ state \in States /\ state.error \in Errors
      /\ state.target = control.target /\ state.counts = control.counts
      /\ state.repairs = control.repairs
  BY <1>1, Serve, ZenonT(60) DEF States, Modes, Errors
<1> HIDE DEF state
<1>3. /\ control' = state
      /\ tick' = [tick EXCEPT ![g] = [pc |-> "launch", state |-> state,
                                      before |-> completed[state.target]]]
      /\ receipt' = receipt /\ child' = child /\ lock' = lock
      /\ exported' = exported /\ completed' = completed /\ engine' = engine
      /\ budget' = budget /\ repairs' = repairs
  BY DEF Announce, comparisons, state
<1>4. completed[state.target] \in Nat /\ "launch" \in Steps \ {"idle"}
  BY <1>2 DEF Inv, TypeOK, States, Steps
<1>5. /\ tick' \in [Guardians -> Ticks]
      /\ tick'[g].pc = "launch" /\ tick'[g].state = state
      /\ \A h \in Guardians \ {g} : tick'[h] = tick[h]
  BY <1>2, <1>3, <1>4 DEF Inv, TypeOK, Ticks
<1>6. MayRepair(g)' /\ RepairsAreCounted'
  BY <1>2, <1>3, <1>5 DEF Inv, MayRepair, RepairsAreCounted
<1>7. /\ child \in Children /\ repairs \in Repairs
      /\ receipt \in Targets \union {None}
  BY DEF Inv, TypeOK
<1> QED
  BY <1>1, <1>2, <1>3, <1>4, <1>5, <1>6, <1>7, Serve, Proceeds

LEMMA TargetsAreNat == Targets \subseteq Nat
BY DEF Targets

LEMMA LimitsAreNat == SameLimit \in Nat /\ MaxRepairs \in Nat
BY GuardianAssumption

LEMMA LaunchSessionKeeps ==
    ASSUME IInv, NEW g \in Guardians, LaunchSession(g)
    PROVE  IInv'
<1>1. tick[g].pc = "launch" /\ Goto(g, "session")
  BY DEF LaunchSession
<1> Inv(g)
  BY <1>1, Serving
<1>2. "session" \in Steps \ {"idle"}
  BY DEF Steps
<1>3. /\ tick' \in [Guardians -> Ticks]
      /\ tick'[g].pc = "session" /\ tick'[g].state = tick[g].state
      /\ \A h \in Guardians \ {g} : tick'[h] = tick[h]
  BY <1>1, <1>2, Goes
<1>4. State(g).target \in Targets /\ State(g).target = control.target
  BY <1>1, Serve DEF States
<1>5. /\ child' \in Children /\ child'.kind = "campaign" /\ child'.code = "none"
      /\ child'.target = control.target
  BY <1>4, TargetsAreNat DEF LaunchSession, Start, NoChild, Children
<1>6. lock' = lock \union {"child"}
  BY DEF LaunchSession, Start
<1>7. /\ control' = control /\ receipt' = receipt
      /\ exported' = exported /\ completed' = completed /\ engine' = engine
      /\ budget' = budget /\ repairs' = repairs
  BY DEF LaunchSession, comparisons
<1>8. MayRepair(g)' /\ RepairsAreCounted'
  BY <1>3, <1>7 DEF Inv, MayRepair, RepairsAreCounted
<1>9. /\ control \in States /\ repairs \in Repairs
      /\ receipt \in Targets \union {None}
  BY DEF Inv, TypeOK
<1> QED
  BY <1>1, <1>2, <1>3, <1>5, <1>6, <1>7, <1>8, <1>9, Serve, Proceeds DEF State

LEMMA LaunchRepairKeeps ==
    ASSUME IInv, NEW g \in Guardians, LaunchRepair(g)
    PROVE  IInv'
<1>1. tick[g].pc = "codex" /\ Goto(g, "repairing")
  BY DEF LaunchRepair
<1> Inv(g)
  BY <1>1, Serving
<1>2. "repairing" \in Steps \ {"idle"}
  BY DEF Steps
<1>3. /\ tick' \in [Guardians -> Ticks]
      /\ tick'[g].pc = "repairing" /\ tick'[g].state = tick[g].state
      /\ \A h \in Guardians \ {g} : tick'[h] = tick[h]
  BY <1>1, <1>2, Goes
<1>4. State(g).target \in Targets
  BY <1>1, Serve DEF States
<1>5. child' \in Children /\ child'.kind = "repair" /\ child'.code = "none"
  BY <1>4, TargetsAreNat DEF LaunchRepair, Start, NoChild, Children
<1>6. lock' = lock \union {"child"}
  BY DEF LaunchRepair, Start
<1>7. /\ control' = control /\ receipt' = receipt
      /\ exported' = exported /\ completed' = completed /\ engine' = engine
      /\ budget' = budget
  BY DEF LaunchRepair, comparisons
<1>8. State(g).error \in Errors
  BY <1>1, Serve
<1>9. /\ repairs' \in Repairs /\ repairs'.tried = repairs.tried + 1
      /\ repairs'.begun = [repairs.begun EXCEPT ![State(g).error] = @ + 1]
  <2>1. /\ repairs \in Repairs /\ repairs.tried + 1 \in Nat
        /\ [repairs.begun EXCEPT ![State(g).error] = @ + 1] \in [Errors -> Nat]
    BY <1>8 DEF Inv, TypeOK, Repairs
  <2>2. repairs' = [repairs EXCEPT
           !.begun = [repairs.begun EXCEPT ![State(g).error] = @ + 1],
           !.tried = repairs.tried + 1]
    BY DEF LaunchRepair
  <2> QED
    BY <2>1, <2>2 DEF Repairs
<1>10. RepairsAreCounted'
  BY <1>1, <1>7, <1>8, <1>9, LimitsAreNat
     DEF Inv, TypeOK, Sole, MayRepair, RepairsAreCounted, Repairs, States
<1>11. MayRepair(g)'
  BY <1>3 DEF MayRepair
<1>12. control \in States /\ receipt \in Targets \union {None}
  BY DEF Inv, TypeOK
<1> QED
  BY <1>1, <1>2, <1>3, <1>5, <1>6, <1>7, <1>8, <1>9, <1>10, <1>11, <1>12,
     Serve, Proceeds DEF State

LEMMA TickUpdate ==
    ASSUME tick \in [Guardians -> Ticks], NEW g \in Guardians,
           NEW pc \in Steps, NEW state \in States,
           tick' = [tick EXCEPT ![g].state = state, ![g].pc = pc]
    PROVE  /\ tick' \in [Guardians -> Ticks]
           /\ tick'[g].pc = pc /\ tick'[g].state = state
           /\ \A h \in Guardians \ {g} : tick'[h] = tick[h]
<1>1. tick' = [tick EXCEPT ![g] = [tick[g] EXCEPT !.state = state, !.pc = pc]]
  OBVIOUS
<1>2. [tick[g] EXCEPT !.state = state, !.pc = pc] \in Ticks
  BY DEF Ticks
<1> QED
  BY <1>1, <1>2 DEF Ticks

\* The attempt is counted before it is tried: what is written allows one more
\* repair than was begun, or the breaker opens.
LEMMA CountKeeps ==
    ASSUME IInv, NEW g \in Guardians, Count(g)
    PROVE  IInv'
<1> DEFINE error == State(g).error
           state == [State(g) EXCEPT !.counts[error] = @ + 1, !.repairs = @ + 1,
                                     !.waiting = TRUE]
           pc == IF state.counts[error] > SameLimit
                      \/ state.repairs > MaxRepairs
                 THEN "block" ELSE "codex"
<1>1. tick[g].pc = "repair"
  BY DEF Count
<1> Inv(g)
  BY <1>1, Serving
<1>2. error \in Errors
  BY <1>1, Serve
<1>3. /\ state \in States /\ state.error = error
      /\ state.target = control.target
      /\ state.repairs = control.repairs + 1
      /\ state.counts = [control.counts EXCEPT ![error] = @ + 1]
  <2>1. /\ State(g) \in States /\ State(g).repairs + 1 \in Nat
        /\ [State(g).counts EXCEPT ![error] = @ + 1] \in [Errors -> Nat]
    BY <1>1, <1>2, Serve DEF States
  <2>2. state = [State(g) EXCEPT
                   !.counts = [State(g).counts EXCEPT ![error] = @ + 1],
                   !.repairs = State(g).repairs + 1, !.waiting = TRUE]
    OBVIOUS
  <2> HIDE DEF state
  <2> QED
    BY <1>1, <2>1, <2>2, Serve DEF States, error
<1>4. /\ control' = state
      /\ tick' = [tick EXCEPT ![g].state = state, ![g].pc = pc]
      /\ repairs' = [repairs EXCEPT
           !.awaiting = error,
           !.failed = [e \in Errors |->
                          IF e = repairs.awaiting THEN @[e] + 1 ELSE @[e]]]
      /\ receipt' = receipt /\ child' = child /\ lock' = lock
      /\ exported' = exported /\ completed' = completed /\ engine' = engine
      /\ budget' = budget
  BY DEF Count, comparisons
<1>5. /\ pc \in {"block", "codex"}
      /\ pc \in Steps \ {"idle", "session", "repairing"}
  BY DEF Steps
<1>6. pc = "codex" =>
        state.counts[error] <= SameLimit /\ state.repairs <= MaxRepairs
  <2>1. state.counts[error] \in Nat /\ state.repairs \in Nat
    BY <1>2, <1>3 DEF States
  <2> HIDE DEF state
  <2> QED
    BY <2>1, LimitsAreNat
<1> HIDE DEF state, error, pc
<1>7. /\ tick' \in [Guardians -> Ticks]
      /\ tick'[g].pc = pc /\ tick'[g].state = state
      /\ \A h \in Guardians \ {g} : tick'[h] = tick[h]
  BY <1>3, <1>4, <1>5, TickUpdate DEF Inv, TypeOK
<1>8. /\ repairs' \in Repairs /\ repairs'.tried = repairs.tried
      /\ repairs'.begun = repairs.begun
  <2>1. repairs \in Repairs
    BY DEF Inv, TypeOK
  <2>2. [e \in Errors |->
           IF e = repairs.awaiting THEN repairs.failed[e] + 1
                                   ELSE repairs.failed[e]] \in [Errors -> Nat]
    BY <2>1 DEF Repairs
  <2> QED
    BY <1>2, <1>4, <2>1, <2>2 DEF Repairs
<1>9. RepairsAreCounted'
  <2>1. /\ control.counts \in [Errors -> Nat] /\ control.repairs \in Nat
        /\ repairs.begun \in [Errors -> Nat] /\ repairs.tried \in Nat
    BY DEF Inv, TypeOK, Repairs, States
  <2>2. \A e \in Errors : control'.counts[e] >= control.counts[e]
    BY <1>2, <1>3, <1>4, <2>1
  <2> QED
    BY <1>3, <1>4, <1>8, <2>1, <2>2 DEF Inv, RepairsAreCounted
<1>10. MayRepair(g)'
  <2>1. /\ control.counts[error] \in Nat /\ control.repairs \in Nat
        /\ repairs.begun[error] \in Nat /\ repairs.tried \in Nat
        /\ repairs.begun[error] <= control.counts[error]
        /\ repairs.tried <= control.repairs
    BY <1>2 DEF Inv, TypeOK, RepairsAreCounted, Repairs, States
  <2>2. control'.counts[error] = control.counts[error] + 1
    BY <1>2, <1>3, <1>4 DEF Inv, TypeOK, States
  <2>3. State(g)'.error = error
    BY <1>3, <1>7 DEF State
  <2>4. SUFFICES ASSUME tick'[g].pc = "codex"
                 PROVE  /\ repairs'.tried < control'.repairs
                        /\ control'.repairs <= MaxRepairs
                        /\ repairs'.begun[error] < control'.counts[error]
                        /\ control'.counts[error] <= SameLimit
    BY <2>3 DEF MayRepair
  <2>5. control'.counts[error] <= SameLimit /\ control'.repairs <= MaxRepairs
    BY <1>4, <1>6, <1>7, <2>4
  <2>6. /\ repairs'.begun[error] = repairs.begun[error]
        /\ repairs'.tried = repairs.tried
        /\ control'.repairs = control.repairs + 1
    BY <1>3, <1>4, <1>8
  <2> QED
    BY <2>1, <2>2, <2>5, <2>6
<1>11. child \in Children /\ receipt \in Targets \union {None}
  BY DEF Inv, TypeOK
<1> QED
  BY <1>1, <1>2, <1>3, <1>4, <1>5, <1>7, <1>8, <1>9, <1>10, <1>11, Serve,
     Proceeds

LEMMA EndsInModeKeeps ==
    ASSUME IInv, NEW g \in Guardians, WriteComplete(g) \/ Block(g)
    PROVE  IInv'
<1>1. tick[g].pc \notin {"idle", "session", "repairing"}
  BY DEF WriteComplete, Block
<1> Inv(g)
  BY <1>1, Serving
<1>2. PICK mode \in {"complete", "blocked"} :
        /\ control' = [State(g) EXCEPT !.mode = mode]
        /\ tick' = [tick EXCEPT ![g].pc = "note", ![g].state.mode = mode]
  BY DEF WriteComplete, Block
<1>3. /\ control' \in States /\ control'.mode = mode
      /\ control'.target = control.target /\ control'.counts = control.counts
      /\ control'.repairs = control.repairs
  BY <1>1, <1>2, Serve DEF States, Modes
<1>4. "note" \in Steps \ {"idle"}
  BY DEF Steps
<1>5. tick' = [tick EXCEPT ![g] =
                 [tick[g] EXCEPT !.pc = "note", !.state = control']]
  BY <1>2 DEF State
<1>6. /\ tick' \in [Guardians -> Ticks]
      /\ tick'[g].pc = "note" /\ tick'[g].state = control'
      /\ \A h \in Guardians \ {g} : tick'[h] = tick[h]
  <2>1. [tick[g] EXCEPT !.pc = "note", !.state = control'] \in Ticks
    BY <1>1, <1>3, <1>4, Serve DEF Ticks
  <2> QED
    BY <1>5, <2>1 DEF Inv, TypeOK, Ticks
<1>8. /\ receipt' = receipt /\ child' = child /\ lock' = lock
      /\ exported' = exported /\ completed' = completed /\ engine' = engine
      /\ budget' = budget /\ repairs' = repairs
  BY DEF WriteComplete, Block, comparisons
<1>9. MayRepair(g)' /\ RepairsAreCounted'
  BY <1>3, <1>6, <1>8 DEF Inv, MayRepair, RepairsAreCounted
<1>10. /\ child \in Children /\ repairs \in Repairs
       /\ receipt \in Targets \union {None}
  BY DEF Inv, TypeOK
<1> QED
  BY <1>1, <1>3, <1>4, <1>6, <1>8, <1>9, <1>10, Serve, Proceeds

LEMMA SessionEndsKeeps ==
    ASSUME IInv, NEW g \in Guardians, SessionEnds(g)
    PROVE  IInv'
<1>1. tick[g].pc = "session" /\ child.code # "none"
  BY DEF SessionEnds
<1> Inv(g)
  BY <1>1, Serving
<1>2. /\ child' = NoChild /\ child'.code = "none" /\ child'.kind = "none"
      /\ child' \in Children
      /\ receipt' = receipt /\ engine' = engine /\ engine' \subseteq engine
      /\ exported' = exported /\ completed' = completed
      /\ budget' = budget /\ repairs' = repairs
  BY DEF SessionEnds, comparisons, NoChild, Children
<1>3. /\ budget \in Budgets /\ repairs \in Repairs
      /\ receipt \in Targets \union {None} /\ control \in States
  BY DEF Inv, TypeOK
<1>4. "child" \notin lock
  BY <1>1, Serve
<1>5. CASE child.code = "failed"
  <2>1. /\ tick' = [tick EXCEPT ![g] = Idle] /\ lock' = lock \ {g}
        /\ control' = [State(g) EXCEPT !.mode = "repair", !.error = "exited"]
    BY <1>5 DEF SessionEnds, Fail, Return
  <2>2. /\ tick' \in [Guardians -> Ticks] /\ tick'[g].pc = "idle"
        /\ \A h \in Guardians \ {g} : tick'[h] = tick[h]
    BY <2>1, IdleTick DEF Inv, TypeOK
  <2>3. /\ control' \in States /\ control'.error \in Errors
        /\ control'.target = control.target
        /\ control'.counts = control.counts
        /\ control'.repairs = control.repairs
    BY <1>1, <2>1, FailedState DEF Errors
  <2>4. lock' \subseteq lock \ {g} /\ "child" \notin lock'
    BY <1>4, <2>1
  <2> QED
    BY <1>1, <1>2, <1>3, <2>2, <2>3, <2>4, Returns
<1>6. CASE child.code # "failed"
  <2>1. Goto(g, "after") /\ control' = control /\ lock' = lock
    BY <1>6 DEF SessionEnds
  <2>2. "after" \in Steps \ {"idle"}
    BY DEF Steps
  <2>3. /\ tick' \in [Guardians -> Ticks]
        /\ tick'[g].pc = "after" /\ tick'[g].state = State(g)
        /\ \A h \in Guardians \ {g} : tick'[h] = tick[h]
    BY <2>1, <2>2, Goes DEF State
  <2>4. MayRepair(g)' /\ RepairsAreCounted'
    BY <1>2, <2>1, <2>3 DEF Inv, MayRepair, RepairsAreCounted
  <2> QED
    BY <1>1, <1>2, <1>3, <1>4, <2>1, <2>2, <2>3, <2>4, Serve, Proceeds
<1> QED
  BY <1>5, <1>6

LEMMA TickKeeps ==
    ASSUME IInv, NEW g \in Guardians, TickStep(g)
    PROVE  IInv'
BY ObserveKeeps, RetryLaterKeeps, SupervisorStoppedKeeps,
   DecisionRefusedKeeps, CheckProgressKeeps, AcceptKeeps, BeginKeeps,
   ThinkingKeeps, AnnounceKeeps, LaunchSessionKeeps, LaunchRepairKeeps,
   CountKeeps, EndsInModeKeeps, SessionEndsKeeps DEF TickStep

LEMMA FaultKeeps ==
    ASSUME IInv, NEW g \in Guardians, TickFault(g)
    PROVE  IInv'
BY KilledKeeps, StopStalledKeeps, ProbeFailsKeeps, SessionTimesOutKeeps,
   RepairTimesOutKeeps, NoteFailsKeeps DEF TickFault

----------------------------------------------------------------------------
\* A step of a child or of an engine, with no process ending.
LEMMA Beside ==
    ASSUME IInv, tick' = tick, control' = control, receipt' = receipt,
           repairs' = repairs, lock' = lock, child' \in Children,
           child'.kind = child.kind, child'.target = child.target,
           child'.code = child.code,
           exported' \in [Targets -> Nat], completed' \in [Targets -> Nat],
           engine' \subseteq {control.target}, budget' \in Budgets
    PROVE  IInv'
<1>1. PICK g \in Guardians : Inv(g)
  BY DEF IInv
<1>2. TypeOK'
  BY <1>1 DEF Inv, TypeOK, States
<1>3. Holds(g)' /\ HasChild(g)'
  BY <1>1 DEF Inv, Sole, Holds, HasChild, Serves, Waits
<1>4. Remembers(g)' /\ HasError(g)' /\ MayRepair(g)'
  BY <1>1 DEF Inv, Sole, Remembers, HasError, MayRepair, Serves, State
<1>5. TargetTrains' /\ RepairsAreCounted'
  BY <1>1 DEF Inv, TargetTrains, RepairsAreCounted
<1> QED
  BY <1>2, <1>3, <1>4, <1>5 DEF IInv, Inv, Sole

\* The child exits: the guardian that waits for it has its code, and if the
\* guardian was killed nothing is left of the child.
LEMMA Exits ==
    ASSUME IInv, NEW code \in {"ok", "failed", "resume", "replace"},
           child.kind # "none", child.code = "none", ChildExits(code),
           tick' = tick, control' = control, receipt' = receipt,
           repairs' = repairs, exported' = exported, completed' = completed,
           engine' = engine, budget' \in Budgets
    PROVE  IInv'
<1>1. PICK g \in Guardians : Inv(g)
  BY DEF IInv
<1>2. lock' = lock \ {"child"}
  BY DEF ChildExits
<1>3. \/ Waits(g) /\ child' = [child EXCEPT !.code = code]
      \/ ~Serves(g) /\ child' = NoChild
  BY <1>1 DEF ChildExits, Inv, Sole, Holds, HasChild, Serves, Waits
<1>4. /\ child' \in Children
      /\ child'.kind = "campaign" => child'.target = child.target
                                     /\ child.kind = "campaign"
      /\ Waits(g) => child'.kind = child.kind /\ child'.code # "none"
      /\ ~Waits(g) => child'.kind = "none" /\ child'.code = "none" /\ ~Serves(g)
  <2>1. Waits(g) => Serves(g)
    BY DEF Waits, Serves
  <2>2. child \in Children /\ NoChild \in Children
    BY <1>1 DEF Inv, TypeOK, Children, NoChild
  <2>3. CASE Waits(g) /\ child' = [child EXCEPT !.code = code]
    BY <2>1, <2>2, <2>3 DEF Children
  <2>4. CASE ~Serves(g) /\ child' = NoChild
    BY <2>1, <2>2, <2>4 DEF NoChild
  <2> QED
    BY <1>3, <2>3, <2>4
<1>5. TypeOK'
  BY <1>1, <1>2, <1>4 DEF Inv, TypeOK
<1>6. Holds(g)'
  BY <1>1, <1>2, <1>4, GuardianAssumption DEF Inv, Sole, Holds, Serves
<1>7. HasChild(g)'
  BY <1>1, <1>4 DEF Inv, Sole, HasChild, Serves, Waits
<1>8. Remembers(g)' /\ HasError(g)' /\ MayRepair(g)'
  BY <1>1 DEF Inv, Sole, Remembers, HasError, MayRepair, Serves, State
<1>9. TargetTrains' /\ RepairsAreCounted'
  BY <1>1, <1>4 DEF Inv, TargetTrains, RepairsAreCounted
<1> QED
  BY <1>5, <1>6, <1>7, <1>8, <1>9 DEF IInv, Inv, Sole

LEMMA Typed ==
    ASSUME IInv
    PROVE  TypeOK /\ TargetTrains
BY DEF IInv, Inv

LEMMA SessionKeeps ==
    ASSUME IInv, Execute \/ Adopt \/ Dispatch
    PROVE  IInv'
<1> USE Typed
<1>1. child.kind = "campaign" /\ child.target = control.target
  BY DEF Execute, Adopt, Dispatch, Session, TargetTrains
<1>2. control.target \in Targets
  BY DEF TypeOK, States
<1>3. /\ tick' = tick /\ control' = control /\ receipt' = receipt
      /\ repairs' = repairs /\ lock' = lock /\ exported' = exported
      /\ budget' = budget
  BY DEF Execute, Adopt, Dispatch, comparisons
<1>4. /\ child' \in Children
      /\ child'.kind = child.kind /\ child'.target = child.target
      /\ child'.code = child.code
  BY <1>1, <1>2, ZenonT(40) DEF Execute, Adopt, Dispatch, TypeOK, Children
<1>5. completed' \in [Targets -> Nat]
  BY <1>1, <1>2 DEF Execute, Adopt, Dispatch, comparisons, TypeOK
<1>6. engine' \subseteq {control.target}
  BY <1>1 DEF Execute, Adopt, Dispatch, TargetTrains
<1>7. exported \in [Targets -> Nat] /\ budget \in Budgets
  BY DEF TypeOK
<1> QED
  BY <1>3, <1>4, <1>5, <1>6, <1>7, Beside

LEMMA ExitKeeps ==
    ASSUME IInv, SessionReturns \/ SessionKilled \/ Repaired
    PROVE  IInv'
<1> USE Typed
<1>1. child.kind # "none" /\ child.code = "none"
  BY DEF SessionReturns, SessionKilled, Repaired, Session
<1>2. PICK code \in {"ok", "failed", "resume", "replace"} : ChildExits(code)
  BY DEF SessionReturns, SessionKilled, Repaired
<1>3. /\ tick' = tick /\ control' = control /\ receipt' = receipt
      /\ repairs' = repairs /\ exported' = exported /\ completed' = completed
      /\ engine' = engine
  BY DEF SessionReturns, SessionKilled, Repaired, comparisons
<1>4. budget' \in Budgets
  BY FaultType DEF SessionReturns, SessionKilled, Repaired, TypeOK
<1> QED
  BY <1>1, <1>2, <1>3, <1>4, Exits

LEMMA EngineKeeps ==
    ASSUME IInv,
           RepairTrains \/ \E t \in Targets : EngineExports(t) \/ EngineFails(t)
    PROVE  IInv'
<1> USE Typed
<1>1. /\ tick' = tick /\ control' = control /\ receipt' = receipt
      /\ repairs' = repairs /\ lock' = lock /\ child' = child
      /\ completed' = completed
  BY DEF RepairTrains, EngineExports, EngineFails, comparisons
<1>2. exported' \in [Targets -> Nat]
  BY DEF RepairTrains, EngineExports, EngineFails, comparisons, TypeOK
<1>3. engine' \subseteq {control.target}
  BY DEF RepairTrains, EngineExports, EngineFails, TargetTrains
<1>4. budget' \in Budgets
  BY FaultType DEF RepairTrains, EngineExports, EngineFails, TypeOK
<1>5. child \in Children /\ completed \in [Targets -> Nat]
  BY DEF TypeOK
<1> QED
  BY <1>1, <1>2, <1>3, <1>4, <1>5, Beside

\* The end of a back-off changes what is remembered and the file alike.
LEMMA ElapseKeeps ==
    ASSUME IInv, Elapse
    PROVE  IInv'
<1>1. PICK g \in Guardians : Inv(g)
  BY DEF IInv
<1>2. /\ control' \in States /\ control'.mode = control.mode
      /\ control'.error = control.error /\ control'.target = control.target
      /\ control'.counts = control.counts /\ control'.repairs = control.repairs
  BY <1>1 DEF Elapse, Inv, TypeOK, States
<1>3. ASSUME NEW h \in Guardians
      PROVE  /\ tick'[h] \in Ticks /\ tick'[h].pc = tick[h].pc
             /\ State(h) \in States =>
                  /\ tick'[h].state \in States
                  /\ tick'[h].state.mode = State(h).mode
                  /\ tick'[h].state.error = State(h).error
                  /\ tick'[h].state.target = State(h).target
                  /\ tick'[h].state.counts = State(h).counts
                  /\ tick'[h].state.repairs = State(h).repairs
  <2>1. tick[h] \in Ticks
    BY <1>1 DEF Inv, TypeOK
  <2>2. CASE State(h) = None
    BY <2>1, <2>2 DEF Elapse, State
  <2>3. CASE State(h) # None
    <3>1. tick'[h] = [tick[h] EXCEPT
                        !.state = [State(h) EXCEPT !.waiting = FALSE]]
      BY <2>3 DEF Elapse, State
    <3>2. State(h) \in States
      BY <2>1, <2>3 DEF Ticks, State
    <3>3. [State(h) EXCEPT !.waiting = FALSE] \in States
      BY <3>2 DEF States
    <3> QED
      BY <2>1, <3>1, <3>2, <3>3 DEF Ticks, States
  <2> QED
    BY <2>2, <2>3
<1>4. /\ receipt' = receipt /\ child' = child /\ lock' = lock
      /\ exported' = exported /\ completed' = completed /\ engine' = engine
      /\ budget' = budget /\ repairs' = repairs
  BY DEF Elapse, comparisons
<1>5. TypeOK'
  <2>1. tick' \in [Guardians -> Ticks]
    BY <1>3 DEF Elapse
  <2> QED
    BY <1>1, <1>2, <1>4, <2>1 DEF Inv, TypeOK
<1>6. Holds(g)' /\ HasChild(g)'
  BY <1>1, <1>3, <1>4 DEF Inv, Sole, Holds, HasChild, Serves, Waits
<1>7. Remembers(g)' /\ HasError(g)' /\ MayRepair(g)'
  <2>1. Serves(g) => State(g) \in States
    BY <1>1 DEF Inv, Sole, Remembers
  <2>2. tick[g].pc \in {"repair", "block", "codex", "repairing"} => Serves(g)
    BY DEF Serves
  <2>3. Remembers(g)'
    BY <1>1, <1>2, <1>3, <2>1 DEF Inv, Sole, Remembers, Serves, State
  <2>4. HasError(g)'
    BY <1>1, <1>2, <1>3, <2>1, <2>2 DEF Inv, Sole, HasError, Serves, State
  <2>5. MayRepair(g)'
    BY <1>1, <1>2, <1>3, <1>4, <2>1 DEF Inv, Sole, MayRepair, Serves, State
  <2> QED
    BY <2>3, <2>4, <2>5
<1>8. TargetTrains' /\ RepairsAreCounted'
  BY <1>1, <1>2, <1>4 DEF Inv, TargetTrains, RepairsAreCounted
<1> QED
  BY <1>5, <1>6, <1>7, <1>8 DEF IInv, Inv, Sole

----------------------------------------------------------------------------
\* A fresh control.json, and nobody serving.
LEMMA InitHolds == Init => IInv
<1> SUFFICES ASSUME Init PROVE IInv
  OBVIOUS
<1>1. PICK g \in Guardians : TRUE
  BY GuardianAssumption
<1>2. TypeOK
  <2>1. 1 \in Targets /\ {1} \subseteq Targets
    BY GuardianAssumption DEF Targets
  <2>2. control \in States
    BY <2>1 DEF Init, States, Modes
  <2>3. repairs \in Repairs /\ child \in Children /\ budget \in Budgets
    BY DEF Init, Repairs, Children, NoChild, Budgets
  <2> QED
    BY <2>1, <2>2, <2>3, IdleTick DEF Init, TypeOK
<1>3. \A h \in Guardians : ~Serves(h) /\ ~Waits(h)
  BY IdleTick DEF Init, Serves, Waits
<1>4. Sole(g)
  BY <1>3 DEF Init, NoChild, Sole, Holds, HasChild, Remembers, HasError,
              MayRepair, Serves
<1>5. TargetTrains /\ RepairsAreCounted
  BY LimitsAreNat DEF Init, NoChild, TargetTrains, RepairsAreCounted
<1> QED
  BY <1>2, <1>4, <1>5 DEF IInv, Inv

\* Every step of the guardian, of its child and of the engines keeps IInv.
LEMMA StepKeeps == IInv /\ [Next]_vars => IInv'
<1> SUFFICES ASSUME IInv, [Next]_vars PROVE IInv'
  OBVIOUS
<1>1. CASE UNCHANGED vars
  <2>1. /\ control' = control /\ receipt' = receipt /\ tick' = tick
        /\ child' = child /\ lock' = lock /\ exported' = exported
        /\ completed' = completed /\ engine' = engine /\ budget' = budget
        /\ repairs' = repairs
    BY <1>1 DEF vars, comparisons
  <2> QED
    BY <2>1, Typed, Beside DEF TypeOK, TargetTrains
<1>2. CASE Next
  BY <1>2, TickKeeps, FaultKeeps, SessionKeeps, ExitKeeps, EngineKeeps,
     ElapseKeeps DEF Next, ChildStep
<1> QED
  BY <1>1, <1>2

(* The inductive invariant holds of every behaviour of tick, bounded and    *)
(* the processes they start.                                                *)
THEOREM Invariance == Spec => []IInv
BY InitHolds, StepKeeps, PTL DEF Spec

(* control.json, the completion receipt and the guardians' local state      *)
(* always have the shape that tick reads them in.                           *)
THEOREM TypeCorrectness == Spec => []TypeOK
<1>1. IInv => TypeOK
  BY DEF IInv, Inv
<1> QED
  BY <1>1, Invariance, PTL

(* However often guardians are killed or fail, no error is repaired more    *)
(* often than same_failure_limit and no more than max_repairs repairs are   *)
(* tried: the counters are on disk before an attempt.                       *)
THEOREM RepairsStayBounded == Spec => []RepairsAreBounded
<1>1. IInv => RepairsAreBounded
  BY DEF IInv, Inv, RepairsAreCounted, RepairsAreBounded
<1> QED
  BY <1>1, Invariance, PTL

(* Whatever session is alive and whatever engine runs, it is for the        *)
(* comparison that control.json names, also after a replacement.            *)
THEOREM OnlyTheTargetEverTrains == Spec => []OnlyTheTargetTrains
<1>1. IInv => OnlyTheTargetTrains
  BY DEF IInv, Inv, TargetTrains, OnlyTheTargetTrains
<1> QED
  BY <1>1, Invariance, PTL

(* guardian.lock, which a child inherits, lets one tick at a time get past  *)
(* the beginning of tick.                                                   *)
OneGuardianServes == \A g, h \in Guardians : Serves(g) /\ Serves(h) => g = h

(* No two guardians are ever in the middle of a tick.                       *)
THEOREM GuardiansExclude == Spec => []OneGuardianServes
<1>1. IInv => OneGuardianServes
  BY DEF IInv, Inv, Sole, Holds, OneGuardianServes
<1> QED
  BY <1>1, Invariance, PTL
=============================================================================
