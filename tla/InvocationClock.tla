-------------------------- MODULE InvocationClock --------------------------
(***************************************************************************)
(* The durable time ledger of a run: what each invocation may still spend  *)
(* of the run's time budget, whatever invocations died before it.          *)
(*                                                                         *)
(* An invocation writes a start record and, unless it dies, an end record; *)
(* the next one seals a missing end with the wall-clock time since the     *)
(* start.  Time is counted in units.  While a process lives its monotonic  *)
(* clock may lag the wall clock (the machine sleeps), and the wall clock   *)
(* may be set back MaxStepsBack times.                                     *)
(***************************************************************************)
EXTENDS Integers, Sequences

CONSTANTS
    Timeout,        \* the run's time budget
    MaxStepsBack,   \* how often the wall clock may be set back
    MaxWall,        \* bound on the wall clock
    MaxInvocations, \* bound on the invocations begun
    None

ASSUME ClockAssumption ==
    /\ Timeout \in Nat
    /\ MaxStepsBack \in Nat
    /\ MaxWall \in Nat
    /\ MaxInvocations \in Nat
    /\ None \notin Int

VARIABLES
    wall, setBack,  \* the system clock, and how often it was set back
    starts, ends,   \* NNNNNN_start.json and NNNNNN_end.json, in order
    accounted,      \* elapsed time in the checkpointed state; None: no checkpoint
    observed,       \* elapsed time in a published, uncommitted transaction
    phase,          \* "down", "setup", "sealed", "running" or "stopping"
    fresh,          \* this invocation created the run
    setup,          \* monotonic time since the process began, until it runs
    base, ran,      \* the charge it started from, and its monotonic time since
    began,          \* invocations begun
    trained         \* history: time the loop was allowed to train

records == <<starts, ends>>
files == <<records, accounted, observed>>
process == <<phase, fresh, setup, base, ran, began>>
clock == <<wall, setBack>>
vars == <<clock, files, process, trained>>

Larger(a, b) == IF a < b THEN b ELSE a

Init ==
    /\ wall = 0
    /\ setBack = 0
    /\ starts = <<>>
    /\ ends = <<>>
    /\ accounted = None
    /\ observed = None
    /\ phase = "down"
    /\ fresh = FALSE
    /\ setup = 0
    /\ base = 0
    /\ ran = 0
    /\ began = 0
    /\ trained = 0

----------------------------------------------------------------------------
\* Only the last invocation may be unclosed.
Unclosed == Len(ends) < Len(starts)
LastStart == starts[Len(starts)]

\* What the closed invocations have accounted for, and when the last ended.
Elapsed == IF ends = <<>> THEN 0 ELSE ends[Len(ends)].elapsed
LastWall == IF ends = <<>> THEN 0 ELSE ends[Len(ends)].wall

\* The loop runs while the charge is below the budget; so does a worker.
MayTrain == phase = "running" /\ base + ran < Timeout

\* The process ends, and its memory with it.
Leave ==
    /\ phase' = "down"
    /\ fresh' = FALSE
    /\ setup' = 0 /\ base' = 0 /\ ran' = 0
    /\ UNCHANGED began

Launch ==
    /\ phase = "down"
    /\ began < MaxInvocations
    /\ began' = began + 1
    /\ phase' = "setup"
    /\ fresh' = (accounted = None)
    /\ setup' = 0
    /\ UNCHANGED <<clock, files, base, ran, trained>>

\* step_0 of a new run accounts for the preparation of its data.
PublishInitial ==
    /\ phase = "setup"
    /\ fresh /\ accounted = None
    /\ accounted' = setup
    /\ UNCHANGED <<clock, records, observed, process, trained>>

\* Mutant: the interrupted invocation is charged only what it checkpointed.
SealAtCheckpoint ==
    /\ phase = "setup" /\ accounted # None /\ Unclosed
    /\ IF wall < LastStart.wall
       THEN Leave /\ UNCHANGED <<clock, files, trained>>
       ELSE /\ ends' = Append(ends, [elapsed |-> Larger(LastStart.base, accounted),
                                     wall |-> wall])
            /\ phase' = "sealed"
            /\ UNCHANGED <<clock, starts, accounted, observed, fresh, setup,
                           base, ran, began, trained>>

\* Recovery charges an interrupted invocation all the time since its start.
Seal ==
    /\ phase = "setup" /\ accounted # None /\ Unclosed
    /\ IF wall < LastStart.wall
       THEN Leave /\ UNCHANGED <<clock, files, trained>>
       ELSE /\ ends' = Append(ends, [elapsed |-> LastStart.base + (wall - LastStart.wall),
                                     wall |-> wall])
            /\ phase' = "sealed"
            /\ UNCHANGED <<clock, starts, accounted, observed, fresh, setup,
                           base, ran, began, trained>>

\* Set-up time is charged, unless the sealed interval already contains it or
\* the new run's checkpoint does.
SetupCharge ==
    IF phase = "sealed" THEN 0
    ELSE IF fresh THEN Larger(0, setup - accounted) ELSE setup

\* A new start record continues from whatever has been accounted for.
Start ==
    /\ phase \in {"setup", "sealed"} /\ accounted # None /\ ~Unclosed
    /\ IF wall < LastWall
       THEN Leave /\ UNCHANGED <<clock, files, trained>>
       ELSE /\ base' = Larger(accounted, Elapsed) + SetupCharge
            /\ starts' = Append(starts, [base |-> base', wall |-> wall])
            /\ ran' = 0
            /\ phase' = "running"
            /\ UNCHANGED <<clock, ends, accounted, observed, fresh, setup, began,
                           trained>>

\* An attempt's transaction carries the time at which it was observed ...
Observe ==
    /\ phase = "running"
    /\ observed = None
    /\ observed' = base + ran
    /\ UNCHANGED <<clock, records, accounted, process, trained>>

\* ... and that time is what the checkpoint accounts for, also when another
\* invocation recovers the transaction.
Commit ==
    /\ phase = "running"
    /\ observed # None
    /\ accounted' = observed
    /\ observed' = None
    /\ UNCHANGED <<clock, records, process, trained>>

\* The loop has ended (all attempts done, deadline or stop_after); reports and
\* the export follow.
EndLoop ==
    /\ phase = "running"
    /\ phase' = "stopping"
    /\ UNCHANGED <<clock, files, fresh, setup, base, ran, began, trained>>

Finish ==
    /\ phase = "stopping"
    /\ ends' = IF wall < LastStart.wall THEN ends
               ELSE Append(ends, [elapsed |-> base + ran, wall |-> wall])
    /\ Leave
    /\ UNCHANGED <<clock, starts, accounted, observed, trained>>

Crash ==
    /\ phase # "down"
    /\ Leave
    /\ UNCHANGED <<clock, files, trained>>

\* A unit of wall time, of which a process that is not asleep has as much.
Tick ==
    /\ wall < MaxWall
    /\ wall' = wall + 1
    /\ \E awake \in {0, 1} :
         /\ setup' = IF phase \in {"setup", "sealed"} THEN setup + awake ELSE setup
         /\ ran' = IF phase \in {"running", "stopping"} THEN ran + awake ELSE ran
         /\ trained' = IF MayTrain THEN trained + awake ELSE trained
    /\ UNCHANGED <<setBack, files, phase, fresh, base, began>>

\* The wall clock is set back; external to the program.
StepBack ==
    /\ setBack < MaxStepsBack
    /\ setBack' = setBack + 1
    /\ \E t \in 0..(wall - 1) : wall' = t
    /\ UNCHANGED <<files, process, trained>>

Next ==
    \/ Launch \/ PublishInitial \/ Seal \/ Start
    \/ Observe \/ Commit \/ EndLoop \/ Finish
    \/ Crash \/ Tick \/ StepBack

Spec == Init /\ [][Next]_vars

----------------------------------------------------------------------------
StartRecords == [base : Nat, wall : Nat]
EndRecords == [elapsed : Nat, wall : Nat]

\* Type invariant: records, clocks and charges are natural numbers.
TypeOK ==
    /\ wall \in Nat /\ setBack \in Nat
    /\ starts \in Seq(StartRecords) /\ ends \in Seq(EndRecords)
    /\ accounted \in Nat \union {None} /\ observed \in Nat \union {None}
    /\ phase \in {"down", "setup", "sealed", "running", "stopping"}
    /\ fresh \in BOOLEAN
    /\ setup \in Nat /\ base \in Nat /\ ran \in Nat /\ began \in Nat
    /\ trained \in Nat

\* Whatever invocation died where, and however the clock was set, the records
\* are ones the next constructor accepts: the validation of
\* InvocationClock.__init__ never makes a run unresumable.
RecordsAccepted ==
    /\ Len(ends) \in {Len(starts), Len(starts) - 1}
    /\ \A i \in DOMAIN starts : i > 1 =>
         /\ starts[i].base >= ends[i - 1].elapsed
         /\ starts[i].wall >= ends[i - 1].wall
    /\ \A i \in DOMAIN ends :
         /\ ends[i].elapsed >= starts[i].base
         /\ ends[i].wall >= starts[i].wall

\* "Interrupted execution never renews the run's elapsed-time budget": over all
\* its invocations a run trains no longer than its time budget.
BudgetNeverRenewed == trained <= Timeout

\* So it is as long as the wall clock, by which the next invocation charges an
\* interrupted one (runtime_clock.py:68), was not set back.
BudgetKeptByClock == setBack = 0 => BudgetNeverRenewed

----------------------------------------------------------------------------
(***************************************************************************)
(* The inductive invariants: the first behind RecordsAccepted, whatever    *)
(* the clock does; with the second, behind BudgetNeverRenewed, the charge  *)
(* the next invocation starts from covers all the training there was.      *)
(***************************************************************************)
Linked ==
    /\ accounted = None => starts = <<>> /\ ends = <<>>
    /\ phase \in {"running", "stopping"} => Unclosed /\ base = LastStart.base
    /\ phase = "sealed" => ~Unclosed
    /\ RecordsAccepted

Shape == TypeOK /\ Linked

Covered ==
    /\ accounted = None => trained = 0
    /\ Unclosed => /\ LastStart.wall <= wall
                   /\ trained <= LastStart.base + (wall - LastStart.wall)
    /\ ~Unclosed => trained <= Elapsed /\ LastWall <= wall
    /\ phase \in {"running", "stopping"} =>
         /\ ran <= wall - LastStart.wall
         /\ trained <= base + ran

IInv == Shape /\ (setBack = 0 => Covered /\ BudgetNeverRenewed)
=============================================================================
