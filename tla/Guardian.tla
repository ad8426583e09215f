------------------------------ MODULE Guardian ------------------------------
(***************************************************************************)
(* The training guardian: a tick per minute that observes a comparison,    *)
(* runs one bounded campaign session, or spends one repair on the error    *)
(* that stopped the last one.  All it remembers is control.json, written   *)
(* before the work it announces, so that a guardian killed in the middle   *)
(* leaves the repair of its own interruption behind.                       *)
(*                                                                         *)
(* A comparison (a target) is reduced to the number of exports its engines *)
(* produced and the number its campaign journal has receipts for; Campaign *)
(* has the rest.  Reading processes (probes) are part of the tick's step.  *)
(***************************************************************************)
EXTENDS Naturals, FiniteSets

CONSTANTS
    Guardians,      \* processes running tick
    LastTarget,     \* bound on the comparisons: each may be replaced by the next
    Total,          \* planned runs of a comparison
    SameLimit,      \* same_failure_limit
    MaxRepairs,     \* max_repairs
    MaxKills,       \* bound on processes killed
    MaxFaults,      \* bound on probes, sessions and engines that fail
    MaxLateFaults,  \* bound on exceptions after a terminal mode was written
    None

ASSUME GuardianAssumption ==
    /\ {LastTarget, Total, SameLimit, MaxRepairs} \subseteq Nat \ {0}
    /\ {MaxKills, MaxFaults, MaxLateFaults} \subseteq Nat
    /\ Guardians # {}
    /\ None \notin Guardians \union Nat
    /\ "child" \notin Guardians

Targets == 1..LastTarget

\* What the fingerprint of an error's text distinguishes.
Errors == {"supervisor stopped", "interrupted", "exited", "timeout",
           "no progress", "probe", "stalled", "repair"}

VARIABLES
    control,    \* control.json
    receipt,    \* completion.json: the target it was written for
    tick,       \* local state of each guardian process
    child,      \* the process a tick has started: a campaign session or a repair
    lock,       \* who has guardian.lock open and locked
    exported,   \* exports of each target
    completed,  \* receipts in the journal of each target
    engine,     \* targets with a live engine
    budget,     \* bounded counters
    repairs     \* history: the repairs tried, begun and failed, by error

comparisons == <<exported, completed>>
vars == <<control, receipt, tick, child, lock, comparisons, engine, budget,
          repairs>>

Idle == [pc |-> "idle", state |-> None, before |-> 0]
NoChild == [kind |-> "none", target |-> 0, running |-> FALSE, ran |-> FALSE,
            start |-> 0, code |-> "none"]

Init ==
    /\ control = [mode |-> "observe", target |-> 1, error |-> None,
                  counts |-> [e \in Errors |-> 0], repairs |-> 0,
                  waiting |-> FALSE]
    /\ receipt = None
    /\ tick = [g \in Guardians |-> Idle]
    /\ child = NoChild
    /\ lock = {}
    /\ exported = [t \in Targets |-> 0]
    /\ completed = [t \in Targets |-> 0]
    /\ engine = {1}
    /\ budget = [kills |-> 0, faults |-> 0, late |-> 0]
    /\ repairs = [tried |-> 0, begun |-> [e \in Errors |-> 0],
                  failed |-> [e \in Errors |-> 0], awaiting |-> None]

\* Mutant: an engine whose session is dead is not looked for.
ActiveSession(t) ==
    child.kind = "campaign" /\ child.running /\ child.target = t

\* active_processes: what ps shows of the target; a child that was forked but
\* has not executed its command yet still looks like its parent.
Active(t) ==
    \/ t \in engine
    \/ child.kind = "campaign" /\ child.running /\ child.target = t

State(g) == tick[g].state
Goto(g, pc) == tick' = [tick EXCEPT ![g].pc = pc]

Return(g) ==
    /\ tick' = [tick EXCEPT ![g] = Idle]
    /\ lock' = lock \ {g}

\* The handler of tick: any exception leaves the guardian in repair mode.
Fail(g, state, error) ==
    /\ control' = [state EXCEPT !.mode = "repair", !.error = error]
    /\ Return(g)

Fault(kind) ==
    /\ kind = "faults" => budget.faults < MaxFaults
    /\ kind = "kills" => budget.kills < MaxKills
    /\ kind = "late" => budget.late < MaxLateFaults
    /\ budget' = [budget EXCEPT ![kind] = @ + 1]

----------------------------------------------------------------------------
(***************************************************************************)
(* One tick                                                                *)
(***************************************************************************)
\* Mutant: an error waits for an operator.
BeginUnlessRepair(g) ==
    /\ tick[g].pc = "idle"
    /\ lock = {}
    /\ control.mode \notin {"complete", "blocked", "repair"}
    /\ lock' = {g}
    /\ tick' = [tick EXCEPT ![g] = [pc |-> "look", state |-> control, before |-> 0]]
    /\ UNCHANGED <<control, receipt, child, comparisons, engine, budget, repairs>>

\* tick: a terminal mode does no work, and a second guardian finds the lock.
Begin(g) ==
    /\ tick[g].pc = "idle"
    /\ lock = {}
    /\ control.mode \notin {"complete", "blocked"}
    /\ lock' = {g}
    /\ tick' = [tick EXCEPT ![g] = [pc |-> "look", state |-> control, before |-> 0]]
    /\ UNCHANGED <<control, receipt, child, comparisons, engine, budget, repairs>>

\* Training is alive: it is only observed.
Observe(g) ==
    /\ tick[g].pc = "look"
    /\ Active(State(g).target)
    /\ Return(g)
    /\ UNCHANGED <<control, receipt, child, comparisons, engine, budget, repairs>>

\* ... unless it has shown no sign for 35 minutes: then it is stopped.
StopStalled(g) ==
    LET t == State(g).target IN
    /\ tick[g].pc = "look"
    /\ Active(t)
    /\ Fault("kills")
    /\ engine' = engine \ {t}
    /\ child' = IF child.kind = "campaign" /\ child.target = t
                THEN NoChild ELSE child
    /\ Fail(g, State(g), "stalled")
    /\ UNCHANGED <<receipt, comparisons, repairs>>

BackOff(g) ==
    /\ tick[g].pc = "look"
    /\ ~Active(State(g).target)
    /\ State(g).waiting
    /\ Return(g)
    /\ UNCHANGED <<control, receipt, child, comparisons, engine, budget, repairs>>

Decide(g) ==
    /\ tick[g].pc = "look"
    /\ ~Active(State(g).target)
    /\ ~State(g).waiting
    /\ Goto(g, IF State(g).mode = "repair" THEN "repair" ELSE "probe")
    /\ UNCHANGED <<control, receipt, child, lock, comparisons, engine, budget,
                   repairs>>

\* call_probe, or one of the comparisons with the pinned digests, fails.
ProbeFails(g) ==
    /\ tick[g].pc \in {"probe", "final", "after"}
    /\ Fault("faults")
    /\ Fail(g, State(g), "probe")
    /\ UNCHANGED <<receipt, child, comparisons, engine, repairs>>

SupervisorStopped(g) ==
    /\ tick[g].pc = "probe"
    /\ completed[State(g).target] < Total
    /\ State(g).mode = "observe"
    /\ Fail(g, State(g), "supervisor stopped")
    /\ UNCHANGED <<receipt, child, comparisons, engine, budget, repairs>>

\* The repair of an interruption is on disk before the session begins.
Announce(g) ==
    LET state == [State(g) EXCEPT !.mode = "repair", !.error = "interrupted"] IN
    /\ tick[g].pc = "probe"
    /\ completed[State(g).target] < Total
    /\ State(g).mode # "observe"
    /\ control' = state
    /\ tick' = [tick EXCEPT ![g] = [pc |-> "launch", state |-> state,
                                    before |-> completed[state.target]]]
    /\ UNCHANGED <<receipt, child, lock, comparisons, engine, budget, repairs>>

\* bounded: the child inherits the lock.
Start(kind, target) ==
    /\ child' = [NoChild EXCEPT !.kind = kind, !.target = target]
    /\ lock' = lock \union {"child"}

LaunchSession(g) ==
    /\ tick[g].pc = "launch"
    /\ Start("campaign", State(g).target)
    /\ Goto(g, "session")
    /\ UNCHANGED <<control, receipt, comparisons, engine, budget, repairs>>

\* bounded's timeout: SIGINT makes the session kill its engine, SIGKILL does not.
SessionTimesOut(g) ==
    /\ tick[g].pc = "session"
    /\ child.code = "none"
    /\ Fault("kills")
    /\ \/ engine' = engine \ {child.target}
       \/ UNCHANGED engine
    /\ child' = NoChild
    /\ control' = [State(g) EXCEPT !.mode = "repair", !.error = "timeout"]
    /\ tick' = [tick EXCEPT ![g] = Idle]
    /\ lock' = lock \ {g, "child"}
    /\ UNCHANGED <<receipt, comparisons, repairs>>

SessionEnds(g) ==
    /\ tick[g].pc = "session"
    /\ child.code # "none"
    /\ child' = NoChild
    /\ IF child.code = "failed"
       THEN Fail(g, State(g), "exited")
       ELSE Goto(g, "after") /\ UNCHANGED <<control, lock>>
    /\ UNCHANGED <<receipt, comparisons, engine, budget, repairs>>

\* Only receipts that were not there before count as progress.
CheckProgress(g) ==
    LET t == State(g).target IN
    /\ tick[g].pc = "after"
    /\ IF completed[t] > tick[g].before
       THEN /\ control' = [State(g) EXCEPT !.mode = "managed", !.waiting = FALSE]
            /\ repairs' = [repairs EXCEPT !.awaiting = None]
            /\ Return(g)
       ELSE Fail(g, State(g), "no progress") /\ UNCHANGED repairs
    /\ UNCHANGED <<receipt, child, comparisons, engine, budget>>

BeginFinal(g) ==
    /\ tick[g].pc = "probe"
    /\ completed[State(g).target] = Total
    /\ Goto(g, "final")
    /\ UNCHANGED <<control, receipt, child, lock, comparisons, engine, budget,
                   repairs>>

\* completion.json, and then the mode; a crash between them repeats both.
WriteReceipt(g) ==
    /\ tick[g].pc = "final"
    /\ receipt' = State(g).target
    /\ Goto(g, "complete")
    /\ UNCHANGED <<control, child, lock, comparisons, engine, budget, repairs>>

WriteComplete(g) ==
    /\ tick[g].pc = "complete"
    /\ control' = [State(g) EXCEPT !.mode = "complete"]
    /\ tick' = [tick EXCEPT ![g].pc = "note", ![g].state.mode = "complete"]
    /\ UNCHANGED <<receipt, child, lock, comparisons, engine, budget, repairs>>

\* The terminal mode is on disk; what is left is to log and to notify.
NoteTerminal(g) ==
    /\ tick[g].pc = "note"
    /\ Return(g)
    /\ UNCHANGED <<control, receipt, child, comparisons, engine, budget, repairs>>

NoteFails(g) ==
    /\ tick[g].pc = "note"
    /\ Fault("late")
    /\ Fail(g, State(g), "repair")
    /\ UNCHANGED <<receipt, child, comparisons, engine, repairs>>

----------------------------------------------------------------------------
(***************************************************************************)
(* repair                                                                  *)
(***************************************************************************)
\* Mutant: the counters are only kept in memory while the repair is running.
CountInMemory(g) ==
    LET error == State(g).error IN
    /\ tick[g].pc = "repair"
    /\ tick' = [tick EXCEPT
         ![g].pc = IF State(g).counts[error] + 1 > SameLimit
                      \/ State(g).repairs + 1 > MaxRepairs
                   THEN "block" ELSE "codex",
         ![g].state.counts[error] = @ + 1,
         ![g].state.repairs = @ + 1,
         ![g].state.waiting = TRUE]
    /\ UNCHANGED <<control, receipt, child, lock, comparisons, engine, budget,
                   repairs>>

\* The attempt and its back-off are on disk before anything is tried.  A
\* repair has failed if the next one begins before there was any progress.
Count(g) ==
    LET error == State(g).error
        state == [State(g) EXCEPT !.counts[error] = @ + 1, !.repairs = @ + 1,
                                  !.waiting = TRUE]
    IN
    /\ tick[g].pc = "repair"
    /\ control' = state
    /\ tick' = [tick EXCEPT
         ![g].state = state,
         ![g].pc = IF state.counts[error] > SameLimit \/ state.repairs > MaxRepairs
                   THEN "block" ELSE "codex"]
    /\ repairs' = [repairs EXCEPT
         !.awaiting = error,
         !.failed = [e \in Errors |->
                        IF e = repairs.awaiting THEN @[e] + 1 ELSE @[e]]]
    /\ UNCHANGED <<receipt, child, lock, comparisons, engine, budget>>

\* The circuit breaker.
Block(g) ==
    /\ tick[g].pc = "block"
    /\ control' = [State(g) EXCEPT !.mode = "blocked"]
    /\ tick' = [tick EXCEPT ![g].pc = "note", ![g].state.mode = "blocked"]
    /\ UNCHANGED <<receipt, child, lock, comparisons, engine, budget, repairs>>

LaunchRepair(g) ==
    /\ tick[g].pc = "codex"
    /\ Start("repair", State(g).target)
    /\ Goto(g, "repairing")
    /\ repairs' = [repairs EXCEPT !.begun[State(g).error] = @ + 1, !.tried = @ + 1]
    /\ UNCHANGED <<control, receipt, comparisons, engine, budget>>

RepairTimesOut(g) ==
    /\ tick[g].pc = "repairing"
    /\ child.code = "none"
    /\ Fault("kills")
    /\ child' = NoChild
    /\ control' = [State(g) EXCEPT !.mode = "repair", !.error = "repair"]
    /\ tick' = [tick EXCEPT ![g] = Idle]
    /\ lock' = lock \ {g, "child"}
    /\ UNCHANGED <<receipt, comparisons, engine, repairs>>

\* No decision, or the decision that nothing can be done: retry after the back-off.
RetryLater(g) ==
    /\ tick[g].pc = "repairing"
    /\ child.code = "failed"
    /\ child' = NoChild
    /\ Return(g)
    /\ UNCHANGED <<control, receipt, comparisons, engine, budget, repairs>>

Accept(g, target) ==
    /\ child' = NoChild
    /\ ~Active(State(g).target)
    /\ control' = [State(g) EXCEPT !.mode = "managed", !.waiting = FALSE,
                                   !.target = target]
    /\ Return(g)
    /\ UNCHANGED <<receipt, comparisons, engine, budget, repairs>>

AcceptResume(g) ==
    /\ tick[g].pc = "repairing" /\ child.code = "resume"
    /\ Accept(g, State(g).target)

Empty(t) == completed[t] = 0 /\ exported[t] = 0

\* Only a comparison that has not begun may take the place of another.
AcceptReplacement(g) ==
    /\ tick[g].pc = "repairing" /\ child.code = "replace"
    /\ \E t \in Targets :
         /\ t = State(g).target + 1
         /\ Empty(t)
         /\ Accept(g, t)

\* check_decision, the probe of the candidate or one of the assertions fails.
DecisionRefused(g) ==
    /\ tick[g].pc = "repairing"
    /\ child.code \in {"resume", "replace"}
    /\ \/ Fault("faults")
       \/ /\ \/ Active(State(g).target)
             \/ /\ child.code = "replace"
                /\ ~\E t \in Targets : t = State(g).target + 1 /\ Empty(t)
          /\ UNCHANGED budget
    /\ child' = NoChild
    /\ Fail(g, State(g), "repair")
    /\ UNCHANGED <<receipt, comparisons, engine, repairs>>

\* SIGKILL of the guardian: its child goes on and keeps the lock.
Killed(g) ==
    /\ tick[g].pc # "idle"
    /\ Fault("kills")
    /\ Return(g)
    /\ child' = IF child.code # "none" THEN NoChild ELSE child
    /\ UNCHANGED <<control, receipt, comparisons, engine, repairs>>

\* The back-off is over (control.json has a time of day).
Elapse ==
    /\ control.waiting
    /\ control' = [control EXCEPT !.waiting = FALSE]
    /\ tick' = [g \in Guardians |->
                 IF State(g) = None THEN tick[g]
                 ELSE [tick[g] EXCEPT !.state.waiting = FALSE]]
    /\ UNCHANGED <<receipt, child, lock, comparisons, engine, budget, repairs>>

----------------------------------------------------------------------------
(***************************************************************************)
(* What a tick starts                                                      *)
(***************************************************************************)
\* The child exits; a guardian that still waits for it reads how.
ChildExits(code) ==
    /\ child' = IF \E g \in Guardians : tick[g].pc \in {"session", "repairing"}
                THEN [child EXCEPT !.code = code]
                ELSE NoChild
    /\ lock' = lock \ {"child"}

Session == child.kind = "campaign" /\ child.code = "none"

Execute ==
    /\ Session /\ ~child.running
    /\ child' = [child EXCEPT !.running = TRUE]
    /\ UNCHANGED <<control, receipt, tick, lock, comparisons, engine, budget,
                   repairs>>

\* The session appends the receipt of an export that has none.
Adopt ==
    /\ Session /\ child.running
    /\ child.target \notin engine
    /\ completed[child.target] < exported[child.target]
    /\ completed' = [completed EXCEPT ![child.target] = @ + 1]
    /\ UNCHANGED <<control, receipt, tick, child, lock, exported, engine, budget,
                   repairs>>

Dispatch ==
    /\ Session /\ child.running /\ ~child.ran
    /\ child.target \notin engine
    /\ completed[child.target] = exported[child.target]
    /\ completed[child.target] < Total
    /\ engine' = engine \union {child.target}
    /\ child' = [child EXCEPT !.ran = TRUE, !.start = completed[child.target]]
    /\ UNCHANGED <<control, receipt, tick, lock, comparisons, budget, repairs>>

\* run_campaign returns "complete" or "paused", or raises: without an export
\* of its dispatch, or because the campaign's lease is still held.
SessionReturns ==
    LET t == child.target IN
    /\ Session /\ child.running
    /\ \/ /\ child.ran /\ t \notin engine /\ completed[t] = exported[t]
          /\ ChildExits(IF completed[t] > child.start THEN "ok" ELSE "failed")
          /\ UNCHANGED budget
       \/ /\ ~child.ran /\ t \in engine
          /\ ChildExits("failed")
          /\ UNCHANGED budget
       \/ /\ ~child.ran /\ t \notin engine /\ completed[t] = Total
          /\ ChildExits("ok")
          /\ UNCHANGED budget
       \/ /\ ~child.ran /\ t \notin engine /\ completed[t] < Total
          /\ Fault("faults")
          /\ \E code \in {"ok", "failed"} : ChildExits(code)
    /\ UNCHANGED <<control, receipt, tick, comparisons, engine, repairs>>

SessionKilled ==
    /\ Session
    /\ Fault("kills")
    /\ ChildExits("failed")
    /\ UNCHANGED <<control, receipt, tick, comparisons, engine, repairs>>

\* Codex leaves a decision, or none.
Repaired ==
    /\ child.kind = "repair" /\ child.code = "none"
    /\ \E code \in {"failed", "resume", "replace"} : ChildExits(code)
    /\ UNCHANGED <<control, receipt, tick, comparisons, engine, budget, repairs>>

\* Codex was told not to train, but its clone is its own.
RepairTrains ==
    /\ child.kind = "repair" /\ child.code = "none"
    /\ child.target + 1 \in Targets
    /\ exported[child.target + 1] < Total
    /\ Fault("faults")
    /\ exported' = [exported EXCEPT ![child.target + 1] = @ + 1]
    /\ UNCHANGED <<control, receipt, tick, child, lock, completed, engine, repairs>>

EngineExports(t) ==
    /\ t \in engine
    /\ exported' = [exported EXCEPT ![t] = @ + 1]
    /\ engine' = engine \ {t}
    /\ UNCHANGED <<control, receipt, tick, child, lock, completed, budget, repairs>>

EngineFails(t) ==
    /\ t \in engine
    /\ Fault("faults")
    /\ engine' = engine \ {t}
    /\ UNCHANGED <<control, receipt, tick, child, lock, comparisons, repairs>>

----------------------------------------------------------------------------
TickStep(g) ==
    \/ Begin(g) \/ Observe(g) \/ BackOff(g) \/ Decide(g)
    \/ SupervisorStopped(g) \/ Announce(g) \/ LaunchSession(g) \/ SessionEnds(g)
    \/ CheckProgress(g) \/ BeginFinal(g) \/ WriteReceipt(g) \/ WriteComplete(g)
    \/ NoteTerminal(g) \/ Count(g) \/ Block(g) \/ LaunchRepair(g)
    \/ RetryLater(g) \/ AcceptResume(g) \/ AcceptReplacement(g)
    \/ DecisionRefused(g)

TickFault(g) ==
    \/ StopStalled(g) \/ ProbeFails(g) \/ SessionTimesOut(g) \/ RepairTimesOut(g)
    \/ NoteFails(g) \/ Killed(g)

ChildStep == Execute \/ Adopt \/ Dispatch \/ SessionReturns \/ Repaired

Next ==
    \/ \E g \in Guardians : TickStep(g) \/ TickFault(g)
    \/ ChildStep \/ SessionKilled \/ RepairTrains \/ Elapse
    \/ \E t \in Targets : EngineExports(t) \/ EngineFails(t)

Spec == Init /\ [][Next]_vars

\* launchd starts a tick every minute, time passes, children are bounded by
\* timeouts and an engine ends by its deadline; nothing is assumed of faults.
FairSpec ==
    /\ Spec
    /\ \A g \in Guardians : WF_vars(TickStep(g))
    /\ WF_vars(ChildStep)
    /\ WF_vars(Elapse)
    /\ \A t \in Targets : WF_vars(EngineExports(t))

----------------------------------------------------------------------------
(***************************************************************************)
(* Properties                                                              *)
(***************************************************************************)
(* However often guardians are killed or end in exceptions, an error is     *)
(* repaired at most same_failure_limit times and all errors together at     *)
(* most max_repairs times: the counters are durable before an attempt.      *)
RepairsAreBounded ==
    /\ \A e \in Errors : repairs.begun[e] <= SameLimit
    /\ repairs.tried <= MaxRepairs

(* Training only ever runs for the comparison that control.json names: a    *)
(* superseded one is not trained any more, not even by a session that a     *)
(* killed guardian had forked.                                              *)
OnlyTheTargetTrains ==
    \A t \in Targets :
        t \in engine \/ (child.kind = "campaign" /\ child.code = "none" /\ child.target = t)
            => t = control.target

(* README.md:190: "Three failed repairs for the same error, or twelve total *)
(* attempts, open a circuit breaker": a repair that was followed by new     *)
(* receipts is not a failed one.                                            *)
BreakerCountsFailures ==
    control.mode = "blocked" =>
        \/ \E e \in Errors : repairs.failed[e] >= SameLimit
        \/ control.repairs > MaxRepairs

(* The guardian always comes to an end: completion or the breaker. *)
EventuallyTerminal == <>[](control.mode \in {"complete", "blocked"})
=============================================================================
