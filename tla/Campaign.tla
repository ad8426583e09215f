------------------------------ MODULE Campaign ------------------------------
(***************************************************************************)
(* The campaign runner: sessions of run_campaign work through the slots of *)
(* a frozen plan, dispatch at most one engine at a time and record what    *)
(* they did in a journal of events that are never rewritten.               *)
(*                                                                         *)
(* Three things keep two engines from working on one slot: the campaign's  *)
(* lease, which the dispatched process inherits and which therefore        *)
(* outlives a dead session; the process group a dispatch publishes before  *)
(* it becomes the engine; and the run directory found on disk.             *)
(*                                                                         *)
(* An engine run is reduced to what a session can see of it (EngineRun has *)
(* the rest): how far it was created, how many attempts it committed,      *)
(* whether one of them failed, whether its time is spent, and its export.  *)
(***************************************************************************)
EXTENDS Naturals, Sequences, FiniteSets

CONSTANTS
    Controllers,    \* processes that call run_campaign
    Groups,         \* process groups (ids may be used again)
    CaseOf,         \* the case of each slot, in the plan's order
    NoResume,       \* slots of the contenders system
    Budget,         \* evaluations of a slot
    Segmented,      \* spec.timeout > 1800: a slot may take several dispatches
    MaxRuns,        \* --max-runs
    Filters,        \* values of only_case
    MaxEvents,      \* bound on the length of the journal
    MaxCrashes,     \* bound on sessions killed
    MaxDeaths,      \* bound on engines killed
    MaxPauses,      \* bound on sessions and engines stopped by a deadline
    None

Slots == DOMAIN CaseOf
Cases == {CaseOf[s] : s \in Slots}

ASSUME PlanAssumption ==
    /\ CaseOf \in Seq(Cases)
    /\ NoResume \subseteq Slots
    /\ Budget \in Nat \ {0}
    /\ MaxRuns \in Nat \ {0}
    /\ Segmented \in BOOLEAN
    /\ Filters \subseteq Cases \union {None}
    /\ {MaxEvents, MaxCrashes, MaxDeaths, MaxPauses} \subseteq Nat
    /\ Controllers # {} /\ Controllers \intersect Groups = {}
    /\ None \notin Cases \union Controllers \union Groups

VARIABLES
    journal,    \* events/NNNNNN.json
    handshake,  \* dispatch/NNNNNN.started.json: the group that started it
    run,        \* what each slot's run directories say
    report,     \* reports/<case>/case.json
    lease,      \* processes with .campaign.lock open and locked
    session,    \* local state of each controller
    group,      \* the processes of each group
    faults      \* bounded counters, and the integrity checks that refused

disk == <<journal, handshake, run, report>>
vars == <<disk, lease, session, group, faults>>

Dispatched(s, resumed) == [kind |-> "dispatch", slot |-> s, resumed |-> resumed]
Completed(s, ref) == [kind |-> "complete", slot |-> s, export |-> ref]
NoRun == [directories |-> 0, stage |-> "none", done |-> 0, failed |-> FALSE,
          spent |-> FALSE, export |-> 0]
Idle == [pc |-> "idle", filter |-> None, at |-> 0, history |-> <<>>,
         child |-> None, launched |-> 0, before |-> 0, resumed |-> FALSE,
         reference |-> 0]
Free == [leader |-> "none", fitting |-> FALSE, event |-> 0, bound |-> FALSE,
         code |-> "ok"]

Init ==
    /\ journal = <<>>
    /\ handshake = [i \in 1..MaxEvents |-> None]
    /\ run = [s \in Slots |-> NoRun]
    /\ report = [k \in Cases |-> None]
    /\ lease = {}
    /\ session = [c \in Controllers |-> Idle]
    /\ group = [g \in Groups |-> Free]
    /\ faults = [crashes |-> 0, deaths |-> 0, pauses |-> 0, alarms |-> {}]

Slot(g) == journal[group[g].event].slot
Running(g) == group[g].leader \in {"worker", "engine"}

\* os.killpg(pid, 0) finds a process of the group, a zombie or a training.
Alive(g) == group[g].leader # "none" \/ group[g].fitting

----------------------------------------------------------------------------
(***************************************************************************)
(* A session                                                               *)
(***************************************************************************)
At(c) == session[c].at
Goto(c, pc) == session' = [session EXCEPT ![c].pc = pc]

\* The session's process ends: its memory and its hold on the lease are
\* gone; a child it did not wait for keeps its own.
Leave(c) ==
    /\ session' = [session EXCEPT ![c] = Idle]
    /\ lease' = lease \ {c}

Refuse(c) == Leave(c) /\ UNCHANGED <<disk, group, faults>>

RefuseEvidence(c, kind) ==
    /\ Leave(c)
    /\ faults' = [faults EXCEPT !.alarms = @ \union {kind}]
    /\ UNCHANGED <<disk, group>>

Selected(filter) == {s \in Slots : filter \in {None, CaseOf[s]}}

\* The loop's next slot after s, or the reports when there is none.
Continue(record, s) ==
    LET later == {t \in Selected(record.filter) : t > s} IN
    IF later = {}
    THEN [record EXCEPT !.pc = "report", !.at = 0]
    ELSE [record EXCEPT !.pc = "check",
                        !.at = CHOOSE t \in later : \A u \in later : t <= u]

Acquire(c) ==
    /\ session[c].pc = "idle"
    /\ lease = {}
    /\ lease' = {c}
    /\ \E filter \in Filters :
         session' = [session EXCEPT
            ![c] = Continue([Idle EXCEPT !.filter = filter,
                                         !.history = journal], 0)]
    /\ UNCHANGED <<disk, group, faults>>

\* Mutant: a dispatch is not looked for before another one is made.
CheckNothing(c) ==
    /\ session[c].pc = "check"
    /\ Goto(c, "adopt")
    /\ UNCHANGED <<disk, lease, group, faults>>

\* active_dispatch: an earlier dispatch of the slot may still be alive.
CheckActive(c) ==
    LET history == session[c].history IN
    /\ session[c].pc = "check"
    /\ IF \E i \in DOMAIN history :
            /\ history[i].kind = "dispatch" /\ history[i].slot = At(c)
            /\ handshake[i] # None /\ Alive(handshake[i])
       THEN Refuse(c)
       ELSE Goto(c, "adopt") /\ UNCHANGED <<disk, lease, group, faults>>

Ambiguous(s) == run[s].directories > 1
Exported(s) == run[s].export # 0 /\ ~run[s].failed
Partial(s) == run[s].directories = 1 /\ run[s].export = 0

ReceiptOf(c) ==
    LET history == session[c].history IN
    {history[i].export : i \in {j \in DOMAIN history :
        history[j].kind = "complete" /\ history[j].slot = At(c)}}

\* adopted() raises: several run directories, or an export that is no evidence.
AdoptRefused(c) ==
    /\ session[c].pc \in {"adopt", "collect"}
    /\ \/ Ambiguous(At(c)) /\ RefuseEvidence(c, "ambiguous")
       \/ /\ ~Ambiguous(At(c))
          /\ run[At(c)].export # 0 /\ run[At(c)].failed
          /\ Refuse(c)

\* The slot is complete in the journal: its evidence must still be there.
SkipCompleted(c) ==
    /\ session[c].pc = "adopt"
    /\ ReceiptOf(c) # {}
    /\ IF ReceiptOf(c) = {run[At(c)].export}
       THEN /\ session' = [session EXCEPT ![c] = Continue(@, At(c))]
            /\ UNCHANGED <<disk, lease, group, faults>>
       ELSE RefuseEvidence(c, "evidence")

\* Mutant: a finished export without a receipt is left for inspection.
AdoptNothing(c) ==
    /\ session[c].pc = "adopt"
    /\ ReceiptOf(c) = {}
    /\ ~Ambiguous(At(c)) /\ Exported(At(c))
    /\ Refuse(c)

\* A finished export whose receipt was lost is adopted, not run again.
AdoptExport(c) ==
    /\ session[c].pc = "adopt"
    /\ ReceiptOf(c) = {}
    /\ ~Ambiguous(At(c)) /\ Exported(At(c))
    /\ session' = [session EXCEPT ![c].pc = "complete",
                                  ![c].reference = run[At(c)].export]
    /\ UNCHANGED <<disk, lease, group, faults>>

Unfinished(c) ==
    /\ session[c].pc = "adopt"
    /\ ReceiptOf(c) = {}
    /\ ~Ambiguous(At(c)) /\ run[At(c)].export = 0

CompletedIn(history) ==
    {history[i].slot : i \in {j \in DOMAIN history : history[j].kind = "complete"}}

\* The bound MaxEvents leaves room for the receipts that are missing; a
\* session without room for a dispatch is one whose time is over.
Room == Len(journal) + Cardinality(Slots \ CompletedIn(journal)) < MaxEvents

\* max_runs is reached, or the slot's full time no longer fits the session.
Break(c) ==
    /\ Unfinished(c)
    /\ \/ /\ session[c].launched >= MaxRuns \/ ~Room
          /\ UNCHANGED faults
       \/ /\ faults.pauses < MaxPauses
          /\ faults' = [faults EXCEPT !.pauses = @ + 1]
    /\ Goto(c, "report")
    /\ UNCHANGED <<disk, lease, group>>

\* A partial run that cannot be resumed is never replaced.
Unresumable(s) ==
    /\ Partial(s)
    /\ \/ s \in NoResume
       \/ run[s].stage = "bare"
       \/ run[s].spent /\ run[s].done < Budget

PrepareRefused(c) ==
    /\ Unfinished(c)
    /\ session[c].launched < MaxRuns
    /\ Unresumable(At(c))
    /\ Refuse(c)

\* Mutant: what a run directory holds is not looked at.
PrepareFresh(c) ==
    /\ session[c].pc = "adopt"
    /\ ReceiptOf(c) = {}
    /\ session[c].launched < MaxRuns /\ Room
    /\ session' = [session EXCEPT ![c].pc = "dispatch", ![c].before = 0,
                                  ![c].resumed = FALSE]
    /\ UNCHANGED <<disk, lease, group, faults>>

Prepare(c) ==
    /\ Unfinished(c)
    /\ session[c].launched < MaxRuns
    /\ ~Unresumable(At(c)) /\ Room
    /\ session' = [session EXCEPT
         ![c].pc = "dispatch",
         ![c].before = IF Partial(At(c)) THEN run[At(c)].done ELSE 0,
         ![c].resumed = Partial(At(c))]
    /\ UNCHANGED <<disk, lease, group, faults>>

\* append_event: the next file of the journal is created exclusively, which
\* fails if another process has appended since this session read the journal.
AppendEvent(c, event, after) ==
    IF Len(session[c].history) < Len(journal)
    THEN RefuseEvidence(c, "journal")
    ELSE /\ Len(journal) < MaxEvents
         /\ journal' = Append(journal, event)
         /\ session' = [session EXCEPT ![c] = after]
         /\ UNCHANGED <<handshake, run, report, lease, group, faults>>

Receipt(c) ==
    LET event == Completed(At(c), session[c].reference)
        after == [session[c] EXCEPT !.history = Append(@, event),
                                    !.reference = 0]
    IN
    /\ session[c].pc = "complete"
    /\ AppendEvent(c, event, Continue(after, At(c)))

Dispatch(c) ==
    LET event == Dispatched(At(c), session[c].resumed) IN
    /\ session[c].pc = "dispatch"
    /\ AppendEvent(c, event, [session[c] EXCEPT !.pc = "spawn",
                                                !.history = Append(@, event),
                                                !.resumed = FALSE])

SpawnIn(c, g) ==
    /\ session[c].pc = "spawn"
    /\ ~Alive(g)
    /\ group' = [group EXCEPT
         ![g] = [Free EXCEPT !.leader = "worker",
                             !.event = Len(session[c].history)]]
    /\ session' = [session EXCEPT ![c].pc = "wait", ![c].child = g]
    /\ UNCHANGED <<disk, faults>>

\* Mutant: the lease's descriptor is not passed to the child.
SpawnWithoutLease(c) ==
    \E g \in Groups : SpawnIn(c, g) /\ UNCHANGED lease

\* _bounded_process starts the worker in a session of its own, with the lease.
Spawn(c) ==
    \E g \in Groups : SpawnIn(c, g) /\ lease' = lease \union {g}

\* process.wait returns; a failed child ends the session, and what its group
\* may still be running goes on.
Reap(c) ==
    LET g == session[c].child IN
    /\ session[c].pc = "wait"
    /\ group[g].leader = "zombie"
    /\ group' = [group EXCEPT ![g].leader = "none"]
    /\ IF group[g].code = "ok"
       THEN /\ session' = [session EXCEPT ![c].pc = "collect", ![c].child = None,
                                          ![c].launched = @ + 1]
            /\ UNCHANGED lease
       ELSE Leave(c)
    /\ UNCHANGED <<disk, faults>>

\* The segment's time is over (or the session is interrupted): the whole
\* group is killed before the exception leaves _bounded_process.
TimeOut(c) ==
    LET g == session[c].child IN
    /\ session[c].pc = "wait"
    /\ Running(g)
    /\ faults.deaths < MaxDeaths
    /\ faults' = [faults EXCEPT !.deaths = @ + 1]
    /\ group' = [group EXCEPT ![g] = Free]
    /\ session' = [session EXCEPT ![c] = Idle]
    /\ lease' = lease \ {c, g}
    /\ UNCHANGED disk

\* A segmented slot that made progress and lost nothing waits for a later session.
Progressed(c) ==
    /\ Segmented
    /\ Partial(At(c))
    /\ session[c].before < run[At(c)].done /\ run[At(c)].done < Budget
    /\ ~run[At(c)].spent /\ ~run[At(c)].failed

Collect(c) ==
    /\ session[c].pc = "collect"
    /\ ~Ambiguous(At(c))
    /\ \/ /\ Exported(At(c))
          /\ session' = [session EXCEPT ![c].pc = "complete",
                                        ![c].reference = run[At(c)].export]
          /\ UNCHANGED lease
       \/ /\ Progressed(c)
          /\ Goto(c, "report")
          /\ UNCHANGED lease
       \/ /\ run[At(c)].export = 0 /\ ~Progressed(c)
          /\ Leave(c)
    /\ UNCHANGED <<disk, group, faults>>

----------------------------------------------------------------------------
(***************************************************************************)
(* The case reports that end a session                                     *)
(***************************************************************************)
SlotsOf(k) == {s \in Slots : CaseOf[s] = k}

\* case.json: the reference of every system of the case.
Document(history, k) ==
    [s \in SlotsOf(k) \intersect CompletedIn(history) |->
        LET i == CHOOSE j \in DOMAIN history :
                    history[j].kind = "complete" /\ history[j].slot = s
        IN history[i].export]

AllComplete(c, k) == SlotsOf(k) \subseteq CompletedIn(session[c].history)

PublishReport(c) ==
    /\ session[c].pc = "report"
    /\ \E k \in Cases :
         LET document == Document(session[c].history, k) IN
         /\ AllComplete(c, k)
         /\ report[k] # document
         /\ IF report[k] = None
            THEN /\ report' = [report EXCEPT ![k] = document]
                 /\ UNCHANGED <<journal, handshake, run, lease, session, group,
                                faults>>
            ELSE RefuseEvidence(c, "report")

Finish(c) ==
    /\ session[c].pc = "report"
    /\ \A k \in Cases :
         AllComplete(c, k) => report[k] = Document(session[c].history, k)
    /\ Refuse(c)

\* SIGKILL of a session; a zombie it did not wait for is reaped by init.
Crash(c) ==
    LET g == session[c].child IN
    /\ session[c].pc # "idle"
    /\ faults.crashes < MaxCrashes
    /\ faults' = [faults EXCEPT !.crashes = @ + 1]
    /\ Leave(c)
    /\ group' = IF g # None /\ group[g].leader = "zombie"
                THEN [group EXCEPT ![g].leader = "none"]
                ELSE group
    /\ UNCHANGED disk

----------------------------------------------------------------------------
(***************************************************************************)
(* The dispatched process: campaign_worker, and the engine it becomes      *)
(***************************************************************************)
\* The group is published before exec, so that a later session can look for it.
Handshake(g) ==
    /\ group[g].leader = "worker"
    /\ handshake' = [handshake EXCEPT ![group[g].event] = g]
    /\ group' = [group EXCEPT ![g].leader = "engine"]
    /\ UNCHANGED <<journal, run, report, lease, session, faults>>

Resumes(g) == journal[group[g].event].resumed

OnRun(g, newRun) ==
    /\ group[g].leader = "engine"
    /\ run' = [run EXCEPT ![Slot(g)] = newRun]
    /\ UNCHANGED <<journal, handshake, report, lease, session, faults>>

\* create_run_workspace names the directory anew: it never meets an earlier one.
CreateRun(g) ==
    /\ group[g].leader = "engine"
    /\ ~Resumes(g) /\ ~group[g].bound
    /\ run[Slot(g)].directories < 2
    /\ OnRun(g, [run[Slot(g)] EXCEPT !.directories = @ + 1, !.stage = "bare"])
    /\ group' = [group EXCEPT ![g].bound = TRUE]

\* publish_initial, and then the run store.
CreateCheckpoint(g) ==
    /\ group[g].bound /\ run[Slot(g)].stage = "bare"
    /\ OnRun(g, [run[Slot(g)] EXCEPT !.stage = "storeless"])
    /\ UNCHANGED group

CreateStore(g) ==
    /\ group[g].bound /\ run[Slot(g)].stage = "storeless"
    /\ OnRun(g, [run[Slot(g)] EXCEPT !.stage = "ready"])
    /\ UNCHANGED group

Open(g) == (group[g].bound \/ Resumes(g)) /\ run[Slot(g)].stage = "ready"

StartFit(g) ==
    /\ group[g].leader = "engine"
    /\ Open(g)
    /\ run[Slot(g)].done < Budget /\ ~run[Slot(g)].spent
    /\ ~group[g].fitting
    /\ group' = [group EXCEPT ![g].fitting = TRUE]
    /\ UNCHANGED <<disk, lease, session, faults>>

CommitFit(g) ==
    /\ group[g].fitting
    /\ \E failed, spent \in BOOLEAN :
         OnRun(g, [run[Slot(g)] EXCEPT !.done = @ + 1,
                                       !.failed = @ \/ failed,
                                       !.spent = spent])
    /\ group' = [group EXCEPT ![g].fitting = FALSE]

\* The training outlived its engine; nobody commits it.
OrphanEnds(g) ==
    /\ group[g].fitting /\ group[g].leader # "engine"
    /\ group' = [group EXCEPT ![g].fitting = FALSE]
    /\ UNCHANGED <<disk, lease, session, faults>>

Export(g) ==
    /\ group[g].leader = "engine"
    /\ Open(g) /\ ~group[g].fitting
    /\ run[Slot(g)].done = Budget /\ run[Slot(g)].export = 0
    /\ OnRun(g, [run[Slot(g)] EXCEPT !.export = group[g].event])
    /\ UNCHANGED group

\* The process exits: its descriptors are closed, and it is a zombie until
\* the session that started it, if it is still there, has waited for it.
Exit(g, code) ==
    /\ Running(g)
    /\ group' = [group EXCEPT
         ![g].leader = IF \E c \in Controllers : session[c].child = g
                       THEN "zombie" ELSE "none",
         ![g].code = code]
    /\ lease' = lease \ {g}
    /\ UNCHANGED <<disk, session>>

EngineEnds(g) ==
    /\ group[g].leader = "engine"
    /\ Open(g) /\ run[Slot(g)].export # 0 /\ ~group[g].fitting
    /\ Exit(g, "ok")
    /\ UNCHANGED faults

\* The deadline of the invocation: what is committed stays for a later one.
EngineStops(g) ==
    /\ group[g].leader = "engine"
    /\ Open(g) /\ ~group[g].fitting /\ run[Slot(g)].done < Budget
    /\ \/ run[Slot(g)].spent /\ UNCHANGED faults
       \/ /\ faults.pauses < MaxPauses
          /\ faults' = [faults EXCEPT !.pauses = @ + 1]
    /\ Exit(g, "ok")

\* A resumed run without a store cannot be opened.
EngineRefuses(g) ==
    /\ group[g].leader = "engine"
    /\ Resumes(g) /\ run[Slot(g)].stage # "ready"
    /\ Exit(g, "failed")
    /\ UNCHANGED faults

\* The process alone is killed, at any point; its training goes on.
Dies(g) ==
    /\ faults.deaths < MaxDeaths
    /\ faults' = [faults EXCEPT !.deaths = @ + 1]
    /\ Exit(g, "failed")

----------------------------------------------------------------------------
SessionStep(c) ==
    \/ Acquire(c) \/ CheckActive(c)
    \/ AdoptRefused(c) \/ SkipCompleted(c) \/ AdoptExport(c)
    \/ Break(c) \/ PrepareRefused(c) \/ Prepare(c)
    \/ Receipt(c) \/ Dispatch(c) \/ Spawn(c)
    \/ Reap(c) \/ Collect(c)
    \/ PublishReport(c) \/ Finish(c)

EngineStep(g) ==
    \/ Handshake(g) \/ CreateRun(g) \/ CreateCheckpoint(g) \/ CreateStore(g)
    \/ StartFit(g) \/ CommitFit(g) \/ OrphanEnds(g) \/ Export(g)
    \/ EngineEnds(g) \/ EngineStops(g) \/ EngineRefuses(g)

Next ==
    \/ \E c \in Controllers : SessionStep(c) \/ TimeOut(c) \/ Crash(c)
    \/ \E g \in Groups : EngineStep(g) \/ Dies(g)

Spec == Init /\ [][Next]_vars

\* The campaign is resumed as long as it is not complete, and processes that
\* were not killed go on; sessions over one case alternate with sessions over
\* all.  Nothing is assumed of crashes or kills.
AcquireAll(c) == Acquire(c) /\ session'[c].filter = None

FairSpec ==
    /\ Spec
    /\ \A c \in Controllers : WF_vars(SessionStep(c)) /\ SF_vars(AcquireAll(c))
    /\ \A g \in Groups : WF_vars(EngineStep(g))

----------------------------------------------------------------------------
(***************************************************************************)
(* Properties                                                              *)
(***************************************************************************)
(* No slot ever has the processes of two dispatches at work for it, however *)
(* sessions and engines die between the lease, the journal, the spawn and   *)
(* the handshake: lease, campaign_worker and active_dispatch together.      *)
OneDispatchAtWork ==
    \A g, h \in Groups :
        g # h /\ Alive(g) /\ Alive(h) => Slot(g) # Slot(h)

(* No integrity check ever stops a campaign that nobody tampered with: two   *)
(* run directories of a slot, an export other than its receipt, a journal   *)
(* another session appended to, or a case report that changed.              *)
EvidenceUndisputed == faults.alarms = {}

(* A slot whose export exists is never dispatched again, also when the      *)
(* session died before its receipt; its export is never replaced, and it    *)
(* gets one receipt, which names that export and is its last event.         *)
FinishedSlotsRest ==
    [][\A s \in Slots :
         Exported(s) =>
            /\ run'[s] = run[s]
            /\ LET new == journal'[Len(journal')] IN
               Len(journal') > Len(journal) /\ new.slot = s =>
                 /\ new = Completed(s, run[s].export)
                 /\ s \notin CompletedIn(journal)]_vars

\* A slot nobody works on and no later session can finish: its run was not
\* fully created, has failed attempts, used its time or cannot be resumed.
Abandoned(s) ==
    /\ \A g \in Groups : Alive(g) => Slot(g) # s
    /\ run[s].directories > 0 /\ ~Exported(s)
    /\ \/ run[s].stage # "ready"
       \/ run[s].failed
       \/ run[s].spent
       \/ s \in NoResume

\* Every slot has its receipt and every case its report.
Complete ==
    /\ CompletedIn(journal) = Slots
    /\ \A k \in Cases : report[k] # None

(* A campaign that is resumed ends with every case reported, unless a slot  *)
(* was left in a state no session may repair (fail-closed).                 *)
EventuallyComplete == <>[]Complete \/ <>[](\E s \in Slots : Abandoned(s))
=============================================================================
