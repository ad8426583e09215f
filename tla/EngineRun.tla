----------------------------- MODULE EngineRun -----------------------------
(***************************************************************************)
(* One engine run directory, the coordinators that drive it (fresh run or  *)
(* resume), and the isolated training workers they spawn.                  *)
(*                                                                         *)
(* A coordinator may die between any two durable operations and another    *)
(* invocation resumes from the files alone; a worker outlives the          *)
(* coordinator that spawned it.  The advisory locks are the only mutual    *)
(* exclusion: the kernel drops them when their holder dies.                *)
(*                                                                         *)
(* A digest is modelled by the value it digests.  An attempt carries a     *)
(* stamp for its timing fields (elapsed, dispatch_seconds, ...), which no  *)
(* two computations of the same attempt share.                             *)
(***************************************************************************)
EXTENDS Naturals, Sequences, FiniteSets

CONSTANTS
    Coordinators,   \* run_engine invocations
    Workers,        \* worker processes
    Total,          \* evaluation budget
    Scores,         \* metric values a fit may reach
    Stamps,         \* timing a computation of an attempt may record
    Uncompilable,   \* steps whose candidate compile_candidate rejects
    MaxCrashes,     \* bound on coordinator deaths
    MaxStops,       \* bound on loops ended by the deadline or stop_after
    None

ASSUME ConstantsAssumption ==
    /\ Total \in Nat
    /\ MaxCrashes \in Nat
    /\ MaxStops \in Nat
    /\ Uncompilable \subseteq 1..Total
    /\ None \notin Coordinators \union Workers

Steps == 1..Total

OkResult(v) == [status |-> "ok", charged |-> 1, score |-> v]
FailedResult(n) == [status |-> "failed", charged |-> n, score |-> 0]

Results == {OkResult(v) : v \in Scores} \union {FailedResult(n) : n \in {0, 1}}
Attempts == [result : Results, stamp : Stamps]
States == Seq(Attempts)
Transitions == [before : States, attempt : Attempts]

\* A transaction file, and a journal payload: a digest of the state before,
\* and the one attempt appended to it.
Transition(before, attempt) == [before |-> before, attempt |-> attempt]

\* What the run store records of an attempt: failed rows carry metric 0.0.
RowOf(a) == <<a.result.status, a.result.score>>

ASSUME NoneAssumption == None \notin Results \union Attempts \union Transitions

VARIABLES
    storage,        \* "absent", "checkpoint" (no store yet) or "ready"
    request,        \* request.json of each step: the state its plan derives from
    started,        \* steps whose "started" marker exists
    result,         \* result.json of each step
    transaction,    \* transaction_NNNNNN.json of each step
    rows,           \* evaluation rows of the run store
    payload,        \* step_N.ckpt of each step
    manifest,       \* the step the checkpoint manifest names
    exports,        \* export directory published at each number of steps
    boundary,       \* holder of .boundary.lock
    workerLock,     \* holder of each step's .worker.lock
    pc, resumed, state, inherited, outcome, pending, child,
    wpc, wstep,
    fits,           \* history: trainings begun for each step
    crashes, stops, \* bounded counters
    alarms          \* history: integrity checks that refused to continue

plan      == <<request, transaction>>
fitFiles  == <<started, result>>
commits   == <<rows, payload, manifest>>
locals    == <<resumed, state, inherited, outcome, pending, child>>
workers   == <<wpc, wstep, workerLock>>
history   == <<fits, crashes, stops, alarms>>
vars == <<storage, plan, fitFiles, commits, exports, boundary, pc, locals,
          workers, history>>

Critical == {"loop", "check", "spawn", "wait", "terminal", "observed", "row",
             "stage", "payload", "manifest", "finish"}
Labels == Critical \union {"idle", "creating", "opening"}
AlarmKinds == {"progress", "chain", "transaction", "row", "predecessor",
               "payload", "request", "export"}

(***************************************************************************)
(* What the files say                                                      *)
(***************************************************************************)
Committed == [s \in 1..manifest |-> payload[s].attempt]

\* load_runtime_checkpoint walks the chain and replays it against its digests.
ChainHolds ==
    \A s \in 1..manifest :
        /\ payload[s] # None
        /\ payload[s].before = SubSeq(Committed, 1, s - 1)

\* The row chain's tip, kept in the state, identifies the row prefix.
TipHolds ==
    \A s \in 1..manifest : rows[s] = RowOf(payload[s].attempt)

ProgressHolds == manifest <= Len(rows) /\ Len(rows) <= manifest + 1

Charged(attempts, from, to) ==
    Cardinality({i \in from..to : attempts[i].result.charged = 1})

\* Mutant: the inherited boundary attempt is counted on both sides.
ExportOfOverlapping(attempts, k) ==
    [state  |-> attempts,
     actual |-> Charged(attempts, IF k = 0 THEN 1 ELSE k, Len(attempts)),
     cached |-> Charged(attempts, 1, k)]

ExportOf(attempts, k) ==
    [state  |-> attempts,
     actual |-> Charged(attempts, k + 1, Len(attempts)),
     cached |-> Charged(attempts, 1, k)]

Init ==
    /\ storage = "absent"
    /\ request = [s \in Steps |-> None]
    /\ transaction = [s \in Steps |-> None]
    /\ started = {}
    /\ result = [s \in Steps |-> None]
    /\ rows = <<>>
    /\ payload = [s \in Steps |-> None]
    /\ manifest = 0
    /\ exports = [n \in 0..Total |-> None]
    /\ boundary = None
    /\ workerLock = [s \in Steps |-> None]
    /\ pc = [c \in Coordinators |-> "idle"]
    /\ resumed = [c \in Coordinators |-> FALSE]
    /\ state = [c \in Coordinators |-> <<>>]
    /\ inherited = [c \in Coordinators |-> 0]
    /\ outcome = [c \in Coordinators |-> None]
    /\ pending = [c \in Coordinators |-> None]
    /\ child = [c \in Coordinators |-> None]
    /\ wpc = [w \in Workers |-> "idle"]
    /\ wstep = [w \in Workers |-> 0]
    /\ fits = [s \in Steps |-> 0]
    /\ crashes = 0
    /\ stops = 0
    /\ alarms = {}

----------------------------------------------------------------------------
(***************************************************************************)
(* Creating, opening and leaving a run                                     *)
(***************************************************************************)
Goto(c, label) == pc' = [pc EXCEPT ![c] = label]

\* The process ends: its memory and the locks it held are gone.
Exit(c) ==
    /\ Goto(c, "idle")
    /\ boundary' = IF boundary = c THEN None ELSE boundary
    /\ resumed' = [resumed EXCEPT ![c] = FALSE]
    /\ state' = [state EXCEPT ![c] = <<>>]
    /\ inherited' = [inherited EXCEPT ![c] = 0]
    /\ outcome' = [outcome EXCEPT ![c] = None]
    /\ pending' = [pending EXCEPT ![c] = None]
    /\ child' = [child EXCEPT ![c] = None]

\* A ValueError that ends the invocation because the files do not agree.
Refuse(c, kind) ==
    /\ Exit(c)
    /\ alarms' = alarms \union {kind}
    /\ UNCHANGED <<storage, plan, fitFiles, commits, exports, workers,
                   fits, crashes, stops>>

\* A fresh run publishes step_0 ...
CreateCheckpoint(c) ==
    /\ pc[c] = "idle"
    /\ storage = "absent"
    /\ storage' = "checkpoint"
    /\ Goto(c, "creating")
    /\ UNCHANGED <<plan, fitFiles, commits, exports, boundary, locals,
                   workers, history>>

\* ... and then creates the run store; it does not own the run yet.
CreateStore(c) ==
    /\ pc[c] = "creating"
    /\ storage' = "ready"
    /\ Goto(c, "opening")
    /\ UNCHANGED <<plan, fitFiles, commits, exports, boundary, locals,
                   workers, history>>

Resume(c) ==
    /\ pc[c] = "idle"
    /\ storage # "absent"
    /\ resumed' = [resumed EXCEPT ![c] = TRUE]
    /\ Goto(c, "opening")
    /\ UNCHANGED <<storage, plan, fitFiles, commits, exports, boundary, state,
                   inherited, outcome, pending, child, workers, history>>

\* "run or worker still has an active owner", or no store to open.
OpenFails(c) ==
    /\ pc[c] = "opening"
    /\ boundary # None \/ storage # "ready"
    /\ Exit(c)
    /\ UNCHANGED <<storage, plan, fitFiles, commits, exports, workers, history>>

TakeOver(c) ==
    /\ boundary' = c
    /\ state' = [state EXCEPT ![c] = Committed]
    /\ inherited' = [inherited EXCEPT ![c] = IF resumed[c] THEN manifest ELSE 0]
    /\ Goto(c, "loop")
    /\ UNCHANGED <<storage, plan, fitFiles, commits, exports, resumed, outcome,
                   pending, child, workers, history>>

\* The checkpoint is loaded and compared with the store under the lock.
Open(c) ==
    /\ pc[c] = "opening"
    /\ boundary = None
    /\ storage = "ready"
    /\ IF ~ChainHolds THEN Refuse(c, "chain")
       ELSE IF ~(ProgressHolds /\ TipHolds) THEN Refuse(c, "progress")
       ELSE TakeOver(c)

\* SIGKILL, or any exception: at every point of the invocation.
Crash(c) ==
    /\ pc[c] # "idle"
    /\ crashes < MaxCrashes
    /\ crashes' = crashes + 1
    /\ Exit(c)
    /\ UNCHANGED <<storage, plan, fitFiles, commits, exports, workers, fits,
                   stops, alarms>>

----------------------------------------------------------------------------
(***************************************************************************)
(* One attempt                                                             *)
(***************************************************************************)
Step(c) == Len(state[c]) + 1

\* The request written for the step (candidate, weights, seeds, allocation) is a
\* function of the committed state; its timeout, which is not, is not compared.
Plan(c) == state[c]

\* The published transaction of the step is authoritative: nothing is re-run.
RecoverTransaction(c) ==
    /\ pc[c] = "loop"
    /\ Step(c) \in Steps
    /\ transaction[Step(c)] # None
    /\ IF transaction[Step(c)].before = state[c]
       THEN /\ pending' = [pending EXCEPT ![c] = transaction[Step(c)].attempt]
            /\ inherited' = [inherited EXCEPT
                               ![c] = IF @ < Step(c) THEN Step(c) ELSE @]
            /\ Goto(c, "row")
            /\ UNCHANGED <<storage, plan, fitFiles, commits, exports, boundary,
                           resumed, state, outcome, child, workers, history>>
       ELSE Refuse(c, "transaction")

\* compile_candidate rejects the candidate: an uncharged failure, no worker.
RejectCandidate(c) ==
    /\ pc[c] = "loop"
    /\ Step(c) \in Uncompilable
    /\ transaction[Step(c)] = None
    /\ outcome' = [outcome EXCEPT ![c] = FailedResult(0)]
    /\ Goto(c, "observed")
    /\ UNCHANGED <<storage, plan, fitFiles, commits, exports, boundary, resumed,
                   state, inherited, pending, child, workers, history>>

\* _process publishes the request, or compares it with the pending one.
PublishRequest(c) ==
    LET s == Step(c) IN
    /\ pc[c] = "loop"
    /\ s \in Steps \ Uncompilable
    /\ transaction[s] = None
    /\ \/ /\ request[s] = None
          /\ request' = [request EXCEPT ![s] = Plan(c)]
          /\ Goto(c, "check")
          /\ UNCHANGED alarms
       \/ /\ request[s] # None
          /\ request[s] = Plan(c)
          /\ Goto(c, "check")
          /\ UNCHANGED <<request, alarms>>
       \/ /\ request[s] # None
          /\ request[s] # Plan(c)
          /\ Goto(c, "terminal")
          /\ alarms' = alarms \union {"request"}
          /\ UNCHANGED request
    /\ UNCHANGED <<storage, transaction, fitFiles, commits, exports, boundary,
                   locals, workers, fits, crashes, stops>>

\* Under the worker lock: an existing result is final, and a training that
\* was begun and left no result is charged and never repeated.
CheckWorker(c) ==
    LET s == Step(c) IN
    /\ pc[c] = "check"
    /\ workerLock[s] = None
    /\ \/ /\ result[s] # None
          /\ outcome' = [outcome EXCEPT ![c] = result[s]]
          /\ Goto(c, "observed")
       \/ /\ result[s] = None /\ s \in started
          /\ outcome' = [outcome EXCEPT ![c] = FailedResult(1)]
          /\ Goto(c, "observed")
       \/ /\ result[s] = None /\ s \notin started
          /\ Goto(c, "spawn")
          /\ UNCHANGED outcome
    /\ UNCHANGED <<storage, plan, fitFiles, commits, exports, boundary, resumed,
                   state, inherited, pending, child, workers, history>>

\* The lock's holder outlives the deadline: the ValueError of
\* boundary_ownership is answered by terminal_worker_failure.
CheckTimesOut(c) ==
    /\ pc[c] = "check"
    /\ workerLock[Step(c)] # None
    /\ Goto(c, "terminal")
    /\ UNCHANGED <<storage, plan, fitFiles, commits, exports, boundary, locals,
                   workers, history>>

Spawn(c) ==
    /\ pc[c] = "spawn"
    /\ \E w \in Workers :
         /\ wpc[w] = "idle"
         /\ wpc' = [wpc EXCEPT ![w] = "spawned"]
         /\ wstep' = [wstep EXCEPT ![w] = Step(c)]
         /\ child' = [child EXCEPT ![c] = w]
    /\ Goto(c, "wait")
    /\ UNCHANGED <<storage, plan, fitFiles, commits, exports, boundary, resumed,
                   state, inherited, outcome, pending, workerLock, history>>

\* The child has exited: its result stands whatever its exit status; without
\* one the coordinator closes the attempt itself.
Collect(c) ==
    /\ pc[c] = "wait"
    /\ wpc[child[c]] = "idle"
    /\ child' = [child EXCEPT ![c] = None]
    /\ \/ /\ result[Step(c)] # None
          /\ outcome' = [outcome EXCEPT ![c] = result[Step(c)]]
          /\ Goto(c, "observed")
       \/ /\ result[Step(c)] = None
          /\ Goto(c, "terminal")
          /\ UNCHANGED outcome
    /\ UNCHANGED <<storage, plan, fitFiles, commits, exports, boundary, resumed,
                   state, inherited, pending, workers, history>>

\* subprocess.run kills and reaps its own child at the wall-clock cap.
WorkerTimesOut(c) ==
    LET w == child[c] IN
    /\ pc[c] = "wait"
    /\ wpc[w] # "idle"
    /\ wpc' = [wpc EXCEPT ![w] = "idle"]
    /\ wstep' = [wstep EXCEPT ![w] = 0]
    /\ workerLock' = [s \in Steps |->
                        IF workerLock[s] = w THEN None ELSE workerLock[s]]
    /\ child' = [child EXCEPT ![c] = None]
    /\ Goto(c, "terminal")
    /\ UNCHANGED <<storage, plan, fitFiles, commits, exports, boundary, resumed,
                   state, inherited, outcome, pending, history>>

\* Mutant: a failure after the start marker is not charged.
CloseAttemptUncharged(c) ==
    LET s == Step(c) IN
    /\ pc[c] = "terminal"
    /\ workerLock[s] = None
    /\ result' = IF result[s] # None THEN result
                 ELSE [result EXCEPT ![s] = FailedResult(0)]
    /\ outcome' = [outcome EXCEPT ![c] = result'[s]]
    /\ Goto(c, "observed")
    /\ UNCHANGED <<storage, plan, started, commits, exports, boundary, resumed,
                   state, inherited, pending, child, workers, history>>

\* terminal_worker_failure: under the worker lock the attempt is closed with a
\* durable result, charged if its training was begun.
CloseAttempt(c) ==
    LET s == Step(c) IN
    /\ pc[c] = "terminal"
    /\ workerLock[s] = None
    /\ result' = IF result[s] # None THEN result
                 ELSE [result EXCEPT
                        ![s] = FailedResult(IF s \in started THEN 1 ELSE 0)]
    /\ outcome' = [outcome EXCEPT ![c] = result'[s]]
    /\ Goto(c, "observed")
    /\ UNCHANGED <<storage, plan, started, commits, exports, boundary, resumed,
                   state, inherited, pending, child, workers, history>>

\* An orphan still owns the attempt when the deadline passes.
CloseAttemptFails(c) ==
    /\ pc[c] = "terminal"
    /\ workerLock[Step(c)] # None
    /\ Exit(c)
    /\ UNCHANGED <<storage, plan, fitFiles, commits, exports, workers, history>>

PublishTransaction(c) ==
    LET s == Step(c) IN
    /\ pc[c] = "observed"
    /\ transaction[s] = None
    /\ \E t \in Stamps :
         LET a == [result |-> outcome[c], stamp |-> t] IN
         /\ transaction' = [transaction EXCEPT ![s] = Transition(state[c], a)]
         /\ pending' = [pending EXCEPT ![c] = a]
    /\ outcome' = [outcome EXCEPT ![c] = None]
    /\ Goto(c, "row")
    /\ UNCHANGED <<storage, request, fitFiles, commits, exports, boundary,
                   resumed, state, inherited, child, workers, history>>

\* append_evaluation, or the check that the last row is this attempt's.
AppendRow(c) ==
    /\ pc[c] = "row"
    /\ \/ /\ Len(rows) = Len(state[c])
          /\ rows' = Append(rows, RowOf(pending[c]))
          /\ Goto(c, "stage")
          /\ UNCHANGED <<storage, plan, fitFiles, payload, manifest, exports,
                         boundary, locals, workers, history>>
       \/ /\ Len(rows) # Len(state[c])
          /\ rows[Len(rows)] = RowOf(pending[c])
          /\ Goto(c, "stage")
          /\ UNCHANGED <<storage, plan, fitFiles, commits, exports, boundary,
                         locals, workers, history>>
       \/ /\ Len(rows) # Len(state[c])
          /\ rows[Len(rows)] # RowOf(pending[c])
          /\ Refuse(c, "row")

\* JournalPublication extends only the committed logical state.
PredecessorHolds(c) == manifest = Len(state[c]) /\ Committed = state[c]

\* Mutant: a payload left behind by a crash is never adopted.
StageFresh(c) ==
    LET s == Step(c) IN
    /\ pc[c] = "stage"
    /\ IF ~PredecessorHolds(c)
       THEN Refuse(c, "predecessor")
       ELSE IF payload[s] # None
       THEN Refuse(c, "payload")
       ELSE /\ Goto(c, "payload")
            /\ UNCHANGED <<storage, plan, fitFiles, commits, exports, boundary,
                           locals, workers, history>>

\* JournalPublication, then stage(): a payload an interrupted publication left
\* behind is adopted when it is identical.
Stage(c) ==
    LET s == Step(c) IN
    /\ pc[c] = "stage"
    /\ IF ~PredecessorHolds(c)
       THEN Refuse(c, "predecessor")
       ELSE IF payload[s] \notin {None, Transition(state[c], pending[c])}
       THEN Refuse(c, "payload")
       ELSE /\ Goto(c, IF payload[s] = None THEN "payload" ELSE "manifest")
            /\ UNCHANGED <<storage, plan, fitFiles, commits, exports, boundary,
                           locals, workers, history>>

CommitPayload(c) ==
    /\ pc[c] = "payload"
    /\ payload' = [payload EXCEPT ![Step(c)] = Transition(state[c], pending[c])]
    /\ Goto(c, "manifest")
    /\ UNCHANGED <<storage, plan, fitFiles, rows, manifest, exports, boundary,
                   locals, workers, history>>

\* The rename of the manifest is the instant the attempt commits.
CommitManifest(c) ==
    /\ pc[c] = "manifest"
    /\ manifest' = Step(c)
    /\ state' = [state EXCEPT ![c] = Append(@, pending[c])]
    /\ pending' = [pending EXCEPT ![c] = None]
    /\ Goto(c, "loop")
    /\ UNCHANGED <<storage, plan, fitFiles, rows, payload, exports, boundary,
                   resumed, inherited, outcome, child, workers, history>>

----------------------------------------------------------------------------
(***************************************************************************)
(* The end of an invocation                                                *)
(***************************************************************************)
LoopCompletes(c) ==
    /\ pc[c] = "loop"
    /\ Len(state[c]) = Total
    /\ Goto(c, "finish")
    /\ UNCHANGED <<storage, plan, fitFiles, commits, exports, boundary, locals,
                   workers, history>>

\* The deadline has passed, or stop_after is reached, between two attempts.
LoopStops(c) ==
    /\ pc[c] = "loop"
    /\ Len(state[c]) < Total
    /\ stops < MaxStops
    /\ stops' = stops + 1
    /\ Goto(c, "finish")
    /\ UNCHANGED <<storage, plan, fitFiles, commits, exports, boundary, locals,
                   workers, fits, crashes, alarms>>

\* A requested pause returns without an export.
Pause(c) ==
    /\ pc[c] = "finish"
    /\ Len(state[c]) < Total
    /\ Exit(c)
    /\ UNCHANGED <<storage, plan, fitFiles, commits, exports, workers, history>>

\* export_run: the directory appears whole, and is never replaced.
ExportRun(c) ==
    LET n == Len(state[c]) IN
    /\ pc[c] = "finish"
    /\ \/ /\ exports[n] = None
          /\ exports' = [exports EXCEPT ![n] = ExportOf(state[c], inherited[c])]
          /\ Exit(c)
          /\ UNCHANGED <<storage, plan, fitFiles, commits, workers, history>>
       \/ /\ exports[n] # None
          /\ exports[n].state = state[c]
          /\ Exit(c)
          /\ UNCHANGED <<storage, plan, fitFiles, commits, exports, workers, history>>
       \/ /\ exports[n] # None
          /\ exports[n].state # state[c]
          /\ Refuse(c, "export")

----------------------------------------------------------------------------
(***************************************************************************)
(* A worker process                                                        *)
(***************************************************************************)
\* The worker's process ends, with the lock it may hold.
WorkerExit(w) ==
    /\ wpc' = [wpc EXCEPT ![w] = "idle"]
    /\ wstep' = [wstep EXCEPT ![w] = 0]
    /\ workerLock' = [s \in Steps |->
                        IF workerLock[s] = w THEN None ELSE workerLock[s]]

\* Mutant: the start marker of a dead worker is not looked at.
EnterWorkerRetrains(w) ==
    LET s == wstep[w] IN
    /\ wpc[w] = "spawned"
    /\ workerLock[s] = None
    /\ IF result[s] # None
       THEN WorkerExit(w)
       ELSE /\ wpc' = [wpc EXCEPT ![w] = "entered"]
            /\ workerLock' = [workerLock EXCEPT ![s] = w]
            /\ UNCHANGED wstep
    /\ UNCHANGED <<storage, plan, fitFiles, commits, exports, boundary, pc,
                   locals, history>>

\* Mutant: an attempt that was closed does not fence a delayed worker.
EnterWorkerUnfenced(w) ==
    LET s == wstep[w] IN
    /\ wpc[w] = "spawned"
    /\ workerLock[s] = None
    /\ IF s \in started
       THEN WorkerExit(w)
       ELSE /\ wpc' = [wpc EXCEPT ![w] = "entered"]
            /\ workerLock' = [workerLock EXCEPT ![s] = w]
            /\ UNCHANGED wstep
    /\ UNCHANGED <<storage, plan, fitFiles, commits, exports, boundary, pc,
                   locals, history>>

\* Under the lock a worker leaves at once if the attempt has a result, and
\* refuses one whose training was begun by another.
EnterWorker(w) ==
    LET s == wstep[w] IN
    /\ wpc[w] = "spawned"
    /\ workerLock[s] = None
    /\ IF result[s] # None \/ s \in started
       THEN WorkerExit(w)
       ELSE /\ wpc' = [wpc EXCEPT ![w] = "entered"]
            /\ workerLock' = [workerLock EXCEPT ![s] = w]
            /\ UNCHANGED wstep
    /\ UNCHANGED <<storage, plan, fitFiles, commits, exports, boundary, pc,
                   locals, history>>

\* An invalid configuration found before the fit is not charged.
RejectRequest(w) ==
    /\ wpc[w] = "entered"
    /\ result' = [result EXCEPT ![wstep[w]] = FailedResult(0)]
    /\ WorkerExit(w)
    /\ UNCHANGED <<storage, plan, started, commits, exports, boundary, pc,
                   locals, history>>

BeginFit(w) ==
    /\ wpc[w] = "entered"
    /\ started' = started \union {wstep[w]}
    /\ fits' = [fits EXCEPT ![wstep[w]] = @ + 1]
    /\ wpc' = [wpc EXCEPT ![w] = "fitting"]
    /\ UNCHANGED <<storage, plan, result, commits, exports, boundary, pc, locals,
                   wstep, workerLock, crashes, stops, alarms>>

EndFit(w) ==
    /\ wpc[w] = "fitting"
    /\ \E r \in {OkResult(v) : v \in Scores} \union {FailedResult(1)} :
         result' = [result EXCEPT ![wstep[w]] = r]
    /\ WorkerExit(w)
    /\ UNCHANGED <<storage, plan, started, commits, exports, boundary, pc,
                   locals, history>>

\* Killed, or ended by an error the worker does not handle.
WorkerDies(w) ==
    /\ wpc[w] # "idle"
    /\ WorkerExit(w)
    /\ UNCHANGED <<storage, plan, fitFiles, commits, exports, boundary, pc,
                   locals, history>>

----------------------------------------------------------------------------
\* What an invocation does once it is scheduled.
Advance(c) ==
    \/ CreateStore(c) \/ Open(c) \/ OpenFails(c)
    \/ RecoverTransaction(c) \/ RejectCandidate(c) \/ PublishRequest(c)
    \/ CheckWorker(c) \/ CheckTimesOut(c) \/ Spawn(c) \/ Collect(c)
    \/ CloseAttempt(c) \/ CloseAttemptFails(c)
    \/ PublishTransaction(c) \/ AppendRow(c) \/ Stage(c)
    \/ CommitPayload(c) \/ CommitManifest(c)
    \/ LoopCompletes(c) \/ ExportRun(c)

Work(w) == EnterWorker(w) \/ RejectRequest(w) \/ BeginFit(w) \/ EndFit(w)

Next ==
    \/ \E c \in Coordinators :
         \/ CreateCheckpoint(c) \/ Resume(c) \/ Advance(c) \/ Crash(c)
         \/ WorkerTimesOut(c) \/ LoopStops(c) \/ Pause(c)
    \/ \E w \in Workers : Work(w) \/ WorkerDies(w)

Spec == Init /\ [][Next]_vars

\* The operator resumes a run that is not running, a scheduled process runs,
\* and a fit ends: its own time limit is at most 1800 seconds.
Fairness ==
    /\ \A c \in Coordinators : WF_vars(Resume(c)) /\ WF_vars(Advance(c))
    /\ \A w \in Workers : WF_vars(Work(w))

FairSpec == Spec /\ Fairness

----------------------------------------------------------------------------
(***************************************************************************)
(* Properties                                                              *)
(***************************************************************************)
\* Type invariant: what each file, lock and process may hold.
Rows == {"ok", "failed"} \X (Scores \union {0})
Exports == [state : States, actual : Nat, cached : Nat]

FilesTyped ==
    /\ storage \in {"absent", "checkpoint", "ready"}
    /\ request \in [Steps -> States \union {None}]
    /\ transaction \in [Steps -> Transitions \union {None}]
    /\ started \subseteq Steps
    /\ result \in [Steps -> Results \union {None}]
    /\ rows \in Seq(Rows)
    /\ payload \in [Steps -> Transitions \union {None}]
    /\ manifest \in 0..Total
    /\ exports \in [0..Total -> Exports \union {None}]

LocalsTyped ==
    /\ boundary \in Coordinators \union {None}
    /\ pc \in [Coordinators -> Labels]
    /\ resumed \in [Coordinators -> BOOLEAN]
    /\ state \in [Coordinators -> States]
    /\ inherited \in [Coordinators -> 0..Total]
    /\ outcome \in [Coordinators -> Results \union {None}]
    /\ pending \in [Coordinators -> Attempts \union {None}]
    /\ child \in [Coordinators -> Workers \union {None}]

WorkersTyped ==
    /\ workerLock \in [Steps -> Workers \union {None}]
    /\ wpc \in [Workers -> {"idle", "spawned", "entered", "fitting"}]
    /\ wstep \in [Workers -> 0..Total]

HistoryTyped ==
    /\ fits \in [Steps -> Nat]
    /\ crashes \in Nat /\ stops \in Nat
    /\ alarms \subseteq AlarmKinds

TypeOK == FilesTyped /\ LocalsTyped /\ WorkersTyped /\ HistoryTyped

\* No attempt is trained twice, whichever of its coordinators and workers die
\* and however late an orphaned worker reaches the lock (runtime_io._process,
\* engine_cli's _worker verb, terminal_worker_failure).
TrainedAtMostOnce == \A s \in Steps : fits[s] <= 1

\* A committed attempt is charged exactly when a training was begun for it.
ChargedAsTrained ==
    \A s \in 1..manifest : payload[s].attempt.result.charged = fits[s]

\* No crash, resume, timeout or orphan makes an integrity check refuse the
\* run: a fail-closed check that fires here would leave it unresumable.
NeverRefused == alarms = {}

\* Every export accounts for each training begun for the attempts it covers,
\* whether this invocation or an earlier one paid for it.
ExportAccountsForFits ==
    \A n \in 0..Total : exports[n] # None =>
        exports[n].actual + exports[n].cached
            = Cardinality({s \in 1..n : fits[s] > 0})

\* The run implements the ledger: attempts enter it one at a time, trained at
\* most once and charged for it.
Ledger == INSTANCE AttemptLedger WITH
    ledger <- [s \in 1..manifest |-> payload[s].attempt.result],
    fits <- fits

ImplementsLedger == Ledger!Spec

\* A run whose creation finished is eventually completed and exported, if it
\* is resumed and no more than the bounded crashes and stops interrupt it.
EventuallyExported == storage = "ready" ~> exports[Total] # None

----------------------------------------------------------------------------
(***************************************************************************)
(* The inductive invariant behind TrainedAtMostOnce, ChargedAsTrained and  *)
(* ImplementsLedger                                                        *)
(***************************************************************************)
Busy == Critical \ {"loop", "finish"}
Committing == {"row", "stage", "payload", "manifest"}

\* What a coordinator holds where it is.
LocalsOf(c) ==
    /\ pc[c] \in Critical => boundary = c /\ Len(state[c]) = manifest
    /\ pc[c] \in Busy => manifest < Total
    /\ pc[c] \in {"check", "spawn", "wait", "terminal"} =>
          manifest + 1 \notin Uncompilable
    /\ pc[c] = "wait" => child[c] \in Workers
    /\ pc[c] = "observed" => outcome[c] \in Results
    /\ pc[c] \in Committing => pending[c] \in Attempts

Locals == \A c \in Coordinators : LocalsOf(c)

\* A worker inside the lock works on an attempt nobody has closed.
FencedOf(w) ==
    wpc[w] # "idle" =>
        /\ wstep[w] \in Steps \ Uncompilable
        /\ wstep[w] <= manifest + 1
        /\ wpc[w] \in {"entered", "fitting"} =>
              workerLock[wstep[w]] = w /\ result[wstep[w]] = None
        /\ wpc[w] = "entered" => wstep[w] \notin started
        /\ wpc[w] = "fitting" => wstep[w] \in started

Fenced == \A w \in Workers : FencedOf(w)

\* No training of a settled attempt can begin any more.
Settled(s) == result[s] # None \/ s \in started \/ s \in Uncompilable

Accounts(r, s) == r.charged = fits[s] /\ Settled(s)

\* Wherever an attempt's result is found, it bears the charge of the training.
PricedStep(s) ==
    /\ fits[s] = IF s \in started THEN 1 ELSE 0
    /\ s \in Uncompilable => s \notin started
    /\ result[s] # None => result[s].charged = fits[s]
    /\ transaction[s] # None => Accounts(transaction[s].attempt.result, s)
    /\ payload[s] # None => Accounts(payload[s].attempt.result, s)
    /\ s <= manifest => payload[s] # None

PricedLocals(c) ==
    /\ pc[c] = "observed" => Accounts(outcome[c], manifest + 1)
    /\ pc[c] \in Committing => Accounts(pending[c].result, manifest + 1)
    /\ pc[c] = "payload" => payload[manifest + 1] = None
    /\ pc[c] = "manifest" => payload[manifest + 1] # None

Priced ==
    /\ \A s \in Steps : PricedStep(s)
    /\ \A c \in Coordinators : PricedLocals(c)

IInv == TypeOK /\ Locals /\ Fenced /\ Priced
=============================================================================
