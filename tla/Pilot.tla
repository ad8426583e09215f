------------------------------- MODULE Pilot -------------------------------
(***************************************************************************)
(* The JEPA pilot (evonn_compare/jepa.py, evonn_shared/jepa_experiment.py, *)
(* and the jepa_worker.py and jepa_training.py every engine has a copy of).*)
(* A frozen matrix of cases is trained one by one by isolated workers,     *)
(* session after session under a lock.  A receipt is charged before the    *)
(* worker starts, and nothing goes past a case that did not end well.      *)
(*                                                                         *)
(* Sessions and workers die, the sources may be edited meanwhile, and the  *)
(* worker of a dead session may train on.  Fits are numbered: a file is    *)
(* told by the fit that wrote it, as it is by its digest.  One benchmark,  *)
(* seed and label fraction; losses and masks are left out.                 *)
(***************************************************************************)
EXTENDS Naturals, Sequences, FiniteSets, SequencesExt

CONSTANTS
  PilotArms,      \* arms in the order of the matrix
  PilotSystems,   \* systems in theirs
  Candidates,     \* of an engine
  PreSteps,       \* pretrain_steps
  FineSteps,      \* finetune_steps
  MaxPilotHarm    \* bound: deaths of sessions

VARIABLES
  jobs,     \* by case: its directory, receipt and the files of its worker
  runner,   \* the session: what it is at with which case
  workers,  \* the worker processes that live, strays of dead sessions included
  fitted,  \* the case of every fit that ever began, in order
  edited,   \* the sources are not those of the manifest any more
  pilotHarm

pilotVars == <<jobs, runner, workers, fitted, edited, pilotHarm>>

TransferArms == {"distillation", "jepa_transfer"}
Teacher == "prism"

\* PilotSpec: the arms are complete, so with a transfer there is its teacher.
ASSUME PilotAssumption ==
  /\ PilotArms \in Seq(STRING) \ {<<>>} /\ PilotSystems \in Seq(STRING) \ {<<>>}
  /\ {Candidates, PreSteps, FineSteps} \subseteq Nat \ {0}
  /\ TransferArms \cap ToSet(PilotArms) # {} =>
       "supervised_long" \in ToSet(PilotArms) /\ Teacher \in ToSet(PilotSystems)

\* cases(): the matrix, arms before systems before candidates.
Matrix ==
  FlattenSeq([a \in DOMAIN PilotArms |->
    FlattenSeq([s \in DOMAIN PilotSystems |->
      [k \in 1 .. (IF PilotSystems[s] = "contenders" THEN 1 ELSE Candidates) |->
        [arm |-> PilotArms[a], system |-> PilotSystems[s], candidate |-> k]]])])

Neural(c) == Matrix[c].system # "contenders"
\* The one case whose embeddings are exported, 0 without arms that need them,
\* and the case whose embeddings case c is trained on, 0 if on none.
TeacherCase ==
  IF TransferArms \cap ToSet(PilotArms) = {} THEN 0
  ELSE CHOOSE t \in DOMAIN Matrix : Matrix[t] =
         [arm |-> "supervised_long", system |-> Teacher, candidate |-> 1]
TeacherOf(c) ==
  IF Neural(c) /\ Matrix[c].arm \in TransferArms THEN TeacherCase ELSE 0
ExportsEmbeddings(c) == c = TeacherCase

\* Mutant of FitPlan: the long control is trained for the fine-tuning only.
PlanOfPhases(c) ==
  LET supervised == {"supervised_short", "supervised_long"}
      pretrain == <<[phase |-> "pretrain", steps |-> PreSteps]>>
      finetune == [phase |-> "finetune", steps |-> IF Neural(c) THEN FineSteps ELSE 2]
  IN  Append(IF Neural(c) /\ Matrix[c].arm \notin supervised THEN pretrain ELSE <<>>,
             finetune)
\* The phases of a fit with their updates; Contenders fits two estimators.
FitPlan(c) ==
  IF ~Neural(c) THEN <<[phase |-> "finetune", steps |-> 2]>>
  ELSE CASE Matrix[c].arm = "supervised_short" ->
              <<[phase |-> "finetune", steps |-> FineSteps]>>
         [] Matrix[c].arm = "supervised_long" ->
              <<[phase |-> "finetune", steps |-> PreSteps + FineSteps]>>
         [] OTHER -> <<[phase |-> "pretrain", steps |-> PreSteps],
                       [phase |-> "finetune", steps |-> FineSteps]>>

NoCell == [made |-> FALSE, receipt |-> "none", accepts |-> 0,
           weights |-> 0, embeddings |-> 0, result |-> <<>>]
NoRunner == [step |-> "off", at |-> 0]

\* plan(): the matrix is frozen and nothing is trained.
PilotInit ==
  /\ jobs = [c \in DOMAIN Matrix |-> NoCell]
  /\ runner = NoRunner
  /\ workers = {}
  /\ fitted = <<>>
  /\ edited = FALSE
  /\ pilotHarm = 0

\* checked_result: an ok receipt whose files are not those it was given for.
Disputed(c) ==
  LET cell == jobs[c] IN
  /\ cell.receipt = "ok"
  /\ ~ /\ cell.result # <<>>
       /\ cell.result[1].fit = cell.accepts
       /\ Neural(c) => cell.weights = cell.accepts
       /\ cell.result[1].embeddings # 0 =>
            cell.embeddings = cell.result[1].embeddings
       /\ TeacherOf(c) # 0 =>
            cell.result[1].source = jobs[TeacherOf(c)].embeddings

----------------------------------------------------------------------------
(* run: a session *)

Does(step) == runner.step = step
Goes(step) == runner' = [runner EXCEPT !.step = step]
Leaves == runner' = NoRunner
SetReceipt(status) == jobs' = [jobs EXCEPT ![runner.at].receipt = status]

OpenSession ==
  /\ Does("off") /\ ~edited
  /\ runner' = [step |-> "look", at |-> 1]
  /\ UNCHANGED <<jobs, workers, fitted, edited, pilotHarm>>

\* Mutant of SkipCase: every case that has a receipt is passed over.
SkipAnyReceipt ==
  /\ Does("look") /\ runner.at \in DOMAIN Matrix
  /\ jobs[runner.at].receipt # "none" /\ ~Disputed(runner.at)
  /\ runner' = [runner EXCEPT !.at = @ + 1]
  /\ UNCHANGED <<jobs, workers, fitted, edited, pilotHarm>>
\* A finished case is verified again and passed over.
SkipCase ==
  /\ Does("look") /\ runner.at \in DOMAIN Matrix
  /\ jobs[runner.at].receipt = "ok" /\ ~Disputed(runner.at)
  /\ runner' = [runner EXCEPT !.at = @ + 1]
  /\ UNCHANGED <<jobs, workers, fitted, edited, pilotHarm>>

\* The session ends with a report: all is done, its limits are reached, or
\* the case was charged and did not end well.
EndSession ==
  /\ Does("look")
  /\ runner.at \in DOMAIN Matrix =>
       jobs[runner.at].receipt \in {"none", "running", "failed"}
  /\ Leaves
  /\ UNCHANGED <<jobs, workers, fitted, edited, pilotHarm>>

\* The session ends with an error: a receipt that is disputed, edited
\* sources, or the directory of a session that died before it was charged.
RefuseCase ==
  /\ Does("look") /\ runner.at \in DOMAIN Matrix
  /\ LET cell == jobs[runner.at] IN
       \/ Disputed(runner.at)
       \/ cell.receipt = "none" /\ (edited \/ cell.made)
  /\ Leaves
  /\ UNCHANGED <<jobs, workers, fitted, edited, pilotHarm>>

MakeCase ==
  /\ Does("look") /\ runner.at \in DOMAIN Matrix
  /\ jobs[runner.at].receipt = "none" /\ ~jobs[runner.at].made /\ ~edited
  /\ jobs' = [jobs EXCEPT ![runner.at].made = TRUE]
  /\ Goes("made")
  /\ UNCHANGED <<workers, fitted, edited, pilotHarm>>

ChargeCase ==
  /\ Does("made")
  /\ SetReceipt("running") /\ Goes("charged")
  /\ UNCHANGED <<workers, fitted, edited, pilotHarm>>

LaunchWorker ==
  /\ Does("charged")
  /\ LET teacher == TeacherOf(runner.at) IN
       teacher # 0 => jobs[teacher].receipt = "ok" /\ ~Disputed(teacher)
  /\ fitted' = Append(fitted, runner.at)
  /\ workers' = workers \cup
       {[fit |-> Len(fitted) + 1, cell |-> runner.at, stage |-> "open",
         plan |-> FitPlan(runner.at), step |-> 0, momentum |-> 0, skewed |-> FALSE,
         updates |-> 0, source |-> 0, tainted |-> FALSE]}
  /\ Goes("working")
  /\ UNCHANGED <<jobs, edited, pilotHarm>>

OwnWorker(w) == w.fit = Len(fitted) /\ Does("working")

\* The worker ends well: its result is accepted if the sources are still those
\* of the manifest (checked_result follows).
AcceptResult ==
  /\ Does("working") /\ ~edited
  /\ \E w \in workers : OwnWorker(w) /\ w.stage = "done" /\ workers' = workers \ {w}
  /\ jobs' = [jobs EXCEPT ![runner.at].receipt = "ok",
                            ![runner.at].accepts = jobs[runner.at].result[1].fit]
  /\ Goes("accepted")
  /\ UNCHANGED <<fitted, edited, pilotHarm>>

CheckResult ==
  /\ Does("accepted") /\ ~Disputed(runner.at)
  /\ runner' = [step |-> "look", at |-> runner.at + 1]
  /\ UNCHANGED <<jobs, workers, fitted, edited, pilotHarm>>

\* Whatever goes wrong once the case is charged closes it for good: no teacher,
\* a worker that fails or is killed at its timeout, sources edited meanwhile,
\* a result that is disputed.
FailCase ==
  /\ \/ Does("charged") /\ LET t == TeacherOf(runner.at) IN
                           t # 0 /\ (jobs[t].receipt # "ok" \/ Disputed(t))
     \/ Does("working")
     \/ Does("accepted") /\ Disputed(runner.at)
  /\ SetReceipt("failed") /\ Leaves
  /\ workers' = {w \in workers : ~OwnWorker(w)}
  /\ UNCHANGED <<fitted, edited, pilotHarm>>

----------------------------------------------------------------------------
(* the worker: jepa_worker main, jepa_training fit *)

Becomes(w, v) == workers' = (workers \ {w}) \cup {v}

\* The frozen embeddings must be those the teacher's result names.
OpenRequest(w) ==
  /\ w.stage = "open"
  /\ LET teacher == TeacherOf(w.cell) IN
       IF teacher = 0
         THEN Becomes(w, [w EXCEPT !.stage = "train"])
         ELSE /\ jobs[teacher].result # <<>>
              /\ jobs[teacher].embeddings = jobs[teacher].result[1].embeddings
              /\ Becomes(w, [w EXCEPT !.stage = "train",
                                      !.source = jobs[teacher].embeddings])
  /\ UNCHANGED <<jobs, runner, fitted, edited, pilotHarm>>

\* A phase begins with a fresh optimizer; an update divides its moments by the
\* bias their number of steps implies.
TrainPhase(w) ==
  /\ w.stage = "train" /\ w.plan # <<>>
  /\ Becomes(w, [w EXCEPT !.stage = "update", !.step = 0, !.momentum = 0])
  /\ UNCHANGED <<jobs, runner, fitted, edited, pilotHarm>>
TrainStep(w) ==
  /\ w.stage = "update" /\ w.step < w.plan[1].steps
  /\ Becomes(w, [w EXCEPT !.step = @ + 1, !.momentum = @ + 1, !.updates = @ + 1,
                          !.skewed = @ \/ w.momentum # w.step])
  /\ UNCHANGED <<jobs, runner, fitted, edited, pilotHarm>>
EndPhase(w) ==
  /\ w.stage = "update" /\ w.step = w.plan[1].steps
  /\ Becomes(w, [w EXCEPT !.stage = "train", !.plan = Tail(@)])
  /\ UNCHANGED <<jobs, runner, fitted, edited, pilotHarm>>

\* The weights are saved, read back and replayed in a model compiled anew.
SaveWeights(w) ==
  /\ w.stage = "train" /\ w.plan = <<>>
  /\ Becomes(w, [w EXCEPT !.stage = "saved"])
  /\ IF Neural(w.cell) THEN jobs' = [jobs EXCEPT ![w.cell].weights = w.fit]
                       ELSE UNCHANGED jobs
  /\ UNCHANGED <<runner, fitted, edited, pilotHarm>>

ExportTeacher(w) ==
  /\ w.stage = "saved" /\ ExportsEmbeddings(w.cell)
  /\ Becomes(w, [w EXCEPT !.stage = "exported"])
  /\ jobs' = [jobs EXCEPT ![w.cell].embeddings = w.fit]
  /\ UNCHANGED <<runner, fitted, edited, pilotHarm>>

WriteResult(w) ==
  /\ w.stage = IF ExportsEmbeddings(w.cell) THEN "exported" ELSE "saved"
  /\ Becomes(w, [w EXCEPT !.stage = "done"])
  /\ jobs' = [jobs EXCEPT ![w.cell].result =
       <<[fit |-> w.fit, updates |-> w.updates, source |-> w.source,
          embeddings |-> IF ExportsEmbeddings(w.cell) THEN w.fit ELSE 0,
          skewed |-> w.skewed, tainted |-> w.tainted]>>]
  /\ UNCHANGED <<runner, fitted, edited, pilotHarm>>

WorkerStep(w) ==
  \/ OpenRequest(w) \/ TrainPhase(w) \/ TrainStep(w) \/ EndPhase(w)
  \/ SaveWeights(w) \/ ExportTeacher(w) \/ WriteResult(w)

----------------------------------------------------------------------------
(* the environment *)

\* A session is killed or interrupted; its worker dies with it or trains on.
PilotDies ==
  /\ ~Does("off") /\ pilotHarm < MaxPilotHarm
  /\ workers' \in {workers, {w \in workers : ~OwnWorker(w)}}
  /\ Leaves
  /\ pilotHarm' = pilotHarm + 1
  /\ UNCHANGED <<jobs, fitted, edited>>

\* A process that is running may load a source that was edited.
EditSources ==
  /\ ~edited
  /\ edited' = TRUE
  /\ workers' = {[w EXCEPT !.tainted = w.stage # "done"] : w \in workers}
  /\ UNCHANGED <<jobs, runner, fitted, pilotHarm>>

PilotNext ==
  \/ OpenSession \/ SkipCase \/ EndSession \/ RefuseCase \/ MakeCase
  \/ ChargeCase \/ LaunchWorker \/ AcceptResult \/ CheckResult \/ FailCase
  \/ PilotDies \/ EditSources
  \/ \E w \in workers : WorkerStep(w)

PilotSpec == PilotInit /\ [][PilotNext]_pilotVars

----------------------------------------------------------------------------
(* report: made at the end of a session or at any time by a command of its *)
(* own                                                                     *)

Accepted == {c \in DOMAIN jobs : jobs[c].receipt = "ok" /\ ~Disputed(c)}
\* Treatment c is compared with control d of the same system and candidate slot.
Contrast(c, d, control, treatments) ==
  /\ Matrix[d].arm = control /\ Matrix[c].arm \in treatments \ {control}
  /\ Matrix[c].system = Matrix[d].system
  /\ Matrix[c].candidate = Matrix[d].candidate
Long(c, d) == Contrast(c, d, "supervised_long", ToSet(PilotArms))
Transfer(c, d) == Contrast(c, d, "distillation", {"jepa_transfer"})

\* A case is never trained twice, and every fit is on the books: one that ever
\* began has its receipt, and all cases before it in the frozen matrix were
\* accepted before. A fit that did not end well is never replaced, whatever
\* died, was interrupted or is still training ("Fail closed", jepa.py run).
PilotFailsClosed ==
  \A n \in DOMAIN fitted :
    /\ \A m \in DOMAIN fitted : fitted[m] = fitted[n] => m = n
    /\ jobs[fitted[n]].receipt # "none"
    /\ \A c \in 1 .. (fitted[n] - 1) : jobs[c].receipt = "ok"

\* A contrast compares like with like: two whole fits by the sources of the
\* manifest, with as many updates unless the treatment is the short one, each
\* under an optimizer of its own phase; two transfers of the same embeddings,
\* those of the teacher that was accepted.
ContrastsAreMatched ==
  LET Of(c) == jobs[c].result[1] IN
  \A c, d \in Accepted :
    /\ Long(c, d) \/ Transfer(c, d) =>
         /\ ~Of(c).tainted /\ ~Of(d).tainted
         /\ ~Of(c).skewed /\ ~Of(d).skewed
         /\ Of(d).updates - Of(c).updates =
              IF Neural(c) /\ Matrix[c].arm = "supervised_short"
                THEN PreSteps ELSE 0
    /\ Neural(c) /\ Transfer(c, d) =>
         /\ Of(c).source = Of(d).source
         /\ Of(c).source = jobs[TeacherOf(c)].accepts
=============================================================================
