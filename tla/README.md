# Verification of EvoNN-Research

TLA+ models, model-checking runs and machine-checked proofs for the durable
execution machinery of EvoNN-Research: the part of the system that must stay
correct while processes are killed, resumed, timed out and outlived by their
children.

1. [The system](#1-the-system)
2. [Plan](#2-plan)
3. [The models and the code](#3-the-models-and-the-code)
4. [What the runs check](#4-what-the-runs-check)
5. [Fairness](#5-fairness)
6. [What is proved](#6-what-is-proved)
7. [Findings](#7-findings)
8. [What is not modelled](#8-what-is-not-modelled)

## 1. The system

EvoNN-Research compares neural architecture search engines under a fixed budget
of training runs ("attempts"). Its claims rest on accounting: every attempt is
trained once, charged once, and shown in the evidence once, although a
comparison takes days on a laptop that sleeps and processes that die. Nothing
in it is a server; everything coordinates through files, advisory locks
(`flock`) and process groups.

### 1.1 Components that carry the core logic

| Component | Code | State | Operations |
|---|---|---|---|
| Engine run pipeline | `EvoNN-Shared/.../runtime_io.py`, `engine_cli.py`, `EvoNN-Prism/.../run.py` (and its siblings in Topograph, Stratograph, Primordia) | run directory: run store, checkpoint journal, request, started marker, result and transaction of each attempt; `.boundary.lock`, one `.worker.lock` per attempt | create, resume, plan an attempt, spawn an isolated worker, collect or close it, commit (transaction, row, checkpoint), pause, export |
| Search policies | `search.py`, `search_v2.py` of each engine, `weight_cache.py` | population, archives, fronts, niches, lineages, cached weights: all of it inside the committed state | propose a candidate, inherit weights, observe, breed a generation, restore |
| Genomes | `genome.py`, `genome_v2.py`, `operators.py`, `frontier.py`, `research.py` of each engine | genomes, innovation numbers | edit, cross, validate |
| Training | `training.py` of each engine | weights, buffers, moments, the best checkpoint | epochs, validation, early stop, hand the optimizer on |
| Invocation clock | `runtime_clock.py` | `invocations/NNNNNN_start.json`, `_end.json` | recover an unclosed invocation, start, read elapsed time, finish |
| Checkpoint publication | `checkpoints.py` | `checkpoints/` payloads and manifest | stage, publish, remove orphans, load and verify |
| Runtime journal | `runtime_journal.py`, `_journal_encoding.py` | chain of deltas with a snapshot every 16 records; transactions | encode a transition, publish it, replay the chain |
| Run store | `run_store.py` | `metrics.duckdb` and its write-ahead log, `run.lock` with the record of its owner; rows chained by digests, their number and tip in the `runs` row | create, open for writing, append, verify, read |
| Exports and publication | `budgets.py`, `telemetry.py`, `exports.py`, `_run_io.py`, `artifact_io.py`, `datasets.py` | export documents, bundles, caches | validate, stage, bind to a final name, read back |
| Contenders runner, audit | `EvoNN-Contenders`, `evonn_compare/audit.py` | ledger, documents of a run without resume; admitted floors | deal attempts, fit each in isolation, export; admit |
| Campaign runner | `campaign.py`, `campaign_worker.py` | `.campaign.lock`, `events/`, `dispatch/`, run directories, `reports/` | lease, look for a live dispatch, adopt, dispatch, collect, report |
| Study drivers, continuations, JEPA pilot | `*_study.py`, `*_confidence.py`, `*_cross_engine.py`; `*_continuation.py`, `*_resume.py`, `topograph_confirmation.py`; `jepa.py` | frozen schedules over campaigns, receipts, nominees, conclusions; roots that amend roots | prepare, run a session, replay, conclude; inherit, retain, restart, report |
| Catalog, LM cache | `catalog.py`, `active_catalog.py`, `lm_cache.py` | a registry of frozen definitions with their digests, extensions, packs; warmed payloads and their manifest | get, list, load a pack; verify a cache |
| Workspace, registry, transport | `workspace.py`, `cases.py`, `registry.py`, `evidence.py`, `transport.py` | cases, views, the append-only trend; a hash-chained index with receipts and artifacts | fair matrix, rebuild; promote, pack, snapshot, hydrate |
| Training guardian and healthcheck | `automation/training_guardian.py`, `training_healthcheck.py` | `control.json`, `completion.json`, `status.json`, `history.jsonl`; the last check | tick, repair, breaker; check once an hour |

`PROJECT.json` lists these and the parts that are not modelled, with the status
of each. Its map names the source lines of every action and of every operator
that stands for a function of the code; a selector of one to three lines that only
names a part of such a function has no entry of its own, because the lines of the
definition that uses it include its lines.

### 1.2 How they interact

```
 launchd ── each minute ──> guardian tick ──(child, inherits guardian.lock)──> campaign session
                               │   └─ on failure ──> Codex repair              │
                               └─ control.json                                 │ (child, inherits .campaign.lock,
                                                                               │  publishes its process group)
                                                                               v
 run directory <──(.boundary.lock)── engine (run_engine / resume) <── campaign_worker (exec)
       ^                                  │
       └────────(.worker.lock)──── isolated training worker
```

* A *coordinator* (`run_engine`) drives one run directory. It writes a request,
  spawns one worker process per attempt and reads the worker's `result.json`.
  The worker outlives a coordinator that dies: it holds the attempt's
  `.worker.lock`, not the run's `.boundary.lock`.
* A *campaign session* walks through the slots of a frozen plan and starts at
  most one engine at a time. The engine inherits the descriptor of
  `.campaign.lock`, hence the campaign stays leased while the engine lives,
  even if the session is dead. A training whose engine died holds no lease; it
  is found through the process group published in the dispatch handshake.
* The *guardian* runs one session per tick as a child that inherits
  `guardian.lock`, and writes `mode = repair` to `control.json` before it starts
  one, so a guardian killed in the middle is followed by a repair and not by
  another session.

### 1.3 The hard behaviours, and what makes each component correct

* **Engine run.** A kill between any two durable operations; an orphaned worker
  that reaches its lock arbitrarily late, after a resumed coordinator has closed,
  retried or committed the attempt; a timeout racing the result; a fail-closed
  check that fires although nobody tampered. *Correct*: no attempt is trained
  twice, each is charged exactly for what was begun, exports account for it, no
  check refuses the run, and it still completes.
* **Searches.** Archives are bounded and kept step by step, forget by order of
  insertion or use, and go through JSON at every kill. *Correct*: they are what
  the published attempts taken together define; recorded lineages are those of
  the weights; no lane starves; a restored search goes on as if never stopped.
* **Genomes.** Nothing catches the `ValueError` of an edit that builds an
  invalid genome. *Correct*: every edit of sound genomes is sound; an innovation
  number means one thing; a skip keeps its source.
* **Training.** Weights, normalisation statistics, averages and moments are copied
  at the best epoch while training goes on. *Correct*: what is returned is of that
  one epoch, whole.
* **Invocation clock.** The charge of an interrupted invocation is a difference of
  wall-clock readings of two processes. *Correct*: a run never trains longer than
  its budget over all its invocations.
* **Checkpoints, journal, run store, publication.** A kill, an I/O error or a power
  loss between any two system calls; what is visible is not yet durable; several
  publishers of one name. *Correct*: what has a name is whole, what was
  acknowledged stays, what is replayed is what was committed, no interruption
  strands a name.
* **Campaign, studies, continuations, pilot.** A session dies between lease,
  journal, spawn and receipt; an engine outlives it and keeps the lease; receipts
  are lost. *Correct*: never two dispatches at work, no slot before its turn, no
  fit off the books, contrasts of like with like, and a resumed campaign ends.
* **Workspace, registry, contenders.** Evidence is read in several reads while
  other processes write it; a run has three documents and a ledger. *Correct*:
  what was once recorded is what a later rebuild computes, a receipt is justified
  by its sources, a floor is strong only if its runs were.
* **Catalog, LM cache.** Many files are read in turn while they are exchanged or
  written. *Correct*: an answer is of one revision, a verdict was true.
* **Guardian and healthcheck.** Kills between announcement, session, verification
  and terminal mode; liveness read before a repair of half an hour and used after
  it; a history read without a lock. *Correct*: repairs are bounded, only the
  target trains, it comes to an end, and a problem is reported once.

`PROJECT.json` lists these hazards one by one, at the line where each bites.

## 2. Plan

The order was by what a failure would cost: training twice or losing a charge
invalidates a comparison, so the engine run came first, then what it stands on,
then what decides from it.

| Step | Modules | What |
|---|---|---|
| 1 | `AttemptLedger` (abstract), `EngineRun`, `EngineRunProofs` | the transaction of an attempt; refines the ledger |
| 2 | `InvocationClock`, proved in `EvidenceProofs` | the time budget across crashes |
| 3 | `CommitLog` (abstract), `CheckpointStore`, `RunStore` and their proofs | the two durable stores of a run; both refine the log |
| 4 | `Campaign`, `Guardian` and their proofs, `Oversight` | sessions, repairs and their supervision |
| 5 | `GenomePool`, `PrismSearch`, `PrimordiaSearch`, `StratographSearch`, `TopographSearch`, composed in `ResumableSearch` | the searches across crashes and resumes |
| 6 | `HierarchyGenome`, `CircuitGenome`, `BlockGenome`, `GraphGenome`, side by side in `Genomes`, with `GenomeProofs`; `Training` | genomes and fits |
| 7 | `Studies`, `Continuations`, `Pilot`, `Workspace`, `Registry` | what Compare makes of campaigns; proofs, with those of `Training`, in `ResearchProofs` and `EvidenceProofs` |
| 8 | `Audit`, `Contenders`, which extends it | the pool of contenders, its documents and its audit |
| 9 | `Publication`, `Journal`, `Catalog`, `LmCache` | how evidence gets its name, how a state is encoded, what is read of files that change meanwhile; `EvidenceProofs` also proves `Oversight` and all of these but `Journal` |

All of these are done. Left for later work, in this order:

* `PowerRun`: `EngineRun`'s commits over a `CheckpointStore` and a `RunStore` that
  may each lose their last, not yet durable step (the one hazard of the list
  without a property, `prism/run.py:279`);
* theorems for the floors of `Contenders` and for the archives of the searches, whose
  selections are sorted, folded and summed;
* a preflight so long that a segment leaves no room for a dispatch
  (`campaign.py:500`, `540`) and a process identifier used again
  (`campaign.py:466`).

Modules that are proved about contain no recursive operator declarations; their
constants have named assumptions, and every operation of the code is one
action, so that the proof of a step has one case per operation.

## 3. The models and the code

In all modules one action is one *durable or visible* step of a process: a
sequence of local computations up to the next write, lock, spawn or exit is one
action; two writes are two actions, because a process can die between them. A
`\* Mutant:` definition is a plausible bug of the operation that follows it; it
is used by no specification and serves to show that the properties notice it.

### 3.1 `EngineRun`, `AttemptLedger`

| Model | Code |
|---|---|
| `storage` | whether the run directory has its step-0 checkpoint and its run store (`CreateCheckpoint`, `CreateStore`) |
| `request`, `started`, `result`, `transaction` | the files of `.runtime-tmp/<step>`: `request.json`, started marker, `result.json`, `transaction_NNNNNN.json` |
| `rows` | evaluation rows of the run store |
| `payload`, `manifest` | `step_N.ckpt` and the step the checkpoint manifest names: its rename is the commit |
| `exports` | export directories, by the number of attempts exported |
| `boundary`, `workerLock` | `.boundary.lock` and `.worker.lock`; the kernel frees them when the holder ends |
| `pc`, `resumed`, `state`, `inherited`, `outcome`, `pending`, `child` | what a coordinator has in memory: where it is, the committed attempts it has read or appended to, the boundary of inherited attempts, the result and the attempt it is committing, its worker |
| `wpc`, `wstep` | an isolated worker, from spawn over the lock to the fit |
| `fits`, `alarms` | history: trainings begun per attempt; integrity checks that refused |

A digest is modelled by what it digests: two documents are equal iff their
digests are. The timing fields of an attempt, which no second computation
reproduces, are a `stamp` chosen freely; this is what makes `NeverRefused`
non-trivial, since a re-computed attempt would differ from the payload a crash
left behind. A worker has four points where it may be delayed for ever or
killed. The wall-clock cap (`WorkerTimesOut`) and the deadline on a lock
(`CheckTimesOut`, `CloseAttemptFails`) may strike at any time. The metric
values, the number of attempts, coordinators and workers are parameters.

Branches that correspond to a `ValueError` of the code record an alarm and end
the invocation (`Refuse`).

`AttemptLedger` has two actions, `BeginFit` and `Commit`; the refinement maps the
committed attempts' results to the ledger.

### 3.2 `InvocationClock`

`starts` and `ends` are the two kinds of record; `accounted` is the elapsed time
in the checkpoint, `observed` that of a published transaction that is not
committed yet. `Seal` is the recovery of an unclosed invocation, `Start` the
rest of the constructor, `Finish` the end record. `Tick` lets a unit of wall
time pass, of which a process gets as much monotonic time unless it sleeps;
`StepBack` sets the wall clock back. The loop's own deadline is `MayTrain`.

### 3.3 `Campaign`

| Model | Code |
|---|---|
| `lease` | processes that have `.campaign.lock` open and locked: the session and the engine it started |
| `journal` | `events/NNNNNN.json`; a dispatch or a completion |
| `handshake` | `dispatch/NNNNNN.started.json`: process group of a dispatch |
| `run` | what is found in the slot's run directories: how many, how far created, attempts committed, failure, time spent, export |
| `report` | `reports/<case>/case.json` |
| `session` | `run_campaign` at each point of its loop; `history` is its copy of the journal |
| `group` | a process group: `campaign_worker` before exec, then the engine, then a zombie; and whether a training runs in it |

`CheckActive` is `active_dispatch`, `AdoptExport`, `SkipCompleted` and `AdoptRefused` are
the branches of `adopted`, `Prepare` and `PrepareRefused` decide between a fresh
run, a resume and a refusal, `Dispatch` appends the event, `Spawn`, `Reap` and
`TimeOut` are `_bounded_process`, `Collect` is what follows it, `PublishReport`,
`Finish` the end of a session. The engine is reduced to what a session can see
of it; that an engine does not commit an attempt twice is `EngineRun`'s concern.
A session that has no room left in the bounded journal behaves like one whose
time is over.

### 3.4 `Guardian`

`control` is `control.json` (mode, target, error, counters, back-off), `receipt`
is `completion.json`, `child` the process a tick waits for, `lock` those that hold
`guardian.lock`. A comparison is reduced to the number of exports and of
receipts (`exported`, `completed`) and whether an engine of it lives (`engine`).
`Begin` … `NoteTerminal` are the points of `tick`; `Count` … `DecisionRefused` are
`repair`; `ChildStep` is what a session or a repair does meanwhile. `Fail` is the
exception handler of `tick`. Errors are the classes that the fingerprint of an
error text distinguishes.

### 3.5 `CommitLog`, `CheckpointStore`

| Model | Code |
|---|---|
| `directory` | what a process sees in `checkpoint/`: for each name (`Manifest`, or n for the payload of step n) the state it stands for, or nothing. Payload names are a function of the step, and a payload determines its predecessors, hence a state is modelled by its history |
| `images` | the directories a power loss may leave behind; a directory sync makes the visible one the only one |
| `staging`, `orphaned` | the staging file of the publication under way: none, not completely written, written and synced; whether dead publications left some behind |
| `pc`, `memory`, `target` | where the publication is, the state the coordinator has resumed from or published, the one it publishes |
| `acked` | history: the state whose publication has returned |

`Stage`, `CommitPayload` and `CommitManifest` are the methods of
`CheckpointPublication`, one action per system call that changes the disk;
`Adopt` and `RefuseDifferentBytes` the branch in which the payload is there
already; `discard_orphaned_staging` runs at any time; `Open` is
`load_latest_checkpoint` with the replay of the journal's chain, `Construct` the
check of the predecessor in `JournalPublication`; `Exit` is what the end of an
invocation leaves.

A *kill* loses the memory and keeps the directory as it is visible. A *power
loss* leaves one of `images`, with the contents of a file as they were synced.
Between two directory syncs a file system may keep the order of directory
changes (`ordered`, chosen once) or may keep each entry independently (`Mixtures`). `fsync` is
taken to reach the medium, which macOS promises for `F_FULLFSYNC` only.

`CommitLog` is what a caller may rely upon: `Commit` is the one point at which a
state becomes the current one, `Acknowledge` the return of the publication, and
`Lose` may take back what was not acknowledged, never more.

### 3.6 `RunStore`

| Model | Code |
|---|---|
| `file`, `wal` | `metrics.duckdb` and `metrics.duckdb.wal`; a log is modelled by the database its replay yields |
| `record` | `run.lock`: missing, empty, or with an owner's record |
| `exclusive`, `shared` | who has it locked; the kernel frees it when the holder ends |
| `stale` | `recovered_stale_lock` of each writer |
| `transaction`, `view` | a writer's uncommitted database, a reader's snapshot |
| `acked` | history: the rows when `append_evaluation` last returned |

A row's digest covers the rows up to it, hence the chain is modelled by the
sequence of its values and the tip by the sequence it covers; `Verifies` is
`verify_evaluation_chain`. `Close` is every way out of the context, by an exception
too. What DuckDB does is external: a transaction is committed by its log, opening
for writing replays a log, closing folds it into the file.

### 3.7 `Journal`

A JSON value is a number, a name, a list or an object, nested at most `Levels` deep
(`Json`; `apply_delta` follows 100); an object gives each of its possible names an
entry or `NoEntry`. A hash is the value it was
computed from, a canonical encoding the value itself. `Delta` and `Apply` are
`delta` and `apply_delta` branch by branch, as functions of the level, of what is
compared, and of the changes that `Delta` may write (`Changes`); a `ValueError` is
the value `Invalid`, which no state has. `Replayed` is `load_runtime_checkpoint`: it walks
back to the initial record, or to the whole state a run from before the journal
left, and forth again with every check; `Recovered` is `load_transaction`. A
coordinator reopens, publishes the transaction of its next state, or takes up
the one it finds, commits, and is stopped anywhere. `Interval` is 16 in the code.

### 3.8 `ResumableSearch` and the searches

`GenomePool` has what the engines share: genomes as numbers (a family and a variant,
the variant being the parameter count), a *tape* of draws for each step in place of
the random generator, whose state is committed with the search, and the weight
cache. A dictionary is a sequence of pairs, because its order of
insertion decides things; a commit sorts it, as `sort_keys` does.
`PrismSearch`, `PrimordiaSearch`, `StratographSearch` and `TopographSearch` translate
one `observe` and one generation of each policy; a state is a record, a step a
function of the state, the outcome of the fit and the tape. `ResumableSearch` runs
the loop around them: `live` is the search in memory, `disk` the one committed,
`twin` the search of a run that is never interrupted, on the same tape and with
the same outcomes.

### 3.9 `Training`

A state of the model is a stamp: the fit and the updates it comes from, for the
weights and for the normalisation statistics apart. Losses are ranks. The four
training loops differ in flags: averaging, buffers, inherited optimizers, whether
a fit starts with a score.

### 3.10 Genomes

`HierarchyGenome` (Stratograph, both schemas), `CircuitGenome` (Primordia),
`BlockGenome` (Prism) and `GraphGenome` (Topograph) keep of a genome what its
validation and its names depend on: graphs, positions, versions, innovation
numbers. Each edit of the code is an action that draws one of the genomes the
code can draw and validates it. Blocks have a tag for life, so that a property can
say which block a skip reads. `GraphGenome` also has the registry that hands out
innovations, and `named`, the history of what each number was given to. `Genomes`
states what the first three promise alike.

### 3.11 `Studies`, `Continuations`, `Pilot`

`Studies` has the six drivers over one schedule: stages, arms and seeds make slots;
a slot is a campaign reduced to its committed fits, its export and its receipt;
`session` is the process with the lease and the set of slots still ahead of it,
which it takes in the order of the schedule; the engine of a dead session may hold
the lease on. `Continuations` has the chain of roots of one family: what a root
inherits, retains as cost and starts again, and the report over the chain.
`Pilot` has the matrix of the JEPA pilot; fits are numbered, and a file is told by
the fit that wrote it.

### 3.12 `Workspace`, `Registry`

`Workspace` has the fair matrix with its lock, its cases, the views and the trend,
with kills between any two writes and exports that are lost. `Registry` has two
hosts: the lab's registry, which promotes from the workspace without its lock and
in several reads, and the mirror that is hydrated from a pack and a snapshot.
The index is a chain of events; artifacts and receipts follow their records.

### 3.13 `Audit`, `Contenders`

One component in two modules: what the three documents of an export must satisfy and
what the audit makes of several runs (`Audit`), and the runner that writes them
(`Contenders`, which extends it). A text is nothing, a
line or several lines; an outcome is a pair that orders as its name; metrics are
small numbers. Workers mark
their attempt when the fit begins, and crash or are killed at their limit at any
moment.

### 3.14 `Publication`

One final name and two publishers, for six kinds of payload: a file bound by a
link, caches, sources, exports and bundles bound by a rename that does not
replace, a report by one that does. `bound` is what the name is bound to, `durable`
from what a loss of power cannot take it back.

### 3.15 `Oversight`

The guardian's `note()` in its two writes and the hourly check in its reads and
writes, with either killed. What the guardian does is `Guardian`'s concern; here a
note is a problem or not.

### 3.16 `Catalog`, `LmCache`

Two readers of files that somebody else is writing. `Catalog` has the four calls
that read it: the directories of the extensions are found once (`_directories`),
each directory is listed once and its files are then read one at a time in the
order of their names, while an editor moves the data directory, file by file, from
one of `Revisions` to another. The digest of a definition is its body; an
extension's directory is there while there is a file in it. `LmCache` has one
verification of a manifest's artifacts beside a warmer that appends, cuts and
replaces: open, stat and reads are steps of their own, and a descriptor keeps the
file it was opened on (`Opened`). The warmer writes what the manifest wants as far
as the manifest reaches; a file that was there before may hold anything. Of a
file overwritten *in the middle* while it is read no moment need have had the bytes
that are hashed, and nothing is claimed.

### 3.17 `MCResearch`, `MCRunStore`

The modules of 3.2 and 3.7 to 3.16 share no state with one another. `MCResearch`
checks them in one run, all but `Registry`, `Oversight`, `Catalog` and `LmCache`, which
`MCRunStore` checks in the run of the run store: an initial state picks a `part`, every step is one of that
part, and the other variables rest. The variables of a part that is not
picked have an empty table or one of their initial states (`SearchRests`,
`StudyRests`, …), so that the parts add up instead of multiplying; the invariants
hold of the empty tables trivially and are about the picked part.

## 4. What the runs check

| Run | Bounds | Shows |
|---|---|---|
| `engine_run` | 2 coordinators, 3 workers, 3 attempts of which one never compiles, 2 stamps, 2 crashes, 1 stop | no attempt trained twice; charges exact; exports account for the fits; no integrity check refuses; `AttemptLedger` is implemented |
| `engine_run_live` | 1 coordinator, 2 workers, 2 attempts, 2 crashes, 1 stop | a created run that is resumed is completed and exported |
| `campaign` | 2 controllers, 2 process groups, one case with an engine and the unresumable Contenders, 2 crashes, 2 deaths, 1 pause, journal of 6 | one dispatch at work per slot; evidence undisputed; finished slots rest |
| `campaign_live` | 1 controller, 2 cases, sessions over all cases or one, budget 2 with segments, 1 crash, 1 death, journal of 7 | every case is reported, or a slot is abandoned on purpose |
| `guardian` | 2 guardian processes, 2 targets of 2 runs, same-failure limit 2, repair limit 3, 2 kills, 1 fault, 1 late fault | repairs bounded; only the target trains; the guardian ends in completion or in the breaker |
| `checkpoint_store` | 2 values, chains of 3, 2 power losses, 1 removal of staging; 3 kills or I/O errors if the disk keeps the order of directory changes, none if not | the manifest leads to a complete chain; `CommitLog` is implemented; what is tried again is published |
| `run_store` | 2 writers, 2 readers, 2 values, 2 rows, 3 kills | rows and tip agree; readers see all that is committed; `CommitLog` is implemented. Parts of it: registry, oversight, catalog and LM cache, below |
| `research` | below | below |
| `invocation_clock_renewed` | budget 2, wall clock up to 3, 3 invocations, set back once | *violated*: a clock set back renews the budget (finding 1) |
| `guardian_breaker` | 1 guardian, limit 1, 3 runs | *violated*: the breaker counts repairs that helped (finding 2) |
| `search_resumed` | one generation of 3 and its children, 7 fits, 1 kill | *violated*: a restored frontier search of Prism breeds another generation (finding 3) |
| `pool_lost` | 2 benchmarks of 2 attempts, texts of one or of several lines | *violated*: a failure with a text of several lines loses the run (finding 4) |

The parts of `research` and, the last four, of `run_store`:

| Part | Bounds | Properties |
|---|---|---|
| search | 11 policies of the 4 engines, population 3, 3 families of 3 variants, cache of 2 entries, archives of 2, 5 fits, 1 kill | `ArchivesMatchHistory`, `LineageIsTrue`, `LanesAreServed`, `ListsResumeExactly` |
| journal | 6 search states of 4 levels, snapshots every 2 records, 3 attempts, a new run or one from before the journal, kills unbounded | `JournalReplays` |
| clock | budget 2, wall clock up to 3, 2 invocations, set back once | `BudgetKeptByClock` |
| training | 3 epochs of 2 batches, patience 1, 2 ranks, 2 fits of a lineage, 4 engines | `BestEpochIsReturned` |
| hierarchies, circuits, blocks | 3 macro nodes, cells of 2, 3 edits; circuits of 4 primitives, any number of edits; 3 blocks, 3 edits | `GenomesStayExecutable`, `SkipsKeepTheirSource` |
| graphs | 4 layers, 6 links, 3 edits of two genomes | `InnovationsMeanOneThing` |
| studies | 6 drivers, 3 arms, 2 seeds, 2 fits a run, 1 death, 1 pause, 1 failure | `ScheduleKept` |
| continuations | 4 families, 2 slots of 2 fits, 5 failures, deaths or intrusions | `EveryFitIsReported` |
| pilot | 6 arms, 3 systems, 1 candidate, 1 + 1 steps, 2 deaths | `PilotFailsClosed`, `ContrastsAreMatched` |
| workspace | 2 seeds, 3 cases, 2 kills, failures or losses | `TrendsReproduce` |
| contenders | 2 benchmarks of 2 attempts, a required and an optional contender, a metric that is minimised, clock readings back and forth | `FloorIsEarned` |
| publication | 2 publishers, 2 pieces, 1 document, 2 tries, 2 power losses, 6 kinds of payload | `EvidenceStands` |
| registry | 2 cases and a local run, 2 hosts, 2 events, 1 kill or loss | `ReceiptsStand` |
| oversight | 3 instants, 2 notes, 2 kills or reads that raise | `ProblemsAreReported` |
| catalog | 3 benchmarks, 1 pack, 2 extensions, 2 revisions, 1 change of aim | `AnswersAreOneRevision` |
| LM cache | 1 artifact of 2 cells, files of up to 3 cells, 3 writes | `VerdictsWereTrue` |

Why these bounds are enough to meet the interesting cases. Two invocations and
three workers suffice for every race over one attempt: a dead coordinator's
orphan, the resumed coordinator's worker and one more that is killed; a second
and a third attempt let an orphan of an earlier attempt wake up after its
attempt was committed. Two crashes allow a crash of the recovery itself. The
two stamps make a re-computed attempt distinguishable. For the clock, two
invocations allow a crash and the invocation that is charged for it, and the
theorem of section 6 has no bound; budgets of two units separate "some" from "all"
of it. Two process groups suffice for two dispatches of a slot, and their
identifiers are used again. The journal bounds leave room for a dispatch that
dies, its repetition and every receipt. Repair limits of two and three let each be
reached first. A chain of three checkpoints has predecessors to lose; two values
make a retried publication meet other bytes; three kills interrupt the first
publication, its retry and the next; a second power loss strikes what the first
left. Two rows let a writer die over a store that has one; two writers take the
store over from one another, two readers let one end while another still holds
the lock.

Five fits of a search are a generation, the next one and its commit; with archives
and caches of two, both overflow, and three families let a rotation skip one. Six
states of the journal append to, replace, reorder and evict from a list, and add,
change and drop keys; three records lie on both sides of a snapshot. Three edits
compose an insertion, a change of what was inserted and its removal or crossover.
Two slots and two seeds have an order and a pair to break; a second death strikes
the recovery from the first.

`CHECK_DEADLOCK FALSE` appears where the system really may stop: the bounded parts
of `research`, the guardian's terminal modes, after which a tick does no work, the
searches and the pool when their fits are done, the clock's bounded wall time, and
the checkpoint store, which has nothing left to do once all states of the bounded
chain are published. The engine run, the campaign, the run store, the
registry and the oversight never deadlock: something can always be resumed, opened,
reported or checked again.

## 5. Fairness

Fairness is assumed of processes that run and of nothing else; crashes, kills,
timeouts, faults, pauses and clock changes are never assumed to happen and
never assumed to stop, but their number is bounded.

* `EngineRun!Fairness`: the operator (or the campaign) resumes a run that is not
  running; a coordinator that is running goes on; a worker's fit ends, because it
  is capped at 1800 seconds in the worker. `CreateCheckpoint` is not fair: a run
  that was never begun need not exist.
* `Campaign!FairSpec`: a session is started again as long as the campaign is not
  complete (the guardian, or an operator), not for ever restricted to one case
  (`AcquireAll`), and processes that were not killed go on. `TimeOut`, `Crash` and
  `Dies` are unfair.
* `Guardian!FairSpec`: launchd starts a tick every minute; children are bounded by
  timeouts; an engine ends by its deadline; the back-off elapses.
* `CheckpointStore!FairSpec`: a coordinator goes on with the publication, a run is
  resumed, and of the states that are tried again and again the one whose payload
  an interruption left is tried too (the engine recovers it from the transaction
  file of the attempt); kills, errors, power losses and removals are unfair.

`EventuallyComplete` admits the one end the code chooses deliberately: a slot in
a state that no later session may repair (a run without its store, with failed
attempts, out of time, or of a system without a resume contract) stops every
later session. The run shows that there is no third possibility.

The parts of `research`, the registry and the oversight have safety properties only. Their drivers promise no
progress of their own: most of them refuse for good after a failure, by design,
and wait for an operator.

## 6. What is proved

`tlapm` checks every proof below; each holds for every value of the constants
that satisfies the named assumptions of the modules, none of which restricts the
number of processes, attempts, slots, crashes or clock values. What they say:

| Assumption | What it asks |
|---|---|
| `ConstantsAssumption`, `NoneAssumption`, `NoneIsNoDatabase` | counts are natural numbers; the placeholder `None` is no value |
| `ClockAssumption`, `OversightAssumption` | bounds and instants are natural numbers |
| `StoreAssumption`, `RunStoreAssumption` | the same of the stores; a torn file is no payload; a reader is no writer |
| `PlanAssumption` | slots are numbered; a budget and a session have at least one fit and one run; there is a controller |
| `GuardianAssumption` | the guardian's limits are at least 1, as its constants are; there is a guardian |
| `RegistryAssumption`, `PublicationAssumption` | finitely many cases; a payload has a size |
| `FitAssumption` | at least one epoch; among the losses told apart one is largest (the model's stand-in for infinity is above it) |
| `PilotAssumption` | some arms, systems and candidates; with a transfer arm there is its teacher, as `cases()` has it |
| `ChainAssumption` | a run has a fit to spend |
| `JournalAssumption` | an interval of at least 1 between snapshots; the search states are JSON values within the levels `apply_delta` follows |
| `StudiesAssumption` | a study has variants, all different; a score is not the mark of a failed export |
| `GraphAssumption`, `BlockAssumption`, `CircuitAssumption`, `HierarchyAssumption` | genomes have at most the layers, links, blocks, primitives and nodes the code allows (32 and 128; 6; 32 and 4; 8 and 6); there is a largest embedding, and one head is a choice |

**`EngineRunProofs`.** `TrainedAtMostOnce` is not inductive: whether a worker may
begin a fit depends on what it saw under the lock. `EngineRun!IInv` adds

* `Locals`: a coordinator past `Open` holds the boundary lock and its memory has
  as many attempts as the manifest; at each point it has what it needs;
* `Fenced`: a worker inside the lock holds the lock of a step at most one beyond
  the manifest, the step has no result, and it is started exactly if the worker
  is fitting;
* `Priced`: the number of fits of a step is 1 if it is started and 0 otherwise;
  wherever a result is found (result file, transaction, payload, memory) it is
  charged for the fits of its step, and the step is *settled*: no training of it
  can begin any more.

`Invariance` proves `Spec => []IInv`, with one lemma per group of actions; the
theorems `TypeCorrectness`, `TrainingIsNeverRepeated` and `ChargesAreExact` follow.
`RunImplementsLedger` proves the refinement: `BeginFit` maps to the ledger's
`BeginFit`, `CommitManifest` to `Commit`, all other actions to stutters; `Priced`
supplies the charge, `Fenced` that the fit is of the next attempt.

`NeverRefused` and `ExportAccountsForFits` need in addition what the files say of
one another. `Agreed` says that what is committed is a chain, each payload over the
attempts before it and each row that of its payload; that the next step's request,
transaction, row and payload extend this chain in that order, and that nothing is
known of later steps (`FilesAgree`); that an export is of a committed prefix and
accounts for the fits of it (`ExportsAgree`); and that what a coordinator remembers
is what the files say (`LocalsAgree`). A crash between two writes leaves a prefix of
the writes of one step, so a coordinator that resumes finds nothing its checks
refuse. `FilesAlwaysAgree` proves `[]Agreed`.

**`CheckpointStoreProofs`.** `TypeCorrect` holds on every disk. `AlwaysLoadable` and
`CheckpointsAreACommitLog` are about disks that are `ordered`; on others they
hold as long as nothing but the power fails (`checkpoint_store`) and not beyond
(section 7). That the visible directory is loadable is not inductive: a
power loss replaces it. `IInv` speaks of all of `images`: each is loadable, has
what was acknowledged, and its manifest names a prefix of what the visible one
names (`ImagesAreRecoverable`); and of the publication's place: it extends the
committed state (`ExtendsCommitted`), and its payload is visible before the
manifest is touched (`PayloadInPlace`), from where, on an ordered disk, no image has
the manifest without the payload.

*The records.* `DeltaReverts`: what `Delta` writes of two JSON values is a change of its
form, and `Apply` makes the second of the first again. It is shown level by level: a
dictionary entry by entry, a list that grew by its tail, and a keyed list by the
dictionary it stands for and the order of its names, which together are the list
(`KeyedInOrder`). The functions are recursive, and the installed provers do not know
that a function satisfies its recursive definition; for `Json`, `Changes`, `Delta` and
`Apply` that is proved first (`JsonIsDefined` and its like). `JournalInv` says which
states the records are of: record k of the state after k - 1 attempts and of the
state of the record before it (`ChainInv`), a transaction of the state committed last
(`DraftInv`). From it a replay is computed from the first record on
(`ChainReplays`), whatever the interval of the snapshots: `JournalAlwaysReplays`.

**`RunStoreProofs`.** `TypeCorrectness`, `TipAlwaysFollowsRows`,
`ReadersAlwaysSeeTheCommitted`, `RecoveriesAreNotImagined` and `RowsAreACommitLog`
need no hypothesis. `IInv`
says that a writer that is anywhere but idle holds the lock and is alone
(`Excluded`), hence a step changes only what its own place says (`WriterFrame`), and
for each place how far the writer's transaction is ahead of what is committed
(`Works`): by one row from the insertion on, and with a tip that covers it when it
commits. `Commit` maps to the log's `Commit`, `Return` to its `Acknowledge`; the
creation of the file, of the schema and the folding of the log are stutters.

**`CampaignProofs`.** The lease lets one session work, so `IInv` names its
controller: `IInv == \E c : Inv(c)`, every other controller is idle. Of `c` it says
what it holds (`Holds`), which process it waits for (`HasChild`) and what it knows
of the slot it is at (`Knows`): what it read of the journal and found of the slot
stays true until its own process changes it. `World` is about what outlives a session: a
group that trains is that of the last dispatch and holds the lease, or is the child
(`Works`); run directories, exports and receipts follow one another
(`RunsAreWhole`, `ReceiptsAreTrue`, `ReportsAreTrue`). From it follow
`OneDispatchAlways` and `EvidenceNeverDisputed`; `FinishedSlotsStay` is the action
property `FinishedSlotsRest`, proved action by action under the same invariant.

**`GuardianProofs`.** Here too `IInv` names the one guardian that serves (`Sole`): it
holds the lock, waits for at most one child, and its memory of `control.json` is
what is on disk (`Holds`, `HasChild`, `Remembers`, `HasError`), since nobody else
writes it. `RepairsAreCounted` bounds what was begun by the counters on disk,
`MayRepair` says that a guardian about to call Codex has counted this repair
already; `TargetTrains` that a campaign child is of the target. The theorems are
`RepairsStayBounded`, `OnlyTheTargetEverTrains` and `GuardiansExclude`.

**`EvidenceProofs`.** Seven small invariants of what one process writes and another
believes. The hourly check (`OversightInv`): a running check begins where the last
one ended (`WindowsMeet`), its issues are the problems of its window in the part of
the history it read (`IssuesAreRead`), and no check has seen what is stamped after
the last one (`UnseenSince`); hence `ProblemsAlwaysReported`. The registry
(`RegistryInv`): a row has the status its sources and its audit justify, and its
copied artifacts are kept (`RowsHold`), in the index of each host as in the pack and
in the snapshot a host is receiving, whose index is the last file of it; hence
`ReceiptsAlwaysStand`. Publication (`PublicationInv`): what a name is bound to, now or
after a loss of power, is whole and safe on disk (`NamesHold`), because a publisher
binds only what it synced (`PublisherHolds`);
hence `EvidenceAlwaysStands`. The trend of a workspace (`TrendInv`): each row is the
one any rebuild computes for its case, whatever was loaded beside it; hence
`TrendsAlwaysReproduce`.

The invocation clock, in the same module: `TypeCorrectness` and `RecordsStayAccepted`
follow from `Shape`, whatever the clock does: the constructor compares each record
with its predecessor. `BudgetIsNeverRenewed` speaks of behaviours up to the first
time the clock is set back, as it must (finding 1). It follows from `Covered`: the
charge the next invocation would start from is at least the time trained so far.
`RecordsAccepted` is proved and not part of a run.

The catalog: every file is nothing, empty or a text of some revision (`Holdings`),
what a call has found is such texts, each from its place (`LoaderTyped`), and once
the registry has agreed, what the call keeps is the registry's text and hence one
revision's, although the files it was compared with may be several revisions'
(`OneRevision`); hence `CatalogReadsOneRevision`. The cache: what a verifier has open
was under its name at some moment of the check (`OpenedWasThere`), and as
long as all it has read is right, either the file was whole at some moment or it is
right so far; anything wrong or beyond the size it met was there (`WhatWasRead`);
hence `VerificationTellsTheTruth`, for any number of artifacts
and writes.

**`ResearchProofs`.** Four parts of `MCResearch`, each with its own specification.

* *Fits.* `FitInv`: what is stored is the state after the best epoch that was
  eligible so far (`BestIsStored`), every part of a state is stamped with one epoch
  (`StatesAreOfEpochs`), patience counts from that epoch (`PatienceCounts`), and
  what is handed out is what was stored (`BestIsHanded`). `BestAlwaysReturned`.
* *The pilot.* `PilotInv`: the cells behind the runner are accepted
  (`BehindIsAccepted`), the receipt of the one at hand is as the runner's step says
  (`AtHand`), and each fit was charged, once, after all cells before it were accepted
  (`FitsAreCharged`): `PilotAlwaysFailsClosed`. `MatchInv` adds the workers, those of
  dead runners too: what a worker has done and has yet to do are the updates due
  to its cell (`WorkersHold`), a result is whole and of one fit (`CellsHold`), and a
  transfer had its accepted teacher (`TeacherIsAccepted`): `ContrastsAlwaysMatch`.
* *Continuations.* `ChainInv`: what a root inherits is whole (`InheritedIsWhole`), what
  it retains is exactly the fits that were lost (`RetainedIsExact`):
  `FitsAlwaysReported`.
* *Study drivers.* What a session walks through is the set of the slots ahead of
  it, and the schedule their order; all six schedules are shown to be sequences
  of slots with stages in order and, for the baseline, campaigns in one piece
  (`IsPlanned`, `Contiguous`). `StudyInv` keeps what a fit found before it
  (`FitsWereReady`), what a session was admitted with (`GatesWereOpen`), that what
  it has passed is done (`PassedAreDone`) and what it is at (`TargetIsReady`).
  `HereIsReady` and `FirstOpenIsReady` are the heart: the slot a driver comes to, and
  the slot a campaign picks, have nothing undone before them.
  `ScheduleAlwaysKept`.

Schedules and matrices are flattened sequences of sequences. `FlattenSeq` is a
recursive function; the library's induction theorems cannot be instantiated, but
what it computes is proved by its least counterexample (`LeastExists`,
`FlattenIsDefined`, `FlattenTyped`).

**`GenomeProofs`.** The edits of the four kinds of genome, for every limit on their
sizes that the code allows (`GraphAssumption`, `BlockAssumption`, `CircuitAssumption`,
`HierarchyAssumption`). An edit is refused or not by what it builds, so that nothing
was refused so far (`~misfit`, `~misbuilt`, `~misdrawn`) is not inductive: the
invariants describe the genomes that edits start from.

* *Graphs.* `GraphInv`: the registry gives each signature one number (`Obtained` keeps
  what it has, `ObtainAll`), and every gene of both graphs and of `named` is what the
  signature under its number says (`Means`). The numbers at the ends of a new layer
  are signed with its own number, and that one with the link it was put on, from
  which its ends follow (`OldLink`). Each edit draws its numbers for signatures of
  what it builds, an import for the signatures of the donor's genes, in their order
  (`GenesAreNumbered`): `InnovationsKeepTheirMeaning`.
* *Blocks.* `BlockInv`: both genomes agree with their family and with the task, and
  the tags of their blocks differ. Insertion and removal are described by where each
  block stood (`InsertedBlocks`, `ShortenedBlocks`): `ModelsAreExecutable`,
  and from the same two the action property `SkipsKeepTheirSources`.
* *Circuits.* `CircuitInv`: the wires of each primitive come from before it, and the
  output holds all that is not read. `Feeding` is computed backwards by a recursive
  function; it is shown to be the least set that is closed under reading
  (`FeedingIsLeast`), so a wiring that has been repaired needs nothing more
  (`RepairedIsWhole`): `CircuitsAreExecutable`.
* *Hierarchies.* `HierarchyInv`: both genomes stand (`Standing`): their graphs are
  programs within the limits, their cells differ in their parameters, and
  the variant's sharing holds. A graph is a program if Kahn's algorithm
  orders it and all leads to its output. That comes to `Flows`: there are
  numbers that rise along the edges, and every node but the output has a
  child (`ProgramsFlow`, `FlowingIsProgram`). `Flows` is kept edge by edge, where an order
  would have to be recomputed: by a bypassed node (`ContractedFlows`), by a
  crossover's two halves and the bridges between them (`BridgedFlows`, `SplicedKeeps`).
  `HierarchiesAreExecutable`; the three together are `GenomesAreExecutable`.

Only model-checked: liveness (fairness is out of the prover's reach); the
searches (`ArchivesMatchHistory`, `LineageIsTrue`, `LanesAreServed`,
`ListsResumeExactly`) and the contenders' floors (`FloorIsEarned`). They are built on
folds, sums or sorted selections, of which the installed provers know nothing. There
TLC compares them with a reference computed at once over bounded inputs.

## 7. Findings

1. **A clock set back renews the time budget** (`invocation_clock_renewed`).
   `runtime_clock.py:68` charges an interrupted invocation the wall time since its
   start and refuses only a clock that is before that start. If the clock is set
   back by less, the time trained before is granted again, although
   `runtime_clock.py:4` says "a backward clock fails closed". On a clock that only
   moves forward the budget is proved.
2. **The breaker counts repairs that helped** (`guardian_breaker`). The counters of
   `control.json` are incremented when a repair begins and never reset, while
   `README.md:190` speaks of "three failed repairs for the same error".
3. **A restored frontier search is another search** (`search_resumed`). Prism's open
   and frontier policies decide by the insertion order of dictionaries
   (`prism/search.py:239`, `395-402`), and the committed state is encoded with sorted
   keys (`runtime_journal.py:25`). `PROGRAM_CHARTER.md:63-64` asks for
   "uninterrupted-vs-resumed run equivalence". The policies that draw from lists
   alone resume exactly (`ListsResumeExactly`).
4. **A failure can lose a run of the pool** (`pool_lost`). The text of an exception
   becomes the reason of a failed attempt as it is (`worker.py:119-121`,
   `prepare.py:38-39`); a reason with line breaks is refused by the validator of the
   results, after every fit was paid for, and the run is never exported, while
   `EvoNN-Contenders/README.md:23` counts failed fits as evidence.

They are stated as runs that TLC must find violated, so that a fix of the code
shows up here. None of them affects the theorems above.

Smaller observations made while modelling have no run of their own.

*Guardian and healthcheck.* `note()` and `notify()` run inside the `try` of `tick`
after a terminal mode was written: an `OSError` there puts the guardian back into
repair (`training_guardian.py:350`, against `README.md:192-193`). Whatever `assess`
raises (a half-written line of the history, a timeout of launchctl), the check is
stamped as done, so a problem that was repaired in that hour is never reported;
nor is one whose note was stamped before the check and appended after it read the
history. `training_healthcheck.py:35` says "Capture even failures repaired between
hourly checks"; `ProblemsAreReported` excepts exactly these two cases.

*Stores.* `stage()` adopts a payload of a killed publication and syncs nothing before
the manifest is replaced (`checkpoints.py:364`, `:434`): on a file system that does not
keep the order of directory changes a power loss may then leave a manifest whose
payload is missing. After a kill between the manifest's rename and the directory
sync, a run is resumed from a state a power loss can still take back. The record
of a dead writer is replaced before it is known whether the store can be opened
(`run_store.py:480`); no writer is told of a take-over unless one was
killed (`RecoveriesAreNotImagined`, a theorem and not part of a run). A file killed between its link and the removal of its staging
name has two links, which the readers that ask for exactly one refuse until the
`.publish-*` name is removed.

*Searches and genomes.* Primordia's novelty and front views keep the latest
observation of a genome and not its best. The legacy `select_parents` of Topograph
overwrites the slot of its first group with the champion. A branch's merge reference
counts inactive layers too (`genome_v2.py:13`), which the compiler does not divide
by. All three are kept as they are in the models.

*Studies.* Many drivers fail closed in ways that end a study for good: a killed
`prepare` leaves a root that is refused; `resume` removes PAUSE before it has the
lease; the continuation of Primordia files `failure.json` for any exception, the loss
of the lease included; a rerun of an amended confirmation rewrites documents that
the amendment is bound to; interrupted runs of an amended Prism study are never
resumed. A session of the JEPA pilot killed between the case's directory and its
receipt makes every later session fail though nothing was charged, and two `report`
commands share one temporary file.

*Workspace, registry, audit.* A fair matrix killed inside a case leaves a directory
without `case.json`, which stops rebuild and promote until the workspace is reset. A
torn append to the registry or the trend is refused for ever, by design. A dashboard
that appears during a promotion gives a row a validation its artifacts lack
(`registry.py:337`, `:376`). A hydrated registry that promotes again no longer
validates, because its root map is bound to the old index. A clean run at a budget
below the lowest takes the admission of the earlier runs away (`audit.py:318-333`). A
wall clock set back during a run of the pool makes its export be refused.

## 8. What is not modelled

* *Contents*: weights, metrics, datasets, losses and statistics; they are
  deterministic functions of the committed state (the plan of an attempt is
  modelled by the state it derives from) or values drawn from a small set.
* *Compilers and numerical code*: what a compiled network computes is floating
  point. Its acceptance of a genome is part of the genome modules.
* *Tampering*: files are changed by the modelled processes only. The integrity
  checks are modelled as guards, and it is shown that they never fire by
  themselves.
* *Storage failures* other than a crash between two operations are modelled in
  `CheckpointStore` and `Publication` only; elsewhere a rename or an exclusive
  creation is atomic and durable. What a power loss does to the checkpoints and to
  the run store together is in the plan (`PowerRun`).
* *DuckDB*: its transactions are taken to be atomic and durable, and its log to be
  replayed as a whole.
* *Artifact and metadata rows* of the run store: single statements that no other
  state is related to.
* *Preflight, planning and field by field comparison of exports* in the campaign and
  the studies: a verdict.
* *Topograph's process pool* (`parallel.py`): a map that returns results in the order
  of submission; `run.py` submits one job at a time, which is the isolated worker of
  `EngineRun`.
* *The fields of a benchmark's definition* beyond its identity, *rendering*, and the
  *policy scripts and CI*: one pass over text without state or order of events.
