-------------------------- MODULE EngineRunProofs --------------------------
(***************************************************************************)
(* Proofs, for every number of coordinators, workers and attempts and any  *)
(* number of crashes, of the safety of EngineRun.                          *)
(***************************************************************************)
EXTENDS EngineRun, FiniteSetTheorems, SequenceTheorems, TLAPS

\* The number of charged attempts in a range is a number.
LEMMA ChargedIsNat ==
    ASSUME NEW attempts, NEW from \in Nat, NEW to \in Nat
    PROVE  Charged(attempts, from, to) \in Nat
PROOF
<1>1. IsFiniteSet(from..to)
  BY FS_Interval
<1>2. IsFiniteSet({i \in from..to : attempts[i].result.charged = 1})
  BY <1>1, FS_Subset
<1> QED
  BY <1>2, FS_CardinalityType DEF Charged

\* A verified chain reconstructs a sequence of manifest attempts.
LEMMA CommittedIsState ==
    ASSUME TypeOK, ChainHolds
    PROVE  Committed \in Seq(Attempts) /\ Len(Committed) = manifest
PROOF
<1>1. manifest \in Nat
  BY ConstantsAssumption DEF TypeOK, FilesTyped
<1>2. \A s \in 1..manifest : payload[s].attempt \in Attempts
  BY ConstantsAssumption DEF TypeOK, FilesTyped, ChainHolds, Steps, Transitions
<1> QED
  BY <1>1, <1>2 DEF Committed

LEMMA StepsInRange ==
    ASSUME TypeOK, NEW c \in Coordinators
    PROVE  Len(state[c]) \in Nat /\ Step(c) \in Nat \ {0}
PROOF
  BY LenProperties DEF TypeOK, LocalsTyped, States, Step

----------------------------------------------------------------------------
\* The process ends with locals of the right type, and with no lock.
LEMMA ExitTyped ==
    ASSUME LocalsTyped, NEW c \in Coordinators, Exit(c)
    PROVE  LocalsTyped'
PROOF
<1>1. <<>> \in States /\ 0 \in 0..Total /\ "idle" \in Labels
  BY ConstantsAssumption DEF States, Labels
<1> QED
  BY <1>1 DEF Exit, Goto, LocalsTyped

LEMMA RefuseTyped ==
    ASSUME TypeOK, NEW c \in Coordinators, NEW kind \in AlarmKinds,
           Refuse(c, kind)
    PROVE  TypeOK'
PROOF
<1>1. FilesTyped'
  BY DEF TypeOK, Refuse, FilesTyped, plan, fitFiles, commits
<1>2. LocalsTyped'
  BY ExitTyped DEF TypeOK, Refuse
<1>3. WorkersTyped'
  BY DEF TypeOK, Refuse, WorkersTyped, workers
<1>4. HistoryTyped'
  BY DEF TypeOK, Refuse, HistoryTyped
<1> QED
  BY <1>1, <1>2, <1>3, <1>4 DEF TypeOK

LEMMA WorkerExitTyped ==
    ASSUME WorkersTyped, NEW w \in Workers, WorkerExit(w)
    PROVE  WorkersTyped'
PROOF
<1>1. 0 \in 0..Total
  BY ConstantsAssumption
<1> QED
  BY <1>1 DEF WorkerExit, WorkersTyped

LEMMA ResultsTyped ==
    /\ \A v \in Scores : OkResult(v) \in Results
    /\ FailedResult(0) \in Results /\ FailedResult(1) \in Results
    /\ \A r \in Results, t \in Stamps : [result |-> r, stamp |-> t] \in Attempts
    /\ \A a \in Attempts : RowOf(a) \in Rows /\ a.result \in Results
    /\ \A st \in States, a \in Attempts : Transition(st, a) \in Transitions
    /\ \A st \in States, a \in Attempts : Append(st, a) \in States
PROOF
<1>1. \A a \in Attempts : a.result \in Results
  BY DEF Attempts
<1>2. \A r \in Results : r.status \in {"ok", "failed"} /\ r.score \in Scores \union {0}
  BY DEF Results, OkResult, FailedResult
<1>3. \A a \in Attempts : RowOf(a) \in Rows
  BY <1>1, <1>2 DEF RowOf, Rows
<1>4. \A st \in States, a \in Attempts : Append(st, a) \in States
  BY DEF States
<1>5. \A r \in Results, t \in Stamps : [result |-> r, stamp |-> t] \in Attempts
  BY DEF Attempts
<1>6. \A st \in States, a \in Attempts : Transition(st, a) \in Transitions
  BY DEF Transition, Transitions
<1> QED
  BY <1>1, <1>3, <1>4, <1>5, <1>6 DEF Results

\* Between "check" and "manifest" a coordinator works on a step of the run.
LEMMA StepInSteps ==
    ASSUME TypeOK, Locals, NEW c \in Coordinators, pc[c] \in Busy
    PROVE  Step(c) \in Steps /\ Step(c) \in 0..Total
PROOF
  BY ConstantsAssumption, StepsInRange
     DEF TypeOK, FilesTyped, Locals, LocalsOf, Step, Steps, Busy, Critical

LEMMA AtNextStep ==
    ASSUME TypeOK, Locals, NEW c \in Coordinators, pc[c] \in Critical
    PROVE  Step(c) = manifest + 1 /\ boundary = c
PROOF
  BY DEF Locals, LocalsOf, Step

LEMMA TransactionTyped ==
    ASSUME TypeOK, NEW s \in Steps, transaction[s] # None
    PROVE  transaction[s].attempt \in Attempts
PROOF
  BY DEF TypeOK, FilesTyped, Transitions

LEMMA TypeInvariance ==
    ASSUME TypeOK, Locals, Fenced, Next
    PROVE  TypeOK'
PROOF
<1>1. ASSUME NEW c \in Coordinators, CreateCheckpoint(c) PROVE TypeOK'
  <2>1. FilesTyped'
    BY <1>1 DEF TypeOK, CreateCheckpoint, FilesTyped, plan, fitFiles, commits
  <2>2. LocalsTyped'
    BY <1>1 DEF TypeOK, CreateCheckpoint, LocalsTyped, Goto, Labels, locals
  <2>3. WorkersTyped'
    BY <1>1 DEF TypeOK, CreateCheckpoint, WorkersTyped, workers
  <2>4. HistoryTyped'
    BY <1>1 DEF TypeOK, CreateCheckpoint, HistoryTyped, history
  <2> QED
    BY <2>1, <2>2, <2>3, <2>4 DEF TypeOK
<1>2. ASSUME NEW c \in Coordinators, Resume(c) PROVE TypeOK'
  <2>1. FilesTyped'
    BY <1>2 DEF TypeOK, Resume, FilesTyped, plan, fitFiles, commits
  <2>2. LocalsTyped'
    BY <1>2 DEF TypeOK, Resume, LocalsTyped, Goto, Labels, locals
  <2>3. WorkersTyped'
    BY <1>2 DEF TypeOK, Resume, WorkersTyped, workers
  <2>4. HistoryTyped'
    BY <1>2 DEF TypeOK, Resume, HistoryTyped, history
  <2> QED
    BY <2>1, <2>2, <2>3, <2>4 DEF TypeOK
<1>3. ASSUME NEW c \in Coordinators, CreateStore(c) PROVE TypeOK'
  <2>1. FilesTyped'
    BY <1>3 DEF TypeOK, CreateStore, FilesTyped, plan, fitFiles, commits
  <2>2. LocalsTyped'
    BY <1>3 DEF TypeOK, CreateStore, LocalsTyped, Goto, Labels, locals
  <2>3. WorkersTyped'
    BY <1>3 DEF TypeOK, CreateStore, WorkersTyped, workers
  <2>4. HistoryTyped'
    BY <1>3 DEF TypeOK, CreateStore, HistoryTyped, history
  <2> QED
    BY <2>1, <2>2, <2>3, <2>4 DEF TypeOK
<1>4. ASSUME NEW c \in Coordinators, Open(c) PROVE TypeOK'
  <2>1. CASE ChainHolds /\ TakeOver(c)
    <3>1. FilesTyped'
      BY <2>1 DEF TypeOK, TakeOver, FilesTyped, plan, fitFiles, commits
    <3>2. LocalsTyped'
      <4>1. Committed \in States
        BY <2>1, CommittedIsState DEF States
      <4>2. manifest \in 0..Total /\ 0 \in 0..Total
        BY ConstantsAssumption DEF TypeOK, FilesTyped
      <4>3. "loop" \in Labels
        BY DEF Labels, Critical
      <4> QED
        BY <2>1, <4>1, <4>2, <4>3 DEF TypeOK, TakeOver, LocalsTyped, Goto
    <3>3. WorkersTyped'
      BY <2>1 DEF TypeOK, TakeOver, WorkersTyped, workers
    <3>4. HistoryTyped'
      BY <2>1 DEF TypeOK, TakeOver, HistoryTyped, history
    <3> QED
      BY <3>1, <3>2, <3>3, <3>4 DEF TypeOK
  <2>2. CASE Refuse(c, "chain") \/ Refuse(c, "progress")
    BY <2>2, RefuseTyped DEF AlarmKinds
  <2> QED
    BY <1>4, <2>1, <2>2 DEF Open
<1>5. ASSUME NEW c \in Coordinators, OpenFails(c) PROVE TypeOK'
  <2>1. FilesTyped'
    BY <1>5 DEF TypeOK, OpenFails, FilesTyped, plan, fitFiles, commits
  <2>2. LocalsTyped'
    BY <1>5, ExitTyped DEF TypeOK, OpenFails, LocalsTyped, locals
  <2>3. WorkersTyped'
    BY <1>5 DEF TypeOK, OpenFails, WorkersTyped, workers
  <2>4. HistoryTyped'
    BY <1>5 DEF TypeOK, OpenFails, HistoryTyped, history
  <2> QED
    BY <2>1, <2>2, <2>3, <2>4 DEF TypeOK
<1>6. ASSUME NEW c \in Coordinators, RecoverTransaction(c) PROVE TypeOK'
  <2>1. CASE Refuse(c, "transaction")
    BY <2>1, RefuseTyped DEF AlarmKinds
  <2>2. CASE transaction[Step(c)].before = state[c]
    <3>1. Step(c) \in Steps /\ transaction[Step(c)].attempt \in Attempts
      BY <1>6 DEF RecoverTransaction, TypeOK, FilesTyped, Transitions
    <3>2. Step(c) \in 0..Total
      BY <3>1, ConstantsAssumption DEF Steps
    <3>3. LocalsTyped'
      BY <1>6, <2>2, <3>1, <3>2
         DEF RecoverTransaction, TypeOK, LocalsTyped, Goto, Labels, Critical
    <3>4. FilesTyped'
      BY <1>6, <2>2
         DEF RecoverTransaction, TypeOK, FilesTyped, plan, fitFiles, commits
    <3>5. WorkersTyped' /\ HistoryTyped'
      BY <1>6, <2>2 DEF RecoverTransaction, TypeOK, WorkersTyped, HistoryTyped,
                        workers, history
    <3> QED
      BY <3>3, <3>4, <3>5 DEF TypeOK
  <2> QED
    BY <1>6, <2>1, <2>2 DEF RecoverTransaction
<1>7. ASSUME NEW c \in Coordinators, RejectCandidate(c) PROVE TypeOK'
  <2>1. FilesTyped'
    BY <1>7 DEF TypeOK, RejectCandidate, FilesTyped, plan, fitFiles, commits
  <2>2. LocalsTyped'
    BY <1>7, ResultsTyped
       DEF TypeOK, RejectCandidate, LocalsTyped, Goto, Labels, Critical,
           locals
  <2>3. WorkersTyped'
    BY <1>7 DEF TypeOK, RejectCandidate, WorkersTyped, workers
  <2>4. HistoryTyped'
    BY <1>7 DEF TypeOK, RejectCandidate, HistoryTyped, history
  <2> QED
    BY <2>1, <2>2, <2>3, <2>4 DEF TypeOK
<1>8. ASSUME NEW c \in Coordinators, PublishRequest(c) PROVE TypeOK'
  <2>1. FilesTyped'
    BY <1>8
       DEF TypeOK, PublishRequest, FilesTyped, Plan, LocalsTyped, plan,
           fitFiles, commits
  <2>2. LocalsTyped'
    BY <1>8
       DEF TypeOK, PublishRequest, LocalsTyped, Goto, Labels, Critical, locals
  <2>3. WorkersTyped'
    BY <1>8 DEF TypeOK, PublishRequest, WorkersTyped, workers
  <2>4. HistoryTyped'
    BY <1>8 DEF TypeOK, PublishRequest, HistoryTyped, AlarmKinds, history
  <2> QED
    BY <2>1, <2>2, <2>3, <2>4 DEF TypeOK
<1>9. ASSUME NEW c \in Coordinators, CheckWorker(c) PROVE TypeOK'
  <2>1. FilesTyped'
    BY <1>9 DEF TypeOK, CheckWorker, FilesTyped, plan, fitFiles, commits
  <2>2. LocalsTyped'
    BY <1>9, ResultsTyped, StepInSteps, ZenonT(60)
       DEF TypeOK, CheckWorker, LocalsTyped, Goto, Labels, Critical,
           FilesTyped, Busy, locals
  <2>3. WorkersTyped'
    BY <1>9 DEF TypeOK, CheckWorker, WorkersTyped, workers
  <2>4. HistoryTyped'
    BY <1>9 DEF TypeOK, CheckWorker, HistoryTyped, history
  <2> QED
    BY <2>1, <2>2, <2>3, <2>4 DEF TypeOK
<1>10. ASSUME NEW c \in Coordinators, CheckTimesOut(c) PROVE TypeOK'
  <2>1. FilesTyped'
    BY <1>10 DEF TypeOK, CheckTimesOut, FilesTyped, plan, fitFiles, commits
  <2>2. LocalsTyped'
    BY <1>10
       DEF TypeOK, CheckTimesOut, LocalsTyped, Goto, Labels, Critical, locals
  <2>3. WorkersTyped'
    BY <1>10 DEF TypeOK, CheckTimesOut, WorkersTyped, workers
  <2>4. HistoryTyped'
    BY <1>10 DEF TypeOK, CheckTimesOut, HistoryTyped, history
  <2> QED
    BY <2>1, <2>2, <2>3, <2>4 DEF TypeOK
<1>11. ASSUME NEW c \in Coordinators, Spawn(c) PROVE TypeOK'
  <2>1. FilesTyped'
    BY <1>11 DEF TypeOK, Spawn, FilesTyped, plan, fitFiles, commits
  <2>2. LocalsTyped'
    BY <1>11 DEF TypeOK, Spawn, LocalsTyped, Goto, Labels, Critical, locals
  <2>3. WorkersTyped'
    BY <1>11, StepInSteps
       DEF TypeOK, Spawn, WorkersTyped, Busy, Critical, workers
  <2>4. HistoryTyped'
    BY <1>11 DEF TypeOK, Spawn, HistoryTyped, history
  <2> QED
    BY <2>1, <2>2, <2>3, <2>4 DEF TypeOK
<1>12. ASSUME NEW c \in Coordinators, Collect(c) PROVE TypeOK'
  <2>1. FilesTyped'
    BY <1>12 DEF TypeOK, Collect, FilesTyped, plan, fitFiles, commits
  <2>2. LocalsTyped'
    BY <1>12, StepInSteps
       DEF TypeOK, Collect, LocalsTyped, Goto, Labels, Critical, FilesTyped,
           Busy, locals
  <2>3. WorkersTyped'
    BY <1>12 DEF TypeOK, Collect, WorkersTyped, workers
  <2>4. HistoryTyped'
    BY <1>12 DEF TypeOK, Collect, HistoryTyped, history
  <2> QED
    BY <2>1, <2>2, <2>3, <2>4 DEF TypeOK
<1>13. ASSUME NEW c \in Coordinators, CloseAttempt(c) PROVE TypeOK'
  <2>1. FilesTyped'
    BY <1>13, ResultsTyped, StepInSteps
       DEF TypeOK, CloseAttempt, FilesTyped, Busy, Critical, plan, fitFiles,
           commits
  <2>2. LocalsTyped'
    BY <1>13, StepInSteps, ResultsTyped
       DEF TypeOK, CloseAttempt, LocalsTyped, Goto, Labels, Critical,
           FilesTyped, Busy, locals
  <2>3. WorkersTyped'
    BY <1>13 DEF TypeOK, CloseAttempt, WorkersTyped, workers
  <2>4. HistoryTyped'
    BY <1>13 DEF TypeOK, CloseAttempt, HistoryTyped, history
  <2> QED
    BY <2>1, <2>2, <2>3, <2>4 DEF TypeOK
<1>14. ASSUME NEW c \in Coordinators, CloseAttemptFails(c) PROVE TypeOK'
  <2>1. FilesTyped'
    BY <1>14 DEF TypeOK, CloseAttemptFails, FilesTyped, plan, fitFiles, commits
  <2>2. LocalsTyped'
    BY <1>14, ExitTyped DEF TypeOK, CloseAttemptFails, LocalsTyped, locals
  <2>3. WorkersTyped'
    BY <1>14 DEF TypeOK, CloseAttemptFails, WorkersTyped, workers
  <2>4. HistoryTyped'
    BY <1>14 DEF TypeOK, CloseAttemptFails, HistoryTyped, history
  <2> QED
    BY <2>1, <2>2, <2>3, <2>4 DEF TypeOK
<1>15. ASSUME NEW c \in Coordinators, PublishTransaction(c) PROVE TypeOK'
  <2>1. FilesTyped'
    <3>1. outcome[c] \in Results /\ state[c] \in States
      BY <1>15 DEF PublishTransaction, Locals, LocalsOf, TypeOK, LocalsTyped
    <3>2. PICK t \in Stamps :
            transaction' = [transaction EXCEPT ![Step(c)] =
                              Transition(state[c], [result |-> outcome[c], stamp |-> t])]
      BY <1>15 DEF PublishTransaction
    <3>3. Transition(state[c], [result |-> outcome[c], stamp |-> t]) \in Transitions
      BY <3>1, ResultsTyped
    <3>4. transaction' \in [Steps -> Transitions \union {None}]
      BY <3>2, <3>3 DEF TypeOK, FilesTyped
    <3> QED
      BY <1>15, <3>4
         DEF PublishTransaction, TypeOK, FilesTyped, fitFiles, commits
  <2>2. LocalsTyped'
    BY <1>15, ResultsTyped
       DEF TypeOK, PublishTransaction, LocalsTyped, Goto, Labels, Critical,
           Locals, LocalsOf, locals
  <2>3. WorkersTyped'
    BY <1>15 DEF TypeOK, PublishTransaction, WorkersTyped, workers
  <2>4. HistoryTyped'
    BY <1>15 DEF TypeOK, PublishTransaction, HistoryTyped, history
  <2> QED
    BY <2>1, <2>2, <2>3, <2>4 DEF TypeOK
<1>16. ASSUME NEW c \in Coordinators, AppendRow(c) PROVE TypeOK'
  <2>1. CASE Refuse(c, "row")
    BY <2>1, RefuseTyped DEF AlarmKinds
  <2>2. CASE ~Refuse(c, "row")
    <3>1. pending[c] \in Attempts
      BY <1>16 DEF AppendRow, Locals, LocalsOf, Committing
    <3>2. RowOf(pending[c]) \in Rows
      BY <3>1, ResultsTyped
    <3>3. FilesTyped'
      <4>1. rows' \in Seq(Rows)
        <5>1. rows \in Seq(Rows)
          BY DEF TypeOK, FilesTyped
        <5>2. rows' = rows \/ rows' = Append(rows, RowOf(pending[c]))
          BY <1>16, <2>2 DEF AppendRow, commits
        <5> QED
          BY <5>1, <5>2, <3>2
      <4> QED
        BY <1>16, <2>2, <4>1
           DEF AppendRow, TypeOK, FilesTyped, plan, fitFiles, commits
    <3>4. LocalsTyped'
      BY <1>16, <2>2
         DEF AppendRow, TypeOK, LocalsTyped, Goto, Labels, Critical, locals
    <3>5. WorkersTyped' /\ HistoryTyped'
      BY <1>16, <2>2 DEF AppendRow, TypeOK, WorkersTyped, HistoryTyped,
                         workers, history
    <3> QED
      BY <3>3, <3>4, <3>5 DEF TypeOK
  <2> QED
    BY <2>1, <2>2
<1>17. ASSUME NEW c \in Coordinators, Stage(c) PROVE TypeOK'
  <2>1. CASE Refuse(c, "predecessor") \/ Refuse(c, "payload")
    BY <2>1, RefuseTyped DEF AlarmKinds
  <2>2. CASE ~(Refuse(c, "predecessor") \/ Refuse(c, "payload"))
    <3>1. FilesTyped'
      BY <1>17, <2>2 DEF Stage, TypeOK, FilesTyped, plan, fitFiles, commits
    <3>2. LocalsTyped'
      BY <1>17, <2>2
         DEF Stage, TypeOK, LocalsTyped, Goto, Labels, Critical, locals
    <3>3. WorkersTyped' /\ HistoryTyped'
      BY <1>17, <2>2
         DEF Stage, TypeOK, WorkersTyped, HistoryTyped, workers, history
    <3> QED
      BY <3>1, <3>2, <3>3 DEF TypeOK
  <2> QED
    BY <2>1, <2>2
<1>18. ASSUME NEW c \in Coordinators, CommitPayload(c) PROVE TypeOK'
  <2>1. FilesTyped'
    BY <1>18, ResultsTyped
       DEF TypeOK, CommitPayload, FilesTyped, LocalsTyped, Locals, LocalsOf, Committing, plan,
           fitFiles, commits
  <2>2. LocalsTyped'
    BY <1>18 DEF TypeOK, CommitPayload, LocalsTyped, Goto, Labels, Critical, locals
  <2>3. WorkersTyped'
    BY <1>18 DEF TypeOK, CommitPayload, WorkersTyped, workers
  <2>4. HistoryTyped'
    BY <1>18 DEF TypeOK, CommitPayload, HistoryTyped, history
  <2> QED
    BY <2>1, <2>2, <2>3, <2>4 DEF TypeOK
<1>19. ASSUME NEW c \in Coordinators, CommitManifest(c) PROVE TypeOK'
  <2>1. FilesTyped'
    BY <1>19, StepInSteps
       DEF TypeOK, CommitManifest, FilesTyped, Busy, Critical, plan, fitFiles,
           commits
  <2>2. LocalsTyped'
    BY <1>19, ResultsTyped
       DEF TypeOK, CommitManifest, LocalsTyped, Goto, Labels, Critical, Locals, LocalsOf, Committing,
           locals
  <2>3. WorkersTyped'
    BY <1>19 DEF TypeOK, CommitManifest, WorkersTyped, workers
  <2>4. HistoryTyped'
    BY <1>19 DEF TypeOK, CommitManifest, HistoryTyped, history
  <2> QED
    BY <2>1, <2>2, <2>3, <2>4 DEF TypeOK
<1>20. ASSUME NEW c \in Coordinators, LoopCompletes(c) PROVE TypeOK'
  <2>1. FilesTyped'
    BY <1>20 DEF TypeOK, LoopCompletes, FilesTyped, plan, fitFiles, commits
  <2>2. LocalsTyped'
    BY <1>20
       DEF TypeOK, LoopCompletes, LocalsTyped, Goto, Labels, Critical, locals
  <2>3. WorkersTyped'
    BY <1>20 DEF TypeOK, LoopCompletes, WorkersTyped, workers
  <2>4. HistoryTyped'
    BY <1>20 DEF TypeOK, LoopCompletes, HistoryTyped, history
  <2> QED
    BY <2>1, <2>2, <2>3, <2>4 DEF TypeOK
<1>21. ASSUME NEW c \in Coordinators, ExportRun(c) PROVE TypeOK'
  <2>1. CASE Refuse(c, "export")
    BY <2>1, RefuseTyped DEF AlarmKinds
  <2>2. CASE ~Refuse(c, "export")
    <3>1. Len(state[c]) \in 0..Total
      BY <1>21, ConstantsAssumption
         DEF ExportRun, Locals, LocalsOf, Critical, TypeOK, FilesTyped
    <3>2. ExportOf(state[c], inherited[c]) \in Exports
      <4>1. inherited[c] \in Nat /\ inherited[c] + 1 \in Nat /\ Len(state[c]) \in Nat
        BY <3>1, ConstantsAssumption DEF TypeOK, LocalsTyped
      <4>2. Charged(state[c], inherited[c] + 1, Len(state[c])) \in Nat
        BY <4>1, ChargedIsNat
      <4>3. Charged(state[c], 1, inherited[c]) \in Nat
        BY <4>1, ChargedIsNat
      <4> QED
        BY <4>2, <4>3 DEF ExportOf, Exports, TypeOK, LocalsTyped
    <3>3. FilesTyped'
      BY <1>21, <2>2, <3>1, <3>2
         DEF ExportRun, TypeOK, FilesTyped, plan, fitFiles, commits
    <3>4. LocalsTyped'
      BY <1>21, <2>2, ExitTyped DEF ExportRun, TypeOK
    <3>5. WorkersTyped' /\ HistoryTyped'
      BY <1>21, <2>2 DEF ExportRun, TypeOK, WorkersTyped, HistoryTyped,
                         workers, history
    <3> QED
      BY <3>3, <3>4, <3>5 DEF TypeOK
  <2> QED
    BY <2>1, <2>2
<1>22. ASSUME NEW c \in Coordinators, Crash(c) PROVE TypeOK'
  <2>1. FilesTyped'
    BY <1>22 DEF TypeOK, Crash, FilesTyped, plan, fitFiles, commits
  <2>2. LocalsTyped'
    BY <1>22, ExitTyped DEF TypeOK, Crash, LocalsTyped, locals
  <2>3. WorkersTyped'
    BY <1>22 DEF TypeOK, Crash, WorkersTyped, workers
  <2>4. HistoryTyped'
    BY <1>22 DEF TypeOK, Crash, HistoryTyped, history
  <2> QED
    BY <2>1, <2>2, <2>3, <2>4 DEF TypeOK
<1>23. ASSUME NEW c \in Coordinators, WorkerTimesOut(c) PROVE TypeOK'
  <2>1. FilesTyped'
    BY <1>23 DEF TypeOK, WorkerTimesOut, FilesTyped, plan, fitFiles, commits
  <2>2. LocalsTyped'
    BY <1>23
       DEF TypeOK, WorkerTimesOut, LocalsTyped, Goto, Labels, Critical, locals
  <2>3. WorkersTyped'
    <3>1. child[c] \in Workers /\ 0 \in 0..Total
      BY <1>23, ConstantsAssumption DEF WorkerTimesOut, Locals, LocalsOf
    <3> QED
      BY <1>23, <3>1 DEF TypeOK, WorkerTimesOut, WorkersTyped
  <2>4. HistoryTyped'
    BY <1>23 DEF TypeOK, WorkerTimesOut, HistoryTyped, history
  <2> QED
    BY <2>1, <2>2, <2>3, <2>4 DEF TypeOK
<1>24. ASSUME NEW c \in Coordinators, LoopStops(c) PROVE TypeOK'
  <2>1. FilesTyped'
    BY <1>24 DEF TypeOK, LoopStops, FilesTyped, plan, fitFiles, commits
  <2>2. LocalsTyped'
    BY <1>24 DEF TypeOK, LoopStops, LocalsTyped, Goto, Labels, Critical, locals
  <2>3. WorkersTyped'
    BY <1>24 DEF TypeOK, LoopStops, WorkersTyped, workers
  <2>4. HistoryTyped'
    BY <1>24 DEF TypeOK, LoopStops, HistoryTyped, history
  <2> QED
    BY <2>1, <2>2, <2>3, <2>4 DEF TypeOK
<1>25. ASSUME NEW c \in Coordinators, Pause(c) PROVE TypeOK'
  <2>1. FilesTyped'
    BY <1>25 DEF TypeOK, Pause, FilesTyped, plan, fitFiles, commits
  <2>2. LocalsTyped'
    BY <1>25, ExitTyped DEF TypeOK, Pause, LocalsTyped, locals
  <2>3. WorkersTyped'
    BY <1>25 DEF TypeOK, Pause, WorkersTyped, workers
  <2>4. HistoryTyped'
    BY <1>25 DEF TypeOK, Pause, HistoryTyped, history
  <2> QED
    BY <2>1, <2>2, <2>3, <2>4 DEF TypeOK
<1>26. ASSUME NEW w \in Workers, EnterWorker(w) PROVE TypeOK'
  <2>1. FilesTyped'
    BY <1>26 DEF TypeOK, EnterWorker, FilesTyped, plan, fitFiles, commits
  <2>2. LocalsTyped'
    BY <1>26 DEF TypeOK, EnterWorker, LocalsTyped, locals
  <2>3. WorkersTyped'
    BY <1>26, WorkerExitTyped DEF TypeOK, EnterWorker, WorkersTyped, workers
  <2>4. HistoryTyped'
    BY <1>26 DEF TypeOK, EnterWorker, HistoryTyped, history
  <2> QED
    BY <2>1, <2>2, <2>3, <2>4 DEF TypeOK
<1>27. ASSUME NEW w \in Workers, RejectRequest(w) PROVE TypeOK'
  <2>1. FilesTyped'
    BY <1>27, ResultsTyped
       DEF TypeOK, RejectRequest, FilesTyped, Fenced, FencedOf, WorkersTyped, plan,
           fitFiles, commits
  <2>2. LocalsTyped'
    BY <1>27 DEF TypeOK, RejectRequest, LocalsTyped, locals
  <2>3. WorkersTyped'
    BY <1>27, WorkerExitTyped DEF TypeOK, RejectRequest, WorkersTyped, workers
  <2>4. HistoryTyped'
    BY <1>27 DEF TypeOK, RejectRequest, HistoryTyped, history
  <2> QED
    BY <2>1, <2>2, <2>3, <2>4 DEF TypeOK
<1>28. ASSUME NEW w \in Workers, BeginFit(w) PROVE TypeOK'
  <2>1. FilesTyped'
    BY <1>28 DEF TypeOK, BeginFit, FilesTyped, Fenced, FencedOf, plan, fitFiles, commits
  <2>2. LocalsTyped'
    BY <1>28 DEF TypeOK, BeginFit, LocalsTyped, locals
  <2>3. WorkersTyped'
    BY <1>28 DEF TypeOK, BeginFit, WorkersTyped, workers
  <2>4. HistoryTyped'
    BY <1>28 DEF TypeOK, BeginFit, HistoryTyped, Fenced, FencedOf, history
  <2> QED
    BY <2>1, <2>2, <2>3, <2>4 DEF TypeOK
<1>29. ASSUME NEW w \in Workers, EndFit(w) PROVE TypeOK'
  <2>1. FilesTyped'
    BY <1>29, ResultsTyped
       DEF TypeOK, EndFit, FilesTyped, Fenced, FencedOf, plan, fitFiles, commits
  <2>2. LocalsTyped'
    BY <1>29 DEF TypeOK, EndFit, LocalsTyped, locals
  <2>3. WorkersTyped'
    BY <1>29, WorkerExitTyped DEF TypeOK, EndFit, WorkersTyped, workers
  <2>4. HistoryTyped'
    BY <1>29 DEF TypeOK, EndFit, HistoryTyped, history
  <2> QED
    BY <2>1, <2>2, <2>3, <2>4 DEF TypeOK
<1>30. ASSUME NEW w \in Workers, WorkerDies(w) PROVE TypeOK'
  <2>1. FilesTyped'
    BY <1>30 DEF TypeOK, WorkerDies, FilesTyped, plan, fitFiles, commits
  <2>2. LocalsTyped'
    BY <1>30 DEF TypeOK, WorkerDies, LocalsTyped, locals
  <2>3. WorkersTyped'
    BY <1>30, WorkerExitTyped DEF TypeOK, WorkerDies, WorkersTyped, workers
  <2>4. HistoryTyped'
    BY <1>30 DEF TypeOK, WorkerDies, HistoryTyped, history
  <2> QED
    BY <2>1, <2>2, <2>3, <2>4 DEF TypeOK
<1> QED
  BY <1>1, <1>2, <1>3, <1>4, <1>5, <1>6, <1>7, <1>8, <1>9, <1>10, <1>11,
     <1>12, <1>13, <1>14, <1>15, <1>16, <1>17, <1>18, <1>19, <1>20, <1>21,
     <1>22, <1>23, <1>24, <1>25, <1>26, <1>27, <1>28, <1>29, <1>30
     DEF Next, Advance, Work

----------------------------------------------------------------------------
\* An ending process leaves the others' locals as they are.
LEMMA ExitLocals ==
    ASSUME TypeOK, Locals, NEW c \in Coordinators, Exit(c),
           UNCHANGED manifest
    PROVE  Locals'
PROOF
<1> SUFFICES ASSUME NEW d \in Coordinators PROVE LocalsOf(d)'
  BY DEF Locals
<1> QED
  BY DEF Exit, Goto, Locals, LocalsOf, TypeOK, LocalsTyped, Busy, Critical,
         Committing

\* So do the steps that touch neither coordinators nor the manifest.
LEMMA FrameLocals ==
    ASSUME Locals, UNCHANGED <<pc, locals, boundary, manifest>>
    PROVE  Locals'
PROOF
  BY DEF Locals, LocalsOf, locals

\* Where a coordinator is in the run determines what it holds.
LEMMA LocalsInvariance ==
    ASSUME TypeOK, Locals, Next
    PROVE  Locals'
PROOF
<1> USE ConstantsAssumption
<1>1. ASSUME NEW c \in Coordinators, CreateCheckpoint(c) PROVE Locals'
  <2> SUFFICES ASSUME NEW d \in Coordinators PROVE LocalsOf(d)'
    BY DEF Locals
  <2> QED
    BY <1>1, StepsInRange
       DEF CreateCheckpoint, Goto, Step, LocalsOf, Locals, TypeOK, FilesTyped,
           LocalsTyped, Busy, Critical, Committing, Steps, commits, locals
<1>2. ASSUME NEW c \in Coordinators, Resume(c) PROVE Locals'
  <2> SUFFICES ASSUME NEW d \in Coordinators PROVE LocalsOf(d)'
    BY DEF Locals
  <2> QED
    BY <1>2, StepsInRange
       DEF Resume, Goto, Step, LocalsOf, Locals, TypeOK, FilesTyped,
           LocalsTyped, Busy, Critical, Committing, Steps, commits, locals
<1>3. ASSUME NEW c \in Coordinators, CreateStore(c) PROVE Locals'
  <2> SUFFICES ASSUME NEW d \in Coordinators PROVE LocalsOf(d)'
    BY DEF Locals
  <2> QED
    BY <1>3, StepsInRange
       DEF CreateStore, Goto, Step, LocalsOf, Locals, TypeOK, FilesTyped,
           LocalsTyped, Busy, Critical, Committing, Steps, commits, locals
<1>4. ASSUME NEW c \in Coordinators, Open(c) PROVE Locals'
  <2>1. CASE ChainHolds /\ TakeOver(c)
    <3> SUFFICES ASSUME NEW d \in Coordinators PROVE LocalsOf(d)'
      BY DEF Locals
    <3>1. boundary = None /\ Len(Committed) = manifest
      BY <1>4, <2>1, CommittedIsState DEF Open
    <3> QED
      BY <2>1, <3>1
         DEF TakeOver, Goto, Step, LocalsOf, Locals, TypeOK, FilesTyped,
             LocalsTyped, Busy, Critical, Committing, Steps, commits, locals
  <2>2. CASE Exit(c) /\ UNCHANGED manifest
    BY <2>2, ExitLocals
  <2> QED
    BY <1>4, <2>1, <2>2 DEF Open, Refuse, commits
<1>5. ASSUME NEW c \in Coordinators, OpenFails(c) PROVE Locals'
  BY <1>5, ExitLocals DEF OpenFails, commits
<1>6. ASSUME NEW c \in Coordinators, RecoverTransaction(c) PROVE Locals'
  <2>1. CASE Exit(c) /\ UNCHANGED manifest
    BY <2>1, ExitLocals
  <2>2. CASE ~(Exit(c) /\ UNCHANGED manifest)
    <3> SUFFICES ASSUME NEW d \in Coordinators PROVE LocalsOf(d)'
      BY DEF Locals
    <3> QED
      BY <1>6, <2>2, StepsInRange, TransactionTyped, SMTT(30)
         DEF RecoverTransaction, Goto, Step, LocalsOf, Locals, TypeOK,
             FilesTyped, LocalsTyped, Busy, Critical, Committing, Steps,
             commits, locals, Refuse, Transitions
  <2> QED
    BY <2>1, <2>2
<1>7. ASSUME NEW c \in Coordinators, RejectCandidate(c) PROVE Locals'
  <2> SUFFICES ASSUME NEW d \in Coordinators PROVE LocalsOf(d)'
    BY DEF Locals
  <2> QED
    BY <1>7, StepsInRange, ResultsTyped
       DEF RejectCandidate, Goto, Step, LocalsOf, Locals, TypeOK, FilesTyped,
           LocalsTyped, Busy, Critical, Committing, Steps, commits, locals
<1>8. ASSUME NEW c \in Coordinators, PublishRequest(c) PROVE Locals'
  <2> SUFFICES ASSUME NEW d \in Coordinators PROVE LocalsOf(d)'
    BY DEF Locals
  <2> QED
    BY <1>8, StepsInRange, SMTT(30)
       DEF PublishRequest, Goto, Step, LocalsOf, Locals, TypeOK, FilesTyped,
           LocalsTyped, Busy, Critical, Committing, Steps, commits, locals
<1>9. ASSUME NEW c \in Coordinators, CheckWorker(c) PROVE Locals'
  <2> SUFFICES ASSUME NEW d \in Coordinators PROVE LocalsOf(d)'
    BY DEF Locals
  <2> QED
    BY <1>9, StepsInRange, ResultsTyped, StepInSteps
       DEF CheckWorker, Goto, Step, LocalsOf, Locals, TypeOK, FilesTyped,
           LocalsTyped, Busy, Critical, Committing, Steps, commits, locals
<1>10. ASSUME NEW c \in Coordinators, CheckTimesOut(c) PROVE Locals'
  <2> SUFFICES ASSUME NEW d \in Coordinators PROVE LocalsOf(d)'
    BY DEF Locals
  <2> QED
    BY <1>10, StepsInRange
       DEF CheckTimesOut, Goto, Step, LocalsOf, Locals, TypeOK, FilesTyped,
           LocalsTyped, Busy, Critical, Committing, Steps, commits, locals
<1>11. ASSUME NEW c \in Coordinators, Spawn(c) PROVE Locals'
  <2> SUFFICES ASSUME NEW d \in Coordinators PROVE LocalsOf(d)'
    BY DEF Locals
  <2> QED
    BY <1>11, StepsInRange
       DEF Spawn, Goto, Step, LocalsOf, Locals, TypeOK, FilesTyped,
           LocalsTyped, Busy, Critical, Committing, Steps, commits, locals
<1>12. ASSUME NEW c \in Coordinators, Collect(c) PROVE Locals'
  <2> SUFFICES ASSUME NEW d \in Coordinators PROVE LocalsOf(d)'
    BY DEF Locals
  <2> QED
    BY <1>12, StepsInRange
       DEF Collect, Goto, Step, LocalsOf, Locals, TypeOK, FilesTyped,
           LocalsTyped, Busy, Critical, Committing, Steps, commits, locals
<1>13. ASSUME NEW c \in Coordinators, CloseAttempt(c) PROVE Locals'
  <2> SUFFICES ASSUME NEW d \in Coordinators PROVE LocalsOf(d)'
    BY DEF Locals
  <2> QED
    BY <1>13, StepsInRange, ResultsTyped, StepInSteps
       DEF CloseAttempt, Goto, Step, LocalsOf, Locals, TypeOK, FilesTyped,
           LocalsTyped, Busy, Critical, Committing, Steps, commits, locals
<1>14. ASSUME NEW c \in Coordinators, CloseAttemptFails(c) PROVE Locals'
  BY <1>14, ExitLocals DEF CloseAttemptFails, commits
<1>15. ASSUME NEW c \in Coordinators, PublishTransaction(c) PROVE Locals'
  <2> SUFFICES ASSUME NEW d \in Coordinators PROVE LocalsOf(d)'
    BY DEF Locals
  <2> QED
    BY <1>15, StepsInRange, ResultsTyped
       DEF PublishTransaction, Goto, Step, LocalsOf, Locals, TypeOK,
           FilesTyped, LocalsTyped, Busy, Critical, Committing, Steps, commits,
           locals
<1>16. ASSUME NEW c \in Coordinators, AppendRow(c) PROVE Locals'
  <2>1. CASE Exit(c) /\ UNCHANGED manifest
    BY <2>1, ExitLocals
  <2>2. CASE ~(Exit(c) /\ UNCHANGED manifest)
    <3> SUFFICES ASSUME NEW d \in Coordinators PROVE LocalsOf(d)'
      BY DEF Locals
    <3> QED
      BY <1>16, <2>2, StepsInRange
         DEF AppendRow, Goto, Step, LocalsOf, Locals, TypeOK, FilesTyped,
             LocalsTyped, Busy, Critical, Committing, Steps, commits, locals,
             Refuse, Transitions
  <2> QED
    BY <2>1, <2>2
<1>17. ASSUME NEW c \in Coordinators, Stage(c) PROVE Locals'
  <2>1. CASE Exit(c) /\ UNCHANGED manifest
    BY <2>1, ExitLocals
  <2>2. CASE ~(Exit(c) /\ UNCHANGED manifest)
    <3> SUFFICES ASSUME NEW d \in Coordinators PROVE LocalsOf(d)'
      BY DEF Locals
    <3> QED
      BY <1>17, <2>2, StepsInRange, ZenonT(60)
         DEF Stage, Goto, Step, LocalsOf, Locals, TypeOK, FilesTyped,
             LocalsTyped, Busy, Critical, Committing, Steps, commits, locals,
             Refuse, Transitions
  <2> QED
    BY <2>1, <2>2
<1>18. ASSUME NEW c \in Coordinators, CommitPayload(c) PROVE Locals'
  <2> SUFFICES ASSUME NEW d \in Coordinators PROVE LocalsOf(d)'
    BY DEF Locals
  <2> QED
    BY <1>18, StepsInRange
       DEF CommitPayload, Goto, Step, LocalsOf, Locals, TypeOK, FilesTyped,
           LocalsTyped, Busy, Critical, Committing, Steps, commits, locals
<1>19. ASSUME NEW c \in Coordinators, CommitManifest(c) PROVE Locals'
  <2> SUFFICES ASSUME NEW d \in Coordinators PROVE LocalsOf(d)'
    BY DEF Locals
  <2> QED
    BY <1>19, StepsInRange, ResultsTyped
       DEF CommitManifest, Goto, Step, LocalsOf, Locals, TypeOK, FilesTyped,
           LocalsTyped, Busy, Critical, Committing, Steps, commits, locals,
           States
<1>20. ASSUME NEW c \in Coordinators, LoopCompletes(c) PROVE Locals'
  <2> SUFFICES ASSUME NEW d \in Coordinators PROVE LocalsOf(d)'
    BY DEF Locals
  <2> QED
    BY <1>20, StepsInRange
       DEF LoopCompletes, Goto, Step, LocalsOf, Locals, TypeOK, FilesTyped,
           LocalsTyped, Busy, Critical, Committing, Steps, commits, locals
<1>21. ASSUME NEW c \in Coordinators, ExportRun(c) PROVE Locals'
  BY <1>21, ExitLocals DEF ExportRun, Refuse, commits
<1>22. ASSUME NEW c \in Coordinators, Crash(c) PROVE Locals'
  BY <1>22, ExitLocals DEF Crash, commits
<1>23. ASSUME NEW c \in Coordinators, WorkerTimesOut(c) PROVE Locals'
  <2> SUFFICES ASSUME NEW d \in Coordinators PROVE LocalsOf(d)'
    BY DEF Locals
  <2> QED
    BY <1>23, StepsInRange
       DEF WorkerTimesOut, Goto, Step, LocalsOf, Locals, TypeOK, FilesTyped,
           LocalsTyped, Busy, Critical, Committing, Steps, commits, locals
<1>24. ASSUME NEW c \in Coordinators, LoopStops(c) PROVE Locals'
  <2> SUFFICES ASSUME NEW d \in Coordinators PROVE LocalsOf(d)'
    BY DEF Locals
  <2> QED
    BY <1>24, StepsInRange
       DEF LoopStops, Goto, Step, LocalsOf, Locals, TypeOK, FilesTyped,
           LocalsTyped, Busy, Critical, Committing, Steps, commits, locals
<1>25. ASSUME NEW c \in Coordinators, Pause(c) PROVE Locals'
  BY <1>25, ExitLocals DEF Pause, commits
<1>26. ASSUME NEW w \in Workers, EnterWorker(w) PROVE Locals'
  BY <1>26, FrameLocals DEF EnterWorker, commits
<1>27. ASSUME NEW w \in Workers, RejectRequest(w) PROVE Locals'
  BY <1>27, FrameLocals DEF RejectRequest, commits
<1>28. ASSUME NEW w \in Workers, BeginFit(w) PROVE Locals'
  BY <1>28, FrameLocals DEF BeginFit, commits
<1>29. ASSUME NEW w \in Workers, EndFit(w) PROVE Locals'
  BY <1>29, FrameLocals DEF EndFit, commits
<1>30. ASSUME NEW w \in Workers, WorkerDies(w) PROVE Locals'
  BY <1>30, FrameLocals DEF WorkerDies, commits
<1> QED
  BY <1>1, <1>2, <1>3, <1>4, <1>5, <1>6, <1>7, <1>8, <1>9, <1>10, <1>11,
     <1>12, <1>13, <1>14, <1>15, <1>16, <1>17, <1>18, <1>19, <1>20, <1>21,
     <1>22, <1>23, <1>24, <1>25, <1>26, <1>27, <1>28, <1>29, <1>30
     DEF Next, Advance, Work

----------------------------------------------------------------------------
\* A step that leaves workers, their files and the manifest alone keeps them fenced.
LEMMA FrameFenced ==
    ASSUME Fenced, UNCHANGED <<workers, fitFiles, manifest>>
    PROVE  Fenced'
PROOF
  BY DEF Fenced, FencedOf, workers, fitFiles

\* The end of a worker does not unfence another one.
LEMMA WorkerExitFenced ==
    ASSUME TypeOK, Fenced, NEW w \in Workers, WorkerExit(w),
           UNCHANGED <<fitFiles, manifest>>
    PROVE  Fenced'
PROOF
<1> SUFFICES ASSUME NEW v \in Workers PROVE FencedOf(v)'
  BY DEF Fenced
<1> QED
  BY ConstantsAssumption DEF WorkerExit, Fenced, FencedOf, TypeOK,
     WorkersTyped, fitFiles, Steps

\* Inside the lock an attempt is open: no result, and before the fit no marker.
LEMMA FencedInvariance ==
    ASSUME TypeOK, Locals, Fenced, Next
    PROVE  Fenced'
PROOF
<1> USE ConstantsAssumption
<1>1. ASSUME NEW c \in Coordinators, CreateCheckpoint(c) PROVE Fenced'
  BY <1>1, FrameFenced DEF CreateCheckpoint, Refuse, commits, fitFiles
<1>2. ASSUME NEW c \in Coordinators, Resume(c) PROVE Fenced'
  BY <1>2, FrameFenced DEF Resume, Refuse, commits, fitFiles
<1>3. ASSUME NEW c \in Coordinators, CreateStore(c) PROVE Fenced'
  BY <1>3, FrameFenced DEF CreateStore, Refuse, commits, fitFiles
<1>4. ASSUME NEW c \in Coordinators, Open(c) PROVE Fenced'
  BY <1>4, FrameFenced DEF Open, TakeOver, Refuse, commits, fitFiles
<1>5. ASSUME NEW c \in Coordinators, OpenFails(c) PROVE Fenced'
  BY <1>5, FrameFenced DEF OpenFails, Refuse, commits, fitFiles
<1>6. ASSUME NEW c \in Coordinators, RecoverTransaction(c) PROVE Fenced'
  BY <1>6, FrameFenced DEF RecoverTransaction, Refuse, commits, fitFiles
<1>7. ASSUME NEW c \in Coordinators, RejectCandidate(c) PROVE Fenced'
  BY <1>7, FrameFenced DEF RejectCandidate, Refuse, commits, fitFiles
<1>8. ASSUME NEW c \in Coordinators, PublishRequest(c) PROVE Fenced'
  BY <1>8, FrameFenced DEF PublishRequest, Refuse, commits, fitFiles
<1>9. ASSUME NEW c \in Coordinators, CheckWorker(c) PROVE Fenced'
  BY <1>9, FrameFenced DEF CheckWorker, Refuse, commits, fitFiles
<1>10. ASSUME NEW c \in Coordinators, CheckTimesOut(c) PROVE Fenced'
  BY <1>10, FrameFenced DEF CheckTimesOut, Refuse, commits, fitFiles
<1>11. ASSUME NEW c \in Coordinators, Spawn(c) PROVE Fenced'
  <2> SUFFICES ASSUME NEW v \in Workers PROVE FencedOf(v)'
    BY DEF Fenced
  <2>1. Step(c) \in Steps \ Uncompilable /\ Step(c) = manifest + 1
    BY <1>11, StepInSteps
       DEF Spawn, Locals, LocalsOf, Critical, Busy, Step
  <2>2. PICK w \in Workers :
          /\ wpc' = [wpc EXCEPT ![w] = "spawned"]
          /\ wstep' = [wstep EXCEPT ![w] = Step(c)]
    BY <1>11 DEF Spawn
  <2>3. UNCHANGED <<workerLock, started, result, manifest>>
    BY <1>11 DEF Spawn, fitFiles, commits
  <2>4. manifest + 1 \in Nat
    BY DEF TypeOK, FilesTyped
  <2> QED
    BY <2>1, <2>2, <2>3, <2>4 DEF Fenced, FencedOf, TypeOK, WorkersTyped
<1>12. ASSUME NEW c \in Coordinators, Collect(c) PROVE Fenced'
  BY <1>12, FrameFenced DEF Collect, Refuse, commits, fitFiles
<1>13. ASSUME NEW c \in Coordinators, CloseAttempt(c) PROVE Fenced'
  <2> SUFFICES ASSUME NEW v \in Workers PROVE FencedOf(v)'
    BY DEF Fenced
  <2> QED
    BY <1>13, StepInSteps, StepsInRange
       DEF CloseAttempt, Fenced, FencedOf, TypeOK, FilesTyped, LocalsTyped,
           WorkersTyped, Steps, fitFiles, commits, Locals, LocalsOf, Critical,
           Busy, Step, workers
<1>14. ASSUME NEW c \in Coordinators, CloseAttemptFails(c) PROVE Fenced'
  BY <1>14, FrameFenced DEF CloseAttemptFails, Refuse, commits, fitFiles
<1>15. ASSUME NEW c \in Coordinators, PublishTransaction(c) PROVE Fenced'
  BY <1>15, FrameFenced DEF PublishTransaction, Refuse, commits, fitFiles
<1>16. ASSUME NEW c \in Coordinators, AppendRow(c) PROVE Fenced'
  BY <1>16, FrameFenced DEF AppendRow, Refuse, commits, fitFiles
<1>17. ASSUME NEW c \in Coordinators, Stage(c) PROVE Fenced'
  BY <1>17, FrameFenced DEF Stage, Refuse, commits, fitFiles
<1>18. ASSUME NEW c \in Coordinators, CommitPayload(c) PROVE Fenced'
  BY <1>18, FrameFenced DEF CommitPayload, Refuse, commits, fitFiles
<1>19. ASSUME NEW c \in Coordinators, CommitManifest(c) PROVE Fenced'
  <2> SUFFICES ASSUME NEW v \in Workers PROVE FencedOf(v)'
    BY DEF Fenced
  <2> QED
    BY <1>19, StepInSteps, StepsInRange, SMTT(30)
       DEF CommitManifest, Fenced, FencedOf, TypeOK, FilesTyped, LocalsTyped,
           WorkersTyped, Steps, fitFiles, commits, Locals, LocalsOf, Critical,
           Busy, Step, workers
<1>20. ASSUME NEW c \in Coordinators, LoopCompletes(c) PROVE Fenced'
  BY <1>20, FrameFenced DEF LoopCompletes, Refuse, commits, fitFiles
<1>21. ASSUME NEW c \in Coordinators, ExportRun(c) PROVE Fenced'
  BY <1>21, FrameFenced DEF ExportRun, Refuse, commits, fitFiles
<1>22. ASSUME NEW c \in Coordinators, Crash(c) PROVE Fenced'
  BY <1>22, FrameFenced DEF Crash, Refuse, commits, fitFiles
<1>23. ASSUME NEW c \in Coordinators, WorkerTimesOut(c) PROVE Fenced'
  <2>1. child[c] \in Workers
    BY <1>23 DEF WorkerTimesOut, Locals, LocalsOf
  <2> QED
    BY <1>23, <2>1, WorkerExitFenced DEF WorkerTimesOut, WorkerExit, commits
<1>24. ASSUME NEW c \in Coordinators, LoopStops(c) PROVE Fenced'
  BY <1>24, FrameFenced DEF LoopStops, Refuse, commits, fitFiles
<1>25. ASSUME NEW c \in Coordinators, Pause(c) PROVE Fenced'
  BY <1>25, FrameFenced DEF Pause, Refuse, commits, fitFiles
<1>26. ASSUME NEW w \in Workers, EnterWorker(w) PROVE Fenced'
  <2> SUFFICES ASSUME NEW v \in Workers PROVE FencedOf(v)'
    BY DEF Fenced
  <2> QED
    BY <1>26
       DEF EnterWorker, Fenced, FencedOf, TypeOK, FilesTyped, LocalsTyped,
           WorkersTyped, Steps, fitFiles, commits, WorkerExit
<1>27. ASSUME NEW w \in Workers, RejectRequest(w) PROVE Fenced'
  <2> SUFFICES ASSUME NEW v \in Workers PROVE FencedOf(v)'
    BY DEF Fenced
  <2> QED
    BY <1>27
       DEF RejectRequest, Fenced, FencedOf, TypeOK, FilesTyped, LocalsTyped,
           WorkersTyped, Steps, fitFiles, commits, WorkerExit
<1>28. ASSUME NEW w \in Workers, BeginFit(w) PROVE Fenced'
  <2> SUFFICES ASSUME NEW v \in Workers PROVE FencedOf(v)'
    BY DEF Fenced
  <2> QED
    BY <1>28
       DEF BeginFit, Fenced, FencedOf, TypeOK, FilesTyped, LocalsTyped,
           WorkersTyped, Steps, fitFiles, commits, WorkerExit
<1>29. ASSUME NEW w \in Workers, EndFit(w) PROVE Fenced'
  <2> SUFFICES ASSUME NEW v \in Workers PROVE FencedOf(v)'
    BY DEF Fenced
  <2> QED
    BY <1>29
       DEF EndFit, Fenced, FencedOf, TypeOK, FilesTyped, LocalsTyped,
           WorkersTyped, Steps, fitFiles, commits, WorkerExit
<1>30. ASSUME NEW w \in Workers, WorkerDies(w) PROVE Fenced'
  BY <1>30, WorkerExitFenced DEF WorkerDies, commits
<1> QED
  BY <1>1, <1>2, <1>3, <1>4, <1>5, <1>6, <1>7, <1>8, <1>9, <1>10, <1>11,
     <1>12, <1>13, <1>14, <1>15, <1>16, <1>17, <1>18, <1>19, <1>20, <1>21,
     <1>22, <1>23, <1>24, <1>25, <1>26, <1>27, <1>28, <1>29, <1>30
     DEF Next, Advance, Work

----------------------------------------------------------------------------
\* Results, transactions and payloads stay priced while none of them changes.
LEMMA FramePriced ==
    ASSUME \A s \in Steps : PricedStep(s),
           UNCHANGED <<fits, fitFiles, transaction, payload, manifest>>
    PROVE  \A s \in Steps : PricedStep(s)'
PROOF
  BY DEF PricedStep, Accounts, Settled, fitFiles

\* An ending coordinator holds nothing to be priced.
LEMMA ExitPriced ==
    ASSUME TypeOK, Priced, NEW c \in Coordinators, Exit(c),
           UNCHANGED <<fits, fitFiles, transaction, payload, manifest>>
    PROVE  Priced'
PROOF
<1>1. \A s \in Steps : PricedStep(s)'
  BY FramePriced DEF Priced
<1>2. ASSUME NEW d \in Coordinators PROVE PricedLocals(d)'
  BY DEF Exit, Goto, Priced, PricedLocals, Accounts, Settled, TypeOK,
         LocalsTyped, Committing, fitFiles
<1> QED
  BY <1>1, <1>2 DEF Priced

\* Whatever is known of an attempt bears the charge of its training.
LEMMA PricedInvariance ==
    ASSUME IInv, Next
    PROVE  Priced'
PROOF
<1> USE ConstantsAssumption DEF IInv
<1>1. ASSUME NEW c \in Coordinators, CreateCheckpoint(c) PROVE Priced'
  <2>1. \A s \in Steps : PricedStep(s)'
    BY <1>1, FramePriced
       DEF CreateCheckpoint, Refuse, Priced, plan, commits, fitFiles, history
  <2>2. ASSUME NEW d \in Coordinators PROVE PricedLocals(d)'
    BY <1>1, StepInSteps, StepsInRange
       DEF CreateCheckpoint, Refuse, Goto, Priced, PricedStep, PricedLocals,
           Accounts, Settled, TypeOK, FilesTyped, LocalsTyped, WorkersTyped,
           HistoryTyped, Steps, Locals, LocalsOf, Busy, Critical, Committing,
           Step, FailedResult, plan, commits, fitFiles, history, locals
  <2> QED
    BY <2>1, <2>2 DEF Priced
<1>2. ASSUME NEW c \in Coordinators, Resume(c) PROVE Priced'
  <2>1. \A s \in Steps : PricedStep(s)'
    BY <1>2, FramePriced
       DEF Resume, Refuse, Priced, plan, commits, fitFiles, history
  <2>2. ASSUME NEW d \in Coordinators PROVE PricedLocals(d)'
    BY <1>2, StepInSteps, StepsInRange
       DEF Resume, Refuse, Goto, Priced, PricedStep, PricedLocals, Accounts,
           Settled, TypeOK, FilesTyped, LocalsTyped, WorkersTyped,
           HistoryTyped, Steps, Locals, LocalsOf, Busy, Critical, Committing,
           Step, FailedResult, plan, commits, fitFiles, history, locals
  <2> QED
    BY <2>1, <2>2 DEF Priced
<1>3. ASSUME NEW c \in Coordinators, CreateStore(c) PROVE Priced'
  <2>1. \A s \in Steps : PricedStep(s)'
    BY <1>3, FramePriced
       DEF CreateStore, Refuse, Priced, plan, commits, fitFiles, history
  <2>2. ASSUME NEW d \in Coordinators PROVE PricedLocals(d)'
    BY <1>3, StepInSteps, StepsInRange
       DEF CreateStore, Refuse, Goto, Priced, PricedStep, PricedLocals,
           Accounts, Settled, TypeOK, FilesTyped, LocalsTyped, WorkersTyped,
           HistoryTyped, Steps, Locals, LocalsOf, Busy, Critical, Committing,
           Step, FailedResult, plan, commits, fitFiles, history, locals
  <2> QED
    BY <2>1, <2>2 DEF Priced
<1>4. ASSUME NEW c \in Coordinators, Open(c) PROVE Priced'
  <2>1. CASE TakeOver(c)
    <3>1. \A s \in Steps : PricedStep(s)'
      BY <2>1, FramePriced
         DEF TakeOver, Priced, plan, commits, fitFiles, history
    <3>2. ASSUME NEW d \in Coordinators PROVE PricedLocals(d)'
      BY <1>4, <2>1, StepInSteps, StepsInRange
         DEF Open, TakeOver, Goto, Priced, PricedStep, PricedLocals, Accounts,
             Settled, TypeOK, FilesTyped, LocalsTyped, WorkersTyped,
             HistoryTyped, Steps, Locals, LocalsOf, Busy, Critical, Committing,
             Step, FailedResult, plan, commits, fitFiles, history, locals
    <3> QED
      BY <3>1, <3>2 DEF Priced
  <2>2. CASE Refuse(c, "chain") \/ Refuse(c, "progress")
    BY <2>2, ExitPriced DEF Refuse, plan, commits, history
  <2> QED
    BY <1>4, <2>1, <2>2 DEF Open
<1>5. ASSUME NEW c \in Coordinators, OpenFails(c) PROVE Priced'
  BY <1>5, ExitPriced DEF OpenFails, Refuse, plan, commits, history
<1>6. ASSUME NEW c \in Coordinators, RecoverTransaction(c) PROVE Priced'
  <2>1. CASE Exit(c)
    BY <1>6, <2>1, ExitPriced
       DEF RecoverTransaction, Refuse, Goto, plan, commits, history
  <2>2. CASE ~Exit(c)
    <3>1. \A s \in Steps : PricedStep(s)'
      BY <1>6, <2>2, FramePriced
         DEF RecoverTransaction, Refuse, Priced, plan, commits, fitFiles,
             history
    <3>2. ASSUME NEW d \in Coordinators PROVE PricedLocals(d)'
      <4>1. Step(c) = manifest + 1
        BY <1>6, AtNextStep DEF RecoverTransaction, Critical
      <4>2. manifest + 1 \in Steps /\ transaction[manifest + 1] # None
        BY <1>6, <4>1 DEF RecoverTransaction
      <4>3. Accounts(transaction[manifest + 1].attempt.result, manifest + 1)
        BY <4>2 DEF Priced, PricedStep
      <4>4. /\ UNCHANGED <<fits, fitFiles, payload, manifest, outcome>>
            /\ pc' = [pc EXCEPT ![c] = "row"]
            /\ pending' = [pending EXCEPT
                             ![c] = transaction[manifest + 1].attempt]
        BY <1>6, <2>2, <4>1 DEF RecoverTransaction, Refuse, Goto, commits,
                                history, locals
      <4> QED
        BY <4>3, <4>4 DEF Priced, PricedLocals, Accounts, Settled, TypeOK,
                          LocalsTyped, Committing, fitFiles
    <3> QED
      BY <3>1, <3>2 DEF Priced
  <2> QED
    BY <2>1, <2>2
<1>7. ASSUME NEW c \in Coordinators, RejectCandidate(c) PROVE Priced'
  <2>1. \A s \in Steps : PricedStep(s)'
    BY <1>7, FramePriced
       DEF RejectCandidate, Refuse, Priced, plan, commits, fitFiles, history
  <2>2. ASSUME NEW d \in Coordinators PROVE PricedLocals(d)'
    BY <1>7, StepInSteps, StepsInRange, SMTT(30)
       DEF RejectCandidate, Refuse, Goto, Priced, PricedStep, PricedLocals,
           Accounts, Settled, TypeOK, FilesTyped, LocalsTyped, WorkersTyped,
           HistoryTyped, Steps, Locals, LocalsOf, Busy, Critical, Committing,
           Step, FailedResult, plan, commits, fitFiles, history, locals
  <2> QED
    BY <2>1, <2>2 DEF Priced
<1>8. ASSUME NEW c \in Coordinators, PublishRequest(c) PROVE Priced'
  <2>1. \A s \in Steps : PricedStep(s)'
    BY <1>8, FramePriced
       DEF PublishRequest, Refuse, Priced, plan, commits, fitFiles, history
  <2>2. ASSUME NEW d \in Coordinators PROVE PricedLocals(d)'
    BY <1>8, StepInSteps, StepsInRange, SMTT(30)
       DEF PublishRequest, Refuse, Goto, Priced, PricedStep, PricedLocals,
           Accounts, Settled, TypeOK, FilesTyped, LocalsTyped, WorkersTyped,
           HistoryTyped, Steps, Locals, LocalsOf, Busy, Critical, Committing,
           Step, FailedResult, plan, commits, fitFiles, history, locals
  <2> QED
    BY <2>1, <2>2 DEF Priced
<1>9. ASSUME NEW c \in Coordinators, CheckWorker(c) PROVE Priced'
  <2>1. \A s \in Steps : PricedStep(s)'
    BY <1>9, FramePriced
       DEF CheckWorker, Refuse, Priced, plan, commits, fitFiles, history
  <2>2. ASSUME NEW d \in Coordinators PROVE PricedLocals(d)'
    <3>1. Step(c) = manifest + 1 /\ manifest + 1 \in Steps
      BY <1>9, AtNextStep, StepInSteps DEF CheckWorker, Critical, Busy
    <3>2. PricedStep(manifest + 1)
      BY <3>1 DEF Priced
    <3>3. /\ UNCHANGED <<fits, fitFiles, payload, manifest, pending>>
          /\ \/ /\ result[manifest + 1] # None
                /\ outcome' = [outcome EXCEPT ![c] = result[manifest + 1]]
                /\ pc' = [pc EXCEPT ![c] = "observed"]
             \/ /\ manifest + 1 \in started
                /\ outcome' = [outcome EXCEPT ![c] = FailedResult(1)]
                /\ pc' = [pc EXCEPT ![c] = "observed"]
             \/ /\ pc' = [pc EXCEPT ![c] = "spawn"]
                /\ UNCHANGED outcome
      BY <1>9, <3>1 DEF CheckWorker, Goto, commits, history
    <3> QED
      BY <3>2, <3>3 DEF Priced, PricedStep, PricedLocals, Accounts, Settled,
           TypeOK, LocalsTyped, Committing, fitFiles, FailedResult
  <2> QED
    BY <2>1, <2>2 DEF Priced
<1>10. ASSUME NEW c \in Coordinators, CheckTimesOut(c) PROVE Priced'
  <2>1. \A s \in Steps : PricedStep(s)'
    BY <1>10, FramePriced
       DEF CheckTimesOut, Refuse, Priced, plan, commits, fitFiles, history
  <2>2. ASSUME NEW d \in Coordinators PROVE PricedLocals(d)'
    BY <1>10, StepInSteps, StepsInRange
       DEF CheckTimesOut, Refuse, Goto, Priced, PricedStep, PricedLocals,
           Accounts, Settled, TypeOK, FilesTyped, LocalsTyped, WorkersTyped,
           HistoryTyped, Steps, Locals, LocalsOf, Busy, Critical, Committing,
           Step, FailedResult, plan, commits, fitFiles, history, locals
  <2> QED
    BY <2>1, <2>2 DEF Priced
<1>11. ASSUME NEW c \in Coordinators, Spawn(c) PROVE Priced'
  <2>1. \A s \in Steps : PricedStep(s)'
    BY <1>11, FramePriced
       DEF Spawn, Refuse, Priced, plan, commits, fitFiles, history
  <2>2. ASSUME NEW d \in Coordinators PROVE PricedLocals(d)'
    BY <1>11, StepInSteps, StepsInRange
       DEF Spawn, Refuse, Goto, Priced, PricedStep, PricedLocals, Accounts,
           Settled, TypeOK, FilesTyped, LocalsTyped, WorkersTyped,
           HistoryTyped, Steps, Locals, LocalsOf, Busy, Critical, Committing,
           Step, FailedResult, plan, commits, fitFiles, history, locals
  <2> QED
    BY <2>1, <2>2 DEF Priced
<1>12. ASSUME NEW c \in Coordinators, Collect(c) PROVE Priced'
  <2>1. \A s \in Steps : PricedStep(s)'
    BY <1>12, FramePriced
       DEF Collect, Refuse, Priced, plan, commits, fitFiles, history
  <2>2. ASSUME NEW d \in Coordinators PROVE PricedLocals(d)'
    <3>1. Step(c) = manifest + 1 /\ manifest + 1 \in Steps
      BY <1>12, AtNextStep, StepInSteps DEF Collect, Critical, Busy
    <3>2. PricedStep(manifest + 1)
      BY <3>1 DEF Priced
    <3>3. /\ UNCHANGED <<fits, fitFiles, payload, manifest, pending>>
          /\ \/ /\ result[manifest + 1] # None
                /\ outcome' = [outcome EXCEPT ![c] = result[manifest + 1]]
                /\ pc' = [pc EXCEPT ![c] = "observed"]
             \/ /\ pc' = [pc EXCEPT ![c] = "terminal"]
                /\ UNCHANGED outcome
      BY <1>12, <3>1 DEF Collect, Goto, commits, history
    <3> QED
      BY <3>2, <3>3 DEF Priced, PricedStep, PricedLocals, Accounts, Settled,
           TypeOK, LocalsTyped, Committing, fitFiles
  <2> QED
    BY <2>1, <2>2 DEF Priced
<1>13. ASSUME NEW c \in Coordinators, CloseAttempt(c) PROVE Priced'
  <2>1. ASSUME NEW s \in Steps PROVE PricedStep(s)'
    <3>1. Step(c) = manifest + 1 /\ manifest + 1 \in Steps
      BY <1>13, AtNextStep, StepInSteps DEF CloseAttempt, Critical, Busy
    <3>2. PricedStep(s) /\ PricedStep(manifest + 1)
      BY <3>1 DEF Priced
    <3>3. /\ UNCHANGED <<fits, started, transaction, payload, manifest>>
          /\ \/ UNCHANGED result
             \/ /\ result[manifest + 1] = None
                /\ result' = [result EXCEPT ![manifest + 1] = FailedResult(
                                IF manifest + 1 \in started THEN 1 ELSE 0)]
      BY <1>13, <3>1 DEF CloseAttempt, plan, commits, history
    <3>4. result \in [Steps -> Results \union {None}]
      BY DEF TypeOK, FilesTyped
    <3>5. /\ FailedResult(0) # None /\ FailedResult(0).charged = 0
          /\ FailedResult(1) # None /\ FailedResult(1).charged = 1
      BY ResultsTyped, NoneAssumption DEF FailedResult
    <3> QED
      BY <3>1, <3>2, <3>3, <3>4, <3>5 DEF PricedStep, Accounts, Settled
  <2>2. ASSUME NEW d \in Coordinators PROVE PricedLocals(d)'
    <3>1. Step(c) = manifest + 1 /\ manifest + 1 \in Steps
      BY <1>13, AtNextStep, StepInSteps DEF CloseAttempt, Critical, Busy
    <3>0. \A s \in Steps : result'[s] # None => result'[s].charged = fits'[s]
      BY <2>1 DEF PricedStep
    <3>2. result'[manifest + 1] # None =>
            result'[manifest + 1].charged = fits'[manifest + 1]
      BY <3>0, <3>1
    <3>3. /\ UNCHANGED <<fits, started, payload, manifest, pending>>
          /\ outcome' = [outcome EXCEPT ![c] = result'[manifest + 1]]
          /\ pc' = [pc EXCEPT ![c] = "observed"]
          /\ result'[manifest + 1] # None
          /\ \A s \in Steps : result[s] # None => result'[s] # None
      BY <1>13, <3>1, ResultsTyped, NoneAssumption
         DEF CloseAttempt, Goto, plan, commits, history, TypeOK, FilesTyped
    <3>4. manifest' + 1 = manifest + 1
      BY <3>3
    <3> QED
      BY <3>1, <3>2, <3>3, <3>4 DEF Priced, PricedStep, PricedLocals, Accounts,
           Settled, TypeOK, LocalsTyped, Committing
  <2> QED
    BY <2>1, <2>2 DEF Priced
<1>14. ASSUME NEW c \in Coordinators, CloseAttemptFails(c) PROVE Priced'
  BY <1>14, ExitPriced DEF CloseAttemptFails, Refuse, plan, commits, history
<1>15. ASSUME NEW c \in Coordinators, PublishTransaction(c) PROVE Priced'
  <2>1. ASSUME NEW s \in Steps PROVE PricedStep(s)'
    <3>1. Step(c) = manifest + 1 /\ manifest + 1 \in Steps
      BY <1>15, AtNextStep, StepInSteps DEF PublishTransaction, Critical, Busy
    <3>2. PricedStep(s) /\ Accounts(outcome[c], manifest + 1)
      BY <1>15 DEF Priced, PricedLocals, PublishTransaction
    <3>3. PICK t \in Stamps :
            transaction' = [transaction EXCEPT ![manifest + 1] =
              Transition(state[c], [result |-> outcome[c], stamp |-> t])]
      BY <1>15, <3>1 DEF PublishTransaction
    <3>4. UNCHANGED <<fits, fitFiles, payload, manifest>>
      BY <1>15 DEF PublishTransaction, commits, history
    <3>5. Transition(state[c],
             [result |-> outcome[c], stamp |-> t]).attempt.result = outcome[c]
      BY DEF Transition
    <3>6. transaction \in [Steps -> Transitions \union {None}]
      BY DEF TypeOK, FilesTyped
    <3> QED
      BY <3>1, <3>2, <3>3, <3>4, <3>5, <3>6
         DEF PricedStep, Accounts, Settled, fitFiles
  <2>2. ASSUME NEW d \in Coordinators PROVE PricedLocals(d)'
    BY <1>15, StepInSteps, StepsInRange
       DEF PublishTransaction, Refuse, Goto, Priced, PricedStep, PricedLocals,
           Accounts, Settled, TypeOK, FilesTyped, LocalsTyped, WorkersTyped,
           HistoryTyped, Steps, Locals, LocalsOf, Busy, Critical, Committing,
           Step, FailedResult, plan, commits, fitFiles, history, locals
  <2> QED
    BY <2>1, <2>2 DEF Priced
<1>16. ASSUME NEW c \in Coordinators, AppendRow(c) PROVE Priced'
  <2>1. CASE Exit(c)
    BY <1>16, <2>1, ExitPriced
       DEF AppendRow, Refuse, Goto, plan, commits, history
  <2>2. CASE ~Exit(c)
    <3>1. \A s \in Steps : PricedStep(s)'
      BY <1>16, <2>2, FramePriced
         DEF AppendRow, Refuse, Priced, plan, commits, fitFiles, history
    <3>2. ASSUME NEW d \in Coordinators PROVE PricedLocals(d)'
      BY <1>16, <2>2, StepInSteps, StepsInRange, ZenonT(60)
         DEF AppendRow, Refuse, Goto, Priced, PricedStep, PricedLocals,
             Accounts, Settled, TypeOK, FilesTyped, LocalsTyped, WorkersTyped,
             HistoryTyped, Steps, Locals, LocalsOf, Busy, Critical, Committing,
             Step, FailedResult, plan, commits, fitFiles, history, locals
    <3> QED
      BY <3>1, <3>2 DEF Priced
  <2> QED
    BY <2>1, <2>2
<1>17. ASSUME NEW c \in Coordinators, Stage(c) PROVE Priced'
  <2>1. CASE Exit(c)
    BY <1>17, <2>1, ExitPriced DEF Stage, Refuse, Goto, plan, commits, history
  <2>2. CASE ~Exit(c)
    <3>1. \A s \in Steps : PricedStep(s)'
      BY <1>17, <2>2, FramePriced
         DEF Stage, Refuse, Priced, plan, commits, fitFiles, history
    <3>2. ASSUME NEW d \in Coordinators PROVE PricedLocals(d)'
      <4>1. Step(c) = manifest + 1
        BY <1>17, AtNextStep DEF Stage, Critical
      <4>2. /\ UNCHANGED <<fits, fitFiles, payload, manifest, outcome, pending>>
            /\ \/ /\ payload[manifest + 1] = None
                  /\ pc' = [pc EXCEPT ![c] = "payload"]
               \/ /\ payload[manifest + 1] # None
                  /\ pc' = [pc EXCEPT ![c] = "manifest"]
        BY <1>17, <2>2, <4>1 DEF Stage, Refuse, Goto, commits, history, locals
      <4> QED
        BY <1>17, <4>2 DEF Stage, Priced, PricedLocals, Accounts, Settled,
                           TypeOK, LocalsTyped, Committing, fitFiles
    <3> QED
      BY <3>1, <3>2 DEF Priced
  <2> QED
    BY <2>1, <2>2
<1>18. ASSUME NEW c \in Coordinators, CommitPayload(c) PROVE Priced'
  <2>1. ASSUME NEW s \in Steps PROVE PricedStep(s)'
    <3>1. Step(c) = manifest + 1 /\ manifest + 1 \in Steps
      BY <1>18, AtNextStep, StepInSteps DEF CommitPayload, Critical, Busy
    <3>2. PricedStep(s) /\ Accounts(pending[c].result, manifest + 1)
      BY <1>18 DEF Priced, PricedLocals, CommitPayload, Committing
    <3>3. /\ UNCHANGED <<fits, fitFiles, transaction, manifest>>
          /\ payload' = [payload EXCEPT ![manifest + 1] =
                           Transition(state[c], pending[c])]
      BY <1>18, <3>1 DEF CommitPayload, plan, history
    <3>4. payload \in [Steps -> Transitions \union {None}] /\ manifest \in Nat
      BY DEF TypeOK, FilesTyped
    <3>5. Transition(state[c], pending[c]).attempt.result = pending[c].result
      BY DEF Transition
    <3> QED
      BY <3>1, <3>2, <3>3, <3>4, <3>5 DEF PricedStep, Accounts, Settled, fitFiles
  <2>2. ASSUME NEW d \in Coordinators PROVE PricedLocals(d)'
    <3>1. Step(c) = manifest + 1 /\ manifest + 1 \in Steps
      BY <1>18, AtNextStep, StepInSteps DEF CommitPayload, Critical, Busy
    <3>2. /\ UNCHANGED <<fits, fitFiles, manifest, outcome, pending>>
          /\ payload' = [payload EXCEPT ![manifest + 1] =
                           Transition(state[c], pending[c])]
          /\ pc' = [pc EXCEPT ![c] = "manifest"]
          /\ pc[c] = "payload"
      BY <1>18, <3>1 DEF CommitPayload, Goto, plan, history, locals
    <3>3. Transition(state[c], pending[c]) # None
      BY <3>2, ResultsTyped, NoneAssumption
         DEF Locals, LocalsOf, Committing, TypeOK, LocalsTyped
    <3>4. payload'[manifest + 1] # None
      BY <3>1, <3>2, <3>3 DEF TypeOK, FilesTyped
    <3>5. CASE d = c
      BY <3>2, <3>4, <3>5 DEF Priced, PricedLocals, Accounts, Settled,
                              Committing, fitFiles, TypeOK, LocalsTyped
    <3>6. CASE d # c
      <4>1. pc'[d] = pc[d] /\ pc[d] \notin Critical
        BY <3>2, <3>6 DEF Locals, LocalsOf, Critical, TypeOK, LocalsTyped
      <4> QED
        BY <4>1 DEF PricedLocals, Critical, Committing
    <3> QED
      BY <3>5, <3>6
  <2> QED
    BY <2>1, <2>2 DEF Priced
<1>19. ASSUME NEW c \in Coordinators, CommitManifest(c) PROVE Priced'
  <2>1. ASSUME NEW s \in Steps PROVE PricedStep(s)'
    <3>1. manifest' = manifest + 1 /\ payload[manifest + 1] # None
      BY <1>19, AtNextStep
         DEF CommitManifest, Critical, Priced, PricedLocals
    <3>2. UNCHANGED <<fits, fitFiles, transaction, payload>>
      BY <1>19 DEF CommitManifest, plan, history
    <3>3. PricedStep(s)
      BY DEF Priced
    <3> QED
      BY <3>1, <3>2, <3>3, SMTT(30)
         DEF PricedStep, Accounts, Settled, fitFiles, TypeOK, FilesTyped, Steps
  <2>2. ASSUME NEW d \in Coordinators PROVE PricedLocals(d)'
    BY <1>19, StepInSteps, StepsInRange
       DEF CommitManifest, Refuse, Goto, Priced, PricedStep, PricedLocals,
           Accounts, Settled, TypeOK, FilesTyped, LocalsTyped, WorkersTyped,
           HistoryTyped, Steps, Locals, LocalsOf, Busy, Critical, Committing,
           Step, FailedResult, plan, commits, fitFiles, history, locals
  <2> QED
    BY <2>1, <2>2 DEF Priced
<1>20. ASSUME NEW c \in Coordinators, LoopCompletes(c) PROVE Priced'
  <2>1. \A s \in Steps : PricedStep(s)'
    BY <1>20, FramePriced
       DEF LoopCompletes, Refuse, Priced, plan, commits, fitFiles, history
  <2>2. ASSUME NEW d \in Coordinators PROVE PricedLocals(d)'
    BY <1>20, StepInSteps, StepsInRange
       DEF LoopCompletes, Refuse, Goto, Priced, PricedStep, PricedLocals,
           Accounts, Settled, TypeOK, FilesTyped, LocalsTyped, WorkersTyped,
           HistoryTyped, Steps, Locals, LocalsOf, Busy, Critical, Committing,
           Step, FailedResult, plan, commits, fitFiles, history, locals
  <2> QED
    BY <2>1, <2>2 DEF Priced
<1>21. ASSUME NEW c \in Coordinators, ExportRun(c) PROVE Priced'
  BY <1>21, ExitPriced DEF ExportRun, Refuse, plan, commits, history
<1>22. ASSUME NEW c \in Coordinators, Crash(c) PROVE Priced'
  BY <1>22, ExitPriced DEF Crash, Refuse, plan, commits, history
<1>23. ASSUME NEW c \in Coordinators, WorkerTimesOut(c) PROVE Priced'
  <2>1. \A s \in Steps : PricedStep(s)'
    BY <1>23, FramePriced
       DEF WorkerTimesOut, Refuse, Priced, plan, commits, fitFiles, history
  <2>2. ASSUME NEW d \in Coordinators PROVE PricedLocals(d)'
    BY <1>23, StepInSteps, StepsInRange
       DEF WorkerTimesOut, Refuse, Goto, Priced, PricedStep, PricedLocals,
           Accounts, Settled, TypeOK, FilesTyped, LocalsTyped, WorkersTyped,
           HistoryTyped, Steps, Locals, LocalsOf, Busy, Critical, Committing,
           Step, FailedResult, plan, commits, fitFiles, history, locals
  <2> QED
    BY <2>1, <2>2 DEF Priced
<1>24. ASSUME NEW c \in Coordinators, LoopStops(c) PROVE Priced'
  <2>1. \A s \in Steps : PricedStep(s)'
    BY <1>24, FramePriced
       DEF LoopStops, Refuse, Priced, plan, commits, fitFiles, history
  <2>2. ASSUME NEW d \in Coordinators PROVE PricedLocals(d)'
    BY <1>24, StepInSteps, StepsInRange
       DEF LoopStops, Refuse, Goto, Priced, PricedStep, PricedLocals, Accounts,
           Settled, TypeOK, FilesTyped, LocalsTyped, WorkersTyped,
           HistoryTyped, Steps, Locals, LocalsOf, Busy, Critical, Committing,
           Step, FailedResult, plan, commits, fitFiles, history, locals
  <2> QED
    BY <2>1, <2>2 DEF Priced
<1>25. ASSUME NEW c \in Coordinators, Pause(c) PROVE Priced'
  BY <1>25, ExitPriced DEF Pause, Refuse, plan, commits, history
<1>26. ASSUME NEW w \in Workers, EnterWorker(w) PROVE Priced'
  <2>1. \A s \in Steps : PricedStep(s)'
    BY <1>26, FramePriced
       DEF EnterWorker, Priced, plan, commits, fitFiles, history
  <2>2. ASSUME NEW d \in Coordinators PROVE PricedLocals(d)'
    BY <1>26, StepInSteps, StepsInRange
       DEF EnterWorker, Priced, PricedStep, PricedLocals, Accounts, Settled,
           TypeOK, FilesTyped, LocalsTyped, WorkersTyped, HistoryTyped, Steps,
           Fenced, FencedOf, Locals, LocalsOf, Busy, Critical, Committing,
           plan, commits, fitFiles, history, locals
  <2> QED
    BY <2>1, <2>2 DEF Priced
<1>27. ASSUME NEW w \in Workers, RejectRequest(w) PROVE Priced'
  <2>1. ASSUME NEW s \in Steps PROVE PricedStep(s)'
    BY <1>27
       DEF RejectRequest, Priced, PricedStep, PricedLocals, Accounts, Settled,
           TypeOK, FilesTyped, LocalsTyped, WorkersTyped, HistoryTyped, Steps,
           Fenced, FencedOf, Results, OkResult, FailedResult, plan, commits,
           fitFiles, history
  <2>2. ASSUME NEW d \in Coordinators PROVE PricedLocals(d)'
    BY <1>27, StepInSteps, StepsInRange
       DEF RejectRequest, Priced, PricedStep, PricedLocals, Accounts, Settled,
           TypeOK, FilesTyped, LocalsTyped, WorkersTyped, HistoryTyped, Steps,
           Fenced, FencedOf, Locals, LocalsOf, Busy, Critical, Committing,
           plan, commits, fitFiles, history, locals
  <2> QED
    BY <2>1, <2>2 DEF Priced
<1>28. ASSUME NEW w \in Workers, BeginFit(w) PROVE Priced'
  <2>1. ASSUME NEW s \in Steps PROVE PricedStep(s)'
    BY <1>28
       DEF BeginFit, Priced, PricedStep, PricedLocals, Accounts, Settled,
           TypeOK, FilesTyped, LocalsTyped, WorkersTyped, HistoryTyped, Steps,
           Fenced, FencedOf, Results, OkResult, FailedResult, plan, commits,
           fitFiles, history
  <2>2. ASSUME NEW d \in Coordinators PROVE PricedLocals(d)'
    BY <1>28, StepInSteps, StepsInRange, SMTT(30)
       DEF BeginFit, Priced, PricedStep, PricedLocals, Accounts, Settled,
           TypeOK, FilesTyped, LocalsTyped, WorkersTyped, HistoryTyped, Steps,
           Fenced, FencedOf, Locals, LocalsOf, Busy, Critical, Committing,
           plan, commits, fitFiles, history, locals
  <2> QED
    BY <2>1, <2>2 DEF Priced
<1>29. ASSUME NEW w \in Workers, EndFit(w) PROVE Priced'
  <2>1. ASSUME NEW s \in Steps PROVE PricedStep(s)'
    <3>1. PricedStep(s) /\ wstep[w] \in started /\ wstep[w] \in Steps
      BY <1>29 DEF EndFit, Priced, Fenced, FencedOf
    <3>2. PICK r \in {OkResult(v) : v \in Scores} \union {FailedResult(1)} :
            result' = [result EXCEPT ![wstep[w]] = r]
      BY <1>29 DEF EndFit
    <3>3. r.charged = 1
      BY DEF OkResult, FailedResult
    <3>4. UNCHANGED <<fits, started, transaction, payload, manifest>>
      BY <1>29 DEF EndFit, plan, commits, history
    <3> QED
      BY <3>1, <3>2, <3>3, <3>4 DEF PricedStep, Accounts, Settled, TypeOK,
                                    FilesTyped, Steps
  <2>2. ASSUME NEW d \in Coordinators PROVE PricedLocals(d)'
    BY <1>29, StepInSteps, StepsInRange
       DEF EndFit, Priced, PricedStep, PricedLocals, Accounts, Settled, TypeOK,
           FilesTyped, LocalsTyped, WorkersTyped, HistoryTyped, Steps, Fenced,
           FencedOf, Locals, LocalsOf, Busy, Critical, Committing, plan,
           commits, fitFiles, history, locals
  <2> QED
    BY <2>1, <2>2 DEF Priced
<1>30. ASSUME NEW w \in Workers, WorkerDies(w) PROVE Priced'
  <2>1. \A s \in Steps : PricedStep(s)'
    BY <1>30, FramePriced
       DEF WorkerDies, Priced, plan, commits, fitFiles, history
  <2>2. ASSUME NEW d \in Coordinators PROVE PricedLocals(d)'
    BY <1>30, StepInSteps, StepsInRange
       DEF WorkerDies, Priced, PricedStep, PricedLocals, Accounts, Settled,
           TypeOK, FilesTyped, LocalsTyped, WorkersTyped, HistoryTyped, Steps,
           Fenced, FencedOf, Locals, LocalsOf, Busy, Critical, Committing,
           plan, commits, fitFiles, history, locals
  <2> QED
    BY <2>1, <2>2 DEF Priced
<1> QED
  BY <1>1, <1>2, <1>3, <1>4, <1>5, <1>6, <1>7, <1>8, <1>9, <1>10, <1>11,
         <1>12, <1>13, <1>14, <1>15, <1>16, <1>17, <1>18, <1>19, <1>20, <1>21,
         <1>22, <1>23, <1>24, <1>25, <1>26, <1>27, <1>28, <1>29, <1>30
     DEF Next, Advance, Work
----------------------------------------------------------------------------
LEMMA InvariantInit ==
    ASSUME Init
    PROVE  IInv
PROOF
<1> USE ConstantsAssumption, NoneAssumption DEF Init
<1>1. TypeOK
  <2>1. FilesTyped
    BY DEF FilesTyped
  <2>2. LocalsTyped
    BY DEF LocalsTyped, Labels, States
  <2>3. WorkersTyped /\ HistoryTyped
    BY DEF WorkersTyped, HistoryTyped
  <2> QED
    BY <2>1, <2>2, <2>3 DEF TypeOK
<1>2. Locals
  BY DEF Locals, LocalsOf, Critical, Busy, Committing
<1>3. Fenced
  BY DEF Fenced, FencedOf
<1>4. Priced
  BY DEF Priced, PricedStep, PricedLocals, Committing, Steps
<1> QED
  BY <1>1, <1>2, <1>3, <1>4
     DEF IInv

LEMMA InvariantStep ==
    ASSUME IInv, [Next]_vars
    PROVE  IInv'
PROOF
<1>1. CASE Next
  <2>1. TypeOK'
    BY <1>1, TypeInvariance DEF IInv
  <2>2. Locals'
    BY <1>1, LocalsInvariance DEF IInv
  <2>3. Fenced'
    BY <1>1, FencedInvariance DEF IInv
  <2>4. Priced'
    BY <1>1, PricedInvariance
  <2> QED
    BY <2>1, <2>2, <2>3, <2>4 DEF IInv
<1>2. CASE UNCHANGED vars
  <2>1. TypeOK'
    BY <1>2 DEF IInv, TypeOK, FilesTyped, LocalsTyped, WorkersTyped,
                HistoryTyped, vars, plan, fitFiles, commits, locals, workers,
                history
  <2>2. Locals'
    BY <1>2, FrameLocals DEF IInv, vars, commits
  <2>3. Fenced'
    BY <1>2, FrameFenced DEF IInv, vars, commits, fitFiles, workers
  <2>4. Priced'
    <3>1. \A s \in Steps : PricedStep(s)'
      BY <1>2, FramePriced DEF IInv, Priced, vars, plan, commits, history
    <3>2. \A c \in Coordinators : PricedLocals(c)'
      BY <1>2 DEF IInv, Priced, PricedLocals, Accounts, Settled, vars, locals,
                  commits, fitFiles, history
    <3> QED
      BY <3>1, <3>2 DEF Priced
  <2> QED
    BY <2>1, <2>2, <2>3, <2>4 DEF IInv
<1> QED
  BY <1>1, <1>2

\* The inductive invariant holds of every reachable state.
THEOREM Invariance == Spec => []IInv
PROOF
<1>1. Init => IInv
  BY InvariantInit
<1>2. IInv /\ [Next]_vars => IInv'
  BY InvariantStep
<1> QED
  BY <1>1, <1>2, PTL DEF Spec

\* The files, locks and processes always hold values of their type.
THEOREM TypeCorrectness == Spec => []TypeOK
PROOF
<1>1. IInv => TypeOK
  BY DEF IInv
<1> QED
  BY <1>1, Invariance, PTL

\* However many coordinators and workers die, are resumed or linger as
\* orphans, no attempt of the run is trained twice.
THEOREM TrainingIsNeverRepeated == Spec => []TrainedAtMostOnce
PROOF
<1>1. IInv => TrainedAtMostOnce
  BY DEF IInv, Priced, PricedStep, TrainedAtMostOnce
<1> QED
  BY <1>1, Invariance, PTL

\* Every committed attempt is charged 1 if a training was begun for it, else 0.
THEOREM ChargesAreExact == Spec => []ChargedAsTrained
PROOF
<1>1. ASSUME IInv, NEW s \in 1..manifest
      PROVE  payload[s].attempt.result.charged = fits[s]
  <2>1. s \in Steps /\ s <= manifest
    BY <1>1, ConstantsAssumption DEF IInv, TypeOK, FilesTyped, Steps
  <2> QED
    BY <1>1, <2>1 DEF IInv, Priced, PricedStep, Accounts
<1>2. IInv => ChargedAsTrained
  BY <1>1 DEF ChargedAsTrained
<1> QED
  BY <1>2, Invariance, PTL

----------------------------------------------------------------------------
\* Three actions move the ledger; no other touches what it is made of.
LEMMA LedgerFrame ==
    ASSUME Next
    PROVE  \/ UNCHANGED <<fits, payload, manifest>>
           \/ \E c \in Coordinators : CommitPayload(c) \/ CommitManifest(c)
           \/ \E w \in Workers : BeginFit(w)
PROOF
<1>1. ASSUME NEW c \in Coordinators,
             \/ CreateCheckpoint(c) \/ Resume(c) \/ Crash(c)
             \/ WorkerTimesOut(c) \/ LoopStops(c) \/ Pause(c)
             \/ CreateStore(c) \/ Open(c) \/ OpenFails(c)
             \/ RecoverTransaction(c) \/ RejectCandidate(c)
             \/ PublishRequest(c) \/ CheckWorker(c) \/ CheckTimesOut(c)
      PROVE  UNCHANGED <<fits, payload, manifest>>
  BY <1>1 DEF CreateCheckpoint, Resume, Crash, WorkerTimesOut, LoopStops,
     Pause, CreateStore, Open, TakeOver, OpenFails, RecoverTransaction,
     RejectCandidate, PublishRequest, CheckWorker, CheckTimesOut, Refuse,
     commits, history
<1>2. ASSUME NEW c \in Coordinators,
             \/ Spawn(c) \/ Collect(c) \/ CloseAttempt(c)
             \/ CloseAttemptFails(c) \/ PublishTransaction(c) \/ AppendRow(c)
             \/ Stage(c) \/ LoopCompletes(c) \/ ExportRun(c)
      PROVE  UNCHANGED <<fits, payload, manifest>>
  BY <1>2 DEF Spawn, Collect, CloseAttempt, CloseAttemptFails,
     PublishTransaction, AppendRow, Stage, LoopCompletes, ExportRun, Refuse,
     commits, history
<1>3. ASSUME NEW w \in Workers,
             EnterWorker(w) \/ RejectRequest(w) \/ EndFit(w) \/ WorkerDies(w)
      PROVE  UNCHANGED <<fits, payload, manifest>>
  BY <1>3 DEF EnterWorker, RejectRequest, EndFit, WorkerDies, commits, history
<1> QED
  BY <1>1, <1>2, <1>3 DEF Next, Advance, Work

\* The mapping of the ledger, by its two faces.
LEMMA LedgerShape ==
    ASSUME IInv
    PROVE  /\ [s \in 1..manifest |-> payload[s].attempt.result] \in Seq(Results)
           /\ Len([s \in 1..manifest |-> payload[s].attempt.result]) = manifest
           /\ manifest \in Nat
           /\ 1..manifest \subseteq Steps
PROOF
<1>1. manifest \in Nat /\ 1..manifest \subseteq Steps
  BY ConstantsAssumption DEF IInv, TypeOK, FilesTyped, Steps
<1>2. \A s \in 1..manifest : payload[s].attempt.result \in Results
  BY <1>1 DEF IInv, Priced, PricedStep, TypeOK, FilesTyped, Transitions,
              Attempts
<1> QED
  BY <1>1, <1>2

LEMMA CommitManifestCommits ==
    ASSUME IInv, NEW c \in Coordinators, CommitManifest(c)
    PROVE  Ledger!Commit
PROOF
<1> DEFINE L == [s \in 1..manifest |-> payload[s].attempt.result]
<1> DEFINE r == payload[manifest + 1].attempt.result
<1>1. manifest' = manifest + 1 /\ UNCHANGED <<payload, fits>>
  BY AtNextStep DEF CommitManifest, Critical, IInv, history
<1>2. manifest + 1 \in Steps /\ manifest < Total
  BY AtNextStep, StepInSteps
     DEF CommitManifest, Critical, Busy, IInv, Locals, LocalsOf
<1>3. payload[manifest + 1] # None
  BY DEF IInv, Priced, PricedLocals, CommitManifest
<1>4. r \in Results
  BY <1>2, <1>3 DEF IInv, TypeOK, FilesTyped, Transitions, Attempts
<1>5. r.charged = fits[manifest + 1]
  BY <1>2, <1>3 DEF IInv, Priced, PricedStep, Accounts
<1>6. L \in Seq(Results) /\ Len(L) = manifest /\ manifest \in Nat
  BY LedgerShape
<1>7. L' = [s \in 1..(manifest + 1) |-> payload[s].attempt.result]
  BY <1>1
<1>8. L' = Append(L, r)
  <2> HIDE DEF L, r
  <2>1. /\ Append(L, r) \in Seq(Results)
        /\ Len(Append(L, r)) = manifest + 1
        /\ \A s \in 1..manifest : Append(L, r)[s] = L[s]
        /\ Append(L, r)[manifest + 1] = r
    BY <1>6, <1>4, AppendProperties
  <2>2. /\ L' \in Seq(Results) /\ Len(L') = manifest + 1
        /\ \A s \in 1..(manifest + 1) : L'[s] = Append(L, r)[s]
    <3>1. \A s \in 1..(manifest + 1) :
            /\ payload[s].attempt.result = IF s = manifest + 1 THEN r ELSE L[s]
            /\ payload[s].attempt.result \in Results
      BY <1>4, <1>6, ElementOfSeq DEF L, r
    <3> QED
      BY <1>6, <1>7, <2>1, <3>1
  <2> QED
    BY <1>6, <2>1, <2>2, SeqEqual
<1> QED
  BY <1>1, <1>2, <1>4, <1>5, <1>6, <1>8 DEF Ledger!Commit

LEMMA CommitPayloadStutters ==
    ASSUME IInv, NEW c \in Coordinators, CommitPayload(c)
    PROVE  UNCHANGED Ledger!vars
PROOF
<1>1. Step(c) = manifest + 1
  BY AtNextStep DEF CommitPayload, Critical, IInv
<1>2. /\ UNCHANGED <<fits, manifest>>
      /\ \A s \in 1..manifest : payload'[s] = payload[s]
  BY <1>1, LedgerShape
     DEF CommitPayload, history, IInv, TypeOK, FilesTyped, Steps
<1> QED
  BY <1>2 DEF Ledger!vars

LEMMA BeginFitBegins ==
    ASSUME IInv, NEW w \in Workers, BeginFit(w)
    PROVE  Ledger!BeginFit
PROOF
<1>1. /\ wstep[w] \in Steps \ Uncompilable
      /\ wstep[w] <= manifest + 1
      /\ result[wstep[w]] = None
      /\ wstep[w] \notin started
  BY DEF BeginFit, IInv, Fenced, FencedOf
<1>2. ~(wstep[w] <= manifest)
  BY <1>1 DEF IInv, Priced, PricedStep, Accounts, Settled
<1>3. wstep[w] = manifest + 1 /\ manifest < Total
  BY <1>1, <1>2, ConstantsAssumption DEF IInv, TypeOK, FilesTyped, Steps
<1>4. fits[manifest + 1] = 0
  BY <1>1, <1>3 DEF IInv, Priced, PricedStep
<1>5. fits' = [fits EXCEPT ![manifest + 1] = 1] /\ UNCHANGED <<payload, manifest>>
  BY <1>3, <1>4 DEF BeginFit, commits
<1> QED
  BY <1>3, <1>4, <1>5, LedgerShape DEF Ledger!BeginFit

\* The run, with all its processes, deaths and files, implements the ledger:
\* one attempt at a time, trained at most once, committed at its exact charge.
THEOREM RunImplementsLedger == Spec => ImplementsLedger
PROOF
<1>1. Init => Ledger!Init
  BY DEF Init, Ledger!Init, Steps, Ledger!Steps
<1>2. IInv /\ [Next]_vars => [Ledger!Next]_(Ledger!vars)
  <2> SUFFICES ASSUME IInv, [Next]_vars PROVE [Ledger!Next]_(Ledger!vars)
    OBVIOUS
  <2>1. CASE UNCHANGED <<fits, payload, manifest>>
    BY <2>1 DEF Ledger!vars
  <2>2. ASSUME NEW c \in Coordinators, CommitPayload(c)
        PROVE  [Ledger!Next]_(Ledger!vars)
    BY <2>2, CommitPayloadStutters
  <2>3. ASSUME NEW c \in Coordinators, CommitManifest(c)
        PROVE  [Ledger!Next]_(Ledger!vars)
    BY <2>3, CommitManifestCommits DEF Ledger!Next
  <2>4. ASSUME NEW w \in Workers, BeginFit(w)
        PROVE  [Ledger!Next]_(Ledger!vars)
    BY <2>4, BeginFitBegins DEF Ledger!Next
  <2>5. CASE UNCHANGED vars
    BY <2>5, <2>1 DEF vars, commits, history
  <2> QED
    BY <2>1, <2>2, <2>3, <2>4, <2>5, LedgerFrame
<1> QED
  BY <1>1, <1>2, Invariance, PTL DEF Spec, ImplementsLedger, Ledger!Spec

----------------------------------------------------------------------------
(***************************************************************************)
(* The files agree with one another                                        *)
(***************************************************************************)
\* The attempts of the first n payloads.
Prefix(n) == [s \in 1..n |-> payload[s].attempt]

\* What is committed is a chain over its own prefixes and has its rows; the
\* next step's request, transaction, row and payload extend it in that order;
\* nothing is known of later steps.
CommittedAgrees ==
    \A s \in 1..manifest :
        /\ payload[s] # None /\ payload[s].before = Prefix(s - 1)
        /\ rows[s] = RowOf(payload[s].attempt)

NextAgrees(s) ==
    /\ request[s] \in {None, Committed}
    /\ transaction[s] # None => transaction[s].before = Committed
    /\ payload[s] # None => payload[s] = transaction[s] /\ Len(rows) = s
    /\ Len(rows) = s =>
         transaction[s] # None /\ rows[s] = RowOf(transaction[s].attempt)

FilesAgree ==
    /\ CommittedAgrees
    /\ Len(rows) \in {manifest, manifest + 1}
    /\ \A s \in Steps : s = manifest + 1 => NextAgrees(s)
    /\ \A s \in Steps : s > manifest + 1 =>
         request[s] = None /\ transaction[s] = None /\ payload[s] = None

\* An export is of a committed prefix, and accounts for its trainings.
Trained(n) == Cardinality({s \in 1..n : fits[s] > 0})

ExportsAgree ==
    \A n \in 0..Total : exports[n] # None =>
        /\ n <= manifest /\ exports[n].state = Prefix(n)
        /\ exports[n].actual + exports[n].cached = Trained(n)

\* A coordinator's memory is what the files say.
LocalsAgreeOf(c) ==
    /\ pc[c] \in Critical => state[c] = Committed
    /\ pc[c] \in Critical \ Committing => inherited[c] <= manifest
    /\ pc[c] \in Committing =>
         /\ inherited[c] <= manifest + 1
         /\ transaction[manifest + 1] = Transition(Committed, pending[c])
    /\ pc[c] \in Committing \ {"row"} => Len(rows) = manifest + 1

LocalsAgree == \A c \in Coordinators : LocalsAgreeOf(c)

Agreed == FilesAgree /\ ExportsAgree /\ LocalsAgree /\ NeverRefused

\* What follows at once from types and agreement.
LEMMA AgreedShape ==
    ASSUME IInv, Agreed
    PROVE  /\ TypeOK /\ Locals /\ Priced
           /\ manifest \in Nat /\ manifest <= Total /\ Total \in Nat
           /\ Len(rows) \in Nat
           /\ Committed = Prefix(manifest)
           /\ Committed \in Seq(Attempts) /\ Len(Committed) = manifest
PROOF
<1>1. TypeOK /\ Locals /\ Priced
  BY DEF IInv
<1>2. manifest \in Nat /\ manifest <= Total /\ Total \in Nat
  BY <1>1, ConstantsAssumption DEF TypeOK, FilesTyped
<1>3. Len(rows) \in Nat
  BY <1>1, LenProperties DEF TypeOK, FilesTyped
<1>4. Committed = Prefix(manifest)
  BY DEF Committed, Prefix
<1>5. \A s \in 1..manifest : payload[s].attempt \in Attempts
  BY <1>1, <1>2 DEF TypeOK, FilesTyped, Steps, Transitions, Agreed,
                    FilesAgree, CommittedAgrees
<1>6. Committed \in Seq(Attempts) /\ Len(Committed) = manifest
  BY <1>2, <1>5 DEF Committed
<1> QED
  BY <1>1, <1>2, <1>3, <1>4, <1>6

LEMMA PrefixOfCommitted ==
    ASSUME IInv, Agreed, NEW n \in 0..manifest
    PROVE  SubSeq(Committed, 1, n) = Prefix(n)
PROOF
<1>1. manifest \in Nat /\ Committed \in Seq(Attempts)
      /\ Len(Committed) = manifest
  BY AgreedShape
<1> DEFINE t == SubSeq(Committed, 1, n)
<1>2. t \in Seq(Attempts) /\ Len(t) = n
      /\ \A i \in 1..n : t[i] = Committed[i]
  BY <1>1
<1>3. DOMAIN t = 1..n /\ t = [i \in 1..n |-> t[i]]
  BY <1>2
<1>4. \A i \in 1..n : t[i] = payload[i].attempt
  BY <1>1, <1>2 DEF Committed
<1> HIDE DEF t
<1>5. [i \in 1..n |-> t[i]] = [i \in 1..n |-> payload[i].attempt]
  BY <1>4
<1>6. t = Prefix(n)
  BY <1>3, <1>5 DEF Prefix
<1> QED
  BY <1>6 DEF t

\* What Open verifies.
LEMMA OpenAccepts ==
    ASSUME IInv, Agreed
    PROVE  ChainHolds /\ ProgressHolds /\ TipHolds
PROOF
<1>1. manifest \in Nat /\ Len(rows) \in Nat
  BY AgreedShape
<1>2. CommittedAgrees /\ Len(rows) \in {manifest, manifest + 1}
  BY DEF Agreed, FilesAgree
<1>3. \A s \in 1..manifest : s - 1 \in 0..manifest
  BY <1>1
<1>4. ChainHolds
  BY <1>2, <1>3, PrefixOfCommitted DEF CommittedAgrees, ChainHolds
<1>5. ProgressHolds /\ TipHolds
  BY <1>1, <1>2 DEF CommittedAgrees, ProgressHolds, TipHolds
<1> QED
  BY <1>4, <1>5

\* One invocation at a time is past the boundary lock.
LEMMA Alone ==
    ASSUME IInv, NEW c \in Coordinators, pc[c] \in Critical
    PROVE  /\ boundary = c /\ Len(state[c]) = manifest
           /\ Step(c) = manifest + 1
           /\ \A d \in Coordinators \ {c} : pc[d] \notin Critical
PROOF
  BY AtNextStep DEF IInv, Locals, LocalsOf

\* A step of the one invocation leaves the others where they are.
LEMMA OnlyIts ==
    ASSUME IInv, NEW c \in Coordinators, pc[c] \in Critical,
           \A d \in Coordinators \ {c} : pc'[d] = pc[d],
           LocalsAgreeOf(c)'
    PROVE  LocalsAgree'
PROOF
<1>1. \A d \in Coordinators \ {c} : pc'[d] \notin Critical
  BY Alone
<1>2. \A d \in Coordinators \ {c} : LocalsAgreeOf(d)'
  BY <1>1 DEF LocalsAgreeOf, Committing, Critical
<1> QED
  BY <1>2 DEF LocalsAgree

LEMMA FilesFrame ==
    ASSUME FilesAgree, UNCHANGED <<request, transaction, rows, payload, manifest>>
    PROVE  FilesAgree' /\ Committed' = Committed
PROOF
<1>1. /\ request' = request /\ transaction' = transaction /\ rows' = rows
      /\ payload' = payload /\ manifest' = manifest
  OBVIOUS
<1>2. Committed' = Committed
  BY <1>1 DEF Committed
<1>3. CommittedAgrees'
  BY <1>1 DEF FilesAgree, CommittedAgrees, Prefix
<1> QED
  BY <1>1, <1>2, <1>3 DEF FilesAgree, NextAgrees

LEMMA ExportsFrame ==
    ASSUME ExportsAgree, UNCHANGED <<payload, manifest, exports, fits>>
    PROVE  ExportsAgree'
PROOF
  BY DEF ExportsAgree, Prefix, Trained

\* The memory of c is what it was, or is not needed any more.
KeepsMemory(c) ==
    pc'[c] \in Critical =>
        /\ pc[c] \in Critical
        /\ state'[c] = state[c] /\ inherited'[c] = inherited[c]
        /\ pc'[c] \in Committing <=> pc[c] \in Committing
        /\ pc'[c] \in Committing => pending'[c] = pending[c]
        /\ pc'[c] \in Committing \ {"row"} => pc[c] # "row"

LEMMA Quiet ==
    ASSUME IInv, Agreed,
           UNCHANGED <<request, transaction, rows, payload, manifest, exports,
                       fits, alarms>>,
           \A c \in Coordinators : KeepsMemory(c)
    PROVE  Agreed'
PROOF
<1>1. FilesAgree' /\ ExportsAgree' /\ Committed' = Committed
  BY FilesFrame, ExportsFrame DEF Agreed
<1>2. ASSUME NEW c \in Coordinators PROVE LocalsAgreeOf(c)'
  <2>1. LocalsAgreeOf(c) /\ KeepsMemory(c)
    BY DEF Agreed, LocalsAgree
  <2>2. Committing \subseteq Critical
    BY DEF Committing, Critical
  <2> QED
    BY <1>1, <2>1, <2>2 DEF LocalsAgreeOf, KeepsMemory
<1>3. NeverRefused'
  BY DEF Agreed, NeverRefused
<1> QED
  BY <1>1, <1>2, <1>3 DEF Agreed, LocalsAgree

LEMMA ExitKeeps ==
    ASSUME TypeOK, NEW c \in Coordinators, Exit(c)
    PROVE  \A d \in Coordinators : KeepsMemory(d)
PROOF
  BY DEF Exit, Goto, KeepsMemory, Critical, TypeOK, LocalsTyped

\* From one label to another with the memory that matters unchanged.
LEMMA GotoKeeps ==
    ASSUME TypeOK, NEW c \in Coordinators, NEW label, Goto(c, label),
           UNCHANGED <<state, inherited, pending>>,
           \/ label \notin Critical
           \/ /\ pc[c] \in Critical
              /\ label \in Committing <=> pc[c] \in Committing
              /\ label \in Committing \ {"row"} => pc[c] # "row"
    PROVE  \A d \in Coordinators : KeepsMemory(d)
PROOF
<1>1. pc'[c] = label /\ \A d \in Coordinators \ {c} : pc'[d] = pc[d]
  BY DEF Goto, TypeOK, LocalsTyped
<1>2. \A d \in Coordinators : /\ state'[d] = state[d]
                              /\ inherited'[d] = inherited[d]
                              /\ pending'[d] = pending[d]
  OBVIOUS
<1>3. KeepsMemory(c)
  BY <1>1, <1>2 DEF KeepsMemory
<1>4. \A d \in Coordinators \ {c} : KeepsMemory(d)
  BY <1>1, <1>2 DEF KeepsMemory
<1> QED
  BY <1>3, <1>4

----------------------------------------------------------------------------
\* Steps that record nothing.
LEMMA QuietCoordinator ==
    ASSUME IInv, Agreed, NEW c \in Coordinators,
           \/ CreateCheckpoint(c) \/ CreateStore(c) \/ Resume(c)
           \/ OpenFails(c) \/ Crash(c) \/ RejectCandidate(c)
           \/ CheckWorker(c) \/ CheckTimesOut(c) \/ Spawn(c) \/ Collect(c)
           \/ WorkerTimesOut(c) \/ CloseAttempt(c) \/ CloseAttemptFails(c)
           \/ LoopCompletes(c) \/ LoopStops(c) \/ Pause(c)
    PROVE  Agreed'
PROOF
<1>1. TypeOK
  BY DEF IInv
<1> USE DEF Critical, Committing
<1>2. CASE OpenFails(c) \/ Crash(c) \/ CloseAttemptFails(c) \/ Pause(c)
  <2>1. Exit(c) /\ UNCHANGED <<request, transaction, rows, payload, manifest,
                               exports, fits, alarms>>
    BY <1>2 DEF OpenFails, Crash, CloseAttemptFails, Pause, plan, commits,
                history
  <2> QED
    BY <1>1, <2>1, ExitKeeps, Quiet
<1>3. CASE CreateCheckpoint(c) \/ CreateStore(c) \/ Resume(c)
  <2>1. /\ Goto(c, "creating") \/ Goto(c, "opening")
        /\ UNCHANGED <<state, inherited, pending>>
        /\ UNCHANGED <<request, transaction, rows, payload, manifest,
                       exports, fits, alarms>>
    BY <1>3 DEF CreateCheckpoint, CreateStore, Resume, plan, commits, locals,
                history
  <2>2. \A d \in Coordinators : KeepsMemory(d)
    BY <1>1, <2>1, GotoKeeps
  <2> QED
    BY <2>1, <2>2, Quiet
<1>4. CASE RejectCandidate(c) \/ LoopCompletes(c) \/ LoopStops(c)
  <2>1. /\ pc[c] = "loop" /\ (Goto(c, "observed") \/ Goto(c, "finish"))
        /\ UNCHANGED <<state, inherited, pending>>
        /\ UNCHANGED <<request, transaction, rows, payload, manifest,
                       exports, fits, alarms>>
    BY <1>4 DEF RejectCandidate, LoopCompletes, LoopStops, plan, commits,
                locals, history
  <2>2. \A d \in Coordinators : KeepsMemory(d)
    BY <1>1, <2>1, GotoKeeps
  <2> QED
    BY <2>1, <2>2, Quiet
<1>5. CASE CheckWorker(c) \/ CheckTimesOut(c)
  <2>1. /\ pc[c] = "check"
        /\ Goto(c, "observed") \/ Goto(c, "spawn") \/ Goto(c, "terminal")
        /\ UNCHANGED <<state, inherited, pending>>
        /\ UNCHANGED <<request, transaction, rows, payload, manifest,
                       exports, fits, alarms>>
    BY <1>5 DEF CheckWorker, CheckTimesOut, plan, commits, locals, history
  <2>2. \A d \in Coordinators : KeepsMemory(d)
    BY <1>1, <2>1, GotoKeeps
  <2> QED
    BY <2>1, <2>2, Quiet
<1>6. CASE Spawn(c) \/ Collect(c) \/ WorkerTimesOut(c) \/ CloseAttempt(c)
  <2>1. /\ pc[c] \in {"spawn", "wait", "terminal"}
        /\ Goto(c, "wait") \/ Goto(c, "observed") \/ Goto(c, "terminal")
        /\ UNCHANGED <<state, inherited, pending>>
        /\ UNCHANGED <<request, transaction, rows, payload, manifest,
                       exports, fits, alarms>>
    BY <1>6 DEF Spawn, Collect, WorkerTimesOut, CloseAttempt, plan, commits,
                locals, history
  <2>2. \A d \in Coordinators : KeepsMemory(d)
    BY <1>1, <2>1, GotoKeeps
  <2> QED
    BY <2>1, <2>2, Quiet
<1> QED
  BY <1>2, <1>3, <1>4, <1>5, <1>6

LEMMA QuietWorker ==
    ASSUME IInv, Agreed, NEW w \in Workers,
           EnterWorker(w) \/ RejectRequest(w) \/ EndFit(w) \/ WorkerDies(w)
    PROVE  Agreed'
PROOF
<1>1. /\ pc' = pc /\ state' = state /\ inherited' = inherited
      /\ pending' = pending
      /\ UNCHANGED <<request, transaction, rows, payload, manifest,
                     exports, fits, alarms>>
  BY DEF EnterWorker, RejectRequest, EndFit, WorkerDies, plan, commits,
         locals, history
<1>2. \A c \in Coordinators : KeepsMemory(c)
  BY <1>1 DEF KeepsMemory
<1> QED
  BY <1>1, <1>2, Quiet

\* A training begins for a step that is not committed: no export covers it.
LEMMA BeginFitAgrees ==
    ASSUME IInv, Agreed, NEW w \in Workers, BeginFit(w)
    PROVE  Agreed'
PROOF
<1>1. TypeOK /\ Fenced /\ Priced
  BY DEF IInv
<1>2. /\ wpc[w] = "entered"
      /\ fits' = [fits EXCEPT ![wstep[w]] = @ + 1]
      /\ pc' = pc /\ state' = state /\ inherited' = inherited
      /\ pending' = pending /\ alarms' = alarms
      /\ UNCHANGED <<request, transaction, rows, payload, manifest, exports>>
  BY DEF BeginFit, plan, commits, locals
<1>3. /\ wstep[w] \in Steps /\ wstep[w] \notin Uncompilable
      /\ wstep[w] \notin started /\ result[wstep[w]] = None
  BY <1>1, <1>2 DEF Fenced, FencedOf
<1>4. ~(wstep[w] <= manifest)
  BY <1>1, <1>3 DEF Priced, PricedStep, Accounts, Settled
<1>5. \A s \in Steps : s <= manifest => fits'[s] = fits[s]
  BY <1>1, <1>2, <1>4 DEF TypeOK, HistoryTyped
<1>6. manifest \in Nat /\ manifest <= Total /\ Total \in Nat
  BY AgreedShape
<1>7. ASSUME NEW n \in 0..Total, exports[n] # None
      PROVE  Trained(n)' = Trained(n)
  <2>1. n <= manifest
    BY <1>7 DEF Agreed, ExportsAgree
  <2>2. \A s \in 1..n : s \in Steps /\ s <= manifest
    BY <1>6, <2>1 DEF Steps
  <2>3. \A s \in 1..n : fits'[s] = fits[s]
    BY <1>5, <2>2
  <2>4. {s \in 1..n : fits'[s] > 0} = {s \in 1..n : fits[s] > 0}
    BY <2>3
  <2> QED
    BY <2>4 DEF Trained
<1>8. ExportsAgree'
  BY <1>2, <1>7 DEF Agreed, ExportsAgree, Prefix
<1>9. FilesAgree' /\ Committed' = Committed
  BY <1>2, FilesFrame DEF Agreed
<1>10. LocalsAgree'
  BY <1>2, <1>9 DEF Agreed, LocalsAgree, LocalsAgreeOf
<1> QED
  BY <1>2, <1>8, <1>9, <1>10 DEF Agreed, NeverRefused

\* The lock is free: nobody else is at work, and the files agree.
LEMMA OpenAgrees ==
    ASSUME IInv, Agreed, NEW c \in Coordinators, Open(c)
    PROVE  Agreed'
PROOF
<1>1. /\ TypeOK /\ Locals /\ manifest \in Nat
  BY AgreedShape
<1>2. pc[c] = "opening" /\ boundary = None /\ TakeOver(c)
  BY OpenAccepts DEF Open
<1>3. \A d \in Coordinators : pc[d] \notin Critical
  BY <1>1, <1>2, ConstantsAssumption DEF Locals, LocalsOf
<1>4. /\ UNCHANGED <<request, transaction, rows, payload, manifest, exports>>
      /\ UNCHANGED <<fits, alarms>>
      /\ \A d \in Coordinators \ {c} : pc'[d] = pc[d]
      /\ pc'[c] = "loop" /\ state'[c] = Committed
      /\ inherited'[c] \in {0, manifest}
  BY <1>1, <1>2 DEF TakeOver, Goto, TypeOK, LocalsTyped, plan, commits, history
<1>5. FilesAgree' /\ ExportsAgree' /\ Committed' = Committed
  BY <1>4, FilesFrame, ExportsFrame DEF Agreed
<1>6. LocalsAgreeOf(c)'
  BY <1>1, <1>4, <1>5 DEF LocalsAgreeOf, Committing
<1>7. \A d \in Coordinators \ {c} : LocalsAgreeOf(d)'
  BY <1>3, <1>4 DEF LocalsAgreeOf, Committing, Critical
<1> QED
  BY <1>4, <1>5, <1>6, <1>7 DEF Agreed, LocalsAgree, NeverRefused

----------------------------------------------------------------------------
\* Steps that record something.
LEMMA AtHand ==
    ASSUME IInv, Agreed, NEW c \in Coordinators, pc[c] \in Critical
    PROVE  /\ state[c] = Committed /\ Step(c) = manifest + 1
           /\ Len(state[c]) = manifest
           /\ LocalsAgreeOf(c) /\ FilesAgree /\ ExportsAgree
           /\ \A d \in Coordinators \ {c} : pc[d] \notin Critical
           /\ Step(c) \in Steps => NextAgrees(manifest + 1)
PROOF
<1>1. /\ Step(c) = manifest + 1 /\ Len(state[c]) = manifest
      /\ \A d \in Coordinators \ {c} : pc[d] \notin Critical
  BY Alone
<1>2. LocalsAgreeOf(c) /\ FilesAgree /\ ExportsAgree
  BY DEF Agreed, LocalsAgree
<1> QED
  BY <1>1, <1>2 DEF LocalsAgreeOf, FilesAgree

LEMMA RecoverAgrees ==
    ASSUME IInv, Agreed, NEW c \in Coordinators, RecoverTransaction(c)
    PROVE  Agreed'
PROOF
<1>1. /\ TypeOK /\ manifest \in Nat
  BY AgreedShape
<1>2. /\ pc[c] = "loop" /\ Step(c) \in Steps /\ transaction[Step(c)] # None
  BY DEF RecoverTransaction
<1>3. /\ state[c] = Committed /\ Step(c) = manifest + 1
      /\ NextAgrees(manifest + 1) /\ LocalsAgreeOf(c)
  BY <1>2, AtHand DEF Critical
<1>4. transaction[manifest + 1].before = Committed
  BY <1>2, <1>3 DEF NextAgrees
<1> DEFINE a == transaction[Step(c)].attempt
<1>5. /\ pending' = [pending EXCEPT ![c] = a]
      /\ inherited' = [inherited EXCEPT
                         ![c] = IF @ < Step(c) THEN Step(c) ELSE @]
      /\ Goto(c, "row") /\ state' = state
      /\ UNCHANGED <<request, transaction, rows, payload, manifest, exports>>
      /\ UNCHANGED <<fits, alarms>>
  BY <1>3, <1>4 DEF RecoverTransaction, plan, commits, history
<1>6. /\ pc'[c] = "row" /\ pending'[c] = a /\ state'[c] = Committed
      /\ \A d \in Coordinators \ {c} : pc'[d] = pc[d]
  BY <1>1, <1>3, <1>5 DEF Goto, TypeOK, LocalsTyped
<1>7. inherited'[c] <= manifest + 1
  <2>1. inherited[c] <= manifest
    BY <1>2, <1>3 DEF LocalsAgreeOf, Critical, Committing
  <2> QED
    BY <1>1, <1>3, <1>5, <2>1, ConstantsAssumption DEF TypeOK, LocalsTyped
<1>8. transaction[manifest + 1] = Transition(Committed, a)
  <2>1. transaction[Step(c)] \in Transitions
    BY <1>1, <1>2 DEF TypeOK, FilesTyped
  <2> QED
    BY <1>3, <1>4, <2>1 DEF Transitions, Transition
<1> HIDE DEF a
<1>9. FilesAgree' /\ ExportsAgree' /\ Committed' = Committed
  BY <1>5, FilesFrame, ExportsFrame DEF Agreed
<1>10. LocalsAgreeOf(c)'
  BY <1>5, <1>6, <1>7, <1>8, <1>9 DEF LocalsAgreeOf, Committing
<1>11. LocalsAgree'
  BY <1>2, <1>6, <1>10, OnlyIts DEF Critical
<1> QED
  BY <1>5, <1>9, <1>11 DEF Agreed, NeverRefused

\* The pending request of an earlier invocation was written from the same state.
LEMMA RequestAgrees ==
    ASSUME IInv, Agreed, NEW c \in Coordinators, PublishRequest(c)
    PROVE  Agreed'
PROOF
<1>1. TypeOK /\ manifest \in Nat
  BY AgreedShape
<1>2. pc[c] = "loop" /\ Step(c) \in Steps
  BY DEF PublishRequest
<1>3. /\ state[c] = Committed /\ Step(c) = manifest + 1
      /\ NextAgrees(manifest + 1) /\ FilesAgree /\ ExportsAgree
  BY <1>2, AtHand DEF Critical
<1>4. /\ request' \in {request, [request EXCEPT ![manifest + 1] = Committed]}
      /\ Goto(c, "check") /\ alarms' = alarms
      /\ UNCHANGED <<state, inherited, pending>>
      /\ UNCHANGED <<transaction, rows, payload, manifest, exports, fits>>
  BY <1>3 DEF PublishRequest, Plan, NextAgrees, commits, locals
<1>5. /\ request'[manifest + 1] \in {None, Committed}
      /\ \A s \in Steps : s # manifest + 1 => request'[s] = request[s]
  BY <1>1, <1>2, <1>3, <1>4 DEF TypeOK, FilesTyped, NextAgrees
<1>6. Committed' = Committed
  BY <1>4 DEF Committed
<1>7. CommittedAgrees'
  BY <1>3, <1>4 DEF FilesAgree, CommittedAgrees, Prefix
<1>8. NextAgrees(manifest + 1)'
  BY <1>3, <1>4, <1>5, <1>6 DEF NextAgrees
<1>9. FilesAgree'
  BY <1>1, <1>3, <1>4, <1>5, <1>7, <1>8 DEF FilesAgree, Steps
<1>10. ExportsAgree'
  BY <1>3, <1>4, ExportsFrame
<1>11. \A d \in Coordinators : KeepsMemory(d)
  BY <1>1, <1>2, <1>4, GotoKeeps DEF Critical, Committing
<1>12. LocalsAgreeOf(c)'
  <2>1. KeepsMemory(c) /\ LocalsAgreeOf(c) /\ pc'[c] = "check"
    BY <1>1, <1>4, <1>11 DEF Agreed, LocalsAgree, Goto, TypeOK, LocalsTyped
  <2> QED
    BY <1>4, <1>6, <2>1 DEF KeepsMemory, LocalsAgreeOf, Critical, Committing
<1>13. LocalsAgree'
  <2>1. \A d \in Coordinators \ {c} : pc'[d] = pc[d]
    BY <1>1, <1>4 DEF Goto, TypeOK, LocalsTyped
  <2> QED
    BY <1>2, <1>12, <2>1, OnlyIts DEF Critical
<1> QED
  BY <1>4, <1>9, <1>10, <1>13 DEF Agreed, NeverRefused

LEMMA PublishAgrees ==
    ASSUME IInv, Agreed, NEW c \in Coordinators, PublishTransaction(c)
    PROVE  Agreed'
PROOF
<1>1. TypeOK /\ manifest \in Nat
  BY AgreedShape
<1>2. pc[c] = "observed" /\ transaction[Step(c)] = None
  BY DEF PublishTransaction
<1>3. Step(c) \in Steps
  BY <1>1, <1>2, StepInSteps DEF IInv, Busy, Critical
<1>4. /\ state[c] = Committed /\ Step(c) = manifest + 1
      /\ NextAgrees(manifest + 1) /\ FilesAgree /\ ExportsAgree
      /\ LocalsAgreeOf(c)
  BY <1>2, <1>3, AtHand DEF Critical
<1>5. PICK a : /\ transaction' =
                    [transaction EXCEPT ![manifest + 1] =
                        Transition(Committed, a)]
               /\ pending' = [pending EXCEPT ![c] = a]
  BY <1>4 DEF PublishTransaction
<1>6. /\ Goto(c, "row") /\ alarms' = alarms
      /\ state' = state /\ inherited' = inherited
      /\ UNCHANGED <<request, rows, payload, manifest, exports, fits>>
  BY DEF PublishTransaction, commits, history
<1>7. /\ transaction'[manifest + 1] = Transition(Committed, a)
      /\ \A s \in Steps : s # manifest + 1 =>
            transaction'[s] = transaction[s]
  BY <1>1, <1>3, <1>4, <1>5 DEF TypeOK, FilesTyped
<1>8. Committed' = Committed
  BY <1>6 DEF Committed
<1>9. CommittedAgrees'
  BY <1>4, <1>6 DEF FilesAgree, CommittedAgrees, Prefix
<1>10. payload[manifest + 1] = None /\ Len(rows) # manifest + 1
  BY <1>2, <1>4 DEF NextAgrees
<1>11. NextAgrees(manifest + 1)'
  BY <1>4, <1>6, <1>7, <1>8, <1>10 DEF NextAgrees, Transition
<1>12. FilesAgree'
  BY <1>1, <1>4, <1>6, <1>7, <1>9, <1>11 DEF FilesAgree, Steps
<1>13. ExportsAgree'
  BY <1>4, <1>6, ExportsFrame
<1>14. /\ pc'[c] = "row" /\ pending'[c] = a
       /\ \A d \in Coordinators \ {c} : pc'[d] = pc[d]
  BY <1>1, <1>5, <1>6 DEF Goto, TypeOK, LocalsTyped
<1>15. inherited[c] <= manifest + 1
  <2>1. inherited[c] <= manifest /\ inherited[c] \in Nat
    BY <1>1, <1>2, <1>4, ConstantsAssumption
       DEF LocalsAgreeOf, Critical, Committing, TypeOK, LocalsTyped
  <2> QED
    BY <1>1, <2>1
<1>16. LocalsAgreeOf(c)'
  BY <1>4, <1>6, <1>7, <1>8, <1>14, <1>15 DEF LocalsAgreeOf, Committing
<1>17. LocalsAgree'
  BY <1>2, <1>14, <1>16, OnlyIts DEF Critical
<1> QED
  BY <1>6, <1>12, <1>13, <1>17 DEF Agreed, NeverRefused

\* The row that is there already is the one of the pending attempt.
LEMMA AppendRowAgrees ==
    ASSUME IInv, Agreed, NEW c \in Coordinators, AppendRow(c)
    PROVE  Agreed'
PROOF
<1>1. TypeOK /\ manifest \in Nat /\ Len(rows) \in Nat
  BY AgreedShape
<1>2. pc[c] = "row"
  BY DEF AppendRow
<1>3. Step(c) \in Steps
  BY <1>1, <1>2, StepInSteps DEF IInv, Busy, Critical
<1>4. /\ state[c] = Committed /\ Step(c) = manifest + 1
      /\ Len(state[c]) = manifest
      /\ NextAgrees(manifest + 1) /\ FilesAgree /\ ExportsAgree
      /\ LocalsAgreeOf(c)
  BY <1>2, <1>3, AtHand DEF Critical
<1>5. /\ transaction[manifest + 1] = Transition(Committed, pending[c])
      /\ inherited[c] <= manifest + 1
  BY <1>2, <1>4 DEF LocalsAgreeOf, Committing
<1>6. /\ transaction[manifest + 1].attempt = pending[c]
      /\ transaction[manifest + 1] # None
  <2>1. pending[c] \in Attempts /\ Committed \in States
    BY <1>2, AgreedShape DEF Locals, LocalsOf, Committing, States
  <2>2. Transition(Committed, pending[c]) \in Transitions
    BY <2>1, ResultsTyped
  <2> QED
    BY <1>5, <2>2, NoneAssumption DEF Transition
<1>7. \/ Len(rows) = manifest
      \/ Len(rows) = manifest + 1 /\ rows[Len(rows)] = RowOf(pending[c])
  BY <1>4, <1>6 DEF FilesAgree, NextAgrees
<1>8. /\ \/ Len(rows) = manifest /\ rows' = Append(rows, RowOf(pending[c]))
         \/ Len(rows) = manifest + 1 /\ rows' = rows
      /\ Goto(c, "stage")
      /\ UNCHANGED <<request, transaction, payload, manifest, exports, fits>>
      /\ UNCHANGED <<alarms, state, inherited, pending>>
  BY <1>1, <1>4, <1>7 DEF AppendRow, plan, commits, locals, history
<1>9. /\ Len(rows') = manifest + 1
      /\ \A s \in 1..manifest : rows'[s] = rows[s]
      /\ rows'[manifest + 1] = RowOf(pending[c])
  <2>1. CASE Len(rows) = manifest + 1
    BY <1>1, <1>7, <1>8, <2>1
  <2>2. CASE Len(rows) = manifest
    <3>1. rows \in Seq(Rows) /\ rows' = Append(rows, RowOf(pending[c]))
      BY <1>1, <1>8, <2>2 DEF TypeOK, FilesTyped
    <3> HIDE DEF RowOf
    <3> QED
      BY <1>1, <2>2, <3>1
  <2> QED
    BY <1>7, <2>1, <2>2
<1>10. Committed' = Committed
  BY <1>8 DEF Committed
<1>11. CommittedAgrees'
  BY <1>4, <1>8, <1>9 DEF FilesAgree, CommittedAgrees, Prefix
<1>12. NextAgrees(manifest + 1)'
  BY <1>4, <1>6, <1>8, <1>9, <1>10 DEF NextAgrees
<1>13. FilesAgree'
  BY <1>4, <1>8, <1>9, <1>11, <1>12 DEF FilesAgree
<1>14. ExportsAgree'
  BY <1>4, <1>8, ExportsFrame
<1>15. /\ pc'[c] = "stage"
       /\ \A d \in Coordinators \ {c} : pc'[d] = pc[d]
  BY <1>1, <1>8 DEF Goto, TypeOK, LocalsTyped
<1>16. LocalsAgreeOf(c)'
  BY <1>4, <1>5, <1>8, <1>9, <1>10, <1>15 DEF LocalsAgreeOf, Committing
<1>17. LocalsAgree'
  BY <1>2, <1>15, <1>16, OnlyIts DEF Critical
<1> QED
  BY <1>8, <1>13, <1>14, <1>17 DEF Agreed, NeverRefused

\* A payload left behind is the one that would be written again.
LEMMA StageAgrees ==
    ASSUME IInv, Agreed, NEW c \in Coordinators, Stage(c)
    PROVE  Agreed'
PROOF
<1>1. TypeOK /\ manifest \in Nat
  BY AgreedShape
<1>2. pc[c] = "stage"
  BY DEF Stage
<1>3. Step(c) \in Steps
  BY <1>1, <1>2, StepInSteps DEF IInv, Busy, Critical
<1>4. /\ state[c] = Committed /\ Step(c) = manifest + 1
      /\ Len(state[c]) = manifest
      /\ NextAgrees(manifest + 1) /\ LocalsAgreeOf(c)
  BY <1>2, <1>3, AtHand DEF Critical
<1>5. PredecessorHolds(c)
  BY <1>4 DEF PredecessorHolds
<1>6. payload[Step(c)] \in {None, Transition(state[c], pending[c])}
  BY <1>2, <1>4 DEF NextAgrees, LocalsAgreeOf, Committing
<1>7. /\ Goto(c, "payload") \/ Goto(c, "manifest")
      /\ UNCHANGED <<state, inherited, pending>>
      /\ UNCHANGED <<request, transaction, rows, payload, manifest,
                     exports, fits, alarms>>
  BY <1>5, <1>6 DEF Stage, plan, commits, locals, history
<1>8. \A d \in Coordinators : KeepsMemory(d)
  BY <1>1, <1>2, <1>7, GotoKeeps DEF Critical, Committing
<1> QED
  BY <1>7, <1>8, Quiet

LEMMA PayloadAgrees ==
    ASSUME IInv, Agreed, NEW c \in Coordinators, CommitPayload(c)
    PROVE  Agreed'
PROOF
<1>1. TypeOK /\ manifest \in Nat
  BY AgreedShape
<1>2. pc[c] = "payload"
  BY DEF CommitPayload
<1>3. Step(c) \in Steps
  BY <1>1, <1>2, StepInSteps DEF IInv, Busy, Critical
<1>4. /\ state[c] = Committed /\ Step(c) = manifest + 1
      /\ NextAgrees(manifest + 1) /\ FilesAgree /\ ExportsAgree
      /\ LocalsAgreeOf(c)
  BY <1>2, <1>3, AtHand DEF Critical
<1>5. /\ transaction[manifest + 1] = Transition(Committed, pending[c])
      /\ Len(rows) = manifest + 1
  BY <1>2, <1>4 DEF LocalsAgreeOf, Committing
<1>6. /\ payload' = [payload EXCEPT
                       ![manifest + 1] = transaction[manifest + 1]]
      /\ Goto(c, "manifest")
      /\ UNCHANGED <<request, transaction, rows, manifest, exports, fits>>
      /\ UNCHANGED <<alarms, state, inherited, pending>>
  BY <1>4, <1>5 DEF CommitPayload, plan, locals, history
<1>7. /\ payload'[manifest + 1] = transaction[manifest + 1]
      /\ \A s \in Steps : s # manifest + 1 => payload'[s] = payload[s]
  BY <1>1, <1>3, <1>4, <1>6 DEF TypeOK, FilesTyped
<1>8. \A s \in 1..manifest : payload'[s] = payload[s]
  BY <1>1, <1>3, <1>4, <1>7, ConstantsAssumption DEF Steps
<1>9. \A n \in 0..manifest : Prefix(n)' = Prefix(n)
  <2> TAKE n \in 0..manifest
  <2>1. \A s \in 1..n : payload'[s].attempt = payload[s].attempt
    BY <1>1, <1>8
  <2> QED
    BY <2>1 DEF Prefix
<1>10. Committed' = Committed
  BY <1>6, <1>8 DEF Committed
<1>11. CommittedAgrees'
  <2>1. \A s \in 1..manifest : s - 1 \in 0..manifest
    BY <1>1
  <2> QED
    BY <1>4, <1>6, <1>8, <1>9, <2>1 DEF FilesAgree, CommittedAgrees
<1>12. NextAgrees(manifest + 1)'
  BY <1>4, <1>5, <1>6, <1>7, <1>10 DEF NextAgrees
<1>13. FilesAgree'
  BY <1>1, <1>4, <1>6, <1>7, <1>11, <1>12 DEF FilesAgree, Steps
<1>14. ExportsAgree'
  <2>1. ASSUME NEW n \in 0..Total, exports[n] # None
        PROVE  /\ n <= manifest /\ exports[n].state = Prefix(n)'
               /\ exports[n].actual + exports[n].cached = Trained(n)'
    <3>1. n <= manifest /\ n \in 0..manifest
      BY <1>1, <1>4, <2>1, ConstantsAssumption DEF ExportsAgree
    <3> QED
      BY <1>4, <1>6, <1>9, <2>1, <3>1 DEF ExportsAgree, Trained
  <2> QED
    BY <1>6, <2>1 DEF ExportsAgree
<1>15. /\ pc'[c] = "manifest"
       /\ \A d \in Coordinators \ {c} : pc'[d] = pc[d]
  BY <1>1, <1>6 DEF Goto, TypeOK, LocalsTyped
<1>16. LocalsAgreeOf(c)'
  BY <1>2, <1>4, <1>5, <1>6, <1>10, <1>15
     DEF LocalsAgreeOf, Committing, Critical
<1>17. LocalsAgree'
  BY <1>2, <1>15, <1>16, OnlyIts DEF Critical
<1> QED
  BY <1>6, <1>13, <1>14, <1>17 DEF Agreed, NeverRefused

LEMMA ManifestAgrees ==
    ASSUME IInv, Agreed, NEW c \in Coordinators, CommitManifest(c)
    PROVE  Agreed'
PROOF
<1>1. /\ TypeOK /\ Priced /\ manifest \in Nat
      /\ Committed \in Seq(Attempts) /\ Len(Committed) = manifest
      /\ Committed = Prefix(manifest)
  BY AgreedShape
<1>2. pc[c] = "manifest"
  BY DEF CommitManifest
<1>3. Step(c) \in Steps
  BY <1>1, <1>2, StepInSteps DEF IInv, Busy, Critical
<1>4. /\ state[c] = Committed /\ Step(c) = manifest + 1
      /\ NextAgrees(manifest + 1) /\ FilesAgree /\ ExportsAgree
      /\ LocalsAgreeOf(c)
  BY <1>2, <1>3, AtHand DEF Critical
<1>5. /\ transaction[manifest + 1] = Transition(Committed, pending[c])
      /\ Len(rows) = manifest + 1 /\ inherited[c] <= manifest + 1
  BY <1>2, <1>4 DEF LocalsAgreeOf, Committing
<1>6. pending[c] \in Attempts /\ payload[manifest + 1] # None
  <2>1. Locals
    BY DEF IInv
  <2> QED
    BY <1>1, <1>2, <2>1 DEF Locals, LocalsOf, Committing, Priced, PricedLocals
<1>7. /\ payload[manifest + 1].before = Committed
      /\ payload[manifest + 1].attempt = pending[c]
      /\ rows[manifest + 1] = RowOf(pending[c])
  BY <1>4, <1>5, <1>6 DEF NextAgrees, Transition
<1>8. /\ manifest' = manifest + 1
      /\ state' = [state EXCEPT ![c] = Append(Committed, pending[c])]
      /\ Goto(c, "loop") /\ inherited' = inherited
      /\ payload' = payload /\ rows' = rows
      /\ UNCHANGED <<request, transaction, exports, fits, alarms>>
  BY <1>4 DEF CommitManifest, plan, history
<1>9. /\ pc'[c] = "loop" /\ state'[c] = Append(Committed, pending[c])
      /\ \A d \in Coordinators \ {c} : pc'[d] = pc[d]
  BY <1>1, <1>8 DEF Goto, TypeOK, LocalsTyped
<1>10. \A n : Prefix(n)' = Prefix(n)
  BY <1>8 DEF Prefix
<1>11. Committed' = Append(Committed, pending[c])
  <2> DEFINE t == Append(Committed, pending[c])
  <2>1. /\ Committed' = [s \in 1..(manifest + 1) |-> payload[s].attempt]
    BY <1>8 DEF Committed
  <2>2. /\ t \in Seq(Attempts) /\ Len(t) = manifest + 1
        /\ t[manifest + 1] = pending[c]
        /\ \A s \in 1..manifest : t[s] = Committed[s]
    BY <1>1, <1>6
  <2>3. t = [s \in 1..(manifest + 1) |-> t[s]]
    BY <1>1, <2>2
  <2> HIDE DEF t
  <2>4. ASSUME NEW s \in 1..(manifest + 1) PROVE t[s] = payload[s].attempt
    <3>1. CASE s = manifest + 1
      BY <1>7, <2>2, <3>1
    <3>2. CASE s # manifest + 1
      BY <1>1, <2>2, <3>2 DEF Committed
    <3> QED
      BY <3>1, <3>2
  <2>5. t = [s \in 1..(manifest + 1) |-> payload[s].attempt]
    BY <2>3, <2>4
  <2> QED
    BY <2>1, <2>5 DEF t
<1>12. CommittedAgrees'
  <2>1. ASSUME NEW s \in 1..(manifest + 1)
        PROVE  /\ payload[s] # None /\ payload[s].before = Prefix(s - 1)
               /\ rows[s] = RowOf(payload[s].attempt)
    <3>1. CASE s = manifest + 1
      <4>1. s - 1 = manifest
        BY <1>1, <3>1
      <4> QED
        BY <1>1, <1>6, <1>7, <3>1, <4>1
    <3>2. CASE s # manifest + 1
      <4>1. s \in 1..manifest
        BY <1>1, <3>2
      <4> QED
        BY <1>4, <4>1 DEF FilesAgree, CommittedAgrees
    <3> QED
      BY <3>1, <3>2
  <2> QED
    BY <1>8, <1>10, <2>1 DEF CommittedAgrees
<1>13. ASSUME NEW s \in Steps, s > manifest + 1
       PROVE  request[s] = None /\ transaction[s] = None /\ payload[s] = None
  BY <1>4, <1>13 DEF FilesAgree
<1>14. ASSUME NEW s \in Steps, s = manifest' + 1 PROVE NextAgrees(s)'
  <2>1. s > manifest + 1 /\ Len(rows) # s
    BY <1>1, <1>5, <1>8, <1>14
  <2> QED
    BY <1>8, <1>13, <2>1 DEF NextAgrees
<1>15. FilesAgree'
  <2>1. \A s \in Steps : s > manifest' + 1 => s > manifest + 1
    BY <1>1, <1>8 DEF Steps
  <2> QED
    BY <1>5, <1>8, <1>12, <1>13, <1>14, <2>1 DEF FilesAgree
<1>16. ExportsAgree'
  <2>1. \A n \in 0..Total : n <= manifest => n <= manifest'
    BY <1>1, <1>8
  <2>2. \A n : Trained(n)' = Trained(n)
    BY <1>8 DEF Trained
  <2> QED
    BY <1>4, <1>8, <1>10, <2>1, <2>2 DEF ExportsAgree
<1>17. LocalsAgreeOf(c)'
  BY <1>5, <1>8, <1>9, <1>11 DEF LocalsAgreeOf, Committing
<1>18. LocalsAgree'
  BY <1>2, <1>9, <1>17, OnlyIts DEF Critical
<1> QED
  BY <1>8, <1>15, <1>16, <1>18 DEF Agreed, NeverRefused

\* What an invocation inherited and what it trained are the whole.
LEMMA ChargedInAll ==
    ASSUME NEW attempts, NEW n \in Nat, NEW k \in 0..n
    PROVE  Charged(attempts, k + 1, n) + Charged(attempts, 1, k)
             = Charged(attempts, 1, n)
PROOF
<1> DEFINE A == {i \in (k + 1)..n : attempts[i].result.charged = 1}
           B == {i \in 1..k : attempts[i].result.charged = 1}
           C == {i \in 1..n : attempts[i].result.charged = 1}
<1>1. k \in Nat
  OBVIOUS
<1>2. IsFiniteSet((k + 1)..n) /\ IsFiniteSet(1..k)
  BY <1>1, FS_Interval
<1>3. IsFiniteSet(A) /\ IsFiniteSet(B)
  BY <1>2, FS_Subset
<1>4. C = A \union B /\ A \intersect B = {}
  BY <1>1
<1> HIDE DEF A, B, C
<1>5. /\ Cardinality(C) = Cardinality(A) + Cardinality(B)
                            - Cardinality(A \intersect B)
      /\ Cardinality(A) \in Nat /\ Cardinality(B) \in Nat
  BY <1>3, <1>4, FS_Union, FS_CardinalityType
<1>6. Cardinality(A \intersect B) = 0
  BY <1>4, FS_EmptySet
<1>7. Cardinality(C) = Cardinality(A) + Cardinality(B)
  BY <1>5, <1>6
<1> QED
  BY <1>7 DEF Charged, A, B, C

LEMMA ExportAgrees ==
    ASSUME IInv, Agreed, NEW c \in Coordinators, ExportRun(c)
    PROVE  Agreed'
PROOF
<1>1. /\ TypeOK /\ Priced /\ manifest \in Nat /\ manifest <= Total
      /\ Total \in Nat
      /\ Committed = Prefix(manifest)
  BY AgreedShape
<1>2. pc[c] = "finish"
  BY DEF ExportRun
<1>3. /\ state[c] = Committed /\ Len(state[c]) = manifest
      /\ FilesAgree /\ ExportsAgree /\ LocalsAgreeOf(c)
  BY <1>2, AtHand DEF Critical
<1>4. inherited[c] <= manifest /\ inherited[c] \in 0..manifest
  BY <1>1, <1>2, <1>3 DEF LocalsAgreeOf, Critical, Committing, TypeOK,
                          LocalsTyped
<1>5. manifest \in 0..Total
  BY <1>1
<1> DEFINE e == ExportOf(Committed, inherited[c])
<1>6. /\ exports' \in {exports, [exports EXCEPT ![manifest] = e]}
      /\ Exit(c)
      /\ UNCHANGED <<request, transaction, rows, payload, manifest>>
      /\ UNCHANGED <<fits, alarms>>
  <2>1. exports[manifest] # None => exports[manifest].state = state[c]
    BY <1>1, <1>3, <1>5 DEF ExportsAgree
  <2> QED
    BY <1>3, <2>1 DEF ExportRun, plan, commits, history
<1>7. e.state = Committed /\ e.actual + e.cached = Trained(manifest)
  <2>1. \A s \in 1..manifest : s \in Steps /\ s <= manifest
    BY <1>1 DEF Steps
  <2>2. \A s \in 1..manifest :
           /\ payload[s].attempt.result.charged = fits[s]
           /\ fits[s] \in {0, 1}
    BY <1>1, <2>1 DEF Priced, PricedStep, Accounts
  <2>3. \A s \in 1..manifest :
           Committed[s].result.charged = 1 <=> fits[s] > 0
    BY <2>2 DEF Committed
  <2>4. {s \in 1..manifest : Committed[s].result.charged = 1}
          = {s \in 1..manifest : fits[s] > 0}
    BY <2>3
  <2>5. Charged(Committed, 1, manifest) = Trained(manifest)
    BY <2>4 DEF Charged, Trained
  <2>6. Charged(Committed, inherited[c] + 1, manifest)
          + Charged(Committed, 1, inherited[c]) = Trained(manifest)
    BY <1>1, <1>4, <2>5, ChargedInAll
  <2> QED
    BY <1>3, <2>6 DEF ExportOf
<1> HIDE DEF e
<1>8. /\ FilesAgree' /\ Committed' = Committed
      /\ \A n : Prefix(n)' = Prefix(n) /\ Trained(n)' = Trained(n)
  BY <1>3, <1>6, FilesFrame DEF Prefix, Trained
<1>9. \A n \in 0..Total :
         exports'[n] = exports[n] \/ (n = manifest /\ exports'[n] = e)
  BY <1>1, <1>6 DEF TypeOK, FilesTyped
<1>10. ExportsAgree'
  <2> SUFFICES ASSUME NEW n \in 0..Total, exports'[n] # None
               PROVE  /\ n <= manifest /\ exports'[n].state = Prefix(n)
                      /\ exports'[n].actual + exports'[n].cached = Trained(n)
    BY <1>6, <1>8 DEF ExportsAgree
  <2>1. CASE exports'[n] = exports[n]
    BY <1>3, <2>1 DEF ExportsAgree
  <2>2. CASE n = manifest /\ exports'[n] = e
    BY <1>1, <1>7, <2>2
  <2> QED
    BY <1>9, <2>1, <2>2
<1>11. LocalsAgree'
  <2>1. \A d \in Coordinators : KeepsMemory(d)
    BY <1>1, <1>6, ExitKeeps
  <2>2. \A d \in Coordinators : pc'[d] \notin Critical
    BY <1>1, <1>2, <1>6, Alone DEF Exit, Goto, Critical, TypeOK, LocalsTyped
  <2> QED
    BY <2>2 DEF LocalsAgree, LocalsAgreeOf, Critical, Committing
<1> QED
  BY <1>6, <1>8, <1>10, <1>11 DEF Agreed, NeverRefused

LEMMA AgreedInit ==
    ASSUME Init
    PROVE  Agreed
PROOF
<1> USE ConstantsAssumption DEF Init
<1>1. manifest = 0 /\ rows = <<>> /\ Len(rows) = 0
  OBVIOUS
<1>2. CommittedAgrees
  BY <1>1 DEF CommittedAgrees
<1>3. \A s \in Steps : request[s] = None /\ transaction[s] = None
                       /\ payload[s] = None /\ Len(rows) # s
  BY <1>1 DEF Steps
<1>4. FilesAgree
  BY <1>1, <1>2, <1>3 DEF FilesAgree, NextAgrees
<1>5. ExportsAgree
  BY DEF ExportsAgree
<1>6. LocalsAgree /\ NeverRefused
  BY DEF LocalsAgree, LocalsAgreeOf, Critical, Committing, NeverRefused
<1> QED
  BY <1>4, <1>5, <1>6 DEF Agreed

LEMMA AgreedStep ==
    ASSUME IInv, Agreed, [Next]_vars
    PROVE  Agreed'
PROOF
<1>1. ASSUME NEW c \in Coordinators,
             \/ CreateCheckpoint(c) \/ Resume(c) \/ Advance(c) \/ Crash(c)
             \/ WorkerTimesOut(c) \/ LoopStops(c) \/ Pause(c)
      PROVE  Agreed'
  BY <1>1, QuietCoordinator, OpenAgrees, RecoverAgrees, RequestAgrees,
     PublishAgrees, AppendRowAgrees, StageAgrees, PayloadAgrees,
     ManifestAgrees, ExportAgrees DEF Advance
<1>2. ASSUME NEW w \in Workers, Work(w) \/ WorkerDies(w) PROVE Agreed'
  BY <1>2, QuietWorker, BeginFitAgrees DEF Work
<1>3. CASE UNCHANGED vars
  <2>1. /\ pc' = pc /\ state' = state /\ inherited' = inherited
        /\ pending' = pending
        /\ UNCHANGED <<request, transaction, rows, payload, manifest,
                       exports, fits, alarms>>
    BY <1>3 DEF vars, plan, commits, locals, history
  <2>2. \A c \in Coordinators : KeepsMemory(c)
    BY <2>1 DEF KeepsMemory
  <2> QED
    BY <2>1, <2>2, Quiet
<1> QED
  BY <1>1, <1>2, <1>3 DEF Next

(* Files, exports and memories agree in every reachable state: what a crash  *)
(* leaves between any two durable operations is a prefix of one history.     *)
THEOREM FilesAlwaysAgree == Spec => []Agreed
PROOF
<1>1. Init => Agreed
  BY AgreedInit
<1>2. IInv /\ Agreed /\ [Next]_vars => Agreed'
  BY AgreedStep
<1> QED
  BY <1>1, <1>2, Invariance, PTL DEF Spec

(* No integrity check of a resumed run (load_runtime_checkpoint, the progress*)
(* check, the transaction's, the row's, the payload's, the request's and the *)
(* export's) ever refuses it, wherever it was killed.                        *)
THEOREM ResumeIsNeverRefused == Spec => []NeverRefused
PROOF
<1>1. Agreed => NeverRefused
  BY DEF Agreed
<1> QED
  BY <1>1, FilesAlwaysAgree, PTL

(* Every export accounts for each training that was begun for it, whichever *)
(* invocations paid for them.                                               *)
THEOREM ExportsAreAccounted == Spec => []ExportAccountsForFits
PROOF
<1>1. Agreed => ExportAccountsForFits
  BY DEF Agreed, ExportsAgree, ExportAccountsForFits, Trained
<1> QED
  BY <1>1, FilesAlwaysAgree, PTL
=============================================================================
