---------------------------- MODULE Contenders ----------------------------
(***************************************************************************)
(* A run of the fixed pool of contenders (evonn_contenders: runner.py,     *)
(* worker.py, prepare.py).  Every benchmark gets its share of attempts,    *)
(* dealt round the contenders that are available; each is fitted by an     *)
(* isolated worker that marks the attempt when the fit begins, and that    *)
(* may crash or be killed at its limit at any moment.                      *)
(*                                                                         *)
(* A contender is a number that orders as the outcomes made of its name;   *)
(* what happens to data, parameters, messages and time is the              *)
(* environment's choice.                                                   *)
(***************************************************************************)
EXTENDS Audit

CONSTANTS
  Required,        \* resolve_pool: contenders in the order of the pool
  Optional,
  PoolBenchmarks,  \* how many
  Attempts,        \* of each: total // len(definitions)
  PoolScores,
  Directions,      \* of the metrics
  Messages,        \* what the text of an exception may be
  Readings         \* of the wall clock at the end of a run that begins at 0

\* load_pools and resolve_pool refuse anything else.
ASSUME ContendersAssumption ==
  /\ Required \in Seq(Nat \ {0}) /\ Required # <<>>
  /\ Optional \in Seq(Nat \ {0})
  /\ Cardinality(ToSet(Required)) = Len(Required)
  /\ Cardinality(ToSet(Optional)) = Len(Optional)
  /\ ToSet(Required) \cap ToSet(Optional) = {}

VARIABLES
  direction,  \* of the metric: max or min
  enhanced,   \* optional contenders were asked for
  dealer,     \* where the run is: benchmark, index, step, and what is available
  worker,     \* the process of the attempt and the result it reports
  outcomes,   \* the records of the export to be
  attempts,   \* the ledger
  provenance, \* benchmarks whose data was prepared
  begun,      \* the attempt_started files
  late,       \* the wall-clock limit of the run has passed
  keeps,      \* by benchmark: <<>> or <<the best successful model>>
  released    \* <<>> or <<the export with what is bound to it>>

books == <<outcomes, attempts, provenance>>
poolVars == <<direction, enhanced, dealer, worker, books, begun, late, keeps,
              released>>

NoWorker == [step |-> "none", result |-> <<>>]
NotRun == 0         \* the round of <name>_not_run
Unavailable == 0    \* the name of dataset_unavailable

ContendersInit ==
  /\ direction \in Directions /\ enhanced \in BOOLEAN
  /\ dealer = [benchmark |-> 1, index |-> 0, step |-> "prepare",
             available |-> <<>>, optional |-> {}]
  /\ worker = NoWorker
  /\ outcomes = <<>> /\ attempts = <<>> /\ provenance = {}
  /\ begun = {} /\ late = FALSE
  /\ keeps = [b \in 1 .. PoolBenchmarks |-> <<>>]
  /\ released = <<>>

Result(status, reason, charged, invalid) ==
  [status |-> status, reason |-> reason, charged |-> charged, invalid |-> invalid,
   score |-> <<>>]
Skipped == Result("skipped", "line", 0, 0)
RecordOf(name, round, result) ==
  [benchmark |-> dealer.benchmark, outcome |-> <<name, round>>,
   direction |-> direction, value |-> IF result.status = "ok" THEN result.score ELSE <<>>,
   status |-> result.status, reason |-> result.reason, count |-> result.charged]
AttemptOf(contender, outcome, result) ==
  [benchmark |-> dealer.benchmark, contender |-> contender, outcome |-> outcome] @@ result

\* The attempt at hand: index % len(available), index // len(available).
Available == Len(dealer.available)
Name == dealer.available[(dealer.index % Available) + 1]
Round == (dealer.index \div Available) + 1
AttemptAt == <<dealer.benchmark, Name, Round>>
Deals(r) == dealer.step = "deal" /\ dealer.index < Attempts /\ worker.step = r

----------------------------------------------------------------------------
(* preparation *)

NextBenchmark ==
  [benchmark |-> dealer.benchmark + 1, index |-> 0, step |-> "prepare",
   available |-> <<>>, optional |-> {}]

\* prepare: the optional contenders that can be built, and why the others not.
Prepare ==
  /\ dealer.step = "prepare" /\ dealer.benchmark <= PoolBenchmarks /\ ~late
  /\ \E built, broken \in SUBSET ToSet(Optional) : \E why \in Messages :
       /\ built \cap broken = {} /\ (built = ToSet(Optional) => why = "line")
       /\ ~enhanced => built = {} /\ broken = {} /\ why = "line"
       /\ dealer' = [dealer EXCEPT
            !.step = "deal",
            !.available = Required \o SelectSeq(Optional, LAMBDA o : o \in built),
            !.optional = {<<o, IF o \in broken THEN Result("failed", why, 0, 1)
                               ELSE IF o \in built THEN Skipped
                               ELSE Result("skipped", why, 0, 0)>> :
                          o \in ToSet(Optional)}]
  /\ provenance' = provenance \cup {dealer.benchmark}
  /\ UNCHANGED <<direction, enhanced, worker, outcomes, attempts, begun, late, keeps,
                 released>>

\* The data cannot be had, or not in time.
PrepareFails ==
  /\ dealer.step = "prepare" /\ dealer.benchmark <= PoolBenchmarks
  /\ \E why \in Messages :
       LET result == Result("failed", why, 0, 0) IN
       /\ outcomes' = Append(outcomes, RecordOf(Unavailable, NotRun, result))
       /\ attempts' = Append(attempts, AttemptOf(<<>>, <<>>, result))
  /\ dealer' = NextBenchmark
  /\ UNCHANGED <<direction, enhanced, worker, provenance, begun, late, keeps, released>>

----------------------------------------------------------------------------
(* the isolated worker *)

LaunchContender ==
  /\ Deals("none") /\ ~late
  /\ worker' = [NoWorker EXCEPT !.step = "configure"]
  /\ UNCHANGED <<direction, enhanced, dealer, books, begun, late, keeps, released>>

\* A configuration that cannot be built is reported and nothing is marked. The
\* worker publishes its result and exits.
Reports(result) == worker' = [step |-> "exit", result |-> <<result>>]
Configure ==
  /\ worker.step = "configure"
  /\ \/ worker' = [worker EXCEPT !.step = "fit"] /\ begun' = begun \cup {AttemptAt}
     \/ UNCHANGED begun /\ \E why \in Messages :
          Reports(Result("skipped", why, 0, 0)) \/ Reports(Result("failed", why, 0, 1))
  /\ UNCHANGED <<direction, enhanced, dealer, books, late, keeps, released>>
Fit ==
  /\ worker.step = "fit"
  /\ \/ \E s \in PoolScores : Reports([Result("ok", "none", 1, 0) EXCEPT !.score = <<s>>])
     \/ \E why \in Messages : Reports(Result("failed", why, 1, 0))
  /\ UNCHANGED <<direction, enhanced, dealer, books, begun, late, keeps, released>>

\* A model is kept if it is better, or as good under the lesser outcome.
Retain(result) ==
  LET prior == keeps[dealer.benchmark]
      mine == [score |-> result.score[1], outcome |-> <<Name, Round>>]
      better == \/ prior = <<>>
                \/ /\ prior # <<>>
                   /\ \/ Surpasses(direction, mine.score, prior[1].score)
                      \/ /\ mine.score = prior[1].score
                         /\ PairBefore(mine.outcome, prior[1].outcome)
  IN  keeps' = [keeps EXCEPT ![dealer.benchmark] =
                     IF result.status # "ok" THEN @
                     ELSE IF better THEN <<mine>> ELSE @]

\* The runner records the attempt and deals the next one.
RecordAttempt(result) ==
  /\ outcomes' = Append(outcomes, RecordOf(Name, Round, result))
  /\ attempts' = Append(attempts, AttemptOf(<<Name>>, <<Name, Round>>, result))
  /\ dealer' = [dealer EXCEPT !.index = @ + 1]
  /\ worker' = NoWorker
  /\ Retain(result)

WorkerEnds ==
  /\ Deals("exit")
  /\ RecordAttempt(worker.result[1])
  /\ UNCHANGED <<direction, enhanced, provenance, begun, late, released>>

\* Crashed or killed at a limit, with its result published or not: charged if
\* the attempt was marked.
WorkerBreaks ==
  /\ Deals(worker.step) /\ worker.step # "none"
  /\ RecordAttempt(Result("failed", "line", IF AttemptAt \in begun THEN 1 ELSE 0, 0))
  /\ UNCHANGED <<direction, enhanced, provenance, begun, late, released>>

NoTimeLeft ==
  /\ Deals("none") /\ late
  /\ RecordAttempt(Skipped)
  /\ UNCHANGED <<direction, enhanced, provenance, begun, late, released>>

\* The limit of the run is looked at between the workers.
TimePasses ==
  /\ ~late /\ dealer.benchmark <= PoolBenchmarks /\ worker = NoWorker
  /\ late' = TRUE
  /\ UNCHANGED <<direction, enhanced, dealer, worker, books, begun, keeps, released>>

----------------------------------------------------------------------------

\* Contenders no attempt was dealt to are listed with a reason.
ListTheRest ==
  /\ dealer.step = "deal" /\ dealer.index = Attempts
  /\ LET dealt == {dealer.available[(k % Available) + 1] : k \in 0 .. (Attempts - 1)}
         rest == SelectSeq(Required \o Optional, LAMBDA n : n \notin dealt)
         Why(n) == IF \E o \in dealer.optional : o[1] = n
                     THEN (CHOOSE o \in dealer.optional : o[1] = n)[2] ELSE Skipped
     IN  /\ outcomes' = outcomes \o
              [k \in DOMAIN rest |-> RecordOf(rest[k], NotRun, Why(rest[k]))]
         /\ attempts' = attempts \o
              [k \in DOMAIN rest |-> AttemptOf(<<rest[k]>>, <<>>, Why(rest[k]))]
  /\ dealer' = NextBenchmark
  /\ UNCHANGED <<direction, enhanced, worker, provenance, begun, late, keeps, released>>

Total == Attempts * PoolBenchmarks
Having(status) == {k \in DOMAIN outcomes : outcomes[k].status = status}
Charged(S) == MapThenSumSet(LAMBDA k : outcomes[k].count, S)

\* best_per_benchmark: max and min take the first of the sorted records.
Winner(b) ==
  LET ok == {outcomes[k] : k \in {k \in Having("ok") : outcomes[k].benchmark = b}}
      best == {r \in ok : \A q \in ok : ~Surpasses(direction, q.value[1], r.value[1])}
  IN  {r \in best : \A q \in best : ~PairBefore(q.outcome, r.outcome)}

\* The ledger, the data and the model of each benchmark are bound to the
\* documents of the export.
Bundle(reading) ==
  LET accounting == [count |-> Total, actual |-> Charged(DOMAIN outcomes), cached |-> 0,
                     failed |-> Charged(Having("failed")),
                     invalid |-> MapThenSumSet(LAMBDA k : attempts[k].invalid,
                                               DOMAIN attempts),
                     origin |-> "none", resumed |-> 0,
                     partial |-> Charged(DOMAIN outcomes) < Total]
      status == IF Having("failed") # {} THEN "failed"
                ELSE IF accounting.partial THEN "cancelled" ELSE "completed"
      reason == IF status = "completed" THEN "none" ELSE "line"
      timing == [started |-> 0, ended |-> <<reading>>, checkpoint |-> <<>>,
                 elapsed |-> reading]
      coverage == [benchmarks |-> PoolBenchmarks, results |-> Len(outcomes),
                   by |-> [s \in Statuses |-> Cardinality(Having(s))]]
      best == {[benchmark |-> r.benchmark, outcome |-> r.outcome, value |-> r.value] :
                 r \in UNION {Winner(b) : b \in 1 .. PoolBenchmarks}}
      common == [budget |-> [total |-> Total, benchmarks |-> PoolBenchmarks],
                 accounting |-> accounting]
      artifacts == {"store", "state", "attempts", "provenance"}
  IN  [manifest |-> common @@ [status |-> status, reason |-> reason, timing |-> timing,
                               artifacts |-> artifacts],
       results |-> common @@ [records |-> SortSeq(outcomes, KeyBefore),
                              coverage |-> coverage],
       summary |-> common @@ [status |-> status, reason |-> reason, timing |-> timing,
                              coverage |-> coverage, best |-> best,
                              digests |-> artifacts \cup {"config", "report"}],
       ledger |-> attempts, accounting |-> accounting, provenance |-> provenance,
       seed |-> 1]

\* A run whose documents are refused is not exported, then or later.
Release ==
  /\ dealer.benchmark > PoolBenchmarks /\ dealer.step = "prepare"
  /\ \E reading \in Readings :
       LET e == Bundle(reading) IN
       IF ExportAccepted(e.manifest, e.results, e.summary)
         THEN /\ released' = <<e>>
              /\ dealer' = [dealer EXCEPT !.step = "released", !.index = reading]
         ELSE /\ UNCHANGED released
              /\ dealer' = [dealer EXCEPT !.step = "lost", !.index = reading]
  /\ UNCHANGED <<direction, enhanced, worker, books, begun, late, keeps>>

ContendersNext ==
  \/ Prepare \/ PrepareFails \/ LaunchContender \/ Configure \/ Fit
  \/ WorkerEnds \/ WorkerBreaks \/ NoTimeLeft \/ TimePasses \/ ListTheRest \/ Release

ContendersSpec == ContendersInit /\ [][ContendersNext]_poolVars

----------------------------------------------------------------------------

\* The floor a search is compared with is honest: a charge for every fit that
\* began and for no other, whether it ended, crashed or was killed with its
\* result already on disk; every contender of a prepared benchmark is visible;
\* a run calls itself completed only if all its attempts succeeded; the model it
\* keeps of a benchmark is the one its summary names; and its documents are
\* refused for a text or a clock, never for what they say of one another.
FloorIsHonest ==
  /\ worker = NoWorker => Charged(DOMAIN outcomes) = Cardinality(begun)
  /\ \A b \in 1 .. (dealer.benchmark - 1) :
       LET listed == {outcomes[k].outcome[1] :
                       k \in {k \in DOMAIN outcomes : outcomes[k].benchmark = b}}
       IN  listed \in {{Unavailable}, ToSet(Required) \cup ToSet(Optional)}
  /\ dealer.step = "lost" =>
       dealer.index < 0 \/ \E k \in DOMAIN outcomes : outcomes[k].reason = "lines"
  /\ released # <<>> =>
       /\ released[1].accounting.actual = Cardinality(begun)
       /\ released[1].manifest.status = "completed" => Cardinality(Having("ok")) = Total
       /\ {[benchmark |-> r.benchmark, outcome |-> r.outcome] : r \in released[1].summary.best}
            = {[benchmark |-> b, outcome |-> keeps[b][1].outcome] :
                 b \in {b \in DOMAIN keeps : keeps[b] # <<>>}}

\* The audit gets from the ledger and the documents what happened: it never
\* disputes a run for what its own runner wrote; it takes it as a floor only if
\* every required contender of every benchmark, and no weakened one, had a fit
\* that ended well; it does not turn away a run in which nothing failed; and it
\* calls a floor strong only if a repeat under another seed was as strong.
AdmissionIsEarned ==
  released # <<>> =>
    LET e == released[1]
        repeat == [e EXCEPT !.seed = 2]
        pack == 1 .. PoolBenchmarks
        required == ToSet(Required)
        optional == ToSet(Optional)
        Fitted(b, n) == \E k \in Having("ok") :
          /\ outcomes[k].benchmark = b /\ outcomes[k].outcome[1] = n
          /\ <<b, n, outcomes[k].outcome[2]>> \in begun
        admitted == AdmittedOf({e}, pack)
        Accepts(weak) == ~Blocked({e}, admitted, pack, required, optional, weak)
    IN  /\ LedgerAgrees(e)
        /\ \A weak \in SUBSET (required \cup optional) :
             Accepts(weak) => \A b \in pack :
               /\ \A n \in required : Fitted(b, n)
               /\ \A n \in weak : ~Fitted(b, n)
        /\ Clean(e) /\ Attempts >= Len(Required) => Accepts({})
        /\ \A b \in pack : e \in admitted =>
             /\ Adequacy({e}, b, required, optional, {}) # "strong_floor"
             /\ (Adequacy({e, repeat}, b, required, optional, {}) = "strong_floor")
                  = /\ \A n \in required : Fitted(b, n)
                    /\ \E n \in optional : Fitted(b, n)

\* A run that began to fit is there to be seen in the end, its failures with it
\* ("Each started fit/evaluation consumes one evaluation, including failed
\* fits", EvoNN-Contenders/README.md:23).
FailuresStayVisible == dealer.step = "lost" => begun = {}

\* What the audit admits as a floor is what the pool earned: the documents of a run
\* say what its attempts did (runner.py), and the audit takes from them no more than
\* that (audit.py).
FloorIsEarned == FloorIsHonest /\ AdmissionIsEarned
=============================================================================
