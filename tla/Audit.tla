------------------------------- MODULE Audit -------------------------------
(***************************************************************************)
(* What the three documents of an export must satisfy before a byte of     *)
(* them is written (evonn_shared: budgets.py, telemetry.py, exports.py),   *)
(* and what Compare makes of the exports of a fixed pool of contenders     *)
(* (evonn_compare/audit.py): whether they can serve as the floor of their  *)
(* benchmarks. Whoever builds an export builds it twice: the parts it      *)
(* claims and, in these validators, the same parts derived from the        *)
(* records.                                                                *)
(*                                                                         *)
(* A text is none, a printable line, or lines with control characters; an  *)
(* outcome of a benchmark is a pair that orders as its name does; a bundle *)
(* is an export with the ledger, the dataset provenance and the            *)
(* configuration bound to it.                                              *)
(***************************************************************************)
EXTENDS Integers, Sequences, FiniteSets, SequencesExt, FiniteSetsExt

----------------------------------------------------------------------------
(* The contract of the documents of an export.                             *)

HumanText(reason) == reason = "line"
Statuses == {"ok", "failed", "skipped", "unsupported"}

PairBefore(o, p) == o[1] < p[1] \/ (o[1] = p[1] /\ o[2] < p[2])
Surpasses(metric, s, t) == IF metric = "max" THEN s > t ELSE s < t

AccountingAccepted(a) ==
  /\ a.failed <= a.actual
  /\ a.resumed <= a.cached
  /\ a.actual + a.cached <= a.count
  /\ (a.origin # "none") = (a.resumed > 0)
  /\ a.partial = (a.actual + a.cached < a.count)

\* The marker is the end of the run or else its last checkpoint.
TimingAccepted(t) ==
  LET marker == IF t.ended # <<>> THEN t.ended ELSE t.checkpoint IN
  /\ marker # <<>>
  /\ \A m \in {t.ended, t.checkpoint} \ {<<>>} : m[1] >= t.started
  /\ t.elapsed = marker[1] - t.started

RecordAccepted(r) ==
  IF r.status = "ok" THEN r.value # <<>> /\ r.reason = "none"
                     ELSE r.value = <<>> /\ HumanText(r.reason)

StatusReason(status, reason) ==
  IF status = "completed" THEN reason = "none" ELSE HumanText(reason)

\* What a document repeats of the budget declared for the run.
Echoes(document) == document.budget.total = document.accounting.count

CoverageAccepted(c) ==
  c.results = MapThenSumSet(LAMBDA s : c.by[s], Statuses)

KeyBefore(r, q) ==
  \/ r.benchmark < q.benchmark
  \/ r.benchmark = q.benchmark /\ PairBefore(r.outcome, q.outcome)
ResultsAccepted(results) ==
  LET rows == results.records
      among == {rows[k].benchmark : k \in DOMAIN rows}
  IN  /\ Echoes(results) /\ AccountingAccepted(results.accounting)
      /\ CoverageAccepted(results.coverage)
      /\ \A k \in DOMAIN rows : RecordAccepted(rows[k])
      /\ \A k \in 1 .. Len(rows) - 1 : KeyBefore(rows[k], rows[k + 1])
      /\ results.coverage.results = Len(rows)
      /\ \A s \in Statuses :
           results.coverage.by[s] = Cardinality({k \in DOMAIN rows : rows[k].status = s})
      /\ results.coverage.benchmarks = Cardinality(among)
      /\ results.coverage.benchmarks = results.budget.benchmarks
      /\ results.accounting.actual =
           MapThenSumSet(LAMBDA k : rows[k].count, DOMAIN rows)
      /\ \A b \in among :
           Cardinality({rows[k].direction : k \in {k \in DOMAIN rows :
                                                     rows[k].benchmark = b}}) = 1

\* _derive_best: the first of the best successful records of each benchmark.
FirstOfBest(metric, rows) ==
  FoldLeft(LAMBDA best, r :
             IF best = <<>> THEN <<r>>
             ELSE IF Surpasses(metric, r.value[1], best[1].value[1]) THEN <<r>>
             ELSE best, <<>>, rows)[1]
DeriveBest(rows) ==
  LET Good(b) == SelectSeq(rows, LAMBDA r : r.status = "ok" /\ r.benchmark = b)
  IN  {LET best == FirstOfBest(Good(b)[1].direction, Good(b))
       IN  [benchmark |-> b, outcome |-> best.outcome, value |-> best.value] :
       b \in {r.benchmark : r \in {r \in ToSet(rows) : r.status = "ok"}}}

ManifestAccepted(front) ==
  /\ Echoes(front) /\ AccountingAccepted(front.accounting)
  /\ TimingAccepted(front.timing)
  /\ StatusReason(front.status, front.reason)
  /\ {"config", "report"} \cap front.artifacts = {}

SummaryAccepted(summary) ==
  /\ Echoes(summary) /\ TimingAccepted(summary.timing)
  /\ StatusReason(summary.status, summary.reason)
  /\ summary.coverage.benchmarks = summary.budget.benchmarks
  /\ \A r, q \in summary.best : r.benchmark = q.benchmark => r = q

CrossFile(front, results, summary) ==
  /\ \A d \in {results, summary} :
       d.budget = front.budget /\ d.accounting = front.accounting
  /\ front.status = summary.status /\ front.reason = summary.reason
  /\ front.timing = summary.timing
  /\ results.coverage = summary.coverage
  /\ summary.best = DeriveBest(results.records)
  /\ summary.digests = front.artifacts \cup {"config", "report"}

ExportAccepted(front, results, summary) ==
  /\ ManifestAccepted(front) /\ ResultsAccepted(results)
  /\ SummaryAccepted(summary) /\ CrossFile(front, results, summary)

----------------------------------------------------------------------------
(* The audit of the bundles of a pool.                                     *)

\* The identity of an attempt is its outcome or made of its contender's name.
OutcomeOf(attempt) ==
  CASE attempt.outcome # <<>> -> attempt.outcome
    [] attempt.outcome = <<>> /\ attempt.contender # <<>> -> <<attempt.contender[1], 0>>
    [] OTHER -> <<0, 0>>
RecordsOf(bundle, attempt) ==
  {r \in ToSet(bundle.results.records) :
     r.benchmark = attempt.benchmark /\ r.outcome = OutcomeOf(attempt)}

\* The ledger and the export tell the same, each of every outcome once.
LedgerAgrees(bundle) ==
  LET ledger == bundle.ledger IN
  /\ bundle.accounting = bundle.manifest.accounting
  /\ \A j, k \in DOMAIN ledger :
       /\ ledger[j].benchmark = ledger[k].benchmark
       /\ OutcomeOf(ledger[j]) = OutcomeOf(ledger[k])
       => j = k
  /\ \A k \in DOMAIN ledger : \E r \in RecordsOf(bundle, ledger[k]) :
       /\ r.status = ledger[k].status /\ r.reason = ledger[k].reason
       /\ r.count = ledger[k].charged
       /\ r.status = "ok" => r.value = ledger[k].score /\ r.count = 1
  /\ Len(ledger) = Len(bundle.results.records)
  /\ bundle.manifest.accounting.actual =
       MapThenSumSet(LAMBDA k : ledger[k].charged, DOMAIN ledger)

\* Every benchmark of the pack has its checked dataset.
DatasetsComplete(bundle, pack) == bundle.provenance = pack

BundleAdmitted(bundle, pack) ==
  LedgerAgrees(bundle) /\ DatasetsComplete(bundle, pack)
AdmittedOf(bundles, pack) == {e \in bundles : BundleAdmitted(e, pack)}

\* What the admitted bundles show of a benchmark.
Successful(bundles, b) ==
  {a \in UNION {ToSet(e.ledger) : e \in bundles} : a.benchmark = b /\ a.status = "ok"}
\* Mutant of FloorOf: whoever is on the books counts.
ListedFloor(bundles, b, optional) ==
  {a.contender[1] : a \in {a \in UNION {ToSet(e.ledger) : e \in bundles} :
                             a.benchmark = b /\ a.contender # <<>>}} \ optional
FloorOf(bundles, b, optional) ==
  {a.contender[1] : a \in Successful(bundles, b)} \ optional
EnhancedOf(bundles, b, optional) ==
  {a.contender[1] : a \in Successful(bundles, b)} \cap optional
\* The seeds each optional contender succeeded with under one configuration.
EnhancedSeeds(bundles, b, name) ==
  {e.seed : e \in {e \in bundles :
     \E a \in Successful({e}, b) : a.contender = <<name>>}}

\* The adequacy of a benchmark's floor.
Adequacy(bundles, b, required, optional, weak) ==
  IF \/ {a.contender[1] : a \in Successful(bundles, b)} \cap weak # {}
     \/ required \ FloorOf(bundles, b, optional) # {}
    THEN "weak_floor"
  ELSE IF EnhancedOf(bundles, b, optional) = {} THEN "missing_enhanced_pressure"
  ELSE IF \E name \in optional : Cardinality(EnhancedSeeds(bundles, b, name)) > 1
    THEN "strong_floor"
  ELSE "acceptable_floor"

\* A bundle counts as a run of the admission if nothing in it failed.
Clean(bundle) ==
  /\ bundle.manifest.status = "completed" /\ ~bundle.manifest.accounting.partial
  /\ bundle.results.coverage.by["failed"] = 0

\* What stands in the way of a contract audit.
Blocked(bundles, admitted, pack, required, optional, weak) ==
  \/ admitted # bundles
  \/ \E b \in pack : Adequacy(admitted, b, required, optional, weak) = "weak_floor"
  \/ \E b \in pack : \A e \in admitted : b \notin e.provenance
=============================================================================
