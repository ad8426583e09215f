-------------------------- MODULE ResumableSearch --------------------------
(* A run's search as the attempt loop of the engines drives it: the candidate *)
(* of the next slot is fitted and observed in memory, the transaction that     *)
(* carries the whole search state is published, and a coordinator that was     *)
(* killed, or that finds a published transaction, rebuilds the search from the *)
(* committed state.                                                            *)
EXTENDS PrismSearch, PrimordiaSearch, StratographSearch, TopographSearch

CONSTANTS
  Policies,    \* engines and policy flags a run may have been created with
  Outcomes,    \* what a fit ends in: [q, more], q = Failed for a failure
  MaxFits,     \* bound: attempts of the run (its budget)
  MaxCrashes,  \* bound: kills of the coordinator
  Nil

VARIABLES
  live,        \* the Search object of the running coordinator, or Nil
  attempted,   \* the observed attempt that is not published yet, or Nil:
               \* its fit, and what it makes of the uninterrupted search
  disk,        \* the search state in the last published transaction
  log,         \* the published attempts
  twin,        \* the search of a run that is never interrupted
  crashes

searchVars == <<live, attempted, disk, log, twin, crashes>>

ASSUME SearchAssumption ==
  /\ MaxFits \in Nat /\ MaxCrashes \in Nat
  /\ \A o \in Outcomes : o.q \in Nat /\ o.more \in BOOLEAN

Fresh(policy, tape) ==
  CASE policy.engine = "prism" -> PrismFresh(policy.flags, tape)
    [] policy.engine = "primordia" -> PrimordiaFresh(policy.flags, tape)
    [] policy.engine = "stratograph" -> StratographFresh(policy.flags, tape)
    [] policy.engine = "topograph" -> TopographFresh(policy.flags, tape)

Step(s, o, tape, attempt) ==
  CASE s.engine = "prism" -> PrismStep(s, o, tape, attempt)
    [] s.engine = "primordia" -> PrimordiaStep(s, o, tape, attempt)
    [] s.engine = "stratograph" -> StratographStep(s, o, tape, attempt)
    [] s.engine = "topograph" -> TopographStep(s, o, tape, attempt)

Restored(s) ==
  CASE s.engine = "prism" -> PrismReloaded(s)
    [] s.engine = "primordia" -> PrimordiaReloaded(s)
    [] s.engine = "stratograph" -> StratographReloaded(s)
    [] s.engine = "topograph" -> TopographReloaded(s)

\* The genome that is fitted next, shrunk to the parameter cap by Prism.
Fitted(s) ==
  IF s.engine = "prism" THEN PrismCandidate(PrismCompiled(s))
                        ELSE s.population[s.cursor]

LaneServed(s) ==
  IF s.engine \in {"primordia", "stratograph"} THEN s.meta[s.cursor].lane
  ELSE Nil

\* Bound: draws are enumerated where a generation is bred that is fitted.
TapesFor(s) ==
  IF s.cursor = Size /\ Len(log) + 1 < MaxFits THEN Tapes
  ELSE {[k \in 1..Draws |-> s.evaluated % Sides]}

-----------------------------------------------------------------------------

SearchInit ==
  \E policy \in Policies :
    /\ live = Fresh(policy, [k \in 1..Draws |-> k % Sides])
    /\ disk = live
    /\ twin = live
    /\ attempted = Nil
    /\ log = <<>>
    /\ crashes = 0

\* Candidate, fit, remember, observe.
Attempt ==
  /\ live # Nil /\ attempted = Nil
  /\ Len(log) < MaxFits
  /\ \E o \in Outcomes, tape \in TapesFor(live) :
       \E next \in {[s \in {live, twin} |-> Step(s, o, tape, Len(log) + 1)]} :
         /\ live' = next[live]
         /\ attempted' = [fit |-> [id |-> Fitted(live), q |-> o.q,
                                  lane |-> LaneServed(live)],
                          twin |-> next[twin]]
  /\ UNCHANGED <<disk, log, twin, crashes>>

\* publish_transaction(transaction_path, state, next_state)
Publish ==
  /\ live # Nil /\ attempted # Nil
  /\ disk' = live
  /\ log' = Append(log, attempted.fit)
  /\ twin' = attempted.twin
  /\ attempted' = Nil
  /\ UNCHANGED <<live, crashes>>

SearchCrash ==
  /\ live # Nil /\ crashes < MaxCrashes
  /\ live' = Nil
  /\ attempted' = Nil
  /\ crashes' = crashes + 1
  /\ UNCHANGED <<disk, log, twin>>

Resume ==
  /\ live = Nil
  /\ live' = Restored(disk)
  /\ UNCHANGED <<attempted, disk, log, twin, crashes>>

SearchNext == Attempt \/ Publish \/ SearchCrash \/ Resume

SearchSpec == SearchInit /\ [][SearchNext]_searchVars

-----------------------------------------------------------------------------
(* What the archives must be, computed at once from the published attempts.   *)

Idle == live # Nil /\ attempted = Nil

Fits(g) == {i \in DOMAIN log : log[i].id = g}
Tried == {log[i].id : i \in DOMAIN log}
BestOf(g) == LET qs == {log[i].q : i \in Fits(g)}
             IN  CHOOSE q \in qs : \A x \in qs : x <= q
Solved == {g \in Tried : BestOf(g) # Failed}
Summary(g) == [id |-> g, q |-> BestOf(g), cost |-> Parameters(g)]
FrontOf(ids) == {g \in ids : \A h \in ids : ~Dominates(Summary(h), Summary(g))}

\* The genomes of the best fit of ids, the first to reach it first.
Champion(ids) ==
  LET top == {i \in DOMAIN log : /\ log[i].id \in ids
                                 /\ \A g \in ids : BestOf(g) <= log[i].q}
  IN  log[CHOOSE i \in top : \A j \in top : i <= j].id

IdsOf(s) == {s[i].id : i \in DOMAIN s}
HoldsBest(s) == \A i \in DOMAIN s : s[i].q = BestOf(s[i].id)

EliteIsFirstBest(s) ==
  IF Solved = {} THEN s.elite = <<>>
  ELSE s.elite # <<>> /\ s.elite[1].id = Champion(Solved) /\ HoldsBest(s.elite)

TopOf(s) ==
  LET all == {Summary(g) : g \in Solved}
      above(e) == {x \in all : x.q > e.q \/ (x.q = e.q /\ x.id < e.id)}
  IN  /\ HoldsBest(s.archive)
      /\ IdsOf(s.archive) = {e.id : e \in {x \in all :
                               Cardinality(above(x)) < ArchiveRoom}}

PrismArchives(s) ==
  /\ EliteIsFirstBest(s)
  /\ IdsOf(s.pareto) = FrontOf(Solved) /\ HoldsBest(s.pareto)
  /\ Keys(s.niches) = {Family(g) : g \in Solved}
  /\ \A f \in Keys(s.niches) :
       At(s.niches, f).id = Champion({g \in Solved : Family(g) = f})

TopographArchives(s) ==
  /\ EliteIsFirstBest(s)
  /\ s.flags.legacy \/
       /\ Keys(s.records) = Tried
       /\ HoldsBest(DictValues(s.records))
       /\ \A g \in Tried : At(s.records, g).times = Cardinality(Fits(g))
       /\ Cardinality({s.reservoir[i] : i \in DOMAIN s.reservoir})
            = Len(s.reservoir)
       /\ s.flags.archive => {s.pareto[i] : i \in DOMAIN s.pareto} = FrontOf(Solved)

PrimordiaArchives(s) ==
  /\ TopOf(s)
  /\ \A i, j \in DOMAIN s.pareto : ~Dominates(s.pareto[i], s.pareto[j])
  /\ Cardinality(IdsOf(s.novelty)) = Len(s.novelty)

StratographArchives(s) ==
  /\ TopOf(s)
  /\ Cardinality(IdsOf(s.reservoir)) = Len(s.reservoir)
  /\ \A f \in Keys(s.niches) : Family(At(s.niches, f).id) = f

\* The archives a search keeps step by step, through kills and restores, are
\* those of all the published attempts taken together: the first best fit, the
\* best of each genome, the undominated front, the top of the ranking (observe
\* of each engine).
ArchivesMatchHistory ==
  Idle => CASE live.engine = "prism" -> PrismArchives(live)
            [] live.engine = "topograph" -> TopographArchives(live)
            [] live.engine = "primordia" -> PrimordiaArchives(live)
            [] live.engine = "stratograph" -> StratographArchives(live)

\* What is recorded of the training behind a cached snapshot is the training its
\* weights went through: the update count of Prism's history, the ancestry of
\* Topograph's ledger, the quality that guards a snapshot of Primordia, the
\* parameter maps of Stratograph.
LineageIsTrue ==
  Idle => \A i \in DOMAIN live.cache :
    LET e == live.cache[i]
    IN  CASE live.engine = "prism" ->
               At(live.history, e.id).updates = Len(e.chain)
          [] live.engine = "topograph" ->
               live.flags.legacy \/
               /\ Has(live.ancestry, e.id)
               /\ At(live.ancestry, e.id) = {e.chain[k] : k \in DOMAIN e.chain}
          [] live.engine = "primordia" ->
               live.flags.broad =>
                 At(live.quality, e.id) = log[e.chain[Len(e.chain)]].q
          [] live.engine = "stratograph" ->
               live.flags.research => e.id \in live.maps

\* Exploration is protected whatever the scores are: every generation of Prism's
\* open search fits the family whose turn it is, and the rotating lanes of
\* Primordia and Stratograph are fitted in their order (a lane without material
\* is served by a fresh genome).
LanesAreServed ==
  \A i \in DOMAIN log :
    LET generation == (i - 1) \div Size
        slot == 1 + ((i - 1) % Size)
    IN  generation > 0 =>
        CASE disk.engine = "prism" ->
               disk.flags.archive /\ slot = 2 =>
                 Family(log[i].id) = 1 + ((generation - 1) % Families)
          [] disk.engine = "primordia" ->
               disk.flags.broad =>
                 log[i].lane \in {"fresh", Lanes(disk.flags)
                   [1 + ((i - Size - 1) % Len(Lanes(disk.flags)))]}
          [] disk.engine = "stratograph" ->
               disk.flags.research /\ disk.flags.diverse =>
                 log[i].lane = LanesV2[1 + ((i - Size - 1) % Len(LanesV2))]
          [] OTHER -> TRUE

\* A search that was killed and restored proposes what the search of a run that
\* was never interrupted proposes after the same attempts.
ResumeIsExact == Idle => live.population = twin.population

\* More for the policies that draw from lists alone: all of Primordia's and
\* the legacy ones of Prism and Topograph. The order of a dictionary, which the
\* JSON of a committed state does not keep, decides nothing in them: the whole
\* state is that of the uninterrupted run.
ListsResumeExactly ==
  \/ live = Nil
  \/ live.engine = "prism" /\ live.flags.archive
  \/ live.engine = "topograph" /\ ~live.flags.legacy
  \/ live.engine = "stratograph"
  \/ Idle => Restored(live) = Restored(twin)
=============================================================================
