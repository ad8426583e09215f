-------------------------- MODULE StratographSearch --------------------------
(* Stratograph: one benchmark of stratograph/search_v2.py, the search that     *)
(* serves its lanes in a fixed rotation, and the legacy crossover search.      *)
EXTENDS GenomePool

LOCAL INSTANCE SequencesExt
LOCAL INSTANCE FiniteSetsExt

LanesV2 == <<"quality", "niche", "novelty", "fresh", "quality",
             "revisit_random", "niche", "revisit_uncertain", "fresh", "novelty",
             "revisit_promising", "reservoir">>

StratographSeed == [lane |-> "initial", parents |-> <<>>, base |-> NoGenome]

StratographFresh(flags, tape) ==
  [engine |-> "stratograph", flags |-> flags, cursor |-> 1, generation |-> 0,
   evaluated |-> 0,
   population |-> [i \in 1..Size |->
                     Genome(1 + ((i - 1) % Families),
                            IF flags.research THEN 1 + Draw(tape, i, Variants)
                                              ELSE 1)],
   meta |-> [i \in 1..Size |-> StratographSeed], scores |-> <<>>,
   archive |-> <<>>, niches |-> <<>>, reservoir |-> <<>>, arrivals |-> 0,
   served |-> <<>>, maps |-> {}, cache |-> <<>>]

StratographCandidate(s) == s.population[s.cursor]

(* inherit: the genome itself, its parents, then any entry of the context, as  *)
(* far as their cells have the same parameters (here: the same family).        *)
StratographInherited(s) ==
  LET g == StratographCandidate(s)
      m == s.meta[s.cursor]
      near == {m.parents[i] : i \in DOMAIN m.parents}
      usable == {i \in DOMAIN s.cache : /\ s.cache[i].id \in s.maps
                                        /\ Family(s.cache[i].id) = Family(g)}
      tier(i) == IF s.cache[i].id = g THEN 2
                 ELSE IF s.cache[i].id \in near THEN 1 ELSE 0
      best == {i \in usable : \A j \in usable : tier(j) <= tier(i)}
  IN  IF s.flags.research
        THEN IF usable = {} THEN NoGenome ELSE s.cache[Min(best)].id
      ELSE Source(s.cache, g, m.parents, Genomes)

StratographRemembered(s, o, attempt) ==
  LET g == StratographCandidate(s)
      source == StratographInherited(s)
      chain == IF source = NoGenome THEN <<>> ELSE CacheOf(s.cache, source).chain
      used == Touched(s.cache, source)
      cache == Remembered(used, g, Append(chain, attempt))
  IN  IF o.q = Failed THEN [s EXCEPT !.cache = used]
      ELSE [s EXCEPT !.cache = cache,
                     !.maps = {h \in @ \union {g} : CacheHas(cache, h)}]

\* The archive of the best, a reservoir that keeps one entry of each genome, and
\* niches that are evicted at random, never by quality.
StratographRetained(s, e, tape) ==
  LET known == ByIdentity(s.archive)
      better == Better(e, Lookup(known, e.id, [q |-> Failed]))
      there == \E i \in DOMAIN s.reservoir : s.reservoir[i].id = e.id
      niche == Family(e.id)
      niches == IF Better(e, Lookup(s.niches, niche, [q |-> Failed]))
                  THEN Assign(s.niches, niche, e) ELSE s.niches
      evicted == Chosen(tape, 1, DictValues(Reloaded(niches)))
      merit == [i \in DOMAIN niches |->
                  [id |-> i, q |-> niches[i].val.q, pair |-> niches[i]]]
      best == Prefix(Ranked(merit), CellRoom)
      ranked == Ranked(DictValues(IF better THEN Assign(known, e.id, e)
                                            ELSE known))
  IN  IF s.flags.research
        THEN [s EXCEPT
          !.archive = Prefix(ranked, ArchiveRoom), !.arrivals = @ + 1,
          !.reservoir = IF there
            THEN [i \in DOMAIN @ |-> IF @[i].id = e.id THEN e ELSE @[i]]
            ELSE Reservoir(@, e, s.arrivals + 1, tape, ReservoirRoom),
          !.niches = IF Len(niches) > CellRoom
                       THEN Delete(niches, Family(evicted.id)) ELSE niches]
      ELSE [s EXCEPT
          !.archive = Prefix(ranked, ArchiveRoom),
          !.niches = IF Len(niches) > CellRoom
                       THEN [i \in DOMAIN best |-> best[i].pair] ELSE niches]

Observations(s, g) ==
  LET before == SelectSeq(s.reservoir, LAMBDA x : x.id = g)
  IN  IF before = <<>> THEN 1 ELSE 1 + before[1].seen

Novelty(e, pool) ==
  LET gaps == {IF Variant(e.id) > Variant(pool[i].id)
                 THEN Variant(e.id) - Variant(pool[i].id)
                 ELSE Variant(pool[i].id) - Variant(e.id) :
               i \in {j \in DOMAIN pool : pool[j].id # e.id}}
  IN  IF gaps = {} THEN 0 ELSE Min(gaps)

\* The parent a lane selects among its candidates.
StratographParent(s, lane, pool, slot, tape) ==
  LET candidates ==
        CASE lane = "niche" -> DictValues(s.niches)
          [] lane \in {"reservoir", "revisit_random", "revisit_uncertain",
                       "novelty"} -> s.reservoir
          [] OTHER -> s.archive
      from == IF candidates = <<>> THEN pool ELSE candidates
      far == Ranked([i \in DOMAIN from |->
               [id |-> from[i].id, q |-> Novelty(from[i], pool), e |-> from[i]]])
      least == Min({from[i].seen : i \in DOMAIN from})
  IN  CASE lane = "novelty" ->
             Chosen(tape, 3 * slot,
                    Prefix(far, Max({1, Len(far) \div 4}))).e
        [] lane = "revisit_uncertain" ->
             Chosen(tape, 3 * slot, SelectSeq(from, LAMBDA e : e.seen = least))
        [] lane \in {"quality", "revisit_promising"} ->
             FirstBest(Sampled(tape, 3 * slot, from, 2))
        [] OTHER -> Chosen(tape, 3 * slot, from)

\* Every retained entry, one of each genome, in the order of the identities.
StratographPool(s) ==
  LET all == s.scores \o s.reservoir \o DictValues(s.niches) \o s.archive
  IN  DictValues(Reloaded(ByIdentity(all)))

LaneOf(s, slot) ==
  IF s.flags.diverse
    THEN LanesV2[1 + ((s.generation * Size + slot - 1) % Len(LanesV2))]
  ELSE "quality"

StratographBred(lane, parent, donor, slot, tape) ==
  LET crossed == Draw(tape, 3 * slot + 2, 2) = 0
      mixed == IF crossed THEN Crossed(parent.id, donor.id) ELSE parent.id
  IN  IF lane = "fresh"
        THEN [child |-> Genome(1 + Draw(tape, 3 * slot, Families),
                               1 + Draw(tape, 3 * slot + 1, Variants)),
              meta |-> [StratographSeed EXCEPT !.lane = lane]]
      ELSE IF lane \in {"revisit_random", "revisit_uncertain", "revisit_promising"}
        THEN [child |-> parent.id,
              meta |-> [lane |-> lane, parents |-> <<parent.id>>,
                        base |-> parent.q]]
      ELSE [child |-> Mutated(mixed, Draw(tape, 3 * slot + 1, 2)),
            meta |-> [lane |-> lane, base |-> parent.q,
                      parents |-> IF crossed THEN <<parent.id, donor.id>>
                                             ELSE <<parent.id>>]]

StratographChild(s, pool, slot, tape) ==
  LET lane == LaneOf(s, slot)
  IN  StratographBred(lane, StratographParent(s, lane, pool, slot, tape),
                      Chosen(tape, 3 * slot + 1, pool), slot, tape)

\* The generation that was bred takes the place of the one that was fitted.
StratographNext(s, bred) ==
  [s EXCEPT !.population = [i \in 1..Size |-> bred[i].child],
            !.meta = [i \in 1..Size |-> bred[i].meta],
            !.cursor = 1, !.scores = <<>>, !.generation = @ + 1]

StratographReproduced(s, tape) ==
  LET Bred(pool) == [i \in 1..Size |-> StratographChild(s, pool, i, tape)]
  IN  StratographNext(s, Bred(StratographPool(s)))

\* The legacy search crosses winners of small tournaments of the generation.
StratographCrossed(s, tape) ==
  LET Add(acc, slot) ==
        LET a == FirstBest(Sampled(tape, 3 * slot, s.scores, 2))
            b == Chosen(tape, 3 * slot + 1, s.scores)
            child == Mutated(Crossed(a.id, b.id), Draw(tape, 3 * slot + 2, 2))
            taken == {acc[i].child : i \in DOMAIN acc}
            other == IF child \notin taken THEN child
                     ELSE Genome(Family(child),
                                 Min({v \in 1..Variants :
                                        Genome(Family(child), v) \notin taken}))
        IN  Append(acc, [child |-> other,
                         meta |-> [lane |-> "population", base |-> a.q,
                                   parents |-> <<a.id, b.id>>]])
  IN  StratographNext(s, FoldLeft(Add, <<>>, [i \in 1..Size |-> i]))

StratographTurned(s, tape) ==
  IF s.cursor <= Size THEN s
  ELSE IF s.flags.research THEN StratographReproduced(s, tape)
  ELSE StratographCrossed(s, tape)

StratographObserved(s, o, tape) ==
  LET g == StratographCandidate(s)
      e == [id |-> g, q |-> o.q, cost |-> Parameters(g),
            seen |-> Observations(s, g)]
      counted == [s EXCEPT
        !.scores = Append(@, e), !.evaluated = @ + 1, !.cursor = @ + 1,
        !.served = Append(@, s.meta[s.cursor].lane)]
  IN  StratographTurned(IF o.q = Failed THEN counted
                        ELSE StratographRetained(counted, e, tape), tape)

\* One attempt: inherit, train, remember, observe.
StratographStep(s, o, tape, attempt) ==
  StratographObserved(StratographRemembered(s, o, attempt), o, tape)

\* What a search restored from the committed state is.
StratographReloaded(s) == [s EXCEPT !.niches = Reloaded(@)]
=============================================================================
