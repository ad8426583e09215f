--------------------------- MODULE PrimordiaSearch ---------------------------
(* Primordia: one benchmark of primordia/search.py, its breadth policy (with  *)
(* the lanes of v2 or of progress_v3) and the legacy archive mutation. Every  *)
(* collection a proposal is drawn from is a list, so nothing depends on the   *)
(* order of a dictionary.                                                     *)
EXTENDS GenomePool

LOCAL INSTANCE SequencesExt
LOCAL INSTANCE FiniteSetsExt

BroadLanes == <<"quality", "novelty", "young", "reservoir", "fresh", "patient",
                "fresh_retrain", "cost">>
ProgressLanes == <<"quality", "elite", "novelty", "progress", "fresh", "young",
                   "quality", "recombine", "reservoir", "patient",
                   "fresh_retrain", "cost">>

Lanes(flags) == IF flags.progress THEN ProgressLanes ELSE BroadLanes

Founder == [lane |-> "founder", fresh |-> TRUE, parents |-> <<>>, base |-> NoGenome]

PrimordiaFresh(flags, tape) ==
  [engine |-> "primordia", flags |-> flags, cursor |-> 1, generation |-> 0,
   evaluated |-> 0,
   population |-> [i \in 1..Size |->
                     Genome(1 + ((i - 1) % Families),
                            1 + Draw(tape, i, Variants))],
   meta |-> [i \in 1..Size |-> Founder], scores |-> <<>>, archive |-> <<>>,
   young |-> <<>>, reservoir |-> <<>>, novelty |-> <<>>, pareto |-> <<>>,
   seen |-> 0, cache |-> <<>>, quality |-> <<>>]

PrimordiaCandidate(s) == s.population[s.cursor]

(* inherit: a fresh proposal and a lineage that was evicted start over, others *)
(* copy from the genome itself or a parent.                                    *)
PrimordiaInherited(s) ==
  LET g == PrimordiaCandidate(s)
      m == s.meta[s.cursor]
      lineage == {g} \union {m.parents[i] : i \in DOMAIN m.parents}
  IN  IF s.flags.broad /\ (m.fresh \/ \A h \in lineage : ~CacheHas(s.cache, h))
        THEN NoGenome
      ELSE Source(s.cache, g, m.parents, Genomes)

\* remember: a worse fit of the same genome does not displace its weights.
PrimordiaRemembered(s, o, attempt) ==
  LET g == PrimordiaCandidate(s)
      source == PrimordiaInherited(s)
      used == Touched(s.cache, source)
      chain == IF source = NoGenome THEN <<>> ELSE CacheOf(s.cache, source).chain
      worse == /\ s.flags.broad /\ CacheHas(used, g)
               /\ o.q <= Lookup(s.quality, g, Failed)
      cache == IF o.q = Failed \/ worse THEN used
               ELSE Remembered(used, g, Append(chain, attempt))
      noted == IF o.q = Failed \/ worse \/ ~s.flags.broad THEN s.quality
               ELSE SelectSeq(Assign(s.quality, g, o.q),
                              LAMBDA pair : CacheHas(cache, pair.key))
  IN  [s EXCEPT !.cache = cache, !.quality = noted]

Distance(a, b) ==
  LET d == Variant(a.id) - Variant(b.id)
  IN  (IF d < 0 THEN -d ELSE d) + (IF Family(a.id) = Family(b.id) THEN 0 ELSE 10)

\* The best, then again and again the one farthest from those selected.
Spread(s) ==
  LET best == Ranked(s)   \* max by (quality, identity) is among the first ones
      top == {e \in {s[i] : i \in DOMAIN s} : e.q = best[1].q}
      first == CHOOSE e \in top : \A x \in top : x.id <= e.id
      gap(e, chosen) == Min({Distance(e, chosen[i]) : i \in DOMAIN chosen})
      Above(a, b, chosen) ==
        \/ gap(a, chosen) > gap(b, chosen)
        \/ /\ gap(a, chosen) = gap(b, chosen)
           /\ a.q > b.q \/ (a.q = b.q /\ a.id >= b.id)
      Add(chosen, i) ==
        LET rest == {e \in {s[j] : j \in DOMAIN s} :
                       \A k \in DOMAIN chosen : chosen[k] # e}
        IN  IF rest = {} \/ Len(chosen) = ArchiveRoom THEN chosen
            ELSE Append(chosen, CHOOSE e \in rest :
                   \A x \in rest : Above(e, x, chosen))
  IN  FoldLeft(Add, <<first>>, s)

\* round(n / d), halves to the even neighbour.
Rounded(n, d) ==
  LET low == n \div d
      twice == 2 * (n % d)
  IN  IF twice > d \/ (twice = d /\ low % 2 = 1) THEN low + 1 ELSE low

Thinned(front) ==
  LET sorted == SetToSortSeq({front[i] : i \in DOMAIN front},
                  LAMBDA a, b : \/ a.cost < b.cost
                                \/ a.cost = b.cost /\ a.q > b.q
                                \/ a.cost = b.cost /\ a.q = b.q /\ a.id < b.id)
  IN  IF Len(sorted) <= ArchiveRoom THEN sorted
      ELSE [i \in 1..ArchiveRoom |->
              sorted[1 + Rounded((i - 1) * (Len(sorted) - 1), ArchiveRoom - 1)]]

(* _retain_broad: the reservoir takes failures too; the views of the          *)
(* successful fits keep the last observation of a genome.                     *)
PrimordiaRetained(s, e, tape) ==
  LET latest(list) == DictValues(ByIdentity(Append(list, e)))
      common == [s EXCEPT
        !.seen = @ + 1,
        !.reservoir = Reservoir(@, e, s.seen + 1, tape, ReservoirRoom),
        !.young = LastOf(Append(@, e), ArchiveRoom)]
  IN  IF e.q = Failed THEN common
      ELSE [common EXCEPT !.novelty = Spread(latest(@)),
                          !.pareto = Thinned(ParetoFront(latest(@)))]

\* Mutant of Archived: the last observation of a genome displaces its best.
ArchivedLatest(list, e, room) ==
  Prefix(Ranked(DictValues(Assign(ByIdentity(list), e.id, e))), room)

Archived(list, e, room) ==
  LET known == ByIdentity(list)
      better == Better(e, Lookup(known, e.id, [q |-> Failed]))
  IN  Prefix(Ranked(DictValues(IF better THEN Assign(known, e.id, e) ELSE known)),
             room)

(* _reproduce_broad: each slot has its lane; a lane without material is       *)
(* served by a fresh genome.                                                  *)
PrimordiaPool(s, lane) ==
  CASE lane \in {"quality", "fresh_retrain"} -> s.archive
    [] lane \in {"novelty", "recombine"} -> s.novelty
    [] lane = "young" -> s.young
    [] lane \in {"reservoir", "patient"} -> s.reservoir
    [] lane = "cost" -> s.pareto
    [] lane = "elite" -> Prefix(s.archive, 1)
    [] lane = "progress" -> Prefix(Ranked(s.young \o s.archive), 1)
    [] OTHER -> <<>>

PrimordiaChild(s, i, tape) ==
  LET lanes == Lanes(s.flags)
      lane == lanes[1 + ((s.evaluated - Size + i - 1) % Len(lanes))]
      pool == PrimordiaPool(s, lane)
      parent == Chosen(tape, 3 * i, pool)
      donor == Chosen(tape, 3 * i + 1, IF s.archive = <<>> THEN pool ELSE s.archive)
      kept == {"patient", "fresh_retrain", "elite", "progress"}
      child == CASE lane \in kept -> parent.id
                 [] lane = "recombine" -> Crossed(parent.id, donor.id)
                 [] OTHER -> Mutated(parent.id, Draw(tape, 3 * i + 2, 2))
  IN  IF pool = <<>> \/ lane = "fresh"
        THEN [child |-> Genome(1 + Draw(tape, 3 * i, Families),
                               1 + Draw(tape, 3 * i + 1, Variants)),
              meta |-> [Founder EXCEPT !.lane = "fresh"]]
      ELSE [child |-> child,
            meta |-> [lane |-> lane, fresh |-> lane = "fresh_retrain",
                      parents |-> IF lane = "recombine" /\ donor.id # parent.id
                                    THEN <<parent.id, donor.id>>
                                    ELSE <<parent.id>>,
                      base |-> parent.q]]

\* _reproduce: the legacy policy mutates members of the archive.
PrimordiaLegacyChild(s, i, tape) ==
  LET parent == Chosen(tape, 3 * i, IF s.archive = <<>> THEN s.scores ELSE s.archive)
  IN  [child |-> Mutated(parent.id, Draw(tape, 3 * i + 1, 2)),
       meta |-> [lane |-> "archive", fresh |-> FALSE, parents |-> <<parent.id>>,
                 base |-> parent.q]]

\* The generation that was bred takes the place of the one that was fitted.
PrimordiaNext(s, bred) ==
  [s EXCEPT !.population = [i \in 1..Size |-> bred[i].child],
            !.meta = [i \in 1..Size |-> bred[i].meta],
            !.cursor = 1, !.scores = <<>>, !.generation = @ + 1]

PrimordiaReproduced(s, tape) ==
  PrimordiaNext(s, [i \in 1..Size |->
                      IF s.flags.broad THEN PrimordiaChild(s, i, tape)
                                       ELSE PrimordiaLegacyChild(s, i, tape)])

PrimordiaTurned(s, tape) ==
  IF s.cursor > Size THEN PrimordiaReproduced(s, tape) ELSE s

PrimordiaObserved(s, o, tape) ==
  LET g == PrimordiaCandidate(s)
      e == [id |-> g, q |-> o.q, cost |-> Parameters(g)]
      retained == IF s.flags.broad THEN PrimordiaRetained(s, e, tape) ELSE s
      seen == [retained EXCEPT
        !.scores = Append(@, e), !.evaluated = @ + 1, !.cursor = @ + 1,
        !.archive = IF o.q = Failed THEN @ ELSE Archived(@, e, ArchiveRoom)]
  IN  PrimordiaTurned(seen, tape)

\* One attempt: inherit, train, remember, observe.
PrimordiaStep(s, o, tape, attempt) ==
  PrimordiaObserved(PrimordiaRemembered(s, o, attempt), o, tape)

\* Mutant of PrimordiaReloaded: the arrivals of the reservoir start over.
PrimordiaForgetful(s) == [s EXCEPT !.seen = 0]

\* What a search restored from the committed state is.
PrimordiaReloaded(s) == [s EXCEPT !.quality = Reloaded(@)]
=============================================================================
