--------------------------- MODULE TopographSearch ---------------------------
(* Topograph: one benchmark of topograph/search_v2.py (the research variants)  *)
(* and of topograph/search.py (legacy). Species are the families; genomes that *)
(* differ in the optimiser alone share an architecture, which is what the      *)
(* weight cache is keyed by.                                                   *)
EXTENDS GenomePool

LOCAL INSTANCE SequencesExt
LOCAL INSTANCE FiniteSetsExt

Roles == <<"diversity", "uncertain", "reservoir", "immigrant", "fresh_control">>

Architecture(g) == Genome(Family(g), (Variant(g) + 1) \div 2)

Proposal(source, parents) ==
  [source |-> source, parents |-> parents, fresh |-> FALSE,
   protected |-> FALSE]

Immigrant(n, tape) == Genome(1 + (n % Families), 1 + Draw(tape, n, Variants))

TopographFresh(flags, tape) ==
  [engine |-> "topograph", flags |-> flags, cursor |-> 1, generation |-> 0,
   evaluated |-> 0,
   population |-> [i \in 1..Size |->
      IF flags.legacy THEN Genome(1 + ((i - 1) % Families), 1)
                      ELSE Immigrant(i - 1, tape)],
   proposals |-> [i \in 1..Size |->
      [Proposal("initial", <<>>) EXCEPT !.fresh = TRUE, !.protected = TRUE]],
   scores |-> <<>>, elite |-> <<>>, records |-> <<>>, reservoir |-> <<>>,
   seen |-> 0, turn |-> 0, served |-> <<>>, cells |-> <<>>, pareto |-> <<>>,
   deferred |-> <<>>, cache |-> <<>>, ancestry |-> <<>>, inflight |-> {},
   pending |-> NoGenome]

TopographCandidate(s) == s.population[s.cursor]

(* inherit: from the same architecture or the recorded parents' ones. The     *)
(* attempts the source's weights went through travel with the copy.           *)
TopographInherited(s) ==
  LET g == TopographCandidate(s)
      p == s.proposals[s.cursor]
      known == SelectSeq(p.parents, LAMBDA h : Has(s.records, h))
      wanted == <<Architecture(g)>>
                  \o [i \in DOMAIN known |-> Architecture(known[i])]
      found == SelectSeq(wanted, LAMBDA a : CacheHas(s.cache, a))
  IN  IF s.flags.legacy \/ ~s.flags.training
        THEN IF ~s.flags.legacy /\ p.fresh THEN NoGenome
             ELSE Source(s.cache, Architecture(g), <<>>,
                         {a \in Genomes : Family(a) = Family(g)})
      ELSE IF p.fresh \/ found = <<>> THEN NoGenome ELSE found[1]

TopographStarted(s) ==
  LET source == TopographInherited(s)
  IN  [s EXCEPT !.cache = Touched(@, source),
                !.inflight = IF source = NoGenome THEN {}
                             ELSE Lookup(s.ancestry, source, {})]

\* remember, after a successful fit; the ancestry of evicted entries is dropped.
TopographRemembered(s, source, o, attempt) ==
  LET a == Architecture(TopographCandidate(s))
      chain == IF source = NoGenome THEN <<>> ELSE CacheOf(s.cache, source).chain
      cache == Remembered(s.cache, a, Append(chain, attempt))
  IN  IF o.q = Failed THEN s
      ELSE [s EXCEPT !.cache = cache, !.pending = a,
              !.ancestry = SelectSeq(@, LAMBDA x : CacheHas(cache, x.key))]

\* The ledger of observe: what was in flight belongs to this attempt.
TopographCharged(s, o, attempt) ==
  LET lineage == s.inflight \union {attempt}
  IN  [s EXCEPT !.inflight = {}, !.pending = NoGenome,
                !.ancestry = IF o.q # Failed /\ CacheHas(s.cache, s.pending)
                               THEN Assign(@, s.pending, lineage) ELSE @]

(* update_views: cells and front of the genomes whose best fit succeeded. The *)
(* first one recorded keeps a cell against an equal.                          *)
TopographViewed(s) ==
  LET valid == SelectSeq(DictValues(s.records), LAMBDA e : e.q # Failed)
      Fill(d, e) ==
        IF Better(e, IF Has(d, Family(e.id))
                       THEN At(s.records, At(d, Family(e.id)))
                       ELSE [q |-> Failed])
          THEN Assign(d, Family(e.id), e.id) ELSE d
      front == ParetoFront(valid)
  IN  IF ~s.flags.archive THEN s
      ELSE [s EXCEPT !.cells = FoldLeft(Fill, <<>>, valid),
                     !.pareto = [i \in DOMAIN front |-> front[i].id]]

\* archive_parent: the entry a role revives.
Nearness(e, live) ==
  Min({IF Variant(e.id) > Variant(live[i].id)
         THEN Variant(e.id) - Variant(live[i].id)
         ELSE Variant(live[i].id) - Variant(e.id) : i \in DOMAIN live})

\* The first entry of s that no other one precedes.
FirstBy(s, Precedes(_, _)) ==
  s[Min({i \in DOMAIN s : \A j \in DOMAIN s : ~Precedes(s[j], s[i])})]

ArchiveParent(s, role, tape) ==
  LET values == DictValues(s.records)
      leaders == {At(s.cells, f) : f \in Keys(s.cells)}
                   \union {s.pareto[i] : i \in DOMAIN s.pareto}
      led == SelectSeq(DictValues(Reloaded(s.records)),
                       LAMBDA e : e.id \in leaders)
      among == IF led = <<>> THEN values ELSE led
      Farther(a, b) ==
        \/ Nearness(a, s.scores) > Nearness(b, s.scores)
        \/ /\ Nearness(a, s.scores) = Nearness(b, s.scores)
           /\ a.chosen < b.chosen
      Rarer(a, b) ==
        \/ a.times < b.times
        \/ a.times = b.times /\ a.chosen < b.chosen
        \/ a.times = b.times /\ a.chosen = b.chosen /\ a.id < b.id
  IN  CASE role = "fresh_control" -> FirstBest(values)
        [] role = "reservoir" -> At(s.records, Chosen(tape, 0, s.reservoir))
        [] role = "uncertain" -> FirstBy(values, Rarer)
        [] OTHER -> FirstBy(among, Farther)

(* reproduce. The species of the generation, as positions in its scores: the  *)
(* champion's first, and with an archive role those served longest ago first. *)
Species(s) ==
  LET Add(groups, i) ==
        LET f == Family(s.scores[i].id)
            at == {k \in DOMAIN groups : Family(s.scores[groups[k][1]].id) = f}
        IN  IF at = {} THEN Append(groups, <<i>>)
            ELSE [groups EXCEPT ![Min(at)] = Append(@, i)]
  IN  FoldLeft(Add, <<>>, [i \in 1..Size |-> i])

Leader(s, group) ==
  LET best == FirstBest([k \in DOMAIN group |->
                [id |-> group[k], q |-> s.scores[group[k]].q]])
  IN  best.id

LastServed(s, group) ==
  Min({Lookup(s.served, s.scores[group[k]].id, -1) : k \in DOMAIN group})

ChampionFirst(s, groups) ==
  LET champion == Leader(s, [i \in 1..Size |-> i])
      Own(g) == \E k \in DOMAIN g : g[k] = champion
  IN  SelectSeq(groups, Own) \o SelectSeq(groups, LAMBDA g : ~Own(g))

LongestAgo(s, groups) ==
  LET turn == Ranked([k \in DOMAIN groups |->
                [id |-> k, q |-> -LastServed(s, groups[k])]])
  IN  [k \in DOMAIN groups |-> groups[turn[k].id]]

Queue(s, role) ==
  LET first == ChampionFirst(s, Species(s))
  IN  IF role = "none" THEN first ELSE LongestAgo(s, first)

\* vary: a crossover or not, then the first registered edit that applies.
VariedWith(parent, mate, k, tape) ==
  LET crossed == IF parent # mate /\ Draw(tape, k, 2) = 0
                   THEN Crossed(parent, mate) ELSE parent
  IN  Mutated(crossed, Draw(tape, k + 1, 2))

TopographChild(s, groups, slot, role, tape) ==
  LET group == groups[1 + ((slot - 1) % Len(groups))]
      index == Leader(s, group)
      champion == Leader(s, [i \in 1..Size |-> i])
      parent == s.scores[index].id
      mate == Chosen(tape, 3 * slot, s.scores).id
  IN  IF index = champion /\ role = "none"
        THEN <<parent, Proposal("champion", <<parent>>)>>
      ELSE <<VariedWith(parent, mate, 3 * slot + 1, tape),
             Proposal("species", <<parent, mate>>)>>

Revived(s, role, entry, tape) ==
  LET champion == s.scores[Leader(s, [i \in 1..Size |-> i])].id
      record == [Proposal(role, <<entry.id>>) EXCEPT !.protected = TRUE]
  IN  IF role \in {"uncertain", "fresh_control"}
        THEN <<entry.id, [record EXCEPT !.fresh = role = "fresh_control"],
               entry.id>>
      ELSE <<VariedWith(entry.id, champion, 1, tape),
             [record EXCEPT !.parents = Append(@, champion)], entry.id>>

RoleChild(s, role, tape) ==
  IF role = "immigrant"
    THEN <<Immigrant(Size + (s.turn \div 5) - 1, tape),
           [Proposal(role, <<>>) EXCEPT !.fresh = TRUE, !.protected = TRUE],
           NoGenome>>
  ELSE Revived(s, role, ArchiveParent(s, role, tape), tape)

\* The species that have a slot are served in this generation.
ServedNow(s, groups, n) ==
  LET Serve(d, i) == Assign(d, s.scores[i].id, s.generation)
  IN  FoldLeft(LAMBDA d, k : FoldLeft(Serve, d, groups[k]), s.served,
               [k \in 1..n |-> k])

TopographBred(s, role, groups, bred) ==
  LET slots == IF role = "none" THEN Size ELSE Size - 1
      n == IF slots < Len(groups) THEN slots ELSE Len(groups)
      revived == IF role = "none" THEN NoGenome ELSE bred[Size][3]
  IN  [s EXCEPT
        !.population = [i \in 1..Size |-> bred[i][1]],
        !.proposals = [i \in 1..Size |-> bred[i][2]],
        !.served = ServedNow(s, groups, n),
        !.turn = IF role = "none" THEN @ ELSE @ + 1,
        !.records = IF revived = NoGenome THEN @
                    ELSE Assign(@, revived, [At(@, revived) EXCEPT
                                               !.chosen = s.evaluated]),
        !.deferred = [k \in 1..(Len(groups) - n) |->
                        [i \in DOMAIN groups[n + k] |->
                           s.scores[groups[n + k][i]].id]],
        !.cursor = 1, !.scores = <<>>, !.generation = @ + 1]

TopographQueued(s, role, groups, tape) ==
  TopographBred(s, role, groups,
    [i \in 1..Size |->
       IF role # "none" /\ i = Size THEN RoleChild(s, role, tape)
       ELSE TopographChild(s, groups, i, role, tape)])

TopographReproduced(s, tape) ==
  LET role == IF s.flags.archive THEN Roles[1 + (s.turn % 5)] ELSE "none"
  IN  TopographQueued(s, role, Queue(s, role), tape)

(* Legacy reproduction: a parent of each species in turn, then the champion   *)
(* is put in the first place.                                                 *)
LegacyParents(s, tape) ==
  LET groups == Species(s)
      group(i) == groups[1 + ((i - 1) % Len(groups))]
      best(g, i) == FirstBest(Sampled(tape, i, [k \in DOMAIN g |->
                      [id |-> g[k], q |-> s.scores[g[k]].q]], 3)).id
      champion == Leader(s, [i \in 1..Size |-> i])
  IN  [i \in 1..Size |-> IF i = 1 THEN champion ELSE best(group(i), i)]

TopographLegacy(s, tape) ==
  LET parents == LegacyParents(s, tape)
      own(i) == CHOOSE g \in {Species(s)[k] : k \in DOMAIN Species(s)} :
                  \E k \in DOMAIN g : g[k] = i
      child(i) ==
        LET parent == s.scores[parents[i]].id
            mate == s.scores[Chosen(tape, 3 * i, own(parents[i]))].id
            varied == Mutated(Crossed(parent, mate), Draw(tape, 3 * i + 1, 2))
        IN  IF i = 1 \/ Variant(varied) > LargestBuilt THEN parent ELSE varied
  IN  [s EXCEPT !.population = [i \in 1..Size |-> child(i)],
                !.cursor = 1, !.scores = <<>>, !.generation = @ + 1]

\* The record of a genome keeps its best fit and counts its evaluations.
TopographRecorded(s, e, tape) ==
  LET there == Has(s.records, e.id)
      old == At(s.records, e.id)
      seen == IF there THEN s.seen ELSE s.seen + 1
      merged == IF there
                  THEN [e EXCEPT !.times = old.times + 1, !.chosen = old.chosen,
                                 !.q = IF old.q > e.q THEN old.q ELSE e.q]
                ELSE e
  IN  [s EXCEPT !.records = Assign(@, e.id, merged), !.seen = seen,
                !.reservoir = IF there THEN @
                  ELSE Reservoir(@, e.id, seen, tape, ReservoirRoom)]

TopographTurned(s, tape) ==
  IF s.cursor <= Size THEN s
  ELSE IF s.flags.legacy THEN TopographLegacy(s, tape)
  ELSE TopographReproduced(s, tape)

TopographObserved(s, o, tape, attempt) ==
  LET g == TopographCandidate(s)
      e == [id |-> g, q |-> o.q, cost |-> Parameters(g), times |-> 1,
            chosen |-> s.evaluated]
      recorded == IF s.flags.legacy THEN s
                  ELSE TopographViewed(TopographRecorded(
                         TopographCharged(s, o, attempt), e, tape))
      seen == [recorded EXCEPT
        !.scores = Append(@, e), !.evaluated = @ + 1, !.cursor = @ + 1,
        !.elite = IF o.q # Failed /\ (@ = <<>> \/ Better(e, @[1]))
                    THEN <<e>> ELSE @]
  IN  TopographTurned(seen, tape)

\* One attempt: inherit, train, remember, observe.
TopographStep(s, o, tape, attempt) ==
  TopographObserved(
    TopographRemembered(TopographStarted(s), TopographInherited(s), o, attempt),
    o, tape, attempt)

\* What a search restored from the committed state is.
TopographReloaded(s) ==
  [s EXCEPT !.records = Reloaded(@), !.served = Reloaded(@),
            !.cells = Reloaded(@), !.ancestry = Reloaded(@)]
=============================================================================
