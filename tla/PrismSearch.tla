----------------------------- MODULE PrismSearch -----------------------------
(* Prism: one benchmark of prism/search.py. A state is a record; the policy   *)
(* flags say which lanes are open: legacy tournaments, or the archives of the *)
(* open search, with the local refinement of the frontier policies.           *)
EXTENDS GenomePool

LOCAL INSTANCE SequencesExt
LOCAL INSTANCE FiniteSetsExt

Initial == [origin |-> "initial", parents |-> <<>>, base |-> NoGenome,
            protected |-> TRUE]

PrismFresh(flags, tape) ==
  [engine |-> "prism", flags |-> flags, cursor |-> 1, generation |-> 0,
   evaluated |-> 0, population |->
     [i \in 1..Size |->
        LET f == 1 + ((i - 1) % Families)
        IN  Genome(f, IF flags.search THEN 1 + Draw(tape, i, Variants)
                                      ELSE 1 + ((i - 1) % Variants))],
   scores |-> <<>>, elite |-> <<>>, pareto |-> <<>>, reservoir |-> <<>>,
   seen |-> 0, niches |-> <<>>, nursery |-> <<>>, descriptors |-> <<>>,
   history |-> <<>>, proposals |-> <<>>, cache |-> <<>>, stats |-> <<>>]

PrismCandidate(s) == s.population[s.cursor]

PrismProposal(s, g) == Lookup(s.proposals, g, Initial)

(* compile_candidate: an evolved genome above the parameter cap is shrunk, in *)
(* place, and what was recorded of the original is recorded of it too.        *)
Shrunk(g) == IF Variant(g) > LargestBuilt THEN Genome(Family(g), LargestBuilt)
                                          ELSE g

PrismCompiled(s) ==
  LET g == PrismCandidate(s)
      h == Shrunk(g)
  IN  IF h = g THEN s
      ELSE [s EXCEPT !.population[s.cursor] = h,
                     !.proposals = Assign(@, h, PrismProposal(s, g))]

\* A fresh proposal of an archive search starts from fresh weights.
PrismInherited(s) ==
  LET g == PrismCandidate(s)
      p == PrismProposal(s, g)
  IN  IF s.flags.archive /\ p.origin \in {"fresh", "initial"} THEN NoGenome
      ELSE Source(s.cache, g, p.parents,
                  {h \in Genomes : Group(h) = Group(g)})

\* Mutant of PrismUpdates: only the source's last fit is counted.
PrismUpdatesOwn(s, source) == IF source = NoGenome THEN 0 ELSE 1

PrismUpdates(s, source) ==
  IF source = NoGenome THEN 0
  ELSE Lookup(s.history, source, [updates |-> 0]).updates

\* remember: the weights of a successful fit, trained upon those it inherited.
PrismRemembered(s, o, attempt) ==
  LET g == PrismCandidate(s)
      source == PrismInherited(s)
      chain == IF source = NoGenome THEN <<>> ELSE CacheOf(s.cache, source).chain
      used == Touched(s.cache, source)
  IN  IF o.q = Failed THEN [s EXCEPT !.cache = used]
      ELSE [s EXCEPT !.cache = Remembered(used, g, Append(chain, attempt))]

\* The elite, the family niches and the front of a successful fit.
PrismRanked(s, e) ==
  LET best == Lookup(s.niches, Family(e.id), [q |-> Failed])
      others == SelectSeq(s.pareto, LAMBDA x : x.id # e.id)
      before == SelectSeq(s.pareto, LAMBDA x : x.id = e.id)
      kept == IF before # <<>> /\ before[1].q >= e.q THEN before[1] ELSE e
  IN  [s EXCEPT
        !.elite = IF @ = <<>> \/ Better(e, @[1]) THEN <<e>> ELSE @,
        !.niches = IF Better(e, best) THEN Assign(@, Family(e.id), e) ELSE @,
        !.pareto = ParetoFront(Append(others, kept))]

\* The score-independent reservoir, the nursery of protected families and the
\* descriptor cells, oldest cell out.
PrismExplored(s, e, p, tape) ==
  LET seen == s.seen + 1
      old == Lookup(s.nursery, Family(e.id), [steps |-> 0])
      cell == Lookup(s.descriptors, e.id, [q |-> Failed])
      cells == IF Better(e, cell) THEN Assign(s.descriptors, e.id, e)
                                  ELSE s.descriptors
  IN  [s EXCEPT
        !.seen = seen,
        !.reservoir = Reservoir(@, e, seen, tape, ReservoirRoom),
        !.nursery = IF p.protected
                      THEN Assign(@, Family(e.id),
                                  [entry |-> e, steps |-> old.steps + 1])
                      ELSE @,
        !.descriptors = IF Len(cells) > CellRoom THEN Tail(cells) ELSE cells]

(* _reproduce: legacy tournaments. The second slot takes a family that is not *)
(* present, in rotation.                                                      *)
Fallback(g, children) ==   \* another learning rate until the genome is new
  IF \A i \in DOMAIN children : children[i] # g THEN g
  ELSE Genome(Family(g), Min({v \in 1..Variants :
         \A i \in DOMAIN children : children[i] # Genome(Family(g), v)}))

PrismBred(s, bred) ==
  [s EXCEPT !.population = bred[1], !.proposals = bred[2], !.scores = <<>>,
            !.cursor = 1, !.generation = @ + 1]

Continued(s, champion) ==
  [origin |-> "continuation", parents |-> <<champion>>, base |-> NoGenome,
   protected |-> s.generation % 4 = 3]

PrismLegacyChild(s, pool, children, slot, tape) ==
  LET draw(k, n) == Draw(tape, 4 * slot + k, n)
      a == FirstBest(Sampled(tape, 4 * slot, pool, 3))
      c == FirstBest(Sampled(tape, 4 * slot + 1, pool, 3))
      crossed == Crossed(a.id, c.id)
      child == IF draw(3, 2) = 0 /\ crossed # a.id THEN crossed
               ELSE Mutated(a.id, draw(2, 2))
      missing == SelectSeq([f \in 1..Families |-> f],
                   LAMBDA f : \A i \in DOMAIN children : Family(children[i]) # f)
      family == missing[1 + (s.generation % Len(missing))]
      placed == IF slot = 2 /\ Families > 1 THEN Genome(family, Variant(child))
                                            ELSE child
  IN  [child |-> Fallback(placed, children), origin |-> "population",
       parents |-> <<a.id, c.id>>, base |-> a.q, protected |-> slot = 2]

(* _reproduce_open: the champion or a refinement of it, a protected family in *)
(* rotation, then the archives.                                               *)
PrismProtected(s, slot, tape) ==
  LET family == 1 + (s.generation % Families)
      nursed == Lookup(s.nursery, family, [steps |-> 3])
  IN  IF nursed.steps < 3 THEN <<nursed.entry, "nursery">>
      ELSE IF Has(s.niches, family) /\ Draw(tape, 4 * slot, 2) = 0
        THEN <<At(s.niches, family), "family_archive">>
      ELSE <<[id |-> Genome(family, 1)], "fresh">>

PrismLane(s, pool, slot, tape) ==
  LET lane == Draw(tape, 4 * slot, 4)
      pick(c) == Chosen(tape, 4 * slot + 1, c)
      drawn == <<[id |-> Genome(1 + Draw(tape, 4 * slot + 1, Families), 1)],
                 "fresh">>
      champions == s.elite \o DictValues(s.niches)
      quality == FirstBest(Sampled(tape, 4 * slot + 1, champions, 3))
      candidates == CASE lane = 0 -> s.reservoir
                      [] lane = 1 -> DictValues(s.descriptors)
                      [] lane = 2 -> pool
                      [] OTHER -> <<>>
      origin == <<"reservoir", "descriptor_archive", "population">>
  IN  IF s.flags.search /\ slot = 3
        THEN IF champions = <<>> THEN drawn ELSE <<quality, "quality_archive">>
      ELSE IF candidates = <<>> THEN drawn
      ELSE <<pick(candidates), origin[1 + lane]>>

PrismOffspring(s, a, origin, second, slot, tape) ==
  LET draw(k, n) == Draw(tape, 4 * slot + k, n)
      protected == slot = 2
      refines == s.flags.search /\ draw(3, 2) = 0
      crosses == /\ ~refines /\ ~protected /\ Crossed(a.id, second) # a.id
                 /\ draw(IF s.flags.search THEN 2 ELSE 3, 2) = 0
      child(g, parents, base) ==
        [child |-> g, origin |-> origin, parents |-> parents, base |-> base,
         protected |-> protected]
  IN  IF origin = "fresh"
        THEN child(Genome(Family(a.id), 1 + draw(2, Variants)), <<>>, NoGenome)
      ELSE IF crosses
        THEN child(Crossed(a.id, second), <<a.id, second>>, a.q)
      ELSE child(IF refines \/ protected THEN Varied(a.id, draw(2, 2))
                                         ELSE Mutated(a.id, draw(2, 2)),
                 <<a.id>>, a.q)

PrismBredFrom(s, from, pool, children, slot, tape) ==
  LET second == pool[1 + Draw(tape, 4 * slot + 2, Len(pool))].id
      bred == PrismOffspring(s, from[1], from[2], second, slot, tape)
  IN  [bred EXCEPT !.child = Fallback(@, children)]

PrismOpenChild(s, pool, children, slot, tape) ==
  PrismBredFrom(s, IF slot = 2 THEN PrismProtected(s, slot, tape)
                               ELSE PrismLane(s, pool, slot, tape),
                pool, children, slot, tape)

\* The nursery gives up a family it did not serve.
PrismNursery(s, tape) ==
  LET family == 1 + (s.generation % Families)
  IN  IF PrismProtected(s, 2, tape)[2] = "nursery" THEN s.nursery
      ELSE Delete(s.nursery, family)

PrismAdded(acc, c) ==
  <<Append(acc[1], c.child),
    Assign(acc[2], c.child, [origin |-> c.origin, parents |-> c.parents,
                             base |-> c.base, protected |-> c.protected])>>

PrismReproduced(s, tape) ==
  LET pool == Ranked(s.scores)
      champion == pool[1].id
      plateau == /\ s.flags.search
                 /\ ~Lookup(s.history, champion, [more |-> TRUE]).more
                 /\ s.generation % 4 # 3
      first == IF plateau THEN Varied(champion, Draw(tape, 0, 2)) ELSE champion
      refined == IF plateau
        THEN Assign(<<>>, first, [origin |-> "plateau_refinement",
               parents |-> <<champion>>, base |-> pool[1].q, protected |-> FALSE])
        ELSE <<>>
      Child(acc, slot) ==
        IF s.flags.archive THEN PrismOpenChild(s, pool, acc[1], slot, tape)
                           ELSE PrismLegacyChild(s, pool, acc[1], slot, tape)
      Add(acc, slot) == PrismAdded(acc, Child(acc, slot))
      bred == FoldLeft(Add,
                <<<<first>>, Assign(refined, champion, Continued(s, champion))>>,
                [i \in 1..(Size - 1) |-> i + 1])
      kept == IF s.flags.archive
                THEN [s EXCEPT !.nursery = PrismNursery(s, tape)] ELSE s
  IN  PrismBred(kept, bred)

\* The generation that is fitted to the end is followed by the next one.
PrismTurned(s, tape) ==
  IF s.cursor > Size THEN PrismReproduced(s, tape) ELSE s

(* observe. An operator's success is judged against the quality it started    *)
(* from; the statistics only weigh later draws.                               *)
PrismObserved(s, o, tape) ==
  LET g == PrismCandidate(s)
      p == PrismProposal(s, g)
      e == [id |-> g, q |-> o.q, cost |-> Parameters(g)]
      prior == Lookup(s.history, g, [updates |-> 0, times |-> 0, more |-> FALSE])
      ok == o.q # Failed
      known == [updates |-> IF ok THEN PrismUpdates(s, PrismInherited(s)) + 1
                                  ELSE prior.updates,
                times |-> prior.times + 1,
                more |-> IF ok THEN o.more ELSE prior.more]
      counted == [s EXCEPT
        !.history = Assign(@, g, known), !.scores = Append(@, e),
        !.evaluated = @ + 1, !.cursor = @ + 1,
        !.stats = IF p.base = NoGenome THEN @
                  ELSE Assign(@, Family(g), 1 + Lookup(@, Family(g), 0))]
      explored == IF ok /\ s.flags.archive
                    THEN PrismExplored(counted, e, p, tape) ELSE counted
  IN  PrismTurned(IF ok THEN PrismRanked(explored, e) ELSE explored, tape)

\* One attempt: shrink, inherit, train, remember, observe. The lineage of the
\* weights is read before the cache takes the new ones.
PrismStep(s, o, tape, attempt) ==
  LET ready == PrismCompiled(s)
      learnt == PrismRemembered(ready, o, attempt)
      seen == PrismObserved(ready, o, tape)
  IN  [seen EXCEPT !.cache = learnt.cache]

\* What a search restored from the committed state is.
PrismReloaded(s) ==
  [s EXCEPT !.niches = Reloaded(@), !.nursery = Reloaded(@),
            !.descriptors = Reloaded(@), !.history = Reloaded(@),
            !.proposals = Reloaded(@), !.stats = Reloaded(@)]
=============================================================================
