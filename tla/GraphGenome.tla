----------------------------- MODULE GraphGenome -----------------------------
(***************************************************************************)
(* The layer graphs of Topograph (topograph/genome.py, genome_v2.py,       *)
(* operators.py) and the numbers, the innovations, that name their layers, *)
(* links and experts across all genomes of a run: weights are inherited    *)
(* under those names.                                                      *)
(*                                                                         *)
(* An order is a multiple of 1 / Unit.  Of a layer's fields only its order,*)
(* whether it is on, its operator (spatial or not), its convolution and    *)
(* its merge reference count are kept; rates, precisions, normalisation,   *)
(* adapters, widths and heads are left out.                                *)
(***************************************************************************)
EXTENDS Integers, FiniteSets, Sequences, SequencesExt

CONSTANTS
  MaxLayers,    \* layers of a genome (32 in the code)
  MaxLinks,     \* connections of a genome (128)
  MaxChanges    \* bound: edits of a run

ASSUME GraphAssumption == /\ MaxLayers \in 1 .. 32
                          /\ MaxLinks \in 1 .. 128
                          /\ MaxChanges \in Nat

VARIABLES
  graphs,       \* the two genomes edits are made of
  registry,     \* Innovations: the signatures, in the order they were seen
  named,        \* every layer and link any genome of the run had
  changes       \* edits so far

graphVars == <<graphs, registry, named, changes>>

Unit == 96
Outside == -1

----------------------------------------------------------------------------
(* Genomes                                                                 *)

Layer(at) == [at |-> at, on |-> TRUE, ref |-> 0, spatial |-> FALSE, conv |-> FALSE]
Link(s, t, gated) == [from |-> s, to |-> t, on |-> TRUE, gated |-> gated]

LinksInto(g, n) == {k \in DOMAIN g.links : g.links[k].on /\ g.links[k].to = n}
LayersOn(g) == {n \in DOMAIN g.layers : g.layers[n].on}

\* active_layers: reached from the input, and reaching the output.
Reached(g) ==
  FoldLeft(LAMBDA s, k : s \cup {n \in LayersOn(g) :
                                   \E l \in LinksInto(g, n) : g.links[l].from \in s},
           {Outside}, [k \in 1 .. Cardinality(DOMAIN g.layers) |-> k])
Reaching(g) ==
  FoldLeft(LAMBDA s, k : s \cup UNION {{g.links[l].from : l \in LinksInto(g, n)} :
                                         n \in s \cap LayersOn(g)},
           {g.out}, [k \in 1 .. Cardinality(DOMAIN g.layers) |-> k])
Active(g) == LayersOn(g) \cap Reached(g) \cap Reaching(g)

\* The links the compiler gives weights to.
LiveLinks(g) == {k \in DOMAIN g.links :
                   /\ g.links[k].on
                   /\ g.links[k].to \in Active(g)
                   /\ g.links[k].from \in Active(g) \cup {Outside}}
Topology(g) == <<Active(g), {<<g.links[k].from, g.links[k].to>> : k \in LiveLinks(g)}>>

Pairs(g) == {<<g.links[k].from, g.links[k].to>> : k \in DOMAIN g.links}
Names(g) == DOMAIN g.layers \cup DOMAIN g.links \cup g.experts

\* valid_graph.  twice: an innovation was given out in this genome before.
Sound(g) ==
  /\ ~g.twice
  /\ Cardinality(DOMAIN g.layers) <= MaxLayers
  /\ Cardinality(DOMAIN g.links) <= MaxLinks
  /\ g.out \in LayersOn(g) \cap Reached(g)
  /\ \A k \in DOMAIN g.links :
       /\ g.links[k].to \in DOMAIN g.layers
       /\ g.links[k].from # Outside =>
            /\ g.links[k].from \in DOMAIN g.layers
            /\ g.layers[g.links[k].from].at < g.layers[g.links[k].to].at
  /\ Cardinality(Pairs(g)) = Cardinality(DOMAIN g.links)
  /\ \A n \in DOMAIN g.layers : g.layers[n].conv => g.layers[n].spatial
  /\ (g.experts = {}) = (g.top = 0)
  /\ g.top <= Cardinality(g.experts)

Over(new, old) == [x \in DOMAIN new \cup DOMAIN old |->
                     IF x \in DOMAIN new THEN new[x] ELSE old[x]]
PutLayers(g, layers) == [g EXCEPT !.twice = @ \/ DOMAIN layers \cap Names(g) # {},
                                  !.layers = Over(layers, @)]
PutLinks(g, links) == [g EXCEPT !.twice = @ \/ DOMAIN links \cap Names(g) # {},
                                !.links = Over(links, @)]

----------------------------------------------------------------------------
(* Innovations.obtain: a signature keeps the number it got first.          *)

Obtain(seen, mark) == IF mark \in ToSet(seen) THEN seen ELSE Append(seen, mark)
Obtained(seen, marks) ==
  LET given[k \in 0 .. Len(marks)] ==
        IF k = 0 THEN seen ELSE Obtain(given[k - 1], marks[k])
  IN  given[Len(marks)]
Number(seen, mark) == CHOOSE n \in DOMAIN seen : seen[n] = mark

SkipMark(s, t) == <<"edge", s, t>>

\* Mutant: the links of a new layer n are signed with the link k it was
\* put on.
MarksOfOldLink(n, k) == <<<<"in", k>>, <<"out", k>>>>
EndMarks(n, k) == <<<<"in", n>>, <<"out", n>>>>

\* The elements of a set, in an order.
Listed(S, before(_, _)) ==
  [j \in 1 .. Cardinality(S) |->
     CHOOSE x \in S : Cardinality({y \in S : before(y, x)}) = j - 1]

FirstMarks == <<<<"initial_layer">>, <<"initial_input_edge">>>>
SeedGraph == [layers |-> [n \in {1} |-> Layer(Unit)],
              links |-> [k \in {2} |-> Link(Outside, 1, FALSE)],
              out |-> 1, experts |-> {}, top |-> 0, twice |-> FALSE]

GenesOf(g) ==
  {<<n, "layer">> : n \in DOMAIN g.layers} \cup
  {<<k, "link", g.links[k].from, g.links[k].to>> : k \in DOMAIN g.links} \cup
  {<<e, "expert">> : e \in g.experts}

GraphInit ==
  /\ graphs = <<SeedGraph, SeedGraph>>
  /\ registry = FirstMarks
  /\ named = GenesOf(SeedGraph)
  /\ changes = 0

----------------------------------------------------------------------------
(* edit: the changed genome is validated, and None stands for one that is  *)
(* not valid or not new; the numbers it was given stay given.              *)

Propose(i, g, seen) ==
  /\ changes < MaxChanges
  /\ Sound(g)
  /\ g # graphs[i]
  /\ graphs' = [graphs EXCEPT ![i] = g]
  /\ registry' = seen
  /\ named' = named \cup GenesOf(g)
  /\ changes' = changes + 1

\* A new layer on an active link: split turns the link off, branch keeps it
\* and adds the layer behind a link of scale zero.
InsertLayer(i, kind) ==
  \E k \in LiveLinks(graphs[i]) :
    LET g == graphs[i]
        s == g.links[k].from
        t == g.links[k].to
        before == IF s = Outside
                  THEN Min({g.layers[n].at : n \in DOMAIN g.layers}) - Unit
                  ELSE g.layers[s].at
        layerMark == <<kind, k, g>>
        one == Obtained(registry, <<layerMark>>)
        n == Number(one, layerMark)
        tips == EndMarks(n, k)
        seen == Obtained(one, tips)
        count == IF g.layers[t].ref # 0 THEN g.layers[t].ref
                 ELSE Cardinality(LinksInto(g, t))
        stem == IF kind = "split" THEN [g EXCEPT !.links[k].on = FALSE]
                ELSE [g EXCEPT !.layers[t].ref = count]
    IN  /\ Cardinality(DOMAIN g.layers) < MaxLayers
        /\ Cardinality(DOMAIN g.links) <= MaxLinks - 2
        /\ Propose(i, PutLinks(
                        PutLayers(stem, [m \in {n} |->
                                           Layer((before + g.layers[t].at) \div 2)]),
                        [l \in {Number(seen, tips[1]), Number(seen, tips[2])} |->
                           IF l = Number(seen, tips[1]) THEN Link(s, n, FALSE)
                           ELSE Link(n, t, kind = "branch")]),
                   seen)

Split(i) == InsertLayer(i, "split")
Branch(i) == InsertLayer(i, "branch")

SkipLink(i) ==
  LET g == graphs[i]
  IN  \E s \in Active(g) \cup {Outside}, t \in Active(g) :
        LET seen == Obtained(registry, <<SkipMark(s, t)>>)
        IN  /\ s # Outside => g.layers[s].at < g.layers[t].at
            /\ <<s, t>> \notin Pairs(g)
            /\ Cardinality(DOMAIN g.links) < MaxLinks
            /\ Propose(i, PutLinks(g, [k \in {Number(seen, SkipMark(s, t))} |->
                                        Link(s, t, FALSE)]), seen)

\* enable and disable: only what changes the network that is executed.
Toggle(i) ==
  LET g == graphs[i]
      flipped == {[g EXCEPT !.links[k].on = ~@] : k \in DOMAIN g.links} \cup
                 {[g EXCEPT !.layers[n].on = ~@] : n \in DOMAIN g.layers \ {g.out}}
  IN  \E h \in flipped : /\ Sound(h) /\ Topology(h) # Topology(g)
                         /\ Propose(i, h, registry)

\* operator, convolution, merge
Retype(i) ==
  LET g == graphs[i]
  IN  \E n \in Active(g) :
        \/ Propose(i, [g EXCEPT !.layers[n].spatial = ~@, !.layers[n].conv = FALSE],
                   registry)
        \/ /\ g.layers[n].spatial
           /\ Propose(i, [g EXCEPT !.layers[n].conv = TRUE], registry)
        \/ Propose(i, [g EXCEPT !.layers[n].ref = 0], registry)

\* experts, gate
Specialise(i) ==
  LET g == graphs[i]
      mark == <<"expert", g>>
      seen == Obtained(registry, <<mark>>)
      e == Number(seen, mark)
  IN  \/ Propose(i, [g EXCEPT !.experts = @ \cup {e}, !.twice = e \in Names(g),
                              !.top = IF @ = 0 THEN 1 ELSE @], seen)
      \/ \E d \in g.experts :
           Propose(i, [g EXCEPT !.experts = @ \ {d},
                                !.top = Min({@, Cardinality(g.experts) - 1})],
                   registry)
      \/ /\ g.experts # {}
         /\ \E top \in 1 .. Min({2, Cardinality(g.experts)}) :
              Propose(i, [g EXCEPT !.top = top], registry)

\* crossover: the whole active graph of the other, under new names, feeding
\* this one's output.
LayersInOrder(g) == Listed(Active(g), LAMBDA x, y :
                      \/ g.layers[x].at < g.layers[y].at
                      \/ g.layers[x].at = g.layers[y].at /\ x < y)
LinksInOrder(g) == Listed(LiveLinks(g), <)
Graft(i, donor, taken) ==
  LET a == graphs[i]
      b == graphs[3 - i]
      layerMark(n) == <<"cross", a, b, n>>
      one == Obtained(registry, [j \in 1 .. Len(donor) |-> layerMark(donor[j])])
      new(n) == IF n = Outside THEN Outside ELSE Number(one, layerMark(n))
      name(j) == Number(one, layerMark(donor[j]))
      place(j) == a.layers[a.out].at - Unit + (j * Unit) \div (Len(donor) + 1)
      layer(n) == LET j == CHOOSE j \in 1 .. Len(donor) : name(j) = n
                  IN  [b.layers[donor[j]] EXCEPT !.at = place(j)]
      linkMark(k) == <<"cross_edge", new(b.links[k].from), new(b.links[k].to)>>
      exit == <<"cross_out", new(b.out), a.out>>
      seen == Obtained(Obtained(one, [j \in 1 .. Len(taken) |-> linkMark(taken[j])]),
                       <<exit>>)
      number(j) == Number(seen, linkMark(taken[j]))
      link(k) == LET l == b.links[taken[CHOOSE j \in 1 .. Len(taken) : number(j) = k]]
                 IN  Link(new(l.from), new(l.to), l.gated)
  IN  /\ a # b
      /\ Cardinality(DOMAIN a.layers) + Len(donor) <= MaxLayers
      /\ Propose(i, PutLinks(
                      PutLayers(a, [n \in {name(j) : j \in 1 .. Len(donor)} |-> layer(n)]),
                      [k \in {Number(seen, exit)} \cup {number(j) : j \in 1 .. Len(taken)} |->
                         IF k = Number(seen, exit) THEN Link(new(b.out), a.out, FALSE)
                         ELSE link(k)]), seen)
Import(i) ==
  \E donor \in {LayersInOrder(graphs[3 - i])},
     taken \in {LinksInOrder(graphs[3 - i])} : Graft(i, donor, taken)

GraphNext ==
  \E i \in 1 .. 2 : \/ Split(i) \/ Branch(i) \/ SkipLink(i) \/ Toggle(i)
                    \/ Retype(i) \/ Specialise(i) \/ Import(i)

GraphSpec == GraphInit /\ [][GraphNext]_graphVars

----------------------------------------------------------------------------

\* A number names one thing for the whole run: whatever two genomes were
\* edited and crossed, in whatever order, a link with the same number joins
\* the same two layers, and no number is a layer here and a link there.
\* Weights are copied between genomes by these numbers (search_v2.py
\* inherit), so that a weight would otherwise land on another connection.
InnovationsMeanOneThing ==
  \A p, q \in named : p[1] = q[1] => p = q
=============================================================================
