--------------------------- MODULE HierarchyGenome ---------------------------
(***************************************************************************)
(* The hierarchical genomes of Stratograph: a macro graph whose nodes run  *)
(* the cells of a shared library, every cell a graph of its own            *)
(* (stratograph/genome.py for schema 1, genome_v2.py for schema 2).        *)
(*                                                                         *)
(* An edit builds a whole new genome and has it validated; nothing catches *)
(* the ValueError of a genome that is not valid, so an edit that builds    *)
(* one ends the run.  Numbers stand for the names of nodes and cells, in   *)
(* the order of the names.  Widths, activations, primitives, projection    *)
(* seeds and the execution policy are left out: they have no part in       *)
(* whether a genome is executable.                                         *)
(***************************************************************************)
EXTENDS Naturals, FiniteSets, Sequences, SequencesExt

CONSTANTS
  MaxMacro,     \* macro nodes a genome may have (depth_limit, max_macro_nodes)
  MaxCell,      \* nodes a cell may have (max_cell_nodes)
  MaxEdits      \* bound: edits of a run

ASSUME HierarchyAssumption == /\ MaxMacro \in 2 .. 8
                              /\ MaxCell \in 1 .. 6
                              /\ MaxEdits \in Nat

VARIABLES
  schema,       \* the genome schema of the run, 1 or 2
  stock,        \* the two genomes edits are made of
  misfit,       \* an edit built a genome its own validation refuses
  edits         \* edits so far

hierarchyVars == <<schema, stock, misfit, edits>>

----------------------------------------------------------------------------
(* Graphs.  twice: a node or an edge was listed a second time.             *)

Parents(g, n) == {e[1] : e \in {f \in g.edges : f[2] = n}}
Children(g, n) == {e[2] : e \in {f \in g.edges : f[1] = n}}

\* Kahn's order, the least ready name first; shorter when there is a cycle.
Startable(g, done) == {n \in g.nodes \ ToSet(done) : Parents(g, n) \subseteq ToSet(done)}
WithNext(g, done) == IF Startable(g, done) = {} THEN done
                      ELSE Append(done, Min(Startable(g, done)))
Ordered(g) ==
  LET done[k \in 0 .. Cardinality(g.nodes)] ==
        IF k = 0 THEN <<>> ELSE WithNext(g, done[k - 1])
  IN  done[Cardinality(g.nodes)]

\* The nodes from which n can be reached: the least set with n in it and the
\* parents of its members.
Upstream(g, n) ==
  {m \in g.nodes : \A S \in SUBSET g.nodes :
     n \in S /\ (\A k \in S : Parents(g, k) \subseteq S) => m \in S}

IsProgram(g) ==
  /\ ~g.twice
  /\ g.out \in g.nodes
  /\ \A e \in g.edges : e[1] \in g.nodes /\ e[2] \in g.nodes /\ e[1] # e[2]
  /\ Len(Ordered(g)) = Cardinality(g.nodes)
  /\ Upstream(g, g.out) = g.nodes

Forward(g) ==
  LET order == Ordered(g)
  IN  {e \in g.nodes \X g.nodes : \E i, j \in DOMAIN order :
         i < j /\ order[i] = e[1] /\ order[j] = e[2]}

WithEdges(g, es) == [g EXCEPT !.edges = @ \cup es,
                              !.twice = @ \/ es \cap g.edges # {}]
\* n becomes the output, fed by the old one.
Extended(g, n) == [nodes |-> g.nodes \cup {n}, out |-> n,
                   edges |-> g.edges \cup {<<g.out, n>>},
                   twice |-> g.twice \/ n \in g.nodes]
WithoutNode(g, n) == [g EXCEPT !.nodes = @ \ {n},
                           !.edges = {e \in @ : n \notin {e[1], e[2]}}]
Chain(k) == [nodes |-> 0 .. k - 1, out |-> k - 1, twice |-> FALSE,
             edges |-> {<<i - 1, i>> : i \in 1 .. k - 1}]
Unused(S) == CHOOSE n \in 0 .. 16 : n \notin S /\ \A m \in 0 .. n - 1 : m \in S

----------------------------------------------------------------------------
(* Genomes.  of: the cell a macro node runs; cells: the library; marks:    *)
(* the parameter identities of its cells.                                  *)

Used(h) == {h.of[n] : n \in h.macro.nodes}
Pruned(h) == [h EXCEPT !.of = [n \in h.macro.nodes |-> h.of[n]],
                       !.cells = [c \in Used(h) |-> h.cells[c]],
                       !.marks = [c \in Used(h) |-> h.marks[c]]]

Accepts(h) ==
  /\ IsProgram(h.macro)
  /\ Cardinality(h.macro.nodes) <= MaxMacro
  /\ \A c \in DOMAIN h.cells : /\ IsProgram(h.cells[c])
                               /\ Cardinality(h.cells[c].nodes) <= MaxCell
  /\ \A c, d \in DOMAIN h.cells : h.marks[c] = h.marks[d] => c = d
  /\ h.variant = "flat" => Cardinality(h.macro.nodes) = 1
  /\ h.variant = "unshared" =>
       Cardinality(DOMAIN h.cells) = Cardinality(h.macro.nodes)

\* An accepted genome's parameter identities differ: the cells name them.
Renamed(h) == [h EXCEPT !.marks = [c \in DOMAIN h.cells |-> <<c>>]]

SeedLength(variant, index) ==
  IF variant = "flat" THEN 1
  ELSE IF schema = 1 THEN Min({MaxMacro, 2 + (index % 2)})
  ELSE 1 + (index % Min({3, MaxMacro}))
Seeded(variant, index) ==
  LET k == SeedLength(variant, index)
      library == IF variant = "unshared" THEN 0 .. k - 1 ELSE {0}
  IN  [variant |-> variant, macro |-> Chain(k),
       of |-> [n \in 0 .. k - 1 |-> IF variant = "unshared" THEN n ELSE 0],
       cells |-> [c \in library |-> Chain(Min({2, MaxCell}))],
       marks |-> [c \in library |-> <<c>>]]

HierarchyInit ==
  /\ schema \in {1, 2}
  /\ \E variant \in {"flat", "unshared", "shared", "no-clone"}, j \in 0 .. 2 :
       \E i \in 0 .. j : stock = <<Seeded(variant, i), Seeded(variant, j)>>
  /\ misfit = FALSE
  /\ edits = 0

----------------------------------------------------------------------------
(* Edits of the macro graph.                                               *)

With(f, x, y) == [z \in DOMAIN f \cup {x} |-> IF z = x THEN y ELSE f[z]]

\* clone_cell: a node that shares its cell takes a copy of its own.
Cloned(h, n) ==
  LET c == h.of[n]
      copy == Unused(DOMAIN h.cells)
  IN  IF \/ Cardinality({m \in h.macro.nodes : h.of[m] = c}) < 2
         \/ Cardinality(DOMAIN h.cells) >= 8
      THEN h
      ELSE [h EXCEPT !.of[n] = copy,
                     !.cells = With(@, copy, h.cells[c]),
                     !.marks = With(@, copy, <<c, n>>)]

Clones(h) == IF h.variant = "shared"
             THEN {Cloned(h, n) : n \in h.macro.nodes}
             ELSE {}
Shares(h) == IF schema = 2 /\ h.variant = "shared"
             THEN {[h EXCEPT !.of[n] = c] :
                     n \in h.macro.nodes, c \in DOMAIN h.cells}
             ELSE {}

\* A new output node runs any cell; without sharing it takes a copy of it.
ExpandedWith(h, c) ==
  LET n == IF schema = 1 THEN Cardinality(h.macro.nodes)
           ELSE Unused(h.macro.nodes)
      child == [h EXCEPT !.macro = Extended(@, n),
                         !.of = With(@, n, c)]
  IN  IF h.variant = "unshared" THEN Cloned(child, n) ELSE child
Expansions(h) ==
  IF h.variant # "flat" /\ Cardinality(h.macro.nodes) < MaxMacro
  THEN {ExpandedWith(h, c) : c \in DOMAIN h.cells} ELSE {}

\* _rewirings: one edge is replaced by another, if the graph stays one.
Replaced(g) ==
  {p \in {[g EXCEPT !.edges = (@ \ {e}) \cup {f}] :
            e \in g.edges, f \in Forward(g) \ g.edges} : IsProgram(p)}
Added(g) == {WithEdges(g, {f}) : f \in Forward(g) \ g.edges}
Dropped(g) ==
  {p \in {[g EXCEPT !.edges = @ \ {e}] : e \in g.edges} : IsProgram(p)}

Rewired(g) == IF schema = 1 THEN Replaced(g) ELSE Added(g) \cup Dropped(g)
Rewirings(h) == IF h.variant = "flat" THEN {}
                ELSE {[h EXCEPT !.macro = g] : g \in Rewired(h.macro)}
Skips(h) == IF h.variant = "flat" THEN {}
            ELSE {[h EXCEPT !.macro = g] : g \in Added(h.macro)}

\* collapse: one node is left.
Collapsed(h, n) == [h EXCEPT !.macro = Chain(1), !.of = [m \in {0} |-> h.of[n]]]
Collapses(h) == IF schema = 1 \/ h.variant = "flat" THEN {}
                ELSE {Collapsed(h, n) : n \in h.macro.nodes}

\* Mutant: contract forgets to join what the node stood between.
Unjoined(h, n) == [h EXCEPT !.macro = WithoutNode(@, n)]

\* contract: the parents of a node feed its children; contracting the output
\* leaves one of its parents (the last one listed).
Bypassed(g, n) ==
  [WithoutNode(g, n) EXCEPT !.edges = @ \cup (Parents(g, n) \X Children(g, n))]
Joined(h, n) == [h EXCEPT !.macro = Bypassed(@, n)]
Contractions(h) ==
  IF schema = 1 \/ h.variant = "flat" \/ Cardinality(h.macro.nodes) = 1
  THEN {}
  ELSE {Joined(h, n) : n \in h.macro.nodes \ {h.macro.out}} \cup
       {Collapsed(h, p) : p \in Parents(h.macro, h.macro.out)}

----------------------------------------------------------------------------
(* Edits of a cell.                                                        *)

Grown(g) == IF Cardinality(g.nodes) < MaxCell
            THEN {Extended(g, Unused(g.nodes \cup {0, 1}))} ELSE {}
TrimmedCell(g) == IF Cardinality(g.nodes) > 1
              THEN {WithoutNode(g, Ordered(g)[1])} ELSE {}
Reworked(h, versions) ==
  UNION {{[h EXCEPT !.cells[c] = g] : g \in versions[c]} : c \in DOMAIN h.cells}

\* motif: a cell becomes a copy of one of the bank, with fresh parameters.
Motifs(h, bank) ==
  UNION {{[h EXCEPT !.cells[c] = g, !.marks[c] = <<"fresh", c>>] : g \in bank} :
           c \in DOMAIN h.cells}

----------------------------------------------------------------------------
(* crossover: the first nodes of one genome, then the last ones of another.*)

\* Things with equal keys share a number; numbers follow the first of each.
Foremost(keys, i) == Min({j \in DOMAIN keys : keys[j] = keys[i]})
Numbered(keys, i) == Cardinality({Foremost(keys, j) : j \in 1 .. Foremost(keys, i)}) - 1

\* The two parts in one graph: what ends on the left feeds its last node, and
\* that node all that nothing feeds on the right.
Bridged(within, lefts, size) ==
  LET last == lefts - 1
      parts == [nodes |-> 0 .. size - 1, edges |-> within, twice |-> FALSE, out |-> size - 1]
      closing == {<<n, last>> : n \in {m \in 0 .. last - 1 : \A e \in within : e[1] # m}}
      bridges == {<<last, n>> : n \in {m \in lefts .. size - 1 : \A e \in within : e[2] # m}}
  IN  WithEdges(WithEdges(parts, closing), bridges)

Spliced(a, b, lefts, rights) ==
  LET front == SubSeq(Ordered(a.macro), 1, lefts)
      order == Ordered(b.macro)
      back == SubSeq(order, Len(order) - rights + 1, Len(order))
      size == lefts + rights
      side(i) == IF i <= lefts THEN a ELSE b
      old(i) == IF i <= lefts THEN front[i] ELSE back[i - lefts]
      keys == [i \in 1 .. size |-> <<i <= lefts, side(i).of[old(i)],
                                     IF a.variant = "unshared" THEN old(i) ELSE 0>>]
      within == {e \in (0 .. size - 1) \X (0 .. size - 1) :
                   /\ (e[1] < lefts) = (e[2] < lefts)
                   /\ <<old(e[1] + 1), old(e[2] + 1)>> \in side(e[1] + 1).macro.edges}
      cell(i) == Numbered(keys, i)
      source(c) == CHOOSE i \in 1 .. size : Foremost(keys, i) = i /\ cell(i) = c
      library == {cell(i) : i \in 1 .. size}
  IN  [variant |-> a.variant,
       macro |-> Bridged(within, lefts, size),
       of |-> [n \in 0 .. size - 1 |-> cell(n + 1)],
       cells |-> [c \in library |->
                    side(source(c)).cells[side(source(c)).of[old(source(c))]]],
       marks |-> [c \in library |-> <<keys[source(c)], c>>]]

Offspring(a, b) ==
  IF a.variant = "flat"
  THEN {[a EXCEPT !.cells = [c \in DOMAIN @ |-> g]] :
          g \in {b.cells[c] : c \in DOMAIN b.cells}}
  ELSE UNION {{Spliced(a, b, l, r) :
                 r \in 1 .. Min({Cardinality(b.macro.nodes), MaxMacro - l})} :
              l \in 1 .. Min({Cardinality(a.macro.nodes), MaxMacro - 1})}

----------------------------------------------------------------------------
(* An edit: the genome it builds is validated (_construct).                *)

Rebuild(i, children) ==
  /\ edits < MaxEdits
  /\ \E h \in children :
    LET child == Pruned(h)
    IN  /\ edits' = edits + 1
        /\ misfit' = ~Accepts(child)
        /\ stock' = IF Accepts(child)
                    THEN [stock EXCEPT ![i] = Renamed(child)] ELSE stock
        /\ UNCHANGED schema

Clone(i) == Rebuild(i, Clones(stock[i]))
Share(i) == Rebuild(i, Shares(stock[i]))
Expand(i) == Rebuild(i, Expansions(stock[i]))
Rewire(i) == Rebuild(i, Rewirings(stock[i]))
SkipAhead(i) == Rebuild(i, Skips(stock[i]))
Collapse(i) == Rebuild(i, Collapses(stock[i]))
Contract(i) == Rebuild(i, Contractions(stock[i]))
GrowCell(i) == Rebuild(i, Reworked(stock[i],
                 [c \in DOMAIN stock[i].cells |-> Grown(stock[i].cells[c])]))
TrimCell(i) == Rebuild(i, Reworked(stock[i],
                 [c \in DOMAIN stock[i].cells |-> TrimmedCell(stock[i].cells[c])]))
RewireCell(i) == Rebuild(i, Reworked(stock[i],
                 [c \in DOMAIN stock[i].cells |-> Rewired(stock[i].cells[c])]))
Motif(i) == Rebuild(i, Motifs(stock[i], UNION
              {{stock[j].cells[c] : c \in DOMAIN stock[j].cells} : j \in 1 .. 2}))
Crossover(i) == Rebuild(i, Offspring(stock[i], stock[3 - i]))

HierarchyNext ==
  \E i \in 1 .. 2 :
    \/ Clone(i) \/ Share(i) \/ Expand(i) \/ Rewire(i) \/ SkipAhead(i)
    \/ Collapse(i) \/ Contract(i) \/ GrowCell(i) \/ TrimCell(i)
    \/ RewireCell(i) \/ Motif(i) \/ Crossover(i)

HierarchySpec == HierarchyInit /\ [][HierarchyNext]_hierarchyVars

----------------------------------------------------------------------------

\* No sequence of legal edits of two sound genomes builds a genome that its
\* validation refuses: contraction, collapse, sharing, pruning and crossover
\* keep the macro graph acyclic with every node reaching the output, keep one
\* cell per node where nothing is shared, and never list an edge twice.  The
\* refusal would be a ValueError inside the search (genome.py order, valid).
HierarchiesStayExecutable == ~misfit
=============================================================================
