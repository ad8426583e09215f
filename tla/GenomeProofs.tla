---------------------------- MODULE GenomeProofs ----------------------------
(***************************************************************************)
(* The edits of genomes: the numbers of Topograph's genes keep their       *)
(* meaning (GraphGenome), and what Prism, Primordia and Stratograph draw   *)
(* is a genome that their validation and their compiler accept             *)
(* (BlockGenome, CircuitGenome, HierarchyGenome). Each part has an         *)
(* inductive invariant: GraphInv, BlockInv, CircuitInv, HierarchyInv.      *)
(***************************************************************************)
EXTENDS Genomes, FiniteSetTheorems, SequenceTheorems, TLAPS

(***************************************************************************)
(* Induction and recursion over an interval of numbers, stated for sets    *)
(* and functions: the library's theorems about them take an operator.      *)
(***************************************************************************)

LEMMA LeastExists ==
    ASSUME NEW S, S \subseteq Nat, S # {}
    PROVE  \E t \in S : \A u \in S : t <= u
<1>1. \E t \in S : \A u \in S : ~(<<u, t>> \in OpToRel(<, Nat))
  BY NatLessThanWellFounded, WFMin, Zenon
<1>2. PICK t \in S : \A u \in S : ~(<<u, t>> \in OpToRel(<, Nat))
  BY <1>1, Zenon
<1>3. ASSUME NEW u \in S PROVE t <= u
  <2>1. t \in Nat /\ u \in Nat /\ <<u, t>> \in Nat \X Nat
    OBVIOUS
  <2>2. ~(u < t)
    BY <1>2, <2>1, Zenon DEF OpToRel
  <2> QED BY <2>1, <2>2
<1> QED BY <1>3

LEMMA UpTo ==
    ASSUME NEW n \in Nat, NEW S, 0 \in S, \A k \in 1 .. n : k - 1 \in S => k \in S
    PROVE  0 .. n \subseteq S
<1> DEFINE Missing == (0 .. n) \ S
<1>1. SUFFICES ASSUME Missing # {} PROVE FALSE
  OBVIOUS
<1>2. Missing \subseteq Nat
  OBVIOUS
<1>3. PICK m \in Missing : \A u \in Missing : m <= u
  <2> HIDE DEF Missing
  <2> QED BY <1>1, <1>2, LeastExists
<1>4. m \in 1 .. n /\ m \notin S
  <2>1. m \in 0 .. n /\ m \notin S
    OBVIOUS
  <2>2. m # 0
    BY <2>1
  <2> QED BY <2>1, <2>2
<1>5. m - 1 \in 0 .. n /\ ~(m <= m - 1)
  BY <1>4
<1>6. m - 1 \in S
  <2>1. m - 1 \notin Missing
    <3> HIDE DEF Missing
    <3> QED BY <1>3, <1>5
  <2> QED BY <1>5, <2>1
<1> QED BY <1>4, <1>6

\* What n rounds of a step make of e.
RoundsOf(n, e, step, f) ==
  f = [k \in 0 .. n |-> IF k = 0 THEN e ELSE step[k][f[k - 1]]]

LEMMA RoundsExist ==
    ASSUME NEW T, NEW n \in Nat, NEW e \in T, NEW step \in [1 .. n -> [T -> T]]
    PROVE  \E f \in [0 .. n -> T] : RoundsOf(n, e, step, f)
<1> DEFINE S == {m \in 0 .. n : \E f \in [0 .. m -> T] : RoundsOf(m, e, step, f)}
<1>1. 0 \in S
  <2> DEFINE f == [k \in 0 .. 0 |-> e]
  <2>1. f \in [0 .. 0 -> T] /\ \A k \in 0 .. 0 : k = 0
    OBVIOUS
  <2>2. f = [k \in 0 .. 0 |-> IF k = 0 THEN e ELSE step[k][f[k - 1]]]
    BY <2>1
  <2>3. RoundsOf(0, e, step, f)
    BY <2>2 DEF RoundsOf
  <2> QED BY <2>1, <2>3
<1>2. ASSUME NEW m \in 1 .. n, m - 1 \in S PROVE m \in S
  <2>1. PICK g \in [0 .. m - 1 -> T] : RoundsOf(m - 1, e, step, g)
    BY <1>2
  <2> DEFINE last == step[m][g[m - 1]]
             f == [k \in 0 .. m |-> IF k = m THEN last ELSE g[k]]
  <2>2. last \in T
    <3>1. m - 1 \in 0 .. m - 1
      OBVIOUS
    <3>2. g[m - 1] \in T /\ step[m] \in [T -> T]
      BY <3>1
    <3> QED BY <3>2
  <2>3. \A k \in 0 .. m - 1 : g[k] = IF k = 0 THEN e ELSE step[k][g[k - 1]]
    BY <2>1 DEF RoundsOf
  <2>4. last = step[m][g[m - 1]]
    OBVIOUS
  <2> HIDE DEF last
  <2>5. \A k \in 0 .. m : f[k] = IF k = m THEN last ELSE g[k]
    OBVIOUS
  <2>6. f \in [0 .. m -> T]
    <3>1. ASSUME NEW k \in 0 .. m PROVE (IF k = m THEN last ELSE g[k]) \in T
      <4>1. CASE k = m
        BY <2>2, <4>1
      <4>2. CASE k # m
        <5>1. k \in 0 .. m - 1
          BY <4>2
        <5> QED BY <4>2, <5>1
      <4> QED BY <4>1, <4>2
    <3> QED BY <3>1
  <2> HIDE DEF f
  <2>7. ASSUME NEW k \in 0 .. m
        PROVE  f[k] = IF k = 0 THEN e ELSE step[k][f[k - 1]]
    <3>1. CASE k = m
      <4>1. k # 0 /\ m - 1 \in 0 .. m /\ m - 1 # m
        BY <3>1
      <4>2. f[k] = last /\ f[m - 1] = g[m - 1]
        BY <2>5, <3>1, <4>1
      <4> QED BY <2>4, <3>1, <4>1, <4>2
    <3>2. CASE k # m
      <4>1. k \in 0 .. m - 1 /\ f[k] = g[k]
        BY <2>5, <3>2
      <4>2. k # 0 => k - 1 \in 0 .. m /\ k - 1 # m
        BY <3>2
      <4>3. k # 0 => f[k - 1] = g[k - 1]
        BY <2>5, <4>2
      <4> QED BY <2>3, <4>1, <4>3
    <3> QED BY <3>1, <3>2
  <2>8. f = [k \in 0 .. m |-> IF k = 0 THEN e ELSE step[k][f[k - 1]]]
    BY <2>6, <2>7
  <2>9. RoundsOf(m, e, step, f)
    BY <2>8 DEF RoundsOf
  <2> QED BY <2>6, <2>9
<1>3. n \in S
  <2>1. \A k \in 1 .. n : k - 1 \in S => k \in S
    BY <1>2
  <2> HIDE DEF S
  <2>2. 0 .. n \subseteq S
    BY <1>1, <2>1, UpTo
  <2> QED BY <2>2
<1> QED BY <1>3

(***************************************************************************)
(* Innovations.obtain: a signature keeps the number it was given, and a new *)
(* one gets the number after the last.                                     *)
(***************************************************************************)

Longer(seen, more) ==
  /\ DOMAIN seen \subseteq DOMAIN more
  /\ \A n \in DOMAIN seen : more[n] = seen[n]

LEMMA ObtainOne ==
    ASSUME NEW U, NEW seen \in Seq(U), NEW mark \in U
    PROVE  /\ Obtain(seen, mark) \in Seq(U)
           /\ Longer(seen, Obtain(seen, mark))
           /\ mark \in ToSet(Obtain(seen, mark))
<1>1. CASE mark \in ToSet(seen)
  BY <1>1 DEF Obtain, Longer
<1>2. CASE mark \notin ToSet(seen)
  <2> DEFINE more == Append(seen, mark)
  <2>1. Obtain(seen, mark) = more
    BY <1>2 DEF Obtain
  <2>2. /\ more \in Seq(U)
        /\ Len(more) = Len(seen) + 1
        /\ more[Len(seen) + 1] = mark
        /\ \A i \in 1 .. Len(seen) : more[i] = seen[i]
        /\ DOMAIN more = 1 .. Len(seen) + 1
        /\ DOMAIN seen = 1 .. Len(seen)
        /\ Len(seen) \in Nat
    OBVIOUS
  <2> HIDE DEF more
  <2>3. Longer(seen, more)
    BY <2>2 DEF Longer
  <2>4. mark \in ToSet(more)
    BY <2>2 DEF ToSet
  <2> QED BY <2>1, <2>2, <2>3, <2>4
<1> QED BY <1>1, <1>2

LEMMA LongerIsTransitive ==
    ASSUME NEW a, NEW b, NEW c, Longer(a, b), Longer(b, c)
    PROVE  Longer(a, c)
BY DEF Longer

LEMMA LongerKeeps ==
    ASSUME NEW a, NEW b, Longer(a, b)
    PROVE  ToSet(a) \subseteq ToSet(b)
BY DEF Longer, ToSet

LEMMA ObtainAll ==
    ASSUME NEW T, NEW seen \in Seq(T), NEW marks, Len(marks) \in Nat
    PROVE  /\ \E U : Obtained(seen, marks) \in Seq(U)
           /\ Longer(seen, Obtained(seen, marks))
           /\ \A j \in 1 .. Len(marks) : marks[j] \in ToSet(Obtained(seen, marks))
<1> DEFINE n == Len(marks)
           U == T \cup {marks[j] : j \in 1 .. n}
           step == [k \in 1 .. n |-> [s \in Seq(U) |-> Obtain(s, marks[k])]]
           F(f) == f = [k \in 0 .. n |-> IF k = 0 THEN seen
                                         ELSE Obtain(f[k - 1], marks[k])]
           given == CHOOSE f : F(f)
<1>1. seen \in Seq(U)
  <2>1. T \subseteq U
    OBVIOUS
  <2> HIDE DEF U
  <2> QED BY <2>1
<1>2. \A k \in 1 .. n : marks[k] \in U
  OBVIOUS
<1> HIDE DEF U
<1>3. step \in [1 .. n -> [Seq(U) -> Seq(U)]]
  <2>1. ASSUME NEW k \in 1 .. n, NEW s \in Seq(U) PROVE Obtain(s, marks[k]) \in Seq(U)
    BY <1>2, ObtainOne
  <2> QED BY <2>1
<1>4. PICK f \in [0 .. n -> Seq(U)] : RoundsOf(n, seen, step, f)
  <2>1. n \in Nat
    OBVIOUS
  <2> HIDE DEF n, step
  <2> QED BY <1>1, <1>3, <2>1, RoundsExist
<1>5. F(f)
  <2>1. ASSUME NEW k \in 0 .. n
        PROVE  f[k] = IF k = 0 THEN seen ELSE Obtain(f[k - 1], marks[k])
    <3>1. f[k] = IF k = 0 THEN seen ELSE step[k][f[k - 1]]
      <4> HIDE DEF n, step
      <4> QED BY <1>4 DEF RoundsOf
    <3>2. k # 0 => k \in 1 .. n /\ k - 1 \in 0 .. n
      OBVIOUS
    <3>3. k # 0 => f[k - 1] \in Seq(U)
      <4> HIDE DEF n
      <4> QED BY <3>2
    <3>4. k # 0 => step[k][f[k - 1]] = Obtain(f[k - 1], marks[k])
      <4> HIDE DEF n
      <4> QED BY <3>2, <3>3
    <3> QED BY <3>1, <3>4
  <2>2. f = [k \in 0 .. n |-> f[k]]
    OBVIOUS
  <2> QED BY <2>1, <2>2
<1>6. F(given)
  <2>1. \E g : F(g)
    BY <1>5
  <2> QED BY <2>1
<1>7. Obtained(seen, marks) = given[n]
  BY DEF Obtained
<1>8. /\ given[0] = seen
      /\ \A k \in 1 .. n : given[k] = Obtain(given[k - 1], marks[k])
  <2>1. \A k \in 0 .. n : given[k] = IF k = 0 THEN seen ELSE Obtain(given[k - 1], marks[k])
    <3> HIDE DEF given
    <3> QED BY <1>6
  <2>2. 0 \in 0 .. n /\ \A k \in 1 .. n : k \in 0 .. n /\ k # 0
    OBVIOUS
  <2> HIDE DEF given, n
  <2> QED BY <2>1, <2>2
<1> HIDE DEF given
<1> DEFINE Good == {k \in 0 .. n : /\ given[k] \in Seq(U)
                                   /\ Longer(seen, given[k])
                                   /\ \A j \in 1 .. k : marks[j] \in ToSet(given[k])}
<1>9. 0 \in Good
  BY <1>1, <1>8 DEF Longer
<1>10. ASSUME NEW k \in 1 .. n, k - 1 \in Good PROVE k \in Good
  <2>1. /\ given[k - 1] \in Seq(U) /\ Longer(seen, given[k - 1])
        /\ \A j \in 1 .. k - 1 : marks[j] \in ToSet(given[k - 1])
    BY <1>10
  <2>2. given[k] = Obtain(given[k - 1], marks[k]) /\ marks[k] \in U
    BY <1>2, <1>8
  <2>3. /\ given[k] \in Seq(U) /\ Longer(given[k - 1], given[k])
        /\ marks[k] \in ToSet(given[k])
    BY <2>1, <2>2, ObtainOne
  <2>4. Longer(seen, given[k]) /\ ToSet(given[k - 1]) \subseteq ToSet(given[k])
    BY <2>1, <2>3, LongerIsTransitive, LongerKeeps
  <2>5. \A j \in 1 .. k : j \in 1 .. k - 1 \/ j = k
    OBVIOUS
  <2>6. \A j \in 1 .. k : marks[j] \in ToSet(given[k])
    BY <2>1, <2>3, <2>4, <2>5
  <2> QED BY <2>3, <2>4, <2>6
<1>11. n \in Good
  <2>1. \A k \in 1 .. n : k - 1 \in Good => k \in Good
    BY <1>10
  <2>2. n \in Nat /\ n \in 0 .. n
    OBVIOUS
  <2> HIDE DEF Good, n
  <2>3. 0 .. n \subseteq Good
    BY <1>9, <2>1, <2>2, UpTo
  <2> QED BY <2>2, <2>3
<1> QED BY <1>7, <1>11

LEMMA NumberIsOfTheMark ==
    ASSUME NEW seen, NEW mark, mark \in ToSet(seen)
    PROVE  Number(seen, mark) \in DOMAIN seen /\ seen[Number(seen, mark)] = mark
<1>1. \E n \in DOMAIN seen : seen[n] = mark
  BY DEF ToSet
<1> QED BY <1>1 DEF Number

(***************************************************************************)
(* Graphs. What a number of the registry names is read off its signature,  *)
(* and every gene of a genome is what its number names: the edits draw their *)
(* numbers for signatures that say what they build.                        *)
(***************************************************************************)

IsLink(l) == l = [from |-> l.from, to |-> l.to, on |-> l.on, gated |-> l.gated]
IsGraph(g) ==
  /\ g = [layers |-> g.layers, links |-> g.links, out |-> g.out,
          experts |-> g.experts, top |-> g.top, twice |-> g.twice]
  /\ \A k \in DOMAIN g.links : IsLink(g.links[k])

\* The signature under a number tells what the number is, and which layers a
\* link joins: the links at the ends of a new layer are signed with its
\* number, and its own signature holds the link it was put on.
MeansLayer(seen, n) ==
  n \in DOMAIN seen /\ seen[n][1] \in {"initial_layer", "split", "branch", "cross"}
MeansExpert(seen, e) == e \in DOMAIN seen /\ seen[e][1] = "expert"
OldLink(seen, n) == seen[n][3].links[seen[n][2]]
MeansLink(seen, k, s, t) ==
  /\ k \in DOMAIN seen
  /\ \/ seen[k][1] = "initial_input_edge" /\ s = Outside /\ t = 1
     \/ /\ seen[k][1] \in {"edge", "cross_edge", "cross_out"}
        /\ s = seen[k][2] /\ t = seen[k][3]
     \/ /\ seen[k][1] = "in" /\ seen[k][2] \in DOMAIN seen
        /\ s = OldLink(seen, seen[k][2]).from /\ t = seen[k][2]
     \/ /\ seen[k][1] = "out" /\ seen[k][2] \in DOMAIN seen
        /\ s = seen[k][2] /\ t = OldLink(seen, seen[k][2]).to

Means(seen, p) ==
  \/ \E n : p = <<n, "layer">> /\ MeansLayer(seen, n)
  \/ \E k, s, t : p = <<k, "link", s, t>> /\ MeansLink(seen, k, s, t)
  \/ \E e : p = <<e, "expert">> /\ MeansExpert(seen, e)

LEMMA OneMeaning ==
    ASSUME NEW seen, NEW p, NEW q, Means(seen, p), Means(seen, q), p[1] = q[1]
    PROVE  p = q
<1>1. ASSUME NEW m, NEW n, p = <<m, "layer">>, q = <<n, "layer">> PROVE p = q
  BY <1>1
<1>2. ASSUME NEW m, NEW n, p = <<m, "expert">>, q = <<n, "expert">> PROVE p = q
  BY <1>2
<1>3. ASSUME NEW k, NEW s, NEW t, NEW l, NEW u, NEW v,
             p = <<k, "link", s, t>>, MeansLink(seen, k, s, t),
             q = <<l, "link", u, v>>, MeansLink(seen, l, u, v)
      PROVE  p = q
  <2>1. k = l
    BY <1>3
  <2>2. s = u /\ t = v
    BY <1>3, <2>1 DEF MeansLink
  <2> QED BY <1>3, <2>1, <2>2
<1>4. ASSUME NEW n, MeansLayer(seen, n), MeansExpert(seen, n) PROVE FALSE
  BY <1>4 DEF MeansLayer, MeansExpert
<1>5. ASSUME NEW n, NEW s, NEW t, MeansLayer(seen, n), MeansLink(seen, n, s, t) PROVE FALSE
  BY <1>5 DEF MeansLayer, MeansLink
<1>6. ASSUME NEW n, NEW s, NEW t, MeansExpert(seen, n), MeansLink(seen, n, s, t) PROVE FALSE
  BY <1>6 DEF MeansExpert, MeansLink
<1>7. /\ \A n : <<n, "layer">>[1] = n /\ <<n, "expert">>[1] = n
      /\ \A k, s, t : <<k, "link", s, t>>[1] = k
  OBVIOUS
<1>8. CASE \E m : p = <<m, "layer">> /\ MeansLayer(seen, m)
  BY <1>1, <1>4, <1>5, <1>7, <1>8 DEF Means
<1>9. CASE \E m : p = <<m, "expert">> /\ MeansExpert(seen, m)
  BY <1>2, <1>4, <1>6, <1>7, <1>9 DEF Means
<1>10. CASE \E k, s, t : p = <<k, "link", s, t>> /\ MeansLink(seen, k, s, t)
  <2>1. PICK k, s, t : p = <<k, "link", s, t>> /\ MeansLink(seen, k, s, t)
    BY <1>10
  <2>2. p[1] = k
    BY <2>1
  <2>3. \A n : q # <<n, "layer">> \/ ~MeansLayer(seen, n)
    BY <1>5, <1>7, <2>1, <2>2
  <2>4. \A n : q # <<n, "expert">> \/ ~MeansExpert(seen, n)
    BY <1>6, <1>7, <2>1, <2>2
  <2>5. PICK l, u, v : q = <<l, "link", u, v>> /\ MeansLink(seen, l, u, v)
    BY <2>3, <2>4 DEF Means
  <2> QED BY <1>3, <2>1, <2>5
<1> QED BY <1>8, <1>9, <1>10 DEF Means

LEMMA MeaningStays ==
    ASSUME NEW seen, NEW more, Longer(seen, more), NEW p, Means(seen, p)
    PROVE  Means(more, p)
<1>1. ASSUME NEW n, MeansLayer(seen, n) PROVE MeansLayer(more, n)
  BY <1>1 DEF MeansLayer, Longer
<1>2. ASSUME NEW n, MeansExpert(seen, n) PROVE MeansExpert(more, n)
  BY <1>2 DEF MeansExpert, Longer
<1>3. ASSUME NEW k, NEW s, NEW t, MeansLink(seen, k, s, t) PROVE MeansLink(more, k, s, t)
  <2>1. k \in DOMAIN more /\ more[k] = seen[k]
    BY <1>3 DEF MeansLink, Longer
  <2>2. ASSUME NEW n \in DOMAIN seen PROVE n \in DOMAIN more /\ OldLink(more, n) = OldLink(seen, n)
    BY DEF OldLink, Longer
  <2> QED BY <1>3, <2>1, <2>2 DEF MeansLink
<1> QED BY <1>1, <1>2, <1>3, Zenon DEF Means

GraphInv ==
  /\ \E T : registry \in Seq(T)
  /\ graphs = <<graphs[1], graphs[2]>>
  /\ \A i \in 1 .. 2 : IsGraph(graphs[i]) /\ GenesOf(graphs[i]) \subseteq named
  /\ \A p \in named : Means(registry, p)

LEMMA GraphsStartWell == GraphInit => GraphInv
<1> SUFFICES ASSUME GraphInit PROVE GraphInv
  OBVIOUS
<1>1. /\ registry = FirstMarks /\ DOMAIN registry = 1 .. 2
      /\ registry[1][1] = "initial_layer" /\ registry[2][1] = "initial_input_edge"
  BY DEF GraphInit, FirstMarks
<1>2. registry \in Seq({<<"initial_layer">>, <<"initial_input_edge">>})
  BY DEF GraphInit, FirstMarks
<1> DEFINE l == Link(Outside, 1, FALSE)
<1>3. /\ DOMAIN SeedGraph.layers = {1} /\ DOMAIN SeedGraph.links = {2}
      /\ SeedGraph.links[2] = l /\ SeedGraph.experts = {}
      /\ SeedGraph = [layers |-> SeedGraph.layers, links |-> SeedGraph.links,
                      out |-> SeedGraph.out, experts |-> SeedGraph.experts,
                      top |-> SeedGraph.top, twice |-> SeedGraph.twice]
  BY DEF SeedGraph
<1>4. l.from = Outside /\ l.to = 1 /\ IsLink(l)
  BY DEF Link, IsLink
<1> HIDE DEF l
<1>5. IsGraph(SeedGraph)
  BY <1>3, <1>4 DEF IsGraph
<1>6. GenesOf(SeedGraph) = {<<1, "layer">>, <<2, "link", Outside, 1>>}
  BY <1>3, <1>4 DEF GenesOf
<1>7. MeansLayer(registry, 1) /\ MeansLink(registry, 2, Outside, 1)
  BY <1>1 DEF MeansLayer, MeansLink
<1>8. \A p \in GenesOf(SeedGraph) : Means(registry, p)
  BY <1>6, <1>7, Zenon DEF Means
<1>9. /\ graphs = <<SeedGraph, SeedGraph>> /\ graphs[1] = SeedGraph
      /\ graphs[2] = SeedGraph /\ named = GenesOf(SeedGraph)
  BY DEF GraphInit
<1>10. \A i \in 1 .. 2 : i = 1 \/ i = 2
  OBVIOUS
<1>11. \E T : registry \in Seq(T)
  BY <1>2
<1> QED BY <1>5, <1>8, <1>9, <1>10, <1>11 DEF GraphInv

LEMMA ProposingKeeps ==
    ASSUME GraphInv, NEW i \in 1 .. 2, NEW g, NEW seen, Propose(i, g, seen),
           IsGraph(g), \E T : seen \in Seq(T), Longer(registry, seen),
           \A p \in GenesOf(g) : p \in named \/ Means(seen, p)
    PROVE  GraphInv'
<1>1. graphs' = [graphs EXCEPT ![i] = g] /\ registry' = seen /\ named' = named \cup GenesOf(g)
  BY DEF Propose
<1>2. graphs = <<graphs[1], graphs[2]>>
  BY DEF GraphInv
<1>3. graphs' = <<graphs'[1], graphs'[2]>>
  BY <1>1, <1>2
<1>4. \A j \in 1 .. 2 : graphs'[j] = IF j = i THEN g ELSE graphs[j]
  BY <1>1, <1>2
<1>5. \A j \in 1 .. 2 : IsGraph(graphs'[j]) /\ GenesOf(graphs'[j]) \subseteq named'
  BY <1>1, <1>4 DEF GraphInv
<1>6. \A p \in named' : Means(registry', p)
  BY <1>1, MeaningStays DEF GraphInv
<1>7. \E T : registry' \in Seq(T)
  BY <1>1
<1>8. GraphInv' <=> /\ \E T : registry' \in Seq(T)
                    /\ graphs' = <<graphs'[1], graphs'[2]>>
                    /\ \A j \in 1 .. 2 : IsGraph(graphs'[j]) /\ GenesOf(graphs'[j]) \subseteq named'
                    /\ \A p \in named' : Means(registry', p)
  BY DEF GraphInv
<1> QED BY <1>3, <1>5, <1>6, <1>7, <1>8

\* A graph with the genes of one it was made of, and no new signature.
LEMMA NoNewGene ==
    ASSUME GraphInv, NEW i \in 1 .. 2, NEW g, Propose(i, g, registry), IsGraph(g),
           GenesOf(g) \subseteq GenesOf(graphs[i])
    PROVE  GraphInv'
<1>1. Longer(registry, registry)
  BY DEF Longer
<1>2. \A p \in GenesOf(g) : p \in named
  BY DEF GraphInv
<1>3. \E T : registry \in Seq(T)
  BY DEF GraphInv
<1> QED BY <1>1, <1>2, <1>3, ProposingKeeps

LEMMA TwoFields ==
    ASSUME NEW u, IsGraph(u), NEW x, NEW y
    PROVE  /\ [u EXCEPT !.twice = x, !.layers = y] =
                [layers |-> y, links |-> u.links, out |-> u.out,
                 experts |-> u.experts, top |-> u.top, twice |-> x]
           /\ [u EXCEPT !.twice = x, !.links = y] =
                [layers |-> u.layers, links |-> y, out |-> u.out,
                 experts |-> u.experts, top |-> u.top, twice |-> x]
<1> DEFINE v == [u EXCEPT !.twice = x]
<1>1. v = [layers |-> u.layers, links |-> u.links, out |-> u.out,
           experts |-> u.experts, top |-> u.top, twice |-> x]
  BY DEF IsGraph
<1>2. /\ [u EXCEPT !.twice = x, !.layers = y] = [v EXCEPT !.layers = y]
      /\ [u EXCEPT !.twice = x, !.links = y] = [v EXCEPT !.links = y]
  BY Zenon
<1> HIDE DEF v
<1>3. /\ v.layers = u.layers /\ v.links = u.links /\ v.out = u.out
      /\ v.experts = u.experts /\ v.top = u.top /\ v.twice = x
  BY <1>1
<1>4. /\ [v EXCEPT !.layers = y] =
           [layers |-> y, links |-> v.links, out |-> v.out,
            experts |-> v.experts, top |-> v.top, twice |-> v.twice]
      /\ [v EXCEPT !.links = y] =
           [layers |-> v.layers, links |-> y, out |-> v.out,
            experts |-> v.experts, top |-> v.top, twice |-> v.twice]
  BY <1>1
<1> QED BY <1>2, <1>3, <1>4

LEMMA LayersPut ==
    ASSUME NEW g, IsGraph(g), NEW layers
    PROVE  LET h == PutLayers(g, layers)
           IN  /\ IsGraph(h)
               /\ \A p \in GenesOf(h) :
                    p \in GenesOf(g) \/ \E n \in DOMAIN layers : p = <<n, "layer">>
<1> DEFINE h == PutLayers(g, layers)
           x == g.twice \/ DOMAIN layers \cap Names(g) # {}
           y == Over(layers, g.layers)
<1>1. h = [g EXCEPT !.twice = x, !.layers = y]
  BY Zenon DEF PutLayers
<1>2. DOMAIN y = DOMAIN layers \cup DOMAIN g.layers
  BY DEF Over
<1> HIDE DEF h, x, y
<1>3. h = [layers |-> y, links |-> g.links, out |-> g.out,
           experts |-> g.experts, top |-> g.top, twice |-> x]
  BY <1>1, TwoFields
<1>4. h.layers = y /\ h.links = g.links /\ h.experts = g.experts
  BY <1>3
<1>5. IsGraph(h)
  BY <1>3 DEF IsGraph
<1>6. ASSUME NEW p \in GenesOf(h)
      PROVE  p \in GenesOf(g) \/ \E n \in DOMAIN layers : p = <<n, "layer">>
  <2> DEFINE joins == {<<k, "link", g.links[k].from, g.links[k].to>> : k \in DOMAIN g.links}
  <2>1. /\ GenesOf(h) = {<<n, "layer">> : n \in DOMAIN y} \cup joins
                         \cup {<<e, "expert">> : e \in g.experts}
        /\ GenesOf(g) = {<<n, "layer">> : n \in DOMAIN g.layers} \cup joins
                         \cup {<<e, "expert">> : e \in g.experts}
    BY <1>4 DEF GenesOf
  <2> HIDE DEF joins
  <2> QED BY <1>2, <2>1
<1> QED BY <1>5, <1>6 DEF h

LEMMA LinksPut ==
    ASSUME NEW g, IsGraph(g), NEW links, \A k \in DOMAIN links : IsLink(links[k])
    PROVE  LET h == PutLinks(g, links)
           IN  /\ IsGraph(h)
               /\ \A p \in GenesOf(h) :
                    \/ p \in GenesOf(g)
                    \/ \E k \in DOMAIN links : p = <<k, "link", links[k].from, links[k].to>>
<1> DEFINE h == PutLinks(g, links)
           x == g.twice \/ DOMAIN links \cap Names(g) # {}
           y == Over(links, g.links)
<1>1. h = [g EXCEPT !.twice = x, !.links = y]
  BY Zenon DEF PutLinks
<1>2. /\ DOMAIN y = DOMAIN links \cup DOMAIN g.links
      /\ \A k \in DOMAIN y : y[k] = IF k \in DOMAIN links THEN links[k] ELSE g.links[k]
  BY DEF Over
<1> HIDE DEF h, x, y
<1>3. h = [layers |-> g.layers, links |-> y, out |-> g.out,
           experts |-> g.experts, top |-> g.top, twice |-> x]
  BY <1>1, TwoFields
<1>4. h.layers = g.layers /\ h.links = y /\ h.experts = g.experts
  BY <1>3
<1>5. IsGraph(h)
  BY <1>2, <1>3, <1>4 DEF IsGraph
<1>6. ASSUME NEW p \in GenesOf(h)
      PROVE  \/ p \in GenesOf(g)
             \/ \E k \in DOMAIN links : p = <<k, "link", links[k].from, links[k].to>>
  <2> DEFINE rest == {<<n, "layer">> : n \in DOMAIN g.layers} \cup {<<e, "expert">> : e \in g.experts}
  <2>1. /\ GenesOf(h) = rest \cup {<<k, "link", y[k].from, y[k].to>> : k \in DOMAIN y}
        /\ GenesOf(g) = rest \cup {<<k, "link", g.links[k].from, g.links[k].to>> :
                                     k \in DOMAIN g.links}
    <3>1. /\ GenesOf(h) = {<<n, "layer">> : n \in DOMAIN g.layers} \cup
                          {<<k, "link", y[k].from, y[k].to>> : k \in DOMAIN y} \cup
                          {<<e, "expert">> : e \in g.experts}
      BY <1>4 DEF GenesOf
    <3>2. GenesOf(h) = rest \cup {<<k, "link", y[k].from, y[k].to>> : k \in DOMAIN y}
      BY <3>1, Zenon
    <3>3. GenesOf(g) = rest \cup {<<k, "link", g.links[k].from, g.links[k].to>> :
                                     k \in DOMAIN g.links}
      BY Zenon DEF GenesOf
    <3> QED BY <3>2, <3>3
  <2> HIDE DEF rest
  <2>2. CASE p \in rest
    BY <2>1, <2>2
  <2>3. ASSUME NEW k \in DOMAIN y, p = <<k, "link", y[k].from, y[k].to>>
        PROVE  \/ p \in GenesOf(g)
               \/ \E j \in DOMAIN links : p = <<j, "link", links[j].from, links[j].to>>
    <3>1. CASE k \in DOMAIN links
      BY <1>2, <2>3, <3>1
    <3>2. CASE k \notin DOMAIN links
      <4>1. k \in DOMAIN g.links /\ p = <<k, "link", g.links[k].from, g.links[k].to>>
        BY <1>2, <2>3, <3>2
      <4> QED BY <2>1, <4>1
    <3> QED BY <3>1, <3>2
  <2> QED BY <2>1, <2>2, <2>3
<1> QED BY <1>5, <1>6 DEF h

LEMMA GenesPut ==
    ASSUME NEW g, IsGraph(g), NEW layers, NEW links,
           \A k \in DOMAIN links : IsLink(links[k])
    PROVE  LET h == PutLinks(PutLayers(g, layers), links)
           IN  /\ IsGraph(h)
               /\ \A p \in GenesOf(h) :
                    \/ p \in GenesOf(g)
                    \/ \E n \in DOMAIN layers : p = <<n, "layer">>
                    \/ \E k \in DOMAIN links : p = <<k, "link", links[k].from, links[k].to>>
<1> DEFINE u == PutLayers(g, layers)
<1>1. /\ IsGraph(u)
      /\ \A p \in GenesOf(u) :
           p \in GenesOf(g) \/ \E n \in DOMAIN layers : p = <<n, "layer">>
  BY LayersPut
<1> HIDE DEF u
<1>2. LET h == PutLinks(u, links)
      IN  /\ IsGraph(h)
          /\ \A p \in GenesOf(h) :
               \/ p \in GenesOf(u)
               \/ \E k \in DOMAIN links : p = <<k, "link", links[k].from, links[k].to>>
  BY <1>1, LinksPut
<1> QED BY <1>1, <1>2 DEF u

LEMMA RegistryGrows ==
    ASSUME NEW seen, \E T : seen \in Seq(T), NEW marks, Len(marks) \in Nat
    PROVE  LET more == Obtained(seen, marks)
           IN  /\ \E T : more \in Seq(T)
               /\ Longer(seen, more)
               /\ \A j \in 1 .. Len(marks) :
                    /\ Number(more, marks[j]) \in DOMAIN more
                    /\ more[Number(more, marks[j])] = marks[j]
<1>1. PICK T : seen \in Seq(T)
  OBVIOUS
<1>2. /\ \E U : Obtained(seen, marks) \in Seq(U)
      /\ Longer(seen, Obtained(seen, marks))
      /\ \A j \in 1 .. Len(marks) : marks[j] \in ToSet(Obtained(seen, marks))
  BY <1>1, ObtainAll
<1> QED BY <1>2, NumberIsOfTheMark

LEMMA OneMark ==
    ASSUME NEW seen, \E T : seen \in Seq(T), NEW mark
    PROVE  LET more == Obtained(seen, <<mark>>)
           IN  /\ \E T : more \in Seq(T)
               /\ Longer(seen, more)
               /\ Number(more, mark) \in DOMAIN more /\ more[Number(more, mark)] = mark
<1> DEFINE marks == <<mark>>
<1>1. Len(marks) \in Nat /\ 1 \in 1 .. Len(marks) /\ marks[1] = mark
  OBVIOUS
<1> HIDE DEF marks
<1>2. LET more == Obtained(seen, marks)
      IN  /\ \E T : more \in Seq(T)
          /\ Longer(seen, more)
          /\ Number(more, marks[1]) \in DOMAIN more /\ more[Number(more, marks[1])] = marks[1]
  BY <1>1, RegistryGrows
<1> QED BY <1>1, <1>2 DEF marks

\* Turning a link or a layer on or off, and changing a layer, keeps the genes.
LEMMA LinkChanged ==
    ASSUME NEW g, IsGraph(g), NEW k, NEW b
    PROVE  LET h == [g EXCEPT !.links[k].on = b]
           IN  IsGraph(h) /\ GenesOf(h) = GenesOf(g)
<1> DEFINE l == [g.links EXCEPT ![k].on = b]
           h == [g EXCEPT !.links = l]
<1>1. \A j \in DOMAIN g.links : IsLink(l[j]) /\ l[j].from = g.links[j].from /\ l[j].to = g.links[j].to
  <2> SUFFICES ASSUME NEW j \in DOMAIN g.links
               PROVE  IsLink(l[j]) /\ l[j].from = g.links[j].from /\ l[j].to = g.links[j].to
    OBVIOUS
  <2>1. IsLink(g.links[j])
    BY DEF IsGraph
  <2>2. l[j] = IF j = k THEN [g.links[j] EXCEPT !.on = b] ELSE g.links[j]
    OBVIOUS
  <2> HIDE DEF l
  <2>3. CASE j = k
    <3> DEFINE o == g.links[j]
    <3>1. l[j] = [o EXCEPT !.on = b] /\ IsLink(o)
      BY <2>1, <2>2, <2>3
    <3> HIDE DEF o
    <3>2. l[j] = [from |-> o.from, to |-> o.to, on |-> b, gated |-> o.gated]
      BY <3>1 DEF IsLink
    <3>3. IsLink(l[j]) /\ l[j].from = o.from /\ l[j].to = o.to
      BY <3>2 DEF IsLink
    <3> QED BY <3>3 DEF o
  <2>4. CASE j # k
    BY <2>1, <2>2, <2>4
  <2> QED BY <2>3, <2>4
<1>2. DOMAIN l = DOMAIN g.links
  OBVIOUS
<1>3. [g EXCEPT !.links[k].on = b] = h
  OBVIOUS
<1> HIDE DEF l
<1>4. h = [layers |-> g.layers, links |-> l, out |-> g.out,
           experts |-> g.experts, top |-> g.top, twice |-> g.twice]
  BY DEF IsGraph
<1> HIDE DEF h
<1>5. h.links = l /\ h.layers = g.layers /\ h.experts = g.experts
  BY <1>4
<1>6. IsGraph(h)
  BY <1>1, <1>2, <1>4 DEF IsGraph
<1>7. {<<j, "link", h.links[j].from, h.links[j].to>> : j \in DOMAIN h.links}
      = {<<j, "link", g.links[j].from, g.links[j].to>> : j \in DOMAIN g.links}
  BY <1>1, <1>2, <1>5
<1>8. GenesOf(h) = GenesOf(g)
  BY <1>5, <1>7 DEF GenesOf
<1> QED BY <1>3, <1>6, <1>8

LEMMA LayersChanged ==
    ASSUME NEW g, IsGraph(g), NEW layers, DOMAIN layers = DOMAIN g.layers
    PROVE  LET h == [g EXCEPT !.layers = layers]
           IN  IsGraph(h) /\ GenesOf(h) = GenesOf(g)
<1> DEFINE h == [g EXCEPT !.layers = layers]
<1>1. h = [layers |-> layers, links |-> g.links, out |-> g.out,
           experts |-> g.experts, top |-> g.top, twice |-> g.twice]
  BY DEF IsGraph
<1> HIDE DEF h
<1>2. h.links = g.links /\ h.layers = layers /\ h.experts = g.experts
  BY <1>1
<1>3. IsGraph(h)
  BY <1>1, <1>2 DEF IsGraph
<1>4. GenesOf(h) = GenesOf(g)
  BY <1>2 DEF GenesOf
<1> QED BY <1>3, <1>4 DEF h

LEMMA InsertingKeeps ==
    ASSUME GraphInv, NEW i \in 1 .. 2, NEW kind \in {"split", "branch"}, InsertLayer(i, kind)
    PROVE  GraphInv'
<1> DEFINE g == graphs[i]
           one(k) == Obtained(registry, <<<<kind, k, g>>>>)
           n(k) == Number(one(k), <<kind, k, g>>)
           seen(k) == Obtained(one(k), EndMarks(n(k), k))
           stem(k, c) == IF kind = "split" THEN [g EXCEPT !.links[k].on = FALSE]
                         ELSE [g EXCEPT !.layers[g.links[k].to].ref = c]
           at(k, j) == Number(seen(k), EndMarks(n(k), k)[j])
           tails(k) == [l \in {at(k, 1), at(k, 2)} |->
                          IF l = at(k, 1) THEN Link(g.links[k].from, n(k), FALSE)
                          ELSE Link(n(k), g.links[k].to, kind = "branch")]
<1>1. \E k \in LiveLinks(g) : \E c, x :
        Propose(i, PutLinks(PutLayers(stem(k, c), [m \in {n(k)} |-> x]), tails(k)), seen(k))
  BY ZenonT(40) DEF InsertLayer
<1>A. PICK k \in LiveLinks(g) : \E c, x :
        Propose(i, PutLinks(PutLayers(stem(k, c), [m \in {n(k)} |-> x]), tails(k)), seen(k))
  BY <1>1, Zenon
<1>2. PICK c, x :
        Propose(i, PutLinks(PutLayers(stem(k, c), [m \in {n(k)} |-> x]), tails(k)), seen(k))
  BY <1>A, Zenon
<1>3. IsGraph(g) /\ GenesOf(g) \subseteq named /\ \E T : registry \in Seq(T)
  BY DEF GraphInv
<1>4. /\ \E T : one(k) \in Seq(T)
      /\ Longer(registry, one(k))
      /\ n(k) \in DOMAIN one(k) /\ one(k)[n(k)] = <<kind, k, g>>
  <2> DEFINE mark == <<kind, k, g>>
  <2> HIDE DEF mark
  <2> USE <1>3
  <2>1. LET more == Obtained(registry, <<mark>>)
        IN  /\ \E T : more \in Seq(T)
            /\ Longer(registry, more)
            /\ Number(more, mark) \in DOMAIN more /\ more[Number(more, mark)] = mark
    BY OneMark
  <2> QED BY <2>1 DEF mark
<1>5. /\ \E T : seen(k) \in Seq(T)
      /\ Longer(one(k), seen(k))
      /\ at(k, 1) \in DOMAIN seen(k) /\ seen(k)[at(k, 1)] = <<"in", n(k)>>
      /\ at(k, 2) \in DOMAIN seen(k) /\ seen(k)[at(k, 2)] = <<"out", n(k)>>
  <2> DEFINE marks == EndMarks(n(k), k)
  <2> HIDE DEF one, n
  <2>1. /\ Len(marks) \in Nat /\ 1 \in 1 .. Len(marks) /\ 2 \in 1 .. Len(marks)
        /\ marks[1] = <<"in", n(k)>> /\ marks[2] = <<"out", n(k)>>
    BY DEF EndMarks
  <2> HIDE DEF marks
  <2>2. LET more == Obtained(one(k), marks)
        IN  /\ \E T : more \in Seq(T)
            /\ Longer(one(k), more)
            /\ \A j \in 1 .. Len(marks) :
                    /\ Number(more, marks[j]) \in DOMAIN more
                    /\ more[Number(more, marks[j])] = marks[j]
    BY <1>4, <2>1, RegistryGrows
  <2> QED BY <2>1, <2>2 DEF marks
<1> DEFINE m == n(k)
           more == seen(k)
           s == g.links[k].from
           t == g.links[k].to
<1>6. /\ m \in DOMAIN more /\ more[m] = <<kind, k, g>>
      /\ Longer(registry, more)
  <2> HIDE DEF one, n, seen
  <2> QED BY <1>4, <1>5, LongerIsTransitive DEF Longer
<1>7. MeansLayer(more, m) /\ OldLink(more, m) = g.links[k]
  <2> HIDE DEF m, more, g
  <2> QED BY <1>6 DEF MeansLayer, OldLink
<1>8. MeansLink(more, at(k, 1), s, m) /\ MeansLink(more, at(k, 2), m, t)
  <2> HIDE DEF n, seen, at, g
  <2> QED BY <1>5, <1>6, <1>7 DEF MeansLink
<1>9. IsGraph(stem(k, c)) /\ GenesOf(stem(k, c)) = GenesOf(g)
  <2> HIDE DEF g
  <2>1. CASE kind = "split"
    BY <1>3, <2>1, LinkChanged
  <2>2. CASE kind # "split"
    <3> DEFINE layers == [g.layers EXCEPT ![g.links[k].to].ref = c]
    <3>1. DOMAIN layers = DOMAIN g.layers
      OBVIOUS
    <3>2. stem(k, c) = [g EXCEPT !.layers = layers]
      BY <2>2
    <3> HIDE DEF layers, stem
    <3> QED BY <1>3, <3>1, <3>2, LayersChanged
  <2> QED BY <2>1, <2>2
<1> DEFINE root == stem(k, c)
           layers == [l \in {m} |-> x]
           h == PutLinks(PutLayers(root, layers), tails(k))
<1>10. /\ DOMAIN tails(k) = {at(k, 1), at(k, 2)}
       /\ \A l \in DOMAIN tails(k) :
            /\ IsLink(tails(k)[l])
            /\ MeansLink(more, l, tails(k)[l].from, tails(k)[l].to)
  <2> DEFINE a == Link(s, m, FALSE)
             b == Link(m, t, kind = "branch")
  <2>1. /\ IsLink(a) /\ a.from = s /\ a.to = m
        /\ IsLink(b) /\ b.from = m /\ b.to = t
    BY DEF Link, IsLink
  <2>2. /\ DOMAIN tails(k) = {at(k, 1), at(k, 2)}
        /\ \A l \in DOMAIN tails(k) : tails(k)[l] = IF l = at(k, 1) THEN a ELSE b
    <3> HIDE DEF n, at, g
    <3> QED BY Zenon
  <2> HIDE DEF a, b, n, at, tails, g, seen
  <2> QED BY <1>8, <2>1, <2>2
<1>11. DOMAIN layers = {m}
  OBVIOUS
<1>12. IsGraph(h) /\ \A p \in GenesOf(h) : p \in GenesOf(g) \/ Means(more, p)
  <2> HIDE DEF m, more, layers, tails, root
  <2>1. /\ IsGraph(h)
        /\ \A p \in GenesOf(h) :
             \/ p \in GenesOf(root)
             \/ \E l \in DOMAIN layers : p = <<l, "layer">>
             \/ \E l \in DOMAIN tails(k) : p = <<l, "link", tails(k)[l].from, tails(k)[l].to>>
    <3>1. IsGraph(root) /\ \A l \in DOMAIN tails(k) : IsLink(tails(k)[l])
      BY <1>9, <1>10, Zenon DEF root
    <3> DEFINE u == tails(k)
    <3> HIDE DEF u
    <3>2. \A l \in DOMAIN u : IsLink(u[l])
      BY <3>1 DEF u
    <3>3. LET w == PutLinks(PutLayers(root, layers), u)
           IN  /\ IsGraph(w)
               /\ \A p \in GenesOf(w) :
                    \/ p \in GenesOf(root)
                    \/ \E l \in DOMAIN layers : p = <<l, "layer">>
                    \/ \E l \in DOMAIN u : p = <<l, "link", u[l].from, u[l].to>>
      BY <3>1, <3>2, GenesPut, SMTT(30)
    <3> QED BY <3>3, SMTT(30) DEF u
  <2>2. GenesOf(root) = GenesOf(g)
    BY <1>9, SMTT(30) DEF root
  <2> HIDE DEF h
  <2> QED BY <1>7, <1>10, <1>11, <2>1, <2>2, Zenon DEF Means
<1>13. Propose(i, h, more) /\ \E T : more \in Seq(T)
  BY <1>2, <1>5
<1> HIDE DEF h, more
<1> QED BY <1>3, <1>6, <1>12, <1>13, ProposingKeeps DEF g

LEMMA SkippingKeeps ==
    ASSUME GraphInv, NEW i \in 1 .. 2, SkipLink(i)
    PROVE  GraphInv'
<1> DEFINE g == graphs[i]
           seen(s, t) == Obtained(registry, <<SkipMark(s, t)>>)
           at(s, t) == Number(seen(s, t), SkipMark(s, t))
<1>1. PICK s, t :
        Propose(i, PutLinks(g, [k \in {at(s, t)} |-> Link(s, t, FALSE)]), seen(s, t))
  BY Zenon DEF SkipLink
<1>2. IsGraph(g) /\ GenesOf(g) \subseteq named /\ \E T : registry \in Seq(T)
  BY DEF GraphInv
<1> DEFINE more == seen(s, t)
           k == at(s, t)
           links == [l \in {k} |-> Link(s, t, FALSE)]
           h == PutLinks(g, links)
<1>3. /\ \E T : more \in Seq(T)
      /\ Longer(registry, more)
      /\ k \in DOMAIN more /\ more[k] = <<"edge", s, t>>
  <2> DEFINE mark == SkipMark(s, t)
  <2>1. mark = <<"edge", s, t>>
    BY DEF SkipMark
  <2> HIDE DEF mark
  <2>2. LET now == Obtained(registry, <<mark>>)
        IN  /\ \E T : now \in Seq(T)
            /\ Longer(registry, now)
            /\ Number(now, mark) \in DOMAIN now /\ now[Number(now, mark)] = mark
    BY <1>2, OneMark
  <2>3. more = Obtained(registry, <<mark>>) /\ k = Number(more, mark)
    BY DEF mark
  <2> HIDE DEF more, k
  <2> QED BY <2>1, <2>2, <2>3
<1>4. Propose(i, h, more)
  BY <1>1
<1> HIDE DEF more, k
<1>5. MeansLink(more, k, s, t)
  BY <1>3 DEF MeansLink
<1>6. /\ IsLink(Link(s, t, FALSE))
      /\ Link(s, t, FALSE).from = s /\ Link(s, t, FALSE).to = t
  BY DEF Link, IsLink
<1>7. DOMAIN links = {k} /\ \A l \in DOMAIN links : links[l] = Link(s, t, FALSE)
  OBVIOUS
<1>8. /\ IsGraph(h)
      /\ \A p \in GenesOf(h) : p \in GenesOf(g) \/ p = <<k, "link", s, t>>
  <2>1. \A l \in DOMAIN links : IsLink(links[l])
    BY <1>6, <1>7
  <2> HIDE DEF g, links
  <2>2. LET w == PutLinks(g, links)
        IN  /\ IsGraph(w)
            /\ \A p \in GenesOf(w) :
                 \/ p \in GenesOf(g)
                 \/ \E l \in DOMAIN links : p = <<l, "link", links[l].from, links[l].to>>
    BY <1>2, <2>1, LinksPut
  <2>3. \A l \in DOMAIN links : l = k /\ links[l].from = s /\ links[l].to = t
    BY <1>6, <1>7
  <2> QED BY <2>2, <2>3
<1>9. \A p \in GenesOf(h) : p \in named \/ Means(more, p)
  <2>1. Means(more, <<k, "link", s, t>>)
    BY <1>5, Zenon DEF Means
  <2> HIDE DEF h, g
  <2> QED BY <1>2, <1>8, <2>1
<1> HIDE DEF h
<1> QED BY <1>3, <1>4, <1>8, <1>9, ProposingKeeps

LEMMA TogglingKeeps ==
    ASSUME GraphInv, NEW i \in 1 .. 2, Toggle(i)
    PROVE  GraphInv'
<1> DEFINE g == graphs[i]
<1>1. \E h : /\ \/ \E k \in DOMAIN g.links : h = [g EXCEPT !.links[k].on = ~@]
                \/ \E n \in DOMAIN g.layers : h = [g EXCEPT !.layers[n].on = ~@]
             /\ Propose(i, h, registry)
  BY Zenon DEF Toggle
<1>2. IsGraph(g)
  BY DEF GraphInv
<1>3. ASSUME NEW k \in DOMAIN g.links, NEW h, h = [g EXCEPT !.links[k].on = ~@],
             Propose(i, h, registry)
      PROVE  GraphInv'
  <2> DEFINE b == ~(g.links[k].on)
  <2>1. h = [g EXCEPT !.links[k].on = b]
    BY <1>3, Zenon
  <2> HIDE DEF b
  <2>2. IsGraph(h) /\ GenesOf(h) = GenesOf(g)
    <3> HIDE DEF g
    <3> QED BY <1>2, <2>1, LinkChanged
  <2> QED BY <1>3, <2>2, NoNewGene
<1>4. ASSUME NEW n \in DOMAIN g.layers, NEW h, h = [g EXCEPT !.layers[n].on = ~@],
             Propose(i, h, registry)
      PROVE  GraphInv'
  <2> DEFINE layers == [g.layers EXCEPT ![n].on = ~@]
  <2>1. h = [g EXCEPT !.layers = layers] /\ DOMAIN layers = DOMAIN g.layers
    BY <1>4
  <2> HIDE DEF layers
  <2>2. IsGraph(h) /\ GenesOf(h) = GenesOf(g)
    <3> HIDE DEF g
    <3> QED BY <1>2, <2>1, LayersChanged
  <2> QED BY <1>4, <2>2, NoNewGene
<1> QED BY <1>1, <1>3, <1>4

LEMMA RetypingKeeps ==
    ASSUME GraphInv, NEW i \in 1 .. 2, Retype(i)
    PROVE  GraphInv'
<1> DEFINE g == graphs[i]
<1>1. \E n : \E h : /\ \/ h = [g EXCEPT !.layers[n].spatial = ~@, !.layers[n].conv = FALSE]
                       \/ h = [g EXCEPT !.layers[n].conv = TRUE]
                       \/ h = [g EXCEPT !.layers[n].ref = 0]
                    /\ Propose(i, h, registry)
  BY Zenon DEF Retype
<1>2. PICK n, h : /\ \/ h = [g EXCEPT !.layers[n].spatial = ~@, !.layers[n].conv = FALSE]
                     \/ h = [g EXCEPT !.layers[n].conv = TRUE]
                     \/ h = [g EXCEPT !.layers[n].ref = 0]
                  /\ Propose(i, h, registry)
  BY <1>1, Zenon
<1>3. IsGraph(g)
  BY DEF GraphInv
<1>4. ASSUME NEW layers, DOMAIN layers = DOMAIN g.layers, h = [g EXCEPT !.layers = layers]
      PROVE  GraphInv'
  <2>1. IsGraph(h) /\ GenesOf(h) = GenesOf(g)
    <3> HIDE DEF g
    <3> QED BY <1>3, <1>4, LayersChanged
  <2> QED BY <1>2, <2>1, NoNewGene
<1>5. CASE h = [g EXCEPT !.layers[n].spatial = ~@, !.layers[n].conv = FALSE]
  <2> DEFINE once == [g.layers EXCEPT ![n].spatial = ~@]
             u == [g EXCEPT !.layers = once]
             twice == [once EXCEPT ![n].conv = FALSE]
  <2>1. DOMAIN twice = DOMAIN g.layers
    OBVIOUS
  <2>2. h = [u EXCEPT !.layers[n].conv = FALSE]
    BY <1>5, Zenon
  <2>3. u.layers = once
    BY <1>3 DEF IsGraph
  <2>4. h = [u EXCEPT !.layers = twice]
    <3> HIDE DEF u, once
    <3> QED BY <2>2, <2>3
  <2>5. [u EXCEPT !.layers = twice] = [g EXCEPT !.layers = twice]
    <3> HIDE DEF once, twice
    <3>1. u = [layers |-> once, links |-> g.links, out |-> g.out,
               experts |-> g.experts, top |-> g.top, twice |-> g.twice]
      BY <1>3 DEF IsGraph
    <3> HIDE DEF u
    <3>2. u.links = g.links /\ u.out = g.out /\ u.experts = g.experts
          /\ u.top = g.top /\ u.twice = g.twice
      BY <3>1
    <3>3. [u EXCEPT !.layers = twice] =
             [layers |-> twice, links |-> u.links, out |-> u.out,
              experts |-> u.experts, top |-> u.top, twice |-> u.twice]
      BY <3>1
    <3>4. [g EXCEPT !.layers = twice] =
             [layers |-> twice, links |-> g.links, out |-> g.out,
              experts |-> g.experts, top |-> g.top, twice |-> g.twice]
      BY <1>3 DEF IsGraph
    <3> QED BY <3>2, <3>3, <3>4
  <2> HIDE DEF twice
  <2> QED BY <1>4, <2>1, <2>4, <2>5
<1>6. CASE h = [g EXCEPT !.layers[n].conv = TRUE]
  <2> DEFINE layers == [g.layers EXCEPT ![n].conv = TRUE]
  <2>1. h = [g EXCEPT !.layers = layers] /\ DOMAIN layers = DOMAIN g.layers
    BY <1>6
  <2> HIDE DEF layers
  <2> QED BY <1>4, <2>1
<1>7. CASE h = [g EXCEPT !.layers[n].ref = 0]
  <2> DEFINE layers == [g.layers EXCEPT ![n].ref = 0]
  <2>1. h = [g EXCEPT !.layers = layers] /\ DOMAIN layers = DOMAIN g.layers
    BY <1>7
  <2> HIDE DEF layers
  <2> QED BY <1>4, <2>1
<1> QED BY <1>2, <1>5, <1>6, <1>7

Respecialised(g, h, experts) ==
  /\ IsGraph(h)
  /\ \A p \in GenesOf(h) : p \in GenesOf(g) \/ \E e \in experts : p = <<e, "expert">>

LEMMA ExpertsSet ==
    ASSUME NEW g, IsGraph(g), NEW experts, NEW twice, NEW top
    PROVE  Respecialised(g, [layers |-> g.layers, links |-> g.links, out |-> g.out,
                             experts |-> experts, top |-> top, twice |-> twice], experts)
<1> DEFINE h == [layers |-> g.layers, links |-> g.links, out |-> g.out,
                 experts |-> experts, top |-> top, twice |-> twice]
<1>1. h.layers = g.layers /\ h.links = g.links /\ h.experts = experts
  OBVIOUS
<1>2. IsGraph(h)
  BY DEF IsGraph
<1> HIDE DEF h
<1>3. ASSUME NEW p \in GenesOf(h)
      PROVE  p \in GenesOf(g) \/ \E e \in experts : p = <<e, "expert">>
  <2> DEFINE joins == {<<k, "link", g.links[k].from, g.links[k].to>> : k \in DOMAIN g.links}
  <2>1. /\ GenesOf(h) = {<<n, "layer">> : n \in DOMAIN g.layers} \cup joins
                         \cup {<<e, "expert">> : e \in experts}
        /\ GenesOf(g) = {<<n, "layer">> : n \in DOMAIN g.layers} \cup joins
                         \cup {<<e, "expert">> : e \in g.experts}
    BY <1>1 DEF GenesOf
  <2> HIDE DEF joins
  <2> QED BY <2>1
<1> QED BY <1>2, <1>3 DEF h, Respecialised

LEMMA ExpertsChanged ==
    ASSUME NEW g, IsGraph(g), NEW experts, NEW twice, NEW top
    PROVE  /\ Respecialised(g, [g EXCEPT !.experts = experts, !.twice = twice, !.top = top],
                            experts)
           /\ Respecialised(g, [g EXCEPT !.experts = experts, !.top = top], experts)
           /\ Respecialised(g, [g EXCEPT !.top = top], g.experts)
<1> DEFINE h == [layers |-> g.layers, links |-> g.links, out |-> g.out,
                 experts |-> experts, top |-> top, twice |-> twice]
           v == [g EXCEPT !.experts = experts]
           w == [v EXCEPT !.twice = twice]
<1>1. v = [layers |-> g.layers, links |-> g.links, out |-> g.out,
           experts |-> experts, top |-> g.top, twice |-> g.twice]
  BY DEF IsGraph
<1>2. /\ [g EXCEPT !.experts = experts, !.twice = twice, !.top = top] = [w EXCEPT !.top = top]
      /\ [g EXCEPT !.experts = experts, !.top = top] = [v EXCEPT !.top = top]
  BY Zenon
<1> HIDE DEF v
<1>3. w = [layers |-> v.layers, links |-> v.links, out |-> v.out,
           experts |-> v.experts, top |-> v.top, twice |-> twice]
  BY <1>1
<1>4. /\ v.layers = g.layers /\ v.links = g.links /\ v.out = g.out
      /\ v.experts = experts /\ v.top = g.top /\ v.twice = g.twice
  BY <1>1
<1> HIDE DEF w
<1>5. w = [layers |-> g.layers, links |-> g.links, out |-> g.out,
           experts |-> experts, top |-> g.top, twice |-> twice]
  BY <1>3, <1>4
<1>6. /\ w.layers = g.layers /\ w.links = g.links /\ w.out = g.out
      /\ w.experts = experts /\ w.top = g.top /\ w.twice = twice
  BY <1>5
<1>7. [w EXCEPT !.top = top] = [layers |-> w.layers, links |-> w.links, out |-> w.out,
           experts |-> w.experts, top |-> top, twice |-> w.twice]
  BY <1>5
<1>8. [v EXCEPT !.top = top] = [layers |-> v.layers, links |-> v.links, out |-> v.out,
           experts |-> v.experts, top |-> top, twice |-> v.twice]
  BY <1>1
<1>9. [g EXCEPT !.top = top] = [layers |-> g.layers, links |-> g.links, out |-> g.out,
           experts |-> g.experts, top |-> top, twice |-> g.twice]
  BY DEF IsGraph
<1>10. [g EXCEPT !.experts = experts, !.twice = twice, !.top = top] = h
  BY <1>2, <1>6, <1>7
<1>11. [g EXCEPT !.experts = experts, !.top = top] =
         [layers |-> g.layers, links |-> g.links, out |-> g.out,
          experts |-> experts, top |-> top, twice |-> g.twice]
  BY <1>2, <1>4, <1>8
<1> HIDE DEF h
<1>12. Respecialised(g, h, experts)
  BY ExpertsSet DEF h
<1>13. Respecialised(g, [layers |-> g.layers, links |-> g.links, out |-> g.out,
                         experts |-> experts, top |-> top, twice |-> g.twice], experts)
  BY ExpertsSet
<1>14. Respecialised(g, [layers |-> g.layers, links |-> g.links, out |-> g.out,
                         experts |-> g.experts, top |-> top, twice |-> g.twice], g.experts)
  BY ExpertsSet
<1> QED BY <1>9, <1>10, <1>11, <1>12, <1>13, <1>14, Zenon

LEMMA SpecialisingKeeps ==
    ASSUME GraphInv, NEW i \in 1 .. 2, Specialise(i)
    PROVE  GraphInv'
<1> DEFINE g == graphs[i]
           mark == <<"expert", g>>
           seen == Obtained(registry, <<mark>>)
           e == Number(seen, mark)
<1>1. \/ \E x, y : Propose(i, [g EXCEPT !.experts = @ \cup {e}, !.twice = x, !.top = y], seen)
      \/ \E d, y : Propose(i, [g EXCEPT !.experts = @ \ {d}, !.top = y], registry)
      \/ \E y : Propose(i, [g EXCEPT !.top = y], registry)
  BY Zenon DEF Specialise
<1>2. IsGraph(g) /\ GenesOf(g) \subseteq named /\ \E T : registry \in Seq(T)
  BY DEF GraphInv
<1>3. /\ \E T : seen \in Seq(T)
      /\ Longer(registry, seen)
      /\ e \in DOMAIN seen /\ seen[e] = <<"expert", g>>
  <2> DEFINE m == mark
  <2>1. m = <<"expert", g>>
    OBVIOUS
  <2> HIDE DEF m
  <2>2. LET more == Obtained(registry, <<m>>)
        IN  /\ \E T : more \in Seq(T)
            /\ Longer(registry, more)
            /\ Number(more, m) \in DOMAIN more /\ more[Number(more, m)] = m
    BY <1>2, OneMark
  <2> QED BY <2>1, <2>2 DEF m
<1>4. \A p \in {<<x, "expert">> : x \in g.experts} : p \in GenesOf(g)
  BY Zenon DEF GenesOf
<1>5. ASSUME NEW x, NEW y, Propose(i, [g EXCEPT !.experts = @ \cup {e}, !.twice = x, !.top = y], seen)
      PROVE  GraphInv'
  <2> DEFINE experts == g.experts \cup {e}
             h == [g EXCEPT !.experts = experts, !.twice = x, !.top = y]
  <2>1. Propose(i, h, seen)
    BY <1>5, Zenon
  <2>2. Means(seen, <<e, "expert">>)
    <3> HIDE DEF e, seen
    <3> QED BY <1>3, SMTT(30) DEF Means, MeansExpert
  <2>3. Respecialised(g, h, experts)
    <3> HIDE DEF g, experts
    <3> QED BY <1>2, ExpertsChanged
  <2>4. \A n \in experts : n \in g.experts \/ n = e
    OBVIOUS
  <2> HIDE DEF h, e, seen, experts
  <2>5. \A p \in GenesOf(h) : p \in named \/ Means(seen, p)
    BY <1>2, <1>4, <2>2, <2>3, <2>4 DEF Respecialised
  <2>6. IsGraph(h)
    BY <2>3 DEF Respecialised
  <2> QED BY <1>3, <2>1, <2>5, <2>6, ProposingKeeps
<1>6. ASSUME NEW d, NEW y, Propose(i, [g EXCEPT !.experts = @ \ {d}, !.top = y], registry)
      PROVE  GraphInv'
  <2> DEFINE experts == g.experts \ {d}
             h == [g EXCEPT !.experts = experts, !.top = y]
  <2>1. Propose(i, h, registry)
    BY <1>6, ZenonT(40)
  <2>2. Respecialised(g, h, experts)
    <3> HIDE DEF g, experts
    <3> QED BY <1>2, ExpertsChanged
  <2>3. \A n \in experts : n \in g.experts
    OBVIOUS
  <2>4. GenesOf(h) \subseteq GenesOf(g)
    <3> HIDE DEF h, experts
    <3> QED BY <1>4, <2>2, <2>3 DEF Respecialised
  <2>5. IsGraph(h)
    BY <2>2 DEF Respecialised
  <2> HIDE DEF h
  <2> QED BY <2>1, <2>4, <2>5, NoNewGene
<1>7. ASSUME NEW y, Propose(i, [g EXCEPT !.top = y], registry)
      PROVE  GraphInv'
  <2> DEFINE h == [g EXCEPT !.top = y]
  <2>1. Respecialised(g, h, g.experts)
    <3> HIDE DEF g
    <3> QED BY <1>2, ExpertsChanged
  <2>2. GenesOf(h) \subseteq GenesOf(g)
    <3> HIDE DEF h
    <3> QED BY <1>4, <2>1 DEF Respecialised
  <2>3. IsGraph(h)
    BY <2>1 DEF Respecialised
  <2>4. Propose(i, h, registry)
    BY <1>7
  <2> HIDE DEF h
  <2> QED BY <2>2, <2>3, <2>4, NoNewGene, SMTT(30)
<1> HIDE DEF e, seen, g
<1> QED BY <1>1, <1>5, <1>6, <1>7

LEMMA Tabled ==
    ASSUME NEW n \in Nat, NEW s, s = [j \in 1 .. n |-> s[j]]
    PROVE  Len(s) = n
<1>1. s \in Seq({s[j] : j \in 1 .. n})
  OBVIOUS
<1>2. DOMAIN s = 1 .. Len(s) /\ DOMAIN s = 1 .. n /\ Len(s) \in Nat
  BY <1>1
<1> HIDE <1>1
<1> QED BY <1>2

LEMMA GenesAreNumbered ==
    ASSUME GraphInv, NEW i \in 1 .. 2
    PROVE  /\ IsFiniteSet(Active(graphs[i])) /\ Cardinality(Active(graphs[i])) \in Nat
           /\ IsFiniteSet(LiveLinks(graphs[i])) /\ Cardinality(LiveLinks(graphs[i])) \in Nat
<1> DEFINE g == graphs[i]
<1>1. PICK T : registry \in Seq(T)
  BY DEF GraphInv
<1>2. DOMAIN registry = 1 .. Len(registry) /\ Len(registry) \in Nat
  BY <1>1
<1>3. IsFiniteSet(DOMAIN registry)
  BY <1>2, FS_Interval
<1>4. ASSUME NEW p \in GenesOf(g) PROVE p[1] \in DOMAIN registry
  <2>1. Means(registry, p)
    BY <1>4 DEF GraphInv
  <2> QED BY <2>1 DEF Means, MeansLayer, MeansLink, MeansExpert
<1>5. Active(g) \subseteq DOMAIN registry
  <2> SUFFICES ASSUME NEW n \in Active(g) PROVE n \in DOMAIN registry
    OBVIOUS
  <2> HIDE DEF g
  <2>1. n \in DOMAIN g.layers
    BY DEF Active, LayersOn
  <2>2. <<n, "layer">> \in GenesOf(g)
    BY <2>1, Zenon DEF GenesOf
  <2>3. <<n, "layer">>[1] = n
    OBVIOUS
  <2> QED BY <1>4, <2>2, <2>3
<1>6. LiveLinks(g) \subseteq DOMAIN registry
  <2> SUFFICES ASSUME NEW k \in LiveLinks(g) PROVE k \in DOMAIN registry
    OBVIOUS
  <2> HIDE DEF g
  <2>1. k \in DOMAIN g.links
    BY DEF LiveLinks
  <2> DEFINE p == <<k, "link", g.links[k].from, g.links[k].to>>
  <2>2. p \in GenesOf(g)
    BY <2>1, Zenon DEF GenesOf
  <2>3. p[1] = k
    OBVIOUS
  <2> QED BY <1>4, <2>2, <2>3
<1> HIDE DEF g
<1>7. IsFiniteSet(Active(g)) /\ IsFiniteSet(LiveLinks(g))
  BY <1>3, <1>5, <1>6, FS_Subset
<1>8. Cardinality(Active(g)) \in Nat /\ Cardinality(LiveLinks(g)) \in Nat
  BY <1>7, FS_CardinalityType
<1> QED BY <1>7, <1>8 DEF g

LEMMA ImportingKeeps ==
    ASSUME GraphInv, NEW i \in 1 .. 2, Import(i)
    PROVE  GraphInv'
<1> DEFINE a == graphs[i]
           b == graphs[3 - i]
           donor == Listed(Active(b), LAMBDA x, y :
                      \/ b.layers[x].at < b.layers[y].at
                      \/ b.layers[x].at = b.layers[y].at /\ x < y)
           layerMark(n) == <<"cross", a, b, n>>
           layerMarks == [j \in 1 .. Len(donor) |-> layerMark(donor[j])]
           one == Obtained(registry, layerMarks)
           new(n) == IF n = Outside THEN Outside ELSE Number(one, layerMark(n))
           name(j) == Number(one, layerMark(donor[j]))
           taken == Listed(LiveLinks(b), <)
           linkMark(k) == <<"cross_edge", new(b.links[k].from), new(b.links[k].to)>>
           linkMarks == [j \in 1 .. Len(taken) |-> linkMark(taken[j])]
           exit == <<"cross_out", new(b.out), a.out>>
           two == Obtained(one, linkMarks)
           seen == Obtained(two, <<exit>>)
           number(j) == Number(seen, linkMark(taken[j]))
           link(k) == LET l == b.links[taken[CHOOSE j \in 1 .. Len(taken) : number(j) = k]]
                      IN  Link(new(l.from), new(l.to), l.gated)
           door == Number(seen, exit)
           links == [k \in {door} \cup {number(j) : j \in 1 .. Len(taken)} |->
                       IF k = door THEN Link(new(b.out), a.out, FALSE) ELSE link(k)]
           names == {name(j) : j \in 1 .. Len(donor)}
<1>1. \E layers : /\ DOMAIN layers = names
                  /\ Propose(i, PutLinks(PutLayers(a, layers), links), seen)
  <2> DEFINE place(j) == a.layers[a.out].at - Unit + (j * Unit) \div (Len(donor) + 1)
             layer(n) == LET j == CHOOSE j \in 1 .. Len(donor) : name(j) = n
                         IN  [b.layers[donor[j]] EXCEPT !.at = place(j)]
             layers == [n \in names |-> layer(n)]
  <2>1. Graft(i, donor, taken)
    BY Zenon DEF Import, LayersInOrder, LinksInOrder
  <2>2. Propose(i, PutLinks(PutLayers(a, layers), links), seen)
    BY <2>1, Zenon DEF Graft
  <2>3. DOMAIN layers = names
    BY Zenon
  <2> QED BY <2>2, <2>3, Zenon
<1>2. PICK layers : /\ DOMAIN layers = names
                    /\ Propose(i, PutLinks(PutLayers(a, layers), links), seen)
  BY <1>1, Zenon
<1>3. Len(donor) \in Nat /\ Len(taken) \in Nat
  <2>1. 3 - i \in 1 .. 2
    OBVIOUS
  <2>2. Cardinality(Active(b)) \in Nat /\ Cardinality(LiveLinks(b)) \in Nat
    BY <2>1, GenesAreNumbered
  <2> HIDE DEF b
  <2> QED BY <2>2 DEF Listed
<1>4. IsGraph(a) /\ GenesOf(a) \subseteq named /\ \E T : registry \in Seq(T)
  BY DEF GraphInv
<1>5. /\ \E T : one \in Seq(T)
      /\ Longer(registry, one)
      /\ \A j \in 1 .. Len(donor) :
           name(j) \in DOMAIN one /\ one[name(j)] = layerMark(donor[j])
  <2>a. /\ \A j \in 1 .. Len(donor) : layerMarks[j] = layerMark(donor[j])
        /\ layerMarks = [j \in 1 .. Len(donor) |-> layerMarks[j]]
    BY Zenon
  <2> HIDE DEF donor, layerMarks, layerMark
  <2>1. Len(layerMarks) = Len(donor) /\ \A j \in 1 .. Len(donor) : layerMarks[j] = layerMark(donor[j])
    BY <1>3, <2>a, Tabled
  <2>2. LET more == Obtained(registry, layerMarks)
        IN  /\ \E T : more \in Seq(T)
            /\ Longer(registry, more)
            /\ \A j \in 1 .. Len(layerMarks) :
                 /\ Number(more, layerMarks[j]) \in DOMAIN more
                 /\ more[Number(more, layerMarks[j])] = layerMarks[j]
    <3>1. Len(layerMarks) \in Nat
      BY <1>3, <2>1
    <3>2. \E T : registry \in Seq(T)
      BY <1>4
    <3> QED BY <3>1, <3>2, RegistryGrows
  <2> QED BY <2>1, <2>2
<1> HIDE DEF one
<1>6. /\ \E T : two \in Seq(T)
      /\ Longer(one, two)
      /\ \A j \in 1 .. Len(taken) :
           Number(two, linkMark(taken[j])) \in DOMAIN two
           /\ two[Number(two, linkMark(taken[j]))] = linkMark(taken[j])
  <2>a. /\ \A j \in 1 .. Len(taken) : linkMarks[j] = linkMark(taken[j])
        /\ linkMarks = [j \in 1 .. Len(taken) |-> linkMarks[j]]
    BY Zenon
  <2> HIDE DEF taken, linkMarks, linkMark
  <2>1. Len(linkMarks) = Len(taken) /\ \A j \in 1 .. Len(taken) : linkMarks[j] = linkMark(taken[j])
    BY <1>3, <2>a, Tabled
  <2>2. LET more == Obtained(one, linkMarks)
        IN  /\ \E T : more \in Seq(T)
            /\ Longer(one, more)
            /\ \A j \in 1 .. Len(linkMarks) :
                 /\ Number(more, linkMarks[j]) \in DOMAIN more
                 /\ more[Number(more, linkMarks[j])] = linkMarks[j]
    <3>1. Len(linkMarks) \in Nat
      BY <1>3, <2>1
    <3>2. \E T : one \in Seq(T)
      BY <1>5, Zenon
    <3> QED BY <3>1, <3>2, RegistryGrows
  <2> QED BY <2>1, <2>2
<1> HIDE DEF two
<1>7. /\ \E T : seen \in Seq(T)
      /\ Longer(two, seen)
      /\ door \in DOMAIN seen /\ seen[door] = exit
  <2> HIDE DEF exit
  <2>1. LET more == Obtained(two, <<exit>>)
        IN  /\ \E T : more \in Seq(T)
            /\ Longer(two, more)
            /\ Number(more, exit) \in DOMAIN more /\ more[Number(more, exit)] = exit
    BY <1>6, OneMark, Zenon
  <2> QED BY <2>1, SMTT(30)
<1>8. \A j \in 1 .. Len(taken) : number(j) \in DOMAIN seen /\ seen[number(j)] = linkMark(taken[j])
  <2> SUFFICES ASSUME NEW j \in 1 .. Len(taken)
               PROVE  number(j) \in DOMAIN seen /\ seen[number(j)] = linkMark(taken[j])
    BY Zenon
  <2> DEFINE mark == linkMark(taken[j])
  <2>1. Number(two, mark) \in DOMAIN two /\ two[Number(two, mark)] = mark
    BY <1>6, Zenon
  <2> HIDE DEF mark, seen
  <2>2. Number(two, mark) \in DOMAIN seen /\ seen[Number(two, mark)] = mark
    BY <1>7, <2>1 DEF Longer
  <2>3. mark \in ToSet(seen)
    BY <2>2 DEF ToSet
  <2>4. Number(seen, mark) \in DOMAIN seen /\ seen[Number(seen, mark)] = mark
    BY <2>3, NumberIsOfTheMark, ZenonT(40)
  <2> QED BY <2>4, Zenon DEF mark
<1>9. Longer(one, seen) /\ Longer(registry, seen)
  <2> HIDE DEF seen
  <2> QED BY <1>5, <1>6, <1>7, LongerIsTransitive, Zenon
<1> HIDE DEF seen, door
<1>10. ASSUME NEW n \in names PROVE MeansLayer(seen, n)
  <2>1. PICK j \in 1 .. Len(donor) : n = name(j)
    BY <1>10, Zenon
  <2> HIDE DEF donor, name, a, b
  <2>2. one[n][1] = "cross" /\ n \in DOMAIN one
    BY <1>5, <2>1
  <2> QED BY <1>9, <2>2 DEF MeansLayer, Longer
<1>11. \A s, t : /\ IsLink(Link(s, t, FALSE)) /\ Link(s, t, FALSE).from = s /\ Link(s, t, FALSE).to = t
  BY DEF Link, IsLink
<1>12. \A s, t, x : /\ IsLink(Link(s, t, x)) /\ Link(s, t, x).from = s /\ Link(s, t, x).to = t
  BY DEF Link, IsLink
<1>13. ASSUME NEW k \in DOMAIN links
       PROVE  IsLink(links[k]) /\ MeansLink(seen, k, links[k].from, links[k].to)
  <2>1. k = door \/ \E j \in 1 .. Len(taken) : number(j) = k
    BY <1>13, Zenon
  <2>2. links[k] = IF k = door THEN Link(new(b.out), a.out, FALSE) ELSE link(k)
    <3>1. k \in {door} \cup {number(j) : j \in 1 .. Len(taken)}
      BY <1>13, ZenonT(40)
    <3> HIDE DEF number, link, new, a, b, taken
    <3> QED BY <3>1
  <2>3. CASE k = door
    <3>1. links[k] = Link(new(b.out), a.out, FALSE)
      BY <2>2, <2>3, Zenon
    <3>2. seen[k][1] = "cross_out" /\ seen[k][2] = new(b.out) /\ seen[k][3] = a.out /\ k \in DOMAIN seen
      <4> HIDE DEF new, a, b
      <4> QED BY <1>7, <2>3
    <3> DEFINE s == new(b.out)
               t == a.out
               l == links[k]
    <3>3. l = Link(s, t, FALSE) /\ seen[k][2] = s /\ seen[k][3] = t
      BY <3>1, <3>2, ZenonT(40)
    <3> HIDE DEF s, t, l
    <3>4. IsLink(l) /\ l.from = s /\ l.to = t
      BY <1>11, <3>3, ZenonT(40)
    <3>5. MeansLink(seen, k, s, t)
      BY <3>2, <3>3, ZenonT(40) DEF MeansLink
    <3>6. IsLink(l) /\ MeansLink(seen, k, l.from, l.to)
      BY <3>4, <3>5, Zenon
    <3> QED BY <3>6, Zenon DEF l
  <2>4. CASE k # door
    <3> DEFINE j == CHOOSE j \in 1 .. Len(taken) : number(j) = k
               l == b.links[taken[j]]
    <3>1. j \in 1 .. Len(taken) /\ number(j) = k
      BY <2>1, <2>4, Zenon
    <3>2. links[k] = Link(new(l.from), new(l.to), l.gated)
      BY <2>2, <2>4, Zenon
    <3>3. k \in DOMAIN seen /\ seen[k] = <<"cross_edge", new(l.from), new(l.to)>>
      <4>1. seen[number(j)] = linkMark(taken[j]) /\ number(j) \in DOMAIN seen
        BY <1>8, <3>1, Zenon
      <4> QED BY <3>1, <4>1, Zenon
    <3> HIDE DEF l, j, links, new
    <3> QED BY <1>12, <3>2, <3>3 DEF MeansLink
  <2> QED BY <2>3, <2>4, Zenon
<1> DEFINE h == PutLinks(PutLayers(a, layers), links)
<1>14. IsGraph(h) /\ \A p \in GenesOf(h) : p \in named \/ Means(seen, p)
  <2>1. \A k \in DOMAIN links : IsLink(links[k])
    BY <1>13, Zenon
  <2>2. /\ \A n \in DOMAIN layers : MeansLayer(seen, n)
        /\ \A k \in DOMAIN links : MeansLink(seen, k, links[k].from, links[k].to)
    BY <1>2, <1>10, <1>13, Zenon
  <2> HIDE DEF a, links
  <2>3. LET w == PutLinks(PutLayers(a, layers), links)
        IN  /\ IsGraph(w)
            /\ \A p \in GenesOf(w) :
                 \/ p \in GenesOf(a)
                 \/ \E n \in DOMAIN layers : p = <<n, "layer">>
                 \/ \E k \in DOMAIN links : p = <<k, "link", links[k].from, links[k].to>>
    BY <1>4, <2>1, GenesPut
  <2> HIDE DEF h
  <2>4. ASSUME NEW p \in GenesOf(h) PROVE p \in named \/ Means(seen, p)
    <3>1. \/ p \in GenesOf(a)
          \/ \E n \in DOMAIN layers : p = <<n, "layer">>
          \/ \E k \in DOMAIN links : p = <<k, "link", links[k].from, links[k].to>>
      BY <2>3 DEF h
    <3> QED BY <1>4, <2>2, <3>1 DEF Means
  <2> QED BY <2>3, <2>4 DEF h
<1>15. Propose(i, h, seen)
  BY <1>2, Zenon
<1> HIDE DEF h
<1> QED BY <1>7, <1>9, <1>14, <1>15, ProposingKeeps

LEMMA GraphStepsKeep == GraphInv /\ [GraphNext]_graphVars => GraphInv'
<1> SUFFICES ASSUME GraphInv, [GraphNext]_graphVars PROVE GraphInv'
  OBVIOUS
<1>1. ASSUME NEW i \in 1 .. 2, Split(i) PROVE GraphInv'
  BY <1>1, InsertingKeeps DEF Split
<1>2. ASSUME NEW i \in 1 .. 2, Branch(i) PROVE GraphInv'
  BY <1>2, InsertingKeeps DEF Branch
<1>3. CASE UNCHANGED graphVars
  BY <1>3 DEF GraphInv, graphVars
<1> QED BY <1>1, <1>2, <1>3, SkippingKeeps, TogglingKeeps, RetypingKeeps,
           SpecialisingKeeps, ImportingKeeps DEF GraphNext

\* For all the edits of a run, however many and however large its genomes: a
\* number names one layer, one link with its two ends or one expert, whatever
\* genomes were edited or crossed in between (Innovations.obtain, and the
\* signatures of operators.py that search_v2.py inherit relies on).
THEOREM InnovationsKeepTheirMeaning == GraphSpec => []InnovationsMeanOneThing
<1>1. GraphInv => InnovationsMeanOneThing
  BY OneMeaning DEF GraphInv, InnovationsMeanOneThing
<1> QED BY <1>1, GraphsStartWell, GraphStepsKeep, PTL DEF GraphSpec

(***************************************************************************)
(* Blocks. The genomes of Prism agree with their family, and the tags that *)
(* identify their blocks are distinct, so that an edit can be followed from *)
(* the blocks before it to the blocks after it.                            *)
(***************************************************************************)

Blocks == [tag : Nat, skip : Nat \cup {NoSkip}]
Models == [family : {"mlp", "conv2d", "attention", "composite"},
           norm : {"none", "layer", "batch"},
           residual : BOOLEAN, pyramid : BOOLEAN, input_skip : BOOLEAN, pre_norm : BOOLEAN,
           width : Embeddings, heads : Heads, kv : Heads, rope : BOOLEAN,
           blocks : Seq(Blocks)]

\* The tags of a genome differ, and are older than a limit.
Distinct(blocks, limit) ==
  \A i, j \in 1 .. Len(blocks) :
    /\ blocks[i].tag \in 1 .. limit - 1
    /\ blocks[i].tag = blocks[j].tag => i = j

BlockInv ==
  /\ text \in BOOLEAN
  /\ rewrites \in Nat
  /\ models \in [1 .. 2 -> Models]
  /\ \A n \in 1 .. 2 : /\ Agrees(models[n]) /\ Allowed(models[n])
                       /\ Distinct(models[n].blocks, NextTag)
  /\ ~misdrawn

KeepsSources(old, new) ==
  Len(old) # Len(new) =>
    \A i \in DOMAIN old, j \in DOMAIN new : old[i].tag = new[j].tag =>
      \/ Reads(new, j) = Reads(old, i)
      \/ /\ Reads(new, j) = NoSkip
         /\ Reads(old, i) \notin Tags(new) \cup {Stem}

\* What every edit of g must build.
FitFor(g, h) ==
  /\ h \in Models /\ Agrees(h) /\ Allowed(h)
  /\ Distinct(h.blocks, NextTag + 10)
  /\ KeepsSources(g.blocks, h.blocks)

LEMMA FirstBlocksFit ==
    ASSUME NEW t \in Nat \ {0}
    PROVE  /\ FirstBlocks(t) \in Seq(Blocks) /\ Len(FirstBlocks(t)) = 2
           /\ FirstBlocks(t)[1] = Tagged(NoSkip, t)
           /\ FirstBlocks(t)[2] = Tagged(Stem, t + 1)
           /\ Distinct(FirstBlocks(t), t + 2)
           /\ \A i \in 1 .. 2 : FirstBlocks(t)[i].skip < i
           /\ \A i \in 1 .. 2 : FirstBlocks(t)[i].tag \in {t, t + 1}
<1> DEFINE a == Tagged(NoSkip, t)
           b == Tagged(Stem, t + 1)
           s == FirstBlocks(t)
<1>1. s = <<a, b>>
  BY DEF FirstBlocks
<1>2. a \in Blocks /\ a.tag = t /\ a.skip = -1 /\ b \in Blocks /\ b.tag = t + 1 /\ b.skip = 0
  BY DEF Tagged, Blocks, NoSkip, Stem
<1> HIDE DEF a, b, s
<1>3. s \in Seq(Blocks) /\ Len(s) = 2 /\ s[1] = a /\ s[2] = b
  BY <1>1, <1>2
<1>4. \A i \in 1 .. 2 : i = 1 \/ i = 2
  OBVIOUS
<1>5. \A i \in 1 .. 2 : s[i].skip < i /\ s[i].tag \in {t, t + 1}
  BY <1>2, <1>3, <1>4
<1>6. Distinct(s, t + 2)
  BY <1>2, <1>3, <1>4 DEF Distinct
<1> QED BY <1>3, <1>5, <1>6 DEF a, b, s

LEMMA BlocksStartWell == BlockInit => BlockInv
<1> SUFFICES ASSUME BlockInit PROVE BlockInv
  OBVIOUS
<1>1. rewrites = 0 /\ NextTag = 5 /\ text \in BOOLEAN /\ misdrawn = FALSE
  BY DEF BlockInit, NextTag
<1>2. PICK f \in OpenFamilies, d \in OpenFamilies :
        \E g \in FoundersOf(f, 1), h \in FoundersOf(d, 3) :
          models = <<WithNorm(g), WithNorm(h)>>
  BY DEF BlockInit
<1>3. PICK g \in FoundersOf(f, 1), h \in FoundersOf(d, 3) :
        models = <<WithNorm(g), WithNorm(h)>>
  BY <1>2
<1>4. ASSUME NEW family \in OpenFamilies, NEW t \in 1 .. 3, NEW k \in FoundersOf(family, t)
      PROVE  /\ WithNorm(k) \in Models /\ Agrees(WithNorm(k)) /\ Allowed(WithNorm(k))
             /\ Distinct(WithNorm(k).blocks, 5)
  <2> DEFINE w == CHOOSE w \in Embeddings : \A v \in Embeddings : v <= w
             bs == IF family = "composite" THEN FirstBlocks(t) ELSE <<>>
  <2>1. PICK n \in {"none", "layer"}, r \in BOOLEAN :
          k = [family |-> family, norm |-> n, residual |-> FALSE,
               pyramid |-> r /\ family = "conv2d",
               input_skip |-> r /\ family = "mlp", pre_norm |-> r /\ family = "attention",
               width |-> w, heads |-> 1, kv |-> 1, rope |-> FALSE, blocks |-> bs]
    BY DEF FoundersOf
  <2>2. w \in Embeddings /\ w \in Nat \ {0} /\ 1 \in Heads
    BY BlockAssumption
  <2>3. family \in {"mlp", "conv2d", "attention", "composite"}
    BY DEF OpenFamilies
  <2>4. /\ bs \in Seq(Blocks) /\ Distinct(bs, 5)
        /\ family = "composite" => /\ Len(bs) = 2 /\ \A i \in 1 .. 2 : bs[i].skip < i
        /\ family # "composite" => bs = <<>>
    <3>1. CASE family = "composite"
      <4>1. bs = FirstBlocks(t) /\ t \in Nat \ {0} /\ t + 2 <= 5
        BY <3>1
      <4> HIDE DEF bs
      <4>2. /\ bs \in Seq(Blocks) /\ Len(bs) = 2 /\ \A i \in 1 .. 2 : bs[i].skip < i
            /\ Distinct(bs, t + 2)
        BY <4>1, FirstBlocksFit
      <4>3. Distinct(bs, 5)
        BY <4>1, <4>2 DEF Distinct
      <4> QED BY <3>1, <4>2, <4>3
    <3>2. CASE family # "composite"
      <4>1. bs = <<>>
        BY <3>2
      <4> HIDE DEF bs
      <4> QED BY <3>2, <4>1 DEF Distinct
    <3> QED BY <3>1, <3>2
  <2> HIDE DEF w, bs
  <2>5. k \in Models
    BY <2>1, <2>2, <2>3, <2>4 DEF Models
  <2>6. /\ k.family = family /\ k.norm = n /\ k.residual = FALSE
        /\ k.pyramid = (r /\ family = "conv2d") /\ k.input_skip = (r /\ family = "mlp")
        /\ k.pre_norm = (r /\ family = "attention") /\ k.width = w /\ k.heads = 1
        /\ k.kv = 1 /\ k.rope = FALSE /\ k.blocks = bs
    BY <2>1
  <2> DEFINE m == WithNorm(k)
  <2>7. /\ m \in Models /\ m.family = family /\ m.norm = (IF k.pre_norm THEN "layer" ELSE n)
        /\ m.residual = FALSE /\ m.pyramid = k.pyramid /\ m.input_skip = k.input_skip
        /\ m.pre_norm = k.pre_norm /\ m.width = w /\ m.heads = 1 /\ m.kv = 1
        /\ m.rope = FALSE /\ m.blocks = bs
    BY <2>5, <2>6 DEF WithNorm, Models
  <2> HIDE DEF m
  <2>8. w % 1 = 0 /\ 1 % 1 = 0
    BY <2>2
  <2>a. /\ m.pyramid => family = "conv2d"
        /\ m.input_skip => family = "mlp"
        /\ m.pre_norm => family = "attention" /\ m.norm = "layer"
        /\ ~m.residual /\ ~m.rope
    BY <2>6, <2>7
  <2>b. m.width % m.heads = 0 /\ m.heads % m.kv = 0
    BY <2>7, <2>8
  <2>c. IF m.family = "composite"
        THEN /\ Len(m.blocks) \in 1 .. MaxBlocks
             /\ \A i \in 1 .. Len(m.blocks) : m.blocks[i].skip < i
        ELSE m.blocks = <<>>
    <3>1. CASE family = "composite"
      <4>1. Len(bs) = 2 /\ (\A i \in 1 .. 2 : bs[i].skip < i) /\ m.blocks = bs
        BY <2>4, <2>7, <3>1
      <4>2. Len(m.blocks) \in 1 .. MaxBlocks
        <5>1. 2 \in 1 .. MaxBlocks
          BY BlockAssumption
        <5>2. Len(m.blocks) = 2
          BY <4>1, Zenon
        <5> QED BY <5>1, <5>2
      <4>3. \A i \in 1 .. Len(m.blocks) : m.blocks[i].skip < i
        BY <4>1
      <4> QED BY <2>7, <3>1, <4>2, <4>3
    <3>2. CASE family # "composite"
      BY <2>4, <2>7, <3>2
    <3> QED BY <3>1, <3>2
  <2>9. Agrees(m)
    BY <2>7, <2>a, <2>b, <2>c, Zenon DEF Agrees
  <2>10. Allowed(m)
    BY <2>7 DEF Allowed
  <2> QED BY <2>4, <2>7, <2>9, <2>10 DEF m
<1>5. /\ models \in [1 .. 2 -> Models]
      /\ \A n \in 1 .. 2 : /\ Agrees(models[n]) /\ Allowed(models[n])
                           /\ Distinct(models[n].blocks, 5)
  <2> DEFINE a == WithNorm(g)
             b == WithNorm(h)
  <2>1. /\ a \in Models /\ Agrees(a) /\ Allowed(a) /\ Distinct(a.blocks, 5)
        /\ b \in Models /\ Agrees(b) /\ Allowed(b) /\ Distinct(b.blocks, 5)
    BY <1>3, <1>4
  <2>2. models = <<a, b>>
    BY <1>3
  <2> HIDE DEF a, b
  <2>3. \A n \in 1 .. 2 : n = 1 \/ n = 2
    OBVIOUS
  <2>4. models[1] = a /\ models[2] = b /\ models = [n \in 1 .. 2 |-> models[n]]
    BY <2>2
  <2>5. \A n \in 1 .. 2 : models[n] = a \/ models[n] = b
    BY <2>3, <2>4
  <2> QED BY <2>1, <2>4, <2>5
<1> QED BY <1>1, <1>5 DEF BlockInv

LEMMA RedrawingKeeps ==
    ASSUME BlockInv, NEW i \in 1 .. 2, NEW children, Redraw(i, children),
           \A h \in children : FitFor(models[i], h)
    PROVE  /\ BlockInv'
           /\ \A n \in DOMAIN models : KeepsSources(models[n].blocks, models'[n].blocks)
<1>1. PICK g \in children :
        /\ rewrites' = rewrites + 1
        /\ misdrawn' = ~(Agrees(g) /\ Allowed(g))
        /\ models' = IF Agrees(g) THEN [models EXCEPT ![i] = g] ELSE models
        /\ UNCHANGED text
  BY DEF Redraw
<1>2. g \in Models /\ Agrees(g) /\ Allowed(g) /\ Distinct(g.blocks, NextTag + 10)
      /\ KeepsSources(models[i].blocks, g.blocks)
  BY DEF FitFor
<1>3. /\ models' = [models EXCEPT ![i] = g] /\ ~misdrawn' /\ rewrites' \in Nat
      /\ text' \in BOOLEAN /\ NextTag' = NextTag + 10 /\ NextTag \in Nat
  <2>1. models' = [models EXCEPT ![i] = g] /\ ~misdrawn'
    BY <1>1, <1>2, Zenon
  <2>2. /\ rewrites' \in Nat /\ text' \in BOOLEAN
        /\ NextTag' = NextTag + 10 /\ NextTag \in Nat
    BY <1>1 DEF BlockInv, NextTag
  <2> QED BY <2>1, <2>2
<1>4. models \in [1 .. 2 -> Models]
  BY DEF BlockInv
<1>5. \A n \in 1 .. 2 : models'[n] = IF n = i THEN g ELSE models[n]
  BY <1>3, <1>4
<1>6. models' \in [1 .. 2 -> Models]
  BY <1>2, <1>3, <1>4
<1>7. ASSUME NEW n \in 1 .. 2
      PROVE  Agrees(models'[n]) /\ (text => models'[n].norm # "batch")
             /\ Distinct(models'[n].blocks, NextTag')
  <2>1. CASE n = i
    BY <1>2, <1>3, <1>5, <2>1 DEF Allowed
  <2>2. CASE n # i
    <3>1. models'[n] = models[n]
      BY <1>5, <2>2
    <3>2. Agrees(models[n]) /\ Allowed(models[n]) /\ Distinct(models[n].blocks, NextTag)
      BY DEF BlockInv
    <3>3. Distinct(models[n].blocks, NextTag + 10)
      BY <1>3, <3>2, SMTT(30) DEF Distinct
    <3> QED BY <1>3, <3>1, <3>2, <3>3 DEF Allowed
  <2> QED BY <2>1, <2>2
<1>8. BlockInv'
  BY <1>1, <1>3, <1>6, <1>7, Zenon DEF BlockInv, Allowed, Agrees
<1>9. \A n \in DOMAIN models : KeepsSources(models[n].blocks, models'[n].blocks)
  <2> SUFFICES ASSUME NEW n \in 1 .. 2 PROVE KeepsSources(models[n].blocks, models'[n].blocks)
    BY <1>4
  <2>1. CASE n = i
    BY <1>2, <1>5, <2>1
  <2>2. CASE n # i
    BY <1>5, <2>2 DEF KeepsSources
  <2> QED BY <2>1, <2>2
<1> QED BY <1>8, <1>9

\* An edit that leaves the blocks alone.
LEMMA SameBlocksFit ==
    ASSUME BlockInv, NEW i \in 1 .. 2, NEW h \in Models, Agrees(h), Allowed(h),
           h.blocks = models[i].blocks
    PROVE  FitFor(models[i], h)
<1>1. Distinct(models[i].blocks, NextTag) /\ NextTag \in Nat
  BY DEF BlockInv, NextTag
<1>2. Distinct(h.blocks, NextTag + 10)
  BY <1>1 DEF Distinct
<1>3. KeepsSources(models[i].blocks, h.blocks)
  BY DEF KeepsSources
<1> QED BY <1>2, <1>3 DEF FitFor

LEMMA Known ==
    ASSUME BlockInv, NEW i \in 1 .. 2
    PROVE  /\ models[i] \in Models /\ Agrees(models[i]) /\ Allowed(models[i])
           /\ Distinct(models[i].blocks, NextTag) /\ NextTag \in Nat /\ NextTag >= 5
           /\ text \in BOOLEAN
BY DEF BlockInv, NextTag

\* No tag of the blocks an edit draws is one the genome had.
LEMMA LaterLimit ==
    ASSUME NEW bs, NEW limit \in Nat, Distinct(bs, limit)
    PROVE  Distinct(bs, limit + 10)
BY DEF Distinct

LEMMA NewBlocksKeep ==
    ASSUME NEW old, NEW new, NEW limit \in Nat, Distinct(old, limit),
           old \in Seq(Blocks), new \in Seq(Blocks),
           \A j \in 1 .. Len(new) : new[j].tag >= limit
    PROVE  KeepsSources(old, new)
<1>1. \A i \in DOMAIN old, j \in DOMAIN new : old[i].tag # new[j].tag
  <2> SUFFICES ASSUME NEW i \in DOMAIN old, NEW j \in DOMAIN new
               PROVE  old[i].tag # new[j].tag
    OBVIOUS
  <2>1. i \in 1 .. Len(old) /\ j \in 1 .. Len(new)
    OBVIOUS
  <2>2. old[i].tag \in 1 .. limit - 1
    BY <2>1 DEF Distinct
  <2>3. new[j].tag >= limit
    BY <2>1
  <2> QED BY <2>2, <2>3
<1> QED BY <1>1 DEF KeepsSources

LEMMA OtherFamiliesFit ==
    ASSUME BlockInv, NEW i \in 1 .. 2, NEW h \in OtherFamilies(models[i])
    PROVE  FitFor(models[i], h)
<1> DEFINE g == models[i]
           new(f) == IF f = "composite" THEN FirstBlocks(NextTag) ELSE <<>>
<1>1. PICK f \in OpenFamilies :
        h = [g EXCEPT !.family = f, !.residual = FALSE, !.input_skip = FALSE,
                      !.pyramid = FALSE, !.pre_norm = FALSE, !.blocks = new(f)]
  BY Zenon DEF OtherFamilies
<1>2. /\ g \in Models /\ Agrees(g) /\ Allowed(g)
      /\ Distinct(g.blocks, NextTag) /\ NextTag \in Nat /\ NextTag >= 5
  BY Known
<1> HIDE DEF g
<1>3. f \in {"mlp", "conv2d", "attention", "composite"}
  BY DEF OpenFamilies
<1> DEFINE bs == new(f)
<1>4. /\ bs \in Seq(Blocks) /\ Distinct(bs, NextTag + 10)
      /\ \A j \in 1 .. Len(bs) : bs[j].tag >= NextTag
      /\ f = "composite" => /\ Len(bs) = 2 /\ \A j \in 1 .. 2 : bs[j].skip < j
      /\ f # "composite" => bs = <<>>
  <2>1. CASE f = "composite"
    <3>1. bs = FirstBlocks(NextTag) /\ NextTag \in Nat \ {0}
      BY <1>2, <2>1
    <3> HIDE DEF bs
    <3>2. /\ bs \in Seq(Blocks) /\ Len(bs) = 2 /\ \A j \in 1 .. 2 : bs[j].skip < j
          /\ Distinct(bs, NextTag + 2)
          /\ \A j \in 1 .. 2 : bs[j].tag \in {NextTag, NextTag + 1}
      BY <3>1, FirstBlocksFit
    <3>3. Distinct(bs, NextTag + 10)
      BY <1>2, <3>2 DEF Distinct
    <3>4. \A j \in 1 .. Len(bs) : bs[j].tag >= NextTag
      BY <1>2, <3>2
    <3> QED BY <2>1, <3>2, <3>3, <3>4
  <2>2. CASE f # "composite"
    <3>1. bs = <<>>
      BY <2>2
    <3> HIDE DEF bs
    <3> QED BY <2>2, <3>1 DEF Distinct
  <2> QED BY <2>1, <2>2
<1>5. h = [g EXCEPT !.family = f, !.residual = FALSE, !.input_skip = FALSE,
                    !.pyramid = FALSE, !.pre_norm = FALSE, !.blocks = bs]
  BY <1>1, Zenon
<1> HIDE DEF bs
<1>6. /\ h \in Models /\ h.family = f /\ h.norm = g.norm /\ h.residual = FALSE
      /\ h.input_skip = FALSE /\ h.pyramid = FALSE /\ h.pre_norm = FALSE
      /\ h.width = g.width /\ h.heads = g.heads /\ h.kv = g.kv /\ h.rope = g.rope
      /\ h.blocks = bs
  BY <1>2, <1>3, <1>4, <1>5 DEF Models
<1>7. /\ g.width % g.heads = 0 /\ g.heads % g.kv = 0
      /\ g.rope => (g.width \div g.heads) % 2 = 0
  BY <1>2, Zenon DEF Agrees
<1>8. IF h.family = "composite"
      THEN /\ Len(h.blocks) \in 1 .. MaxBlocks
           /\ \A j \in 1 .. Len(h.blocks) : h.blocks[j].skip < j
      ELSE h.blocks = <<>>
  BY <1>4, <1>6, BlockAssumption
<1>9. Agrees(h)
  BY <1>6, <1>7, <1>8 DEF Agrees
<1>10. Allowed(h)
  BY <1>2, <1>6 DEF Allowed
<1>11. KeepsSources(g.blocks, h.blocks)
  <2>1. g.blocks \in Seq(Blocks)
    BY <1>2 DEF Models
  <2> QED BY <1>2, <1>4, <1>6, <2>1, NewBlocksKeep
<1>12. FitFor(g, h)
  BY <1>4, <1>6, <1>9, <1>10, <1>11 DEF FitFor
<1> QED BY <1>12 DEF g

LEMMA NormingsFit ==
    ASSUME BlockInv, NEW i \in 1 .. 2, NEW h \in Normings(models[i])
    PROVE  FitFor(models[i], h)
<1> DEFINE g == models[i]
<1>1. PICK n \in IF g.pre_norm THEN {"layer"} ELSE Norms : h = [g EXCEPT !.norm = n]
  BY DEF Normings
<1>2. g \in Models /\ Agrees(g) /\ text \in BOOLEAN
  BY Known
<1> HIDE DEF g
<1>3. /\ h \in Models /\ h.family = g.family /\ h.norm = n /\ h.residual = g.residual
      /\ h.input_skip = g.input_skip /\ h.pyramid = g.pyramid /\ h.pre_norm = g.pre_norm
      /\ h.width = g.width /\ h.heads = g.heads /\ h.kv = g.kv /\ h.rope = g.rope
      /\ h.blocks = g.blocks
  BY <1>1, <1>2 DEF Models, Norms
<1>4. /\ g.pre_norm => n = "layer"
      /\ text => n # "batch"
  BY <1>1 DEF Norms
<1>5. Agrees(h)
  BY <1>2, <1>3, <1>4, Zenon DEF Agrees
<1>6. Allowed(h)
  BY <1>3, <1>4, Zenon DEF Allowed
<1> QED BY <1>3, <1>5, <1>6, SameBlocksFit DEF g

LEMMA FlagsFit ==
    ASSUME BlockInv, NEW i \in 1 .. 2, NEW h \in Flags(models[i])
    PROVE  FitFor(models[i], h)
<1> DEFINE g == models[i]
<1>1. /\ g \in Models /\ Agrees(g) /\ Allowed(g)
  BY Known
<1>2. \/ g.family = "mlp" /\ h = [g EXCEPT !.residual = ~@]
      \/ g.family = "mlp" /\ h = [g EXCEPT !.input_skip = ~@]
      \/ g.family = "conv2d" /\ h = [g EXCEPT !.pyramid = ~@]
      \/ /\ g.family = "attention"
         /\ h = [g EXCEPT !.pre_norm = ~@, !.norm = IF g.pre_norm THEN @ ELSE "layer"]
  <2> DEFINE a == [g EXCEPT !.residual = ~@]
             b == [g EXCEPT !.input_skip = ~@]
             c == [g EXCEPT !.pyramid = ~@]
             d == [g EXCEPT !.pre_norm = ~@, !.norm = IF g.pre_norm THEN @ ELSE "layer"]
  <2>1. g.family \in {"mlp", "conv2d", "attention", "composite"}
    BY <1>1 DEF Models
  <2>2. h \in CASE g.family = "mlp" -> {a, b}
                [] g.family = "conv2d" -> {c}
                [] g.family = "attention" -> {d}
                [] OTHER -> {}
    BY Zenon DEF Flags
  <2> HIDE DEF a, b, c, d, g
  <2>3. \/ g.family = "mlp" /\ h = a
        \/ g.family = "mlp" /\ h = b
        \/ g.family = "conv2d" /\ h = c
        \/ g.family = "attention" /\ h = d
    BY <2>1, <2>2
  <2> QED BY <2>3, Zenon DEF a, b, c, d
<1> HIDE DEF g
<1>3. \E r, k, p, q \in BOOLEAN, n \in {"none", "layer", "batch"} :
        /\ h \in Models /\ h.family = g.family /\ h.norm = n /\ h.residual = r
        /\ h.input_skip = k /\ h.pyramid = p /\ h.pre_norm = q
        /\ h.width = g.width /\ h.heads = g.heads /\ h.kv = g.kv /\ h.rope = g.rope
        /\ h.blocks = g.blocks
        /\ r => g.family = "mlp"
        /\ k => g.family = "mlp"
        /\ p => g.family = "conv2d"
        /\ q => g.family = "attention" /\ n = "layer"
        /\ n # g.norm => n = "layer"
  <2>1. CASE g.family = "mlp" /\ h = [g EXCEPT !.residual = ~@]
    BY <1>1, <2>1 DEF Models, Agrees
  <2>2. CASE g.family = "mlp" /\ h = [g EXCEPT !.input_skip = ~@]
    BY <1>1, <2>2 DEF Models, Agrees
  <2>3. CASE g.family = "conv2d" /\ h = [g EXCEPT !.pyramid = ~@]
    BY <1>1, <2>3 DEF Models, Agrees
  <2>4. CASE /\ g.family = "attention"
             /\ h = [g EXCEPT !.pre_norm = ~@, !.norm = IF g.pre_norm THEN @ ELSE "layer"]
    BY <1>1, <2>4 DEF Models, Agrees
  <2> QED BY <1>2, <2>1, <2>2, <2>3, <2>4
<1>4. Agrees(h)
  BY <1>1, <1>3, Zenon DEF Agrees
<1>5. Allowed(h)
  BY <1>1, <1>3 DEF Allowed
<1> QED BY <1>3, <1>4, <1>5, SameBlocksFit DEF g

LEMMA HeadingsFit ==
    ASSUME BlockInv, NEW i \in 1 .. 2, NEW h \in Headings(models[i])
    PROVE  FitFor(models[i], h)
<1> DEFINE g == models[i]
<1>1. /\ g \in Models /\ Agrees(g) /\ Allowed(g)
  BY Known
<1>2. \/ \E k \in Heads : /\ g.width % k = 0 /\ k % g.kv = 0
                          /\ g.rope => (g.width \div k) % 2 = 0
                          /\ h = [g EXCEPT !.heads = k]
      \/ \E k \in Heads : g.heads % k = 0 /\ h = [g EXCEPT !.kv = k]
      \/ \E r \in BOOLEAN : /\ r => (g.width \div g.heads) % 2 = 0
                            /\ h = [g EXCEPT !.rope = r]
      \/ \E w \in Embeddings : /\ w % g.heads = 0
                               /\ g.rope => (w \div g.heads) % 2 = 0
                               /\ h = [g EXCEPT !.width = w]
  BY Zenon DEF Headings
<1> HIDE DEF g
<1>3. \E w \in Embeddings, k, v \in Heads, r \in BOOLEAN :
        /\ h \in Models /\ h.family = g.family /\ h.norm = g.norm /\ h.residual = g.residual
        /\ h.input_skip = g.input_skip /\ h.pyramid = g.pyramid /\ h.pre_norm = g.pre_norm
        /\ h.width = w /\ h.heads = k /\ h.kv = v /\ h.rope = r
        /\ h.blocks = g.blocks
        /\ w % k = 0 /\ k % v = 0
        /\ r => (w \div k) % 2 = 0
  <2>0. /\ g.width % g.heads = 0 /\ g.heads % g.kv = 0
        /\ g.rope => (g.width \div g.heads) % 2 = 0
    BY <1>1, Zenon DEF Agrees
  <2>t. g.width \in Embeddings /\ g.heads \in Heads /\ g.kv \in Heads /\ g.rope \in BOOLEAN
    BY <1>1 DEF Models
  <2> DEFINE Good(w, k, v, r) ==
        /\ h \in Models /\ h.family = g.family /\ h.norm = g.norm /\ h.residual = g.residual
        /\ h.input_skip = g.input_skip /\ h.pyramid = g.pyramid /\ h.pre_norm = g.pre_norm
        /\ h.width = w /\ h.heads = k /\ h.kv = v /\ h.rope = r
        /\ h.blocks = g.blocks
        /\ w % k = 0 /\ k % v = 0
        /\ r => (w \div k) % 2 = 0
  <2>1. ASSUME NEW k \in Heads, g.width % k = 0, k % g.kv = 0,
               g.rope => (g.width \div k) % 2 = 0, h = [g EXCEPT !.heads = k]
        PROVE  Good(g.width, k, g.kv, g.rope)
    BY <1>1, <2>1 DEF Models
  <2>2. ASSUME NEW k \in Heads, g.heads % k = 0, h = [g EXCEPT !.kv = k]
        PROVE  Good(g.width, g.heads, k, g.rope)
    BY <1>1, <2>0, <2>2 DEF Models
  <2>3. ASSUME NEW r \in BOOLEAN, r => (g.width \div g.heads) % 2 = 0, h = [g EXCEPT !.rope = r]
        PROVE  Good(g.width, g.heads, g.kv, r)
    BY <1>1, <2>0, <2>3 DEF Models
  <2>4. ASSUME NEW w \in Embeddings, w % g.heads = 0,
               g.rope => (w \div g.heads) % 2 = 0, h = [g EXCEPT !.width = w]
        PROVE  Good(w, g.heads, g.kv, g.rope)
    BY <1>1, <2>0, <2>4 DEF Models
  <2>5. \E w \in Embeddings, k, v \in Heads, r \in BOOLEAN : Good(w, k, v, r)
    <3> HIDE DEF Good
    <3> QED BY <1>2, <2>1, <2>2, <2>3, <2>4, <2>t
  <2> QED BY <2>5
<1>4. Agrees(h)
  BY <1>1, <1>3, Zenon DEF Agrees
<1>5. Allowed(h)
  BY <1>1, <1>3 DEF Allowed
<1> QED BY <1>3, <1>4, <1>5, SameBlocksFit DEF g

\* A genome whose blocks alone are changed, to ones that name earlier states.
LEMMA OtherBlocksAgree ==
    ASSUME NEW g \in Models, Agrees(g), Allowed(g), g.family = "composite",
           NEW bs \in Seq(Blocks), Len(bs) \in 1 .. MaxBlocks,
           \A j \in 1 .. Len(bs) : bs[j].skip < j
    PROVE  LET h == [g EXCEPT !.blocks = bs]
           IN  h \in Models /\ Agrees(h) /\ Allowed(h) /\ h.blocks = bs
<1> DEFINE h == [g EXCEPT !.blocks = bs]
<1>1. /\ h \in Models /\ h.family = g.family /\ h.norm = g.norm /\ h.residual = g.residual
      /\ h.input_skip = g.input_skip /\ h.pyramid = g.pyramid /\ h.pre_norm = g.pre_norm
      /\ h.width = g.width /\ h.heads = g.heads /\ h.kv = g.kv /\ h.rope = g.rope
      /\ h.blocks = bs
  BY DEF Models
<1> HIDE DEF h
<1>2. Agrees(h)
  BY <1>1, Zenon DEF Agrees
<1>3. Allowed(h)
  BY <1>1 DEF Allowed
<1> QED BY <1>1, <1>2, <1>3 DEF h

Joins(S, r, s, t) ==
  /\ r \in Seq(S) /\ Len(r) = Len(s) + Len(t)
  /\ \A j \in 1 .. Len(s) : r[j] = s[j]
  /\ \A j \in 1 .. Len(t) : r[Len(s) + j] = t[j]

LEMMA JoinsHold ==
    ASSUME NEW S, NEW s \in Seq(S), NEW t \in Seq(S)
    PROVE  Joins(S, s \o t, s, t)
<1>1. /\ s \o t \in Seq(S) /\ Len(s \o t) = Len(s) + Len(t)
      /\ \A j \in 1 .. Len(s) + Len(t) :
           (s \o t)[j] = IF j <= Len(s) THEN s[j] ELSE t[j - Len(s)]
  BY ConcatProperties
<1>2. Len(s) \in Nat /\ Len(t) \in Nat
  OBVIOUS
<1>3. \A j \in 1 .. Len(s) : j \in 1 .. Len(s) + Len(t) /\ j <= Len(s)
  BY <1>2
<1>4. \A j \in 1 .. Len(t) : /\ Len(s) + j \in 1 .. Len(s) + Len(t)
                              /\ ~(Len(s) + j <= Len(s)) /\ Len(s) + j - Len(s) = j
  BY <1>2
<1> DEFINE r == s \o t
<1> HIDE DEF r
<1>5. \A j \in 1 .. Len(s) : r[j] = s[j]
  BY <1>1, <1>3 DEF r
<1>6. \A j \in 1 .. Len(t) : r[Len(s) + j] = t[j]
  <2> SUFFICES ASSUME NEW j \in 1 .. Len(t) PROVE r[Len(s) + j] = t[j]
    OBVIOUS
  <2> DEFINE k == Len(s) + j
  <2>1. k \in 1 .. Len(s) + Len(t) /\ ~(k <= Len(s)) /\ k - Len(s) = j
    BY <1>4
  <2> HIDE DEF k
  <2>2. r[k] = t[j]
    BY <1>1, <2>1 DEF r
  <2> QED BY <2>2 DEF k
<1> QED BY <1>1, <1>5, <1>6 DEF r, Joins

LEMMA Begun ==
    ASSUME NEW S, NEW s \in Seq(S), NEW n \in 0 .. Len(s)
    PROVE  /\ SubSeq(s, 1, n) \in Seq(S) /\ Len(SubSeq(s, 1, n)) = n
           /\ \A j \in 1 .. n : SubSeq(s, 1, n)[j] = s[j]
<1>1. \A j \in 1 .. n : s[j] \in S
  OBVIOUS
<1>2. n \in Int /\ 1 \in Int /\ n \in Nat
  OBVIOUS
<1>3. /\ SubSeq(s, 1, n) \in Seq(S)
      /\ Len(SubSeq(s, 1, n)) = IF 1 <= n THEN n - 1 + 1 ELSE 0
      /\ \A j \in 1 .. n - 1 + 1 : SubSeq(s, 1, n)[j] = s[1 + j - 1]
  BY <1>1, <1>2, SubSeqProperties
<1>4. Len(SubSeq(s, 1, n)) = n
  BY <1>2, <1>3
<1> QED BY <1>2, <1>3, <1>4

LEMMA ListedIn ==
    ASSUME NEW S, NEW n \in Nat, NEW f, f = [k \in 1 .. n |-> f[k]],
           \A k \in 1 .. n : f[k] \in S
    PROVE  f \in Seq(S) /\ Len(f) = n
OBVIOUS

LEMMA BlocksAre ==
    ASSUME NEW bs \in Seq(Blocks)
    PROVE  /\ Len(bs) \in Nat
           /\ \A j \in 1 .. Len(bs) :
                /\ bs[j] \in Blocks /\ bs[j].tag \in Nat
                /\ bs[j].skip \in Nat \cup {NoSkip} /\ bs[j].skip \in Int
<1>1. \A j \in 1 .. Len(bs) : bs[j] \in Blocks
  OBVIOUS
<1>2. \A b \in Blocks : b.skip \in Nat \cup {NoSkip} /\ b.skip \in Int /\ b.tag \in Nat
  BY DEF Blocks, NoSkip
<1> QED BY <1>1, <1>2

Moved(b, skip) == [b EXCEPT !.skip = skip]

LEMMA MovedIsABlock ==
    ASSUME NEW b \in Blocks, NEW skip \in Nat \cup {NoSkip}
    PROVE  /\ Moved(b, skip) \in Blocks
           /\ Moved(b, skip).tag = b.tag /\ Moved(b, skip).skip = skip
BY DEF Moved, Blocks

LEMMA InsertedBlocks ==
    ASSUME NEW bs \in Seq(Blocks), NEW at \in 0 .. Len(bs), NextTag \in Nat
    PROVE  LET new == Inserted(bs, at)
           IN  /\ new \in Seq(Blocks) /\ Len(new) = Len(bs) + 1
               /\ \A j \in 1 .. at : new[j] = bs[j]
               /\ new[at + 1].tag = NextTag /\ new[at + 1].skip = NoSkip
               /\ \A j \in at + 1 .. Len(bs) :
                    /\ new[j + 1].tag = bs[j].tag
                    /\ new[j + 1].skip = MovedUp(bs[j].skip, at)
<1> DEFINE n == Len(bs)
           x == Tagged(NoSkip, NextTag)
           mid == <<x>>
           back == [k \in 1 .. n - at |-> Moved(bs[at + k], MovedUp(bs[at + k].skip, at))]
           new == Inserted(bs, at)
<1>1. n \in Nat /\ at \in Nat /\ at <= n /\ n - at \in Nat
  OBVIOUS
<1>2. x \in Blocks /\ x.tag = NextTag /\ x.skip = NoSkip
  BY DEF Tagged, Blocks, NoSkip
<1>3. \A k \in 1 .. n - at : at + k \in 1 .. n
  BY <1>1
<1>4. \A j \in 1 .. n : bs[j] \in Blocks /\ bs[j].skip \in Nat \cup {NoSkip}
  BY BlocksAre
<1>5. \A k \in 1 .. n - at : MovedUp(bs[at + k].skip, at) \in Nat \cup {NoSkip}
  BY <1>1, <1>3, <1>4, SMTT(30) DEF MovedUp, NoSkip
<1>6. new = SubSeq(bs, 1, at) \o mid \o back
  BY Zenon DEF Inserted, Moved
<1> HIDE DEF n, x, new
<1>7. \A k \in 1 .. n - at :
        /\ back[k] \in Blocks
        /\ back[k].tag = bs[at + k].tag /\ back[k].skip = MovedUp(bs[at + k].skip, at)
  BY <1>3, <1>4, <1>5, MovedIsABlock
<1>8. back \in Seq(Blocks) /\ Len(back) = n - at
  <2>1. back = [k \in 1 .. n - at |-> back[k]]
    OBVIOUS
  <2>2. \A k \in 1 .. n - at : back[k] \in Blocks
    BY <1>7
  <2> HIDE DEF back
  <2> QED BY <1>1, <2>1, <2>2, ListedIn
<1>9. mid \in Seq(Blocks) /\ Len(mid) = 1 /\ mid[1] = x
  BY <1>2
<1> DEFINE front == SubSeq(bs, 1, at)
           head == front \o mid
<1>a. front \in Seq(Blocks) /\ Len(front) = at /\ \A j \in 1 .. at : front[j] = bs[j]
  BY Begun
<1>b. new = head \o back
  BY <1>6
<1> HIDE DEF back, mid, front
<1>c. /\ head \in Seq(Blocks) /\ Len(head) = at + 1 /\ head[at + 1] = x
      /\ \A j \in 1 .. at : head[j] = bs[j]
  <2>1. /\ head \in Seq(Blocks) /\ Len(head) = Len(front) + Len(mid)
        /\ \A j \in 1 .. Len(front) : head[j] = front[j]
        /\ \A j \in 1 .. Len(mid) : head[Len(front) + j] = mid[j]
    <3>1. front \in Seq(Blocks) /\ mid \in Seq(Blocks)
      BY <1>9, <1>a
    <3> HIDE DEF head
    <3>2. Joins(Blocks, front \o mid, front, mid)
      BY <3>1, JoinsHold, Zenon
    <3> QED BY <3>2, Zenon DEF head, Joins
  <2> HIDE DEF head
  <2> QED BY <1>9, <1>a, <2>1
<1> HIDE DEF head
<1>d. /\ new \in Seq(Blocks) /\ Len(new) = Len(head) + Len(back)
      /\ \A j \in 1 .. Len(head) : new[j] = head[j]
      /\ \A j \in 1 .. Len(back) : new[Len(head) + j] = back[j]
  <2>1. head \in Seq(Blocks) /\ back \in Seq(Blocks)
    BY <1>8, <1>c
  <2>2. Joins(Blocks, head \o back, head, back)
    BY <2>1, JoinsHold, Zenon
  <2> QED BY <1>b, <2>2, Zenon DEF Joins
<1>10. /\ \A j \in 1 .. at : new[j] = bs[j]
       /\ new[at + 1] = x
       /\ \A k \in 1 .. n - at : new[at + 1 + k] = back[k]
  <2>1. (\A j \in 1 .. at : j \in 1 .. at + 1) /\ at + 1 \in 1 .. at + 1
    BY <1>1
  <2> QED BY <1>8, <1>c, <1>d, <2>1
<1>11. Len(new) = n + 1
  BY <1>1, <1>8, <1>c, <1>d
<1>12. new[at + 1].tag = NextTag /\ new[at + 1].skip = NoSkip
  BY <1>2, <1>10
<1>13. ASSUME NEW j \in at + 1 .. n
       PROVE  new[j + 1].tag = bs[j].tag /\ new[j + 1].skip = MovedUp(bs[j].skip, at)
  <2>1. j - at \in 1 .. n - at /\ at + (j - at) = j /\ at + 1 + (j - at) = j + 1
    BY <1>1
  <2>2. new[j + 1] = back[j - at]
    BY <1>10, <2>1
  <2> QED BY <1>7, <2>1, <2>2
<1> QED BY <1>10, <1>11, <1>12, <1>13, <1>d DEF n, new

LEMMA ShortenedBlocks ==
    ASSUME NEW bs \in Seq(Blocks), NEW at \in 1 .. Len(bs)
    PROVE  LET new == Shortened(bs, at)
           IN  /\ new \in Seq(Blocks) /\ Len(new) = Len(bs) - 1
               /\ \A j \in 1 .. at - 1 : new[j] = bs[j]
               /\ \A j \in at .. Len(bs) - 1 :
                    /\ new[j].tag = bs[j + 1].tag
                    /\ new[j].skip = MovedDown(bs[j + 1].skip, at)
<1> DEFINE n == Len(bs)
           front == SubSeq(bs, 1, at - 1)
           back == [k \in 1 .. n - at |-> Moved(bs[at + k], MovedDown(bs[at + k].skip, at))]
           new == Shortened(bs, at)
<1>1. n \in Nat /\ at \in Nat \ {0} /\ at <= n /\ n - at \in Nat /\ at - 1 \in 0 .. n
  OBVIOUS
<1>3. \A k \in 1 .. n - at : at + k \in 1 .. n
  BY <1>1
<1>4. \A j \in 1 .. n : bs[j] \in Blocks /\ bs[j].skip \in Nat \cup {NoSkip}
  BY BlocksAre
<1>5. \A k \in 1 .. n - at : MovedDown(bs[at + k].skip, at) \in Nat \cup {NoSkip}
  BY <1>1, <1>3, <1>4 DEF MovedDown, NoSkip
<1>6. new = front \o back
  BY Zenon DEF Shortened, Moved
<1> HIDE DEF n, new
<1>7. \A k \in 1 .. n - at :
        /\ back[k] \in Blocks
        /\ back[k].tag = bs[at + k].tag /\ back[k].skip = MovedDown(bs[at + k].skip, at)
  BY <1>3, <1>4, <1>5, MovedIsABlock
<1>8. back \in Seq(Blocks) /\ Len(back) = n - at
  <2>1. back = [k \in 1 .. n - at |-> back[k]]
    OBVIOUS
  <2>2. \A k \in 1 .. n - at : back[k] \in Blocks
    BY <1>7
  <2> HIDE DEF back
  <2> QED BY <1>1, <2>1, <2>2, ListedIn
<1>9. front \in Seq(Blocks) /\ Len(front) = at - 1 /\ \A j \in 1 .. at - 1 : front[j] = bs[j]
  <2>1. at - 1 \in 0 .. Len(bs)
    BY <1>1 DEF n
  <2> QED BY <2>1, Begun
<1> HIDE DEF back, front
<1>13. /\ new \in Seq(Blocks) /\ Len(new) = Len(front) + Len(back)
       /\ \A j \in 1 .. Len(front) : new[j] = front[j]
       /\ \A j \in 1 .. Len(back) : new[Len(front) + j] = back[j]
  <2>1. front \in Seq(Blocks) /\ back \in Seq(Blocks)
    BY <1>8, <1>9
  <2>2. Joins(Blocks, front \o back, front, back)
    BY <2>1, JoinsHold, Zenon
  <2> QED BY <1>6, <2>2, Zenon DEF Joins
<1>14. Len(new) = n - 1
  BY <1>1, <1>8, <1>9, <1>13
<1>15. ASSUME NEW j \in at .. n - 1
       PROVE  new[j].tag = bs[j + 1].tag /\ new[j].skip = MovedDown(bs[j + 1].skip, at)
  <2>1. /\ j + 1 - at \in 1 .. n - at /\ at + (j + 1 - at) = j + 1
        /\ at - 1 + (j + 1 - at) = j
    BY <1>1
  <2>2. new[j] = back[j + 1 - at]
    BY <1>8, <1>9, <1>13, <2>1, ZenonT(40)
  <2> QED BY <1>7, <2>1, <2>2
<1> QED BY <1>9, <1>13, <1>14, <1>15 DEF n, new

\* The block that stood at i stands at i or behind, and every skip with it.
LEMMA InsertionsFit ==
    ASSUME BlockInv, NEW i \in 1 .. 2, NEW h \in Insertions(models[i])
    PROVE  FitFor(models[i], h)
<1> DEFINE g == models[i]
           bs == g.blocks
           n == Len(bs)
<1>1. /\ g \in Models /\ Agrees(g) /\ Allowed(g)
      /\ Distinct(bs, NextTag) /\ NextTag \in Nat /\ NextTag >= 5
  BY Known
<1>2. g.family = "composite" /\ n < MaxBlocks
      /\ \E at \in 0 .. n : h = [g EXCEPT !.blocks = Inserted(bs, at)]
  BY Zenon DEF Insertions
<1>3. PICK at \in 0 .. n : h = [g EXCEPT !.blocks = Inserted(bs, at)]
  BY <1>2
<1> DEFINE new == Inserted(bs, at)
<1> HIDE DEF g
<1>4. bs \in Seq(Blocks)
  BY <1>1 DEF Models
<1>5. \A j \in 1 .. n : bs[j].skip < j
  BY <1>1, <1>2 DEF Agrees
<1> HIDE DEF bs
<1>6. n \in Nat /\ \A j \in 1 .. n : bs[j].skip \in Nat \cup {-1} /\ bs[j].tag \in Nat
  BY <1>4, BlocksAre DEF NoSkip
<1>7. /\ new \in Seq(Blocks) /\ Len(new) = n + 1
      /\ \A j \in 1 .. at : new[j] = bs[j]
      /\ new[at + 1].tag = NextTag /\ new[at + 1].skip = -1
      /\ \A j \in at + 1 .. n :
           /\ new[j + 1].tag = bs[j].tag
           /\ new[j + 1].skip = MovedUp(bs[j].skip, at)
  BY <1>1, <1>4, InsertedBlocks DEF NoSkip
<1>d. \A j \in 1 .. n : bs[j].tag \in 1 .. NextTag - 1
  BY <1>1 DEF Distinct
<1>e. \A j, k \in 1 .. n : bs[j].tag = bs[k].tag => j = k
  BY <1>1 DEF Distinct
<1> HIDE DEF new, n
<1> DEFINE put(j) == IF j <= at THEN j ELSE j + 1
<1>8. \A j \in 1 .. n : /\ put(j) \in 1 .. n + 1 /\ put(j) # at + 1
                        /\ new[put(j)].tag = bs[j].tag
                        /\ new[put(j)].skip = MovedUp(bs[j].skip, at)
  <2> SUFFICES ASSUME NEW j \in 1 .. n
               PROVE  /\ put(j) \in 1 .. n + 1 /\ put(j) # at + 1
                      /\ new[put(j)].tag = bs[j].tag
                      /\ new[put(j)].skip = MovedUp(bs[j].skip, at)
    OBVIOUS
  <2>1. CASE j <= at
    <3>1. put(j) = j /\ j \in 1 .. at /\ j \in 1 .. n + 1 /\ j # at + 1
      BY <1>6, <2>1
    <3>2. MovedUp(bs[j].skip, at) = bs[j].skip
      BY <1>5, <1>6, <2>1 DEF MovedUp
    <3> QED BY <1>7, <3>1, <3>2
  <2>2. CASE j > at
    <3>1. put(j) = j + 1 /\ j \in at + 1 .. n /\ j + 1 \in 1 .. n + 1 /\ j + 1 # at + 1
      BY <1>6, <2>2
    <3> QED BY <1>7, <3>1
  <2> QED BY <1>6, <2>1, <2>2
<1>9. \A k \in 1 .. n + 1 : k = at + 1 \/ \E j \in 1 .. n : k = put(j)
  <2> SUFFICES ASSUME NEW k \in 1 .. n + 1, k # at + 1 PROVE \E j \in 1 .. n : k = put(j)
    OBVIOUS
  <2>1. CASE k <= at
    <3>1. k \in 1 .. n /\ put(k) = k
      BY <1>6, <2>1 DEF n
    <3> QED BY <3>1
  <2>2. CASE k > at + 1
    <3>1. k - 1 \in 1 .. n /\ put(k - 1) = k
      BY <1>6, <2>2
    <3> QED BY <3>1
  <2> QED BY <1>6, <2>1, <2>2
<1>10. \A j, k \in 1 .. n : put(j) = put(k) => j = k
  BY <1>6
<1> HIDE DEF put
<1>11. \A k \in 1 .. n + 1 : new[k].skip < k
  <2> SUFFICES ASSUME NEW k \in 1 .. n + 1 PROVE new[k].skip < k
    OBVIOUS
  <2>1. CASE k = at + 1
    BY <1>7, <2>1
  <2>2. ASSUME NEW j \in 1 .. n, k = put(j) PROVE new[k].skip < k
    <3>1. bs[j].skip < j /\ new[k].skip = MovedUp(bs[j].skip, at) /\ bs[j].skip \in Nat \cup {-1}
      BY <1>5, <1>6, <1>8, <2>2
    <3>2. k = IF j <= at THEN j ELSE j + 1
      BY <2>2 DEF put
    <3> QED BY <1>6, <3>1, <3>2 DEF MovedUp
  <2> QED BY <1>9, <2>1, <2>2
<1>12. Distinct(new, NextTag + 10)
  <2>1. \A j \in 1 .. n : new[put(j)].tag = bs[j].tag /\ bs[j].tag \in 1 .. NextTag - 1
    BY <1>1, <1>8, <1>d
  <2>2. \A k \in 1 .. n + 1 : k # at + 1 => new[k].tag \in 1 .. NextTag - 1
    <3> SUFFICES ASSUME NEW k \in 1 .. n + 1, k # at + 1 PROVE new[k].tag \in 1 .. NextTag - 1
      OBVIOUS
    <3>1. PICK j \in 1 .. n : k = put(j)
      BY <1>9
    <3> QED BY <2>1, <3>1
  <2>3. \A k \in 1 .. n + 1 : new[k].tag \in 1 .. NextTag + 10 - 1
    BY <1>1, <1>7, <2>2
  <2>4. ASSUME NEW p \in 1 .. n + 1, NEW q \in 1 .. n + 1, new[p].tag = new[q].tag
        PROVE  p = q
    <3>1. CASE p = at + 1 \/ q = at + 1
      <4>1. new[at + 1].tag = NextTag /\ \A k \in 1 .. n + 1 : k # at + 1 => new[k].tag # NextTag
        BY <1>1, <1>7, <2>2
      <4> QED BY <2>4, <3>1, <4>1
    <3>2. CASE p # at + 1 /\ q # at + 1
      <4>1. PICK j \in 1 .. n : p = put(j)
        BY <1>9, <3>2
      <4>2. PICK k \in 1 .. n : q = put(k)
        BY <1>9, <3>2
      <4>3. bs[j].tag = bs[k].tag
        BY <2>1, <2>4, <4>1, <4>2
      <4>4. j = k
        BY <1>e, <4>3
      <4> QED BY <4>1, <4>2, <4>4
    <3> QED BY <3>1, <3>2
  <2>5. Len(new) = n + 1
    BY <1>7
  <2>6. \A p, q \in 1 .. n + 1 : /\ new[p].tag \in 1 .. NextTag + 10 - 1
                                 /\ new[p].tag = new[q].tag => p = q
    BY <2>3, <2>4
  <2> QED BY <1>1, <2>5, <2>6 DEF Distinct
<1>13. KeepsSources(bs, new)
  <2> SUFFICES ASSUME NEW j \in 1 .. n, NEW k \in 1 .. n + 1, bs[j].tag = new[k].tag
               PROVE  Reads(new, k) = Reads(bs, j)
    <3>1. DOMAIN bs = 1 .. n /\ DOMAIN new = 1 .. n + 1
      BY <1>4, <1>7 DEF n
    <3> QED BY <3>1, Zenon DEF KeepsSources
  <2>1. k = put(j)
    <3>1. /\ put(j) \in 1 .. n + 1 /\ new[put(j)].tag = bs[j].tag
      BY <1>8
    <3> QED BY <1>7, <1>12, <3>1 DEF Distinct
  <2>2. new[k].skip = MovedUp(bs[j].skip, at) /\ bs[j].skip < j /\ bs[j].skip \in Nat \cup {-1}
    BY <1>5, <1>6, <1>8, <2>1
  <2>3. CASE bs[j].skip \in {0, -1}
    <3>1. new[k].skip = bs[j].skip
      BY <1>6, <2>2, <2>3 DEF MovedUp
    <3> QED BY <2>3, <3>1 DEF Reads, Stem, NoSkip
  <2>4. CASE bs[j].skip \in Nat \ {0}
    <3>1. bs[j].skip \in 1 .. n /\ new[k].skip = put(bs[j].skip) /\ new[k].skip \in Nat \ {0}
      BY <1>6, <2>2, <2>4 DEF MovedUp, put
    <3>2. new[new[k].skip].tag = bs[bs[j].skip].tag
      BY <1>8, <3>1
    <3>3. Reads(new, k) = new[new[k].skip].tag /\ Reads(bs, j) = bs[bs[j].skip].tag
      BY <2>4, <3>1 DEF Reads, Stem, NoSkip
    <3> QED BY <3>2, <3>3
  <2> QED BY <2>2, <2>3, <2>4
<1>14. h \in Models /\ Agrees(h) /\ Allowed(h) /\ h.blocks = new
  <2>1. Len(new) \in 1 .. MaxBlocks /\ \A j \in 1 .. Len(new) : new[j].skip < j
    BY <1>2, <1>6, <1>7, <1>11, BlockAssumption, SMTT(30)
  <2>2. h = [g EXCEPT !.blocks = new]
    BY <1>3, Zenon DEF new
  <2> QED BY <1>1, <1>2, <1>7, <2>1, <2>2, OtherBlocksAgree
<1>15. FitFor(g, h)
  BY <1>12, <1>13, <1>14 DEF FitFor, bs
<1> QED BY <1>15 DEF g

\* The block that stands at j stood at j or behind, and every skip with it;
\* what read the block that went reads nothing, and no tag of it is left.
LEMMA RemovalsFit ==
    ASSUME BlockInv, NEW i \in 1 .. 2, NEW h \in Removals(models[i])
    PROVE  FitFor(models[i], h)
<1> DEFINE g == models[i]
           bs == g.blocks
           n == Len(bs)
<1>1. /\ g \in Models /\ Agrees(g) /\ Allowed(g)
      /\ Distinct(bs, NextTag) /\ NextTag \in Nat /\ NextTag >= 5
  BY Known
<1>2. g.family = "composite" /\ n > 1
      /\ \E at \in 1 .. n : h = [g EXCEPT !.blocks = Shortened(bs, at)]
  BY Zenon DEF Removals
<1>3. PICK at \in 1 .. n : h = [g EXCEPT !.blocks = Shortened(bs, at)]
  BY <1>2
<1> DEFINE new == Shortened(bs, at)
<1> HIDE DEF g
<1>4. bs \in Seq(Blocks)
  BY <1>1 DEF Models
<1>5. n \in 1 .. MaxBlocks /\ \A j \in 1 .. n : bs[j].skip < j
  BY <1>1, <1>2 DEF Agrees
<1> HIDE DEF bs
<1>6. n \in Nat /\ \A j \in 1 .. n : bs[j].skip \in Nat \cup {-1} /\ bs[j].tag \in Nat
  BY <1>4, BlocksAre DEF NoSkip
<1>7. /\ new \in Seq(Blocks) /\ Len(new) = n - 1
      /\ \A j \in 1 .. at - 1 : new[j] = bs[j]
      /\ \A j \in at .. n - 1 :
           /\ new[j].tag = bs[j + 1].tag
           /\ new[j].skip = MovedDown(bs[j + 1].skip, at)
  BY <1>1, <1>4, ShortenedBlocks
<1>d. \A j \in 1 .. n : bs[j].tag \in 1 .. NextTag - 1
  BY <1>1 DEF Distinct
<1>e. \A j, k \in 1 .. n : bs[j].tag = bs[k].tag => j = k
  BY <1>1 DEF Distinct
<1> HIDE DEF new, n
<1> DEFINE from(j) == IF j < at THEN j ELSE j + 1
<1>8. \A j \in 1 .. n - 1 : /\ from(j) \in 1 .. n /\ from(j) # at
                            /\ new[j].tag = bs[from(j)].tag
                            /\ new[j].skip = MovedDown(bs[from(j)].skip, at)
  <2> SUFFICES ASSUME NEW j \in 1 .. n - 1
               PROVE  /\ from(j) \in 1 .. n /\ from(j) # at
                      /\ new[j].tag = bs[from(j)].tag
                      /\ new[j].skip = MovedDown(bs[from(j)].skip, at)
    OBVIOUS
  <2>1. CASE j < at
    <3>1. from(j) = j /\ j \in 1 .. at - 1 /\ j \in 1 .. n /\ j # at
      BY <1>6, <2>1
    <3>2. MovedDown(bs[j].skip, at) = bs[j].skip
      BY <1>5, <1>6, <2>1, <3>1 DEF MovedDown
    <3> QED BY <1>7, <3>1, <3>2
  <2>2. CASE j >= at
    <3>1. from(j) = j + 1 /\ j \in at .. n - 1 /\ j + 1 \in 1 .. n /\ j + 1 # at
      BY <1>6, <2>2
    <3> QED BY <1>7, <3>1
  <2> QED BY <1>6, <2>1, <2>2
<1>9. \A k \in 1 .. n : k # at => \E j \in 1 .. n - 1 : k = from(j) /\ j = IF k < at THEN k ELSE k - 1
  <2> SUFFICES ASSUME NEW k \in 1 .. n, k # at
               PROVE  \E j \in 1 .. n - 1 : k = from(j) /\ j = IF k < at THEN k ELSE k - 1
    OBVIOUS
  <2>1. CASE k < at
    <3>1. k \in 1 .. n - 1 /\ from(k) = k
      BY <1>6, <2>1
    <3> QED BY <2>1, <3>1
  <2>2. CASE k > at
    <3>1. k - 1 \in 1 .. n - 1 /\ from(k - 1) = k /\ ~(k < at)
      BY <1>6, <2>2
    <3> QED BY <3>1
  <2> QED BY <1>6, <2>1, <2>2
<1>10. \A j, k \in 1 .. n - 1 : from(j) = from(k) => j = k
  BY <1>6
<1>11. \A k \in 1 .. n - 1 : new[k].skip < k
  <2> SUFFICES ASSUME NEW k \in 1 .. n - 1 PROVE new[k].skip < k
    OBVIOUS
  <2>1. /\ bs[from(k)].skip < from(k) /\ new[k].skip = MovedDown(bs[from(k)].skip, at)
        /\ bs[from(k)].skip \in Nat \cup {-1}
    <3> HIDE DEF from
    <3> QED BY <1>5, <1>6, <1>8
  <2> DEFINE s == bs[from(k)].skip
  <2> HIDE DEF s
  <2>2. s < from(k) /\ new[k].skip = MovedDown(s, at) /\ s \in Nat \cup {-1}
    BY <2>1 DEF s
  <2> QED BY <1>6, <2>2 DEF MovedDown, NoSkip
<1> HIDE DEF from
<1>12. Distinct(new, NextTag + 10)
  <2>1. \A k \in 1 .. n - 1 : new[k].tag \in 1 .. NextTag - 1
    BY <1>8, <1>d
  <2>2. ASSUME NEW p \in 1 .. n - 1, NEW q \in 1 .. n - 1, new[p].tag = new[q].tag
        PROVE  p = q
    <3>1. from(p) = from(q)
      BY <1>8, <1>e, <2>2
    <3> QED BY <1>10, <3>1
  <2>3. Len(new) = n - 1
    BY <1>7
  <2> QED BY <1>1, <2>1, <2>2, <2>3 DEF Distinct
<1>13. KeepsSources(bs, new)
  <2> SUFFICES ASSUME NEW j \in 1 .. n, NEW k \in 1 .. n - 1, bs[j].tag = new[k].tag
               PROVE  \/ Reads(new, k) = Reads(bs, j)
                      \/ /\ Reads(new, k) = NoSkip
                         /\ Reads(bs, j) \notin Tags(new) \cup {Stem}
    <3>1. DOMAIN bs = 1 .. n /\ DOMAIN new = 1 .. n - 1
      BY <1>4, <1>7 DEF n
    <3> QED BY <3>1, Zenon DEF KeepsSources
  <2>1. j = from(k)
    BY <1>8, <1>e
  <2>2. /\ new[k].skip = MovedDown(bs[j].skip, at) /\ bs[j].skip < j
        /\ bs[j].skip \in Nat \cup {-1}
    BY <1>5, <1>6, <1>8, <2>1
  <2>3. CASE bs[j].skip \in {0, -1}
    <3>1. new[k].skip = bs[j].skip
      BY <1>6, <2>2, <2>3 DEF MovedDown
    <3> QED BY <2>3, <3>1 DEF Reads, Stem, NoSkip
  <2>4. CASE bs[j].skip = at
    <3>1. new[k].skip = -1
      BY <2>2, <2>4 DEF MovedDown, NoSkip
    <3>2. Reads(new, k) = NoSkip
      BY <3>1 DEF Reads, NoSkip
    <3>3. Reads(bs, j) = bs[at].tag
      BY <2>4 DEF Reads, NoSkip, Stem
    <3>4. bs[at].tag # 0
      BY <1>d
    <3>5. \A p \in 1 .. n - 1 : new[p].tag # bs[at].tag
      BY <1>8, <1>e
    <3>6. Tags(new) = {new[p].tag : p \in 1 .. n - 1}
      BY <1>7 DEF Tags
    <3> QED BY <3>2, <3>3, <3>4, <3>5, <3>6 DEF Stem
  <2>5. CASE bs[j].skip \in Nat \ {0} /\ bs[j].skip # at
    <3> DEFINE s == bs[j].skip
    <3> HIDE DEF s
    <3>1. s \in 1 .. n /\ s # at
      BY <1>6, <2>2, <2>5 DEF s
    <3>2. PICK p \in 1 .. n - 1 : s = from(p) /\ p = IF s < at THEN s ELSE s - 1
      BY <1>9, <3>1
    <3>3. new[k].skip = p
      BY <2>2, <3>1, <3>2 DEF MovedDown, s
    <3>4. new[p].tag = bs[s].tag
      BY <1>8, <3>2
    <3>5. Reads(new, k) = new[p].tag
      BY <1>6, <3>2, <3>3 DEF Reads, Stem, NoSkip
    <3>6. Reads(bs, j) = bs[s].tag
      BY <2>5 DEF Reads, Stem, NoSkip, s
    <3> QED BY <3>4, <3>5, <3>6
  <2> QED BY <2>2, <2>3, <2>4, <2>5
<1>14. h \in Models /\ Agrees(h) /\ Allowed(h) /\ h.blocks = new
  <2>1. Len(new) \in 1 .. MaxBlocks /\ \A j \in 1 .. Len(new) : new[j].skip < j
    <3>1. n - 1 \in 1 .. MaxBlocks
      BY <1>2, <1>5, <1>6, BlockAssumption DEF n
    <3> QED BY <1>7, <1>11, <3>1
  <2>2. h = [g EXCEPT !.blocks = new]
    BY <1>3, Zenon DEF new
  <2> QED BY <1>1, <1>2, <1>7, <2>1, <2>2, OtherBlocksAgree
<1>15. FitFor(g, h)
  BY <1>12, <1>13, <1>14 DEF FitFor, bs
<1> QED BY <1>15 DEF g

LEMMA SkipChangesFit ==
    ASSUME BlockInv, NEW i \in 1 .. 2, NEW h \in SkipChanges(models[i])
    PROVE  FitFor(models[i], h)
<1> DEFINE g == models[i]
           bs == g.blocks
<1>1. /\ g \in Models /\ Agrees(g) /\ Allowed(g)
      /\ Distinct(bs, NextTag) /\ NextTag \in Nat /\ NextTag >= 5
  BY Known
<1>2. bs \in Seq(Blocks)
  BY <1>1 DEF Models
<1>a. PICK at \in DOMAIN bs :
        \E s \in ({NoSkip} \cup 0 .. at - 1) \ {bs[at].skip} :
          h = [g EXCEPT !.blocks[at].skip = s]
  BY Zenon DEF SkipChanges
<1>3. PICK s \in {NoSkip} \cup 0 .. at - 1 : h = [g EXCEPT !.blocks[at].skip = s]
  BY <1>a, Zenon
<1> DEFINE new == [bs EXCEPT ![at] = Moved(bs[at], s)]
<1>4. h = [g EXCEPT !.blocks = new]
  BY <1>3, Zenon DEF Moved
<1> HIDE DEF g, bs
<1>5. at \in 1 .. Len(bs) /\ Len(bs) \in Nat /\ s \in Nat \cup {-1} /\ s < at
  BY <1>2, <1>3 DEF NoSkip
<1>6. /\ Moved(bs[at], s) \in Blocks /\ Moved(bs[at], s).tag = bs[at].tag
      /\ Moved(bs[at], s).skip = s
  BY <1>2, <1>5, BlocksAre, MovedIsABlock DEF NoSkip
<1>7. /\ new \in Seq(Blocks) /\ Len(new) = Len(bs)
      /\ \A j \in 1 .. Len(bs) : new[j] = IF j = at THEN Moved(bs[at], s) ELSE bs[j]
  BY <1>2, <1>5, <1>6
<1> HIDE DEF new
<1>8. \A j \in 1 .. Len(bs) : new[j].tag = bs[j].tag
  BY <1>6, <1>7
<1>9. g.family = "composite" /\ Len(bs) \in 1 .. MaxBlocks
      /\ \A j \in 1 .. Len(bs) : bs[j].skip < j
  <2>1. bs # <<>>
    BY <1>5
  <2> QED BY <1>1, <2>1, Zenon DEF Agrees, bs
<1>10. \A j \in 1 .. Len(bs) : new[j].skip < j
  BY <1>5, <1>6, <1>7, <1>9
<1>11. h \in Models /\ Agrees(h) /\ Allowed(h) /\ h.blocks = new
  <2>1. Len(new) \in 1 .. MaxBlocks /\ \A j \in 1 .. Len(new) : new[j].skip < j
    BY <1>7, <1>9, <1>10
  <2> QED BY <1>1, <1>4, <1>7, <1>9, <2>1, OtherBlocksAgree
<1>12. Distinct(new, NextTag + 10)
  <2>1. \A j \in 1 .. Len(bs) : bs[j].tag \in 1 .. NextTag - 1
    BY <1>1 DEF Distinct
  <2>2. \A j, k \in 1 .. Len(bs) : bs[j].tag = bs[k].tag => j = k
    BY <1>1 DEF Distinct
  <2> QED BY <1>1, <1>7, <1>8, <2>1, <2>2 DEF Distinct
<1>13. KeepsSources(bs, new)
  BY <1>7 DEF KeepsSources
<1>14. FitFor(g, h)
  BY <1>11, <1>12, <1>13 DEF FitFor, bs
<1> QED BY <1>14 DEF g

LEMMA CrossedBlocks ==
    ASSUME NEW as \in Seq(Blocks), NEW bs \in Seq(Blocks),
           NEW n \in 0 .. Min({Len(as), Len(bs)})
    PROVE  LET r == SubSeq(as, 1, n) \o SubSeq(bs, n + 1, Len(bs))
           IN  r \in Seq(Blocks) /\ Len(r) = Len(bs)
<1>1. Len(as) \in Nat /\ Len(bs) \in Nat
  BY BlocksAre
<1>2. n \in 0 .. Len(as) /\ n \in 0 .. Len(bs)
  <2>1. ASSUME NEW p \in Nat, NEW q \in Nat
        PROVE  Min({p, q}) \in Int /\ Min({p, q}) <= p /\ Min({p, q}) <= q
    <3>1. \E x \in {p, q} : \A y \in {p, q} : x <= y
      OBVIOUS
    <3>2. Min({p, q}) \in {p, q} /\ \A y \in {p, q} : Min({p, q}) <= y
      BY <3>1, Zenon DEF Min
    <3> QED BY <3>2
  <2> DEFINE m == Min({Len(as), Len(bs)})
  <2>2. m \in Int /\ m <= Len(as) /\ m <= Len(bs)
    BY <1>1, <2>1, Zenon
  <2> HIDE DEF m
  <2>3. n \in 0 .. m
    BY Zenon DEF m
  <2>4. ASSUME NEW k \in Int, NEW p \in Nat, k <= p, NEW q \in 0 .. k PROVE q \in 0 .. p
    BY <2>4
  <2> QED BY <1>1, <2>2, <2>3, <2>4, Zenon
<1> DEFINE front == SubSeq(as, 1, n)
           back == SubSeq(bs, n + 1, Len(bs))
           r == front \o back
<1>3. front \in Seq(Blocks) /\ Len(front) = n
  BY <1>2, Begun
<1>4. back \in Seq(Blocks) /\ Len(back) = Len(bs) - n
  <2>1. \A j \in n + 1 .. Len(bs) : bs[j] \in Blocks
    BY <1>1, <1>2, BlocksAre
  <2>2. n + 1 \in Int /\ Len(bs) \in Int
    BY <1>1, <1>2
  <2>3. /\ back \in Seq(Blocks)
        /\ Len(back) = IF n + 1 <= Len(bs) THEN Len(bs) - (n + 1) + 1 ELSE 0
    BY <2>1, <2>2, SubSeqProperties
  <2> HIDE DEF back
  <2> QED BY <1>1, <1>2, <2>3
<1>5. Joins(Blocks, r, front, back)
  <2>1. front \in Seq(Blocks) /\ back \in Seq(Blocks)
    BY <1>3, <1>4
  <2> HIDE DEF front, back
  <2> QED BY <2>1, JoinsHold, Zenon
<1> HIDE DEF front, back
<1>6. Len(r) = Len(bs) /\ r \in Seq(Blocks)
  <2>1. r \in Seq(Blocks) /\ Len(r) = Len(front) + Len(back)
    BY <1>5, Zenon DEF Joins
  <2> HIDE DEF r
  <2> QED BY <1>1, <1>2, <1>3, <1>4, <2>1
<1> QED BY <1>6, Zenon DEF r, front, back

\* The blocks of a crossover: each one of a parent's, a skip ahead dropped.
LEMMA RetaggedBlocks ==
    ASSUME NEW r \in Seq(Blocks), Len(r) \in 1 .. MaxBlocks, NextTag \in Nat
    PROVE  LET new == [j \in DOMAIN r |->
                         Tagged(IF r[j].skip >= j THEN NoSkip ELSE r[j].skip, NextTag + j)]
           IN  /\ new \in Seq(Blocks) /\ Len(new) = Len(r)
               /\ \A j \in 1 .. Len(r) : new[j].skip < j /\ new[j].tag = NextTag + j
<1> DEFINE new == [j \in DOMAIN r |->
                     Tagged(IF r[j].skip >= j THEN NoSkip ELSE r[j].skip, NextTag + j)]
<1>1. DOMAIN r = 1 .. Len(r) /\ Len(r) \in Nat
  OBVIOUS
<1>2. \A j \in 1 .. Len(r) : r[j].skip \in Nat \cup {NoSkip}
  BY BlocksAre
<1>3. ASSUME NEW j \in 1 .. Len(r)
      PROVE  new[j] \in Blocks /\ new[j].skip < j /\ new[j].tag = NextTag + j
  <2> DEFINE k == IF r[j].skip >= j THEN NoSkip ELSE r[j].skip
  <2>1. k \in Nat \cup {NoSkip} /\ k < j
    BY <1>2 DEF NoSkip
  <2>2. new[j] = [tag |-> NextTag + j, skip |-> k]
    BY <1>1 DEF Tagged
  <2> HIDE DEF k, new
  <2>3. NextTag + j \in Nat
    OBVIOUS
  <2> QED BY <2>1, <2>2, <2>3 DEF Blocks
<1>4. new = [j \in 1 .. Len(r) |-> new[j]]
  BY <1>1
<1>5. \A j \in 1 .. Len(r) : new[j] \in Blocks
  BY <1>3
<1> HIDE DEF new
<1>6. new \in Seq(Blocks) /\ Len(new) = Len(r)
  BY <1>1, <1>4, <1>5, ListedIn
<1> QED BY <1>3, <1>6 DEF new

LEMMA NoMoreThanSix ==
    ASSUME NEW m \in 2 .. 6, NEW l \in 1 .. m
    PROVE  l \in 1 .. 6
OBVIOUS

LEMMA InOrderDistinct ==
    ASSUME NEW bs, Len(bs) \in 1 .. 6, NEW t \in Nat,
           \A j \in 1 .. Len(bs) : bs[j].tag = t + j
    PROVE  Distinct(bs, t + 10)
<1> DEFINE l == Len(bs)
<1> HIDE DEF l
<1>1. l \in 1 .. 6 /\ \A j \in 1 .. l : bs[j].tag = t + j
  BY DEF l
<1>2. \A j \in 1 .. l : bs[j].tag \in 1 .. t + 10 - 1
  BY <1>1
<1>3. \A j, k \in 1 .. l : bs[j].tag = bs[k].tag => j = k
  BY <1>1
<1> QED BY <1>2, <1>3 DEF Distinct, l

LEMMA MixedFit ==
    ASSUME BlockInv, NEW i \in 1 .. 2, NEW h \in Mixed(models[i], models[3 - i])
    PROVE  FitFor(models[i], h)
<1> DEFINE a == models[i]
           b == models[3 - i]
           Dims(g) == IF a.family = b.family
                      THEN {[g EXCEPT !.width = p.width, !.heads = p.heads,
                                      !.kv = p.kv, !.rope = p.rope] : p \in {a, b}}
                      ELSE {g}
           Crossed(n) == SubSeq(a.blocks, 1, n) \o SubSeq(b.blocks, n + 1, Len(b.blocks))
           Anew(n) == [k \in DOMAIN Crossed(n) |->
                        Tagged(IF Crossed(n)[k].skip >= k THEN NoSkip
                               ELSE Crossed(n)[k].skip, NextTag + k)]
           Joint(g) == IF a.family = "composite" /\ b.family = "composite"
                       THEN {[g EXCEPT !.blocks = Anew(n)] :
                               n \in 0 .. Min({Len(a.blocks), Len(b.blocks)})}
                       ELSE {g}
           Renormed(g) == [g EXCEPT !.norm =
                             IF (g.pre_norm /\ @ # "layer") \/ (text /\ @ = "batch")
                             THEN "layer" ELSE @]
<1>0. 3 - i \in 1 .. 2
  OBVIOUS
<1>1. /\ a \in Models /\ Agrees(a) /\ Allowed(a)
      /\ Distinct(a.blocks, NextTag) /\ NextTag \in Nat /\ NextTag >= 5 /\ text \in BOOLEAN
  BY Known
<1>2. b \in Models /\ Agrees(b) /\ Allowed(b)
  BY <1>0, Known
<1>3. \E n \in {a.norm, b.norm} : \E y \in Dims([a EXCEPT !.norm = n]) :
        \E z \in Joint(y) : h = Renormed(z)
  <2>1. h \in UNION {{Renormed(z) : z \in Joint(y)} :
                       y \in UNION {Dims([a EXCEPT !.norm = n]) : n \in {a.norm, b.norm}}}
    BY Zenon DEF Mixed
  <2> HIDE DEF Renormed, Joint, Dims
  <2>2. PICK y \in UNION {Dims([a EXCEPT !.norm = n]) : n \in {a.norm, b.norm}} :
          h \in {Renormed(z) : z \in Joint(y)}
    BY <2>1, Zenon
  <2>3. PICK n \in {a.norm, b.norm} : y \in Dims([a EXCEPT !.norm = n])
    BY <2>2, Zenon
  <2>4. \E z \in Joint(y) : h = Renormed(z)
    BY <2>2, ZenonT(40)
  <2> QED BY <2>3, <2>4, Zenon
<1>4. PICK n \in {a.norm, b.norm} : \E y \in Dims([a EXCEPT !.norm = n]) :
        \E z \in Joint(y) : h = Renormed(z)
  BY <1>3, Zenon
<1>5. PICK y \in Dims([a EXCEPT !.norm = n]) : \E z \in Joint(y) : h = Renormed(z)
  BY <1>4, Zenon
<1>6. PICK z \in Joint(y) : h = Renormed(z)
  BY <1>5, Zenon
<1> DEFINE x == [a EXCEPT !.norm = n]
<1> HIDE DEF a, b
<1>t. /\ a.family \in {"mlp", "conv2d", "attention", "composite"}
      /\ n \in {"none", "layer", "batch"}
      /\ a.residual \in BOOLEAN /\ a.pyramid \in BOOLEAN /\ a.input_skip \in BOOLEAN
      /\ a.pre_norm \in BOOLEAN /\ a.blocks \in Seq(Blocks) /\ b.blocks \in Seq(Blocks)
  BY <1>1, <1>2, <1>4 DEF Models
<1>7. /\ x \in Models /\ x.family = a.family /\ x.norm = n /\ x.residual = a.residual
      /\ x.pyramid = a.pyramid /\ x.input_skip = a.input_skip /\ x.pre_norm = a.pre_norm
      /\ x.width = a.width /\ x.heads = a.heads /\ x.kv = a.kv /\ x.rope = a.rope
      /\ x.blocks = a.blocks
  BY <1>1, <1>t DEF Models
<1> DEFINE Shaped(g, p) ==
             /\ g.width = p.width /\ g.heads = p.heads /\ g.kv = p.kv /\ g.rope = p.rope
<1>8. \E p \in {a, b} :
        /\ y \in Models /\ y.family = a.family /\ y.norm = n /\ y.residual = a.residual
        /\ y.pyramid = a.pyramid /\ y.input_skip = a.input_skip /\ y.pre_norm = a.pre_norm
        /\ y.blocks = a.blocks
        /\ Shaped(y, p)
  <2>1. CASE y = x
    BY <1>7, <2>1
  <2>2. ASSUME NEW p \in {a, b},
               y = [x EXCEPT !.width = p.width, !.heads = p.heads, !.kv = p.kv, !.rope = p.rope]
        PROVE  /\ y \in Models /\ y.family = a.family /\ y.norm = n /\ y.residual = a.residual
               /\ y.pyramid = a.pyramid /\ y.input_skip = a.input_skip
               /\ y.pre_norm = a.pre_norm /\ y.blocks = a.blocks
               /\ Shaped(y, p)
    <3>1. p.width \in Embeddings /\ p.heads \in Heads /\ p.kv \in Heads /\ p.rope \in BOOLEAN
      BY <1>1, <1>2, <2>2 DEF Models
    <3> HIDE DEF x
    <3> QED BY <1>7, <2>2, <3>1 DEF Models
  <2>3. y = x \/ \E p \in {a, b} :
          y = [x EXCEPT !.width = p.width, !.heads = p.heads, !.kv = p.kv, !.rope = p.rope]
    <3> HIDE DEF x
    <3>1. y \in Dims(x)
      BY <1>5, Zenon DEF x
    <3> QED BY <3>1, Zenon
  <2> HIDE DEF x, Shaped
  <2> QED BY <2>1, <2>2, <2>3
<1>9. PICK p \in {a, b} :
        /\ y \in Models /\ y.family = a.family /\ y.norm = n /\ y.residual = a.residual
        /\ y.pyramid = a.pyramid /\ y.input_skip = a.input_skip /\ y.pre_norm = a.pre_norm
        /\ y.blocks = a.blocks
        /\ Shaped(y, p)
  BY <1>8, Zenon
<1> DEFINE Whole(bs) ==
             /\ bs \in Seq(Blocks)
             /\ a.family = "composite" => /\ Len(bs) \in 1 .. MaxBlocks
                                          /\ \A j \in 1 .. Len(bs) : bs[j].skip < j
             /\ a.family # "composite" => bs = <<>>
             /\ Distinct(bs, NextTag + 10)
             /\ KeepsSources(a.blocks, bs)
<1>10. Whole(a.blocks)
  <2>1. Distinct(a.blocks, NextTag + 10)
    BY <1>1, LaterLimit, Zenon
  <2>2. KeepsSources(a.blocks, a.blocks)
    BY SMTT(30) DEF KeepsSources
  <2> QED BY <1>1, <1>t, <2>1, <2>2 DEF Agrees
<1>11. ASSUME a.family = "composite", b.family = "composite",
              NEW m \in 0 .. Min({Len(a.blocks), Len(b.blocks)})
       PROVE  Whole(Anew(m))
  <2> DEFINE r == Crossed(m)
             bs == Anew(m)
  <2>1. r \in Seq(Blocks) /\ Len(r) = Len(b.blocks)
    BY <1>t, CrossedBlocks
  <2>2. Len(r) \in 1 .. MaxBlocks
    BY <1>2, <1>11, <2>1 DEF Agrees
  <2>3. bs = [j \in DOMAIN r |->
                Tagged(IF r[j].skip >= j THEN NoSkip ELSE r[j].skip, NextTag + j)]
    OBVIOUS
  <2> HIDE DEF bs, r
  <2>4. /\ bs \in Seq(Blocks) /\ Len(bs) = Len(r)
        /\ \A j \in 1 .. Len(r) : bs[j].skip < j /\ bs[j].tag = NextTag + j
    BY <1>1, <2>1, <2>2, <2>3, RetaggedBlocks
  <2>5. Len(bs) \in 1 .. 6
    <3>1. Len(bs) = Len(r) /\ MaxBlocks \in 2 .. 6
      BY <2>4, BlockAssumption
    <3>3. Len(bs) \in 1 .. MaxBlocks
      BY <2>2, <3>1, Zenon
    <3> QED BY <3>1, <3>3, NoMoreThanSix, Zenon
  <2>6. Distinct(bs, NextTag + 10)
    <3>1. \A j \in 1 .. Len(bs) : bs[j].tag = NextTag + j
      BY <2>4
    <3> QED BY <1>1, <2>5, <3>1, InOrderDistinct, Zenon
  <2>7. \A j \in 1 .. Len(bs) : bs[j].tag >= NextTag
    BY <1>1, <2>4, SMTT(30)
  <2>8. KeepsSources(a.blocks, bs)
    BY <1>1, <1>t, <2>4, <2>7, NewBlocksKeep
  <2>9. Whole(bs)
    BY <1>11, <2>2, <2>4, <2>6, <2>8
  <2> QED BY <2>9, Zenon DEF bs
<1>12. \E bs : /\ Whole(bs)
               /\ z \in Models /\ z.family = a.family /\ z.norm = n /\ z.residual = a.residual
               /\ z.pyramid = a.pyramid /\ z.input_skip = a.input_skip
               /\ z.pre_norm = a.pre_norm /\ z.blocks = bs
               /\ Shaped(z, p)
  <2>1. CASE z = y
    <3> HIDE DEF Whole, Shaped
    <3> QED BY <1>9, <1>10, <2>1
  <2>2. ASSUME NEW bs, Whole(bs), z = [y EXCEPT !.blocks = bs]
        PROVE  /\ z \in Models /\ z.family = a.family /\ z.norm = n /\ z.residual = a.residual
               /\ z.pyramid = a.pyramid /\ z.input_skip = a.input_skip
               /\ z.pre_norm = a.pre_norm /\ z.blocks = bs
               /\ Shaped(z, p)
    BY <1>9, <2>2 DEF Models
  <2>3. z = y \/ \E bs : Whole(bs) /\ z = [y EXCEPT !.blocks = bs]
    <3>1. \/ z = y
          \/ /\ a.family = "composite" /\ b.family = "composite"
             /\ \E m \in 0 .. Min({Len(a.blocks), Len(b.blocks)}) :
                  z = [y EXCEPT !.blocks = Anew(m)]
      <4> HIDE DEF Anew
      <4> QED BY <1>6, Zenon
    <3> HIDE DEF Anew, Whole
    <3> QED BY <1>11, <3>1
  <2> HIDE DEF Whole, Shaped
  <2> QED BY <2>1, <2>2, <2>3
<1>13. PICK bs : /\ Whole(bs)
                 /\ z \in Models /\ z.family = a.family /\ z.norm = n /\ z.residual = a.residual
                 /\ z.pyramid = a.pyramid /\ z.input_skip = a.input_skip
                 /\ z.pre_norm = a.pre_norm /\ z.blocks = bs
                 /\ Shaped(z, p)
  BY <1>12, Zenon
<1> DEFINE k == IF (z.pre_norm /\ z.norm # "layer") \/ (text /\ z.norm = "batch")
                THEN "layer" ELSE z.norm
<1>14. h = [z EXCEPT !.norm = k]
  BY <1>6, Zenon
<1>15. k \in {"none", "layer", "batch"} /\ (a.pre_norm => k = "layer") /\ (text => k # "batch")
  BY <1>t, <1>13
<1> HIDE DEF k, Whole, Shaped
<1>16. /\ h \in Models /\ h.family = a.family /\ h.norm = k /\ h.residual = a.residual
       /\ h.pyramid = a.pyramid /\ h.input_skip = a.input_skip
       /\ h.pre_norm = a.pre_norm /\ h.blocks = bs
       /\ h.width = z.width /\ h.heads = z.heads /\ h.kv = z.kv /\ h.rope = z.rope
  BY <1>13, <1>14, <1>15 DEF Models
<1>17. /\ p.width % p.heads = 0 /\ p.heads % p.kv = 0
       /\ p.rope => (p.width \div p.heads) % 2 = 0
  <2>1. Agrees(p)
    BY <1>1, <1>2
  <2> QED BY <2>1, Zenon DEF Agrees
<1>18. /\ h.width % h.heads = 0 /\ h.heads % h.kv = 0
       /\ h.rope => (h.width \div h.heads) % 2 = 0
  BY <1>13, <1>16, <1>17, Zenon DEF Shaped
<1>19. /\ a.residual => a.family = "mlp"
       /\ a.pyramid => a.family = "conv2d"
       /\ a.input_skip => a.family = "mlp"
       /\ a.pre_norm => a.family = "attention"
  BY <1>1, Zenon DEF Agrees
<1>20. IF a.family = "composite"
       THEN /\ Len(bs) \in 1 .. MaxBlocks
            /\ \A j \in 1 .. Len(bs) : bs[j].skip < j
       ELSE bs = <<>>
  BY <1>13, Zenon DEF Whole
<1>21. Agrees(h)
  BY <1>15, <1>16, <1>18, <1>19, <1>20, Zenon DEF Agrees
<1>22. Allowed(h)
  BY <1>15, <1>16, Zenon DEF Allowed
<1>23. Distinct(h.blocks, NextTag + 10) /\ KeepsSources(a.blocks, h.blocks)
  BY <1>13, <1>16, Zenon DEF Whole
<1>24. FitFor(a, h)
  BY <1>16, <1>21, <1>22, <1>23 DEF FitFor
<1> QED BY <1>24 DEF a

\* Every step keeps the invariant and, of the blocks it moves, what they read.
LEMMA BlockStepsKeep ==
    ASSUME BlockInv, BlockNext
    PROVE  /\ BlockInv'
           /\ \A n \in DOMAIN models : KeepsSources(models[n].blocks, models'[n].blocks)
<1>1. PICK i \in 1 .. 2 :
        \/ SwitchFamily(i) \/ Renorm(i) \/ FlipGene(i) \/ Reshape(i)
        \/ AddBlock(i) \/ RemoveBlock(i) \/ RewireSkip(i) \/ Mate(i)
  BY DEF BlockNext
<1>2. CASE SwitchFamily(i)
  BY <1>2, OtherFamiliesFit, RedrawingKeeps DEF SwitchFamily
<1>3. CASE Renorm(i)
  BY <1>3, NormingsFit, RedrawingKeeps DEF Renorm
<1>4. CASE FlipGene(i)
  BY <1>4, FlagsFit, RedrawingKeeps DEF FlipGene
<1>5. CASE Reshape(i)
  BY <1>5, HeadingsFit, RedrawingKeeps DEF Reshape
<1>6. CASE AddBlock(i)
  BY <1>6, InsertionsFit, RedrawingKeeps DEF AddBlock
<1>7. CASE RemoveBlock(i)
  BY <1>7, RemovalsFit, RedrawingKeeps DEF RemoveBlock
<1>8. CASE RewireSkip(i)
  BY <1>8, SkipChangesFit, RedrawingKeeps DEF RewireSkip
<1>9. CASE Mate(i)
  BY <1>9, MixedFit, RedrawingKeeps DEF Mate
<1> QED BY <1>1, <1>2, <1>3, <1>4, <1>5, <1>6, <1>7, <1>8, <1>9

LEMMA BlocksStayWell == BlockSpec => []BlockInv
<1>1. BlockInv /\ UNCHANGED blockVars => BlockInv'
  BY DEF BlockInv, blockVars, Agrees, Allowed, Distinct, NextTag
<1> QED BY <1>1, BlocksStartWell, BlockStepsKeep, PTL DEF BlockSpec

\* No edit or crossover of a family genome draws one that validate_architecture
\* refuses, for every width, head count and number of blocks searched.
THEOREM ModelsAreExecutable == BlockSpec => []ModelsStayExecutable
<1>1. BlockInv => ModelsStayExecutable
  BY DEF BlockInv, ModelsStayExecutable
<1> QED BY <1>1, BlocksStayWell, PTL

\* Wherever block_add and block_remove move a block, its skip still names the
\* state it named, or none when that state is gone.
THEOREM SkipsKeepTheirSources == BlockSpec => SkipsKeepTheirSource
<1> DEFINE Kept == \A n \in DOMAIN models :
                     KeepsSources(models[n].blocks, models'[n].blocks)
<1>1. BlockInv /\ [BlockNext]_blockVars => [Kept]_blockVars
  BY BlockStepsKeep
<1>2. Kept <=> \A n \in DOMAIN models :
        LET old == models[n].blocks
            new == models'[n].blocks
        IN  Len(old) # Len(new) =>
              \A i \in DOMAIN old, j \in DOMAIN new : old[i].tag = new[j].tag =>
                \/ Reads(new, j) = Reads(old, i)
                \/ /\ Reads(new, j) = NoSkip
                   /\ Reads(old, i) \notin Tags(new) \cup {Stem}
  BY Zenon DEF KeepsSources
<1> HIDE DEF Kept
<1> QED BY <1>1, <1>2, BlocksStayWell, PTL DEF BlockSpec, SkipsKeepTheirSource

(***************************************************************************)
(* Circuits. A circuit of the first version is a list of layers; of a later *)
(* one it is a wiring whose output holds every state that nothing else reads, *)
(* which is what makes it compile.                                         *)
(***************************************************************************)

\* Wires that read no state before it is there.
IsWiring(w) ==
  /\ w \in Seq(SUBSET Nat)
  /\ Len(w) \in Nat \ {0}
  /\ \A k \in 1 .. Len(w) : w[k] # {} /\ w[k] \subseteq 0 .. k - 1

\* States that hold the last one, and all that theirs read.
HoldsInputs(w, S) ==
  /\ Len(w) \in S
  /\ \A k \in 1 .. Len(w) : k \in S => w[k] \subseteq S

\* Feeding is the least such set.
LEMMA FeedingIsLeast ==
    ASSUME NEW w, IsWiring(w)
    PROVE  /\ Feeding(w) \subseteq 0 .. Len(w)
           /\ HoldsInputs(w, Feeding(w))
           /\ \A S : HoldsInputs(w, S) => Feeding(w) \subseteq S
<1> DEFINE n == Len(w)
           T == SUBSET (0 .. n)
           step == [j \in 1 .. n |-> [s \in T |-> WithInputs(s, w, n - j + 1)]]
           F(f) == f = [j \in 0 .. n |-> IF j = 0 THEN {n}
                                         ELSE WithInputs(f[j - 1], w, n - j + 1)]
           fed == CHOOSE f : F(f)
<1>1. n \in Nat \ {0} /\ \A k \in 1 .. n : w[k] \subseteq 0 .. k - 1
  BY DEF IsWiring
<1>2. Feeding(w) = fed[n]
  BY DEF Feeding
<1> HIDE DEF n
<1>3. \A j \in 1 .. n : n - j + 1 \in 1 .. n
  BY <1>1
<1>4. \A k \in 1 .. n : w[k] \subseteq 0 .. n
  BY <1>1
<1>5. step \in [1 .. n -> [T -> T]]
  <2>1. ASSUME NEW j \in 1 .. n, NEW s \in T PROVE WithInputs(s, w, n - j + 1) \in T
    BY <1>3, <1>4 DEF WithInputs
  <2> HIDE DEF T
  <2> QED BY <2>1
<1>6. {n} \in T
  BY <1>1
<1>7. PICK f \in [0 .. n -> T] : RoundsOf(n, {n}, step, f)
  <2> HIDE DEF T, step
  <2> QED BY <1>1, <1>5, <1>6, RoundsExist
<1> HIDE DEF T
<1>8. F(f)
  <2>1. ASSUME NEW j \in 0 .. n
        PROVE  f[j] = IF j = 0 THEN {n} ELSE WithInputs(f[j - 1], w, n - j + 1)
    <3>1. f[j] = IF j = 0 THEN {n} ELSE step[j][f[j - 1]]
      <4> HIDE DEF step
      <4> QED BY <1>7 DEF RoundsOf
    <3>2. j # 0 => j \in 1 .. n /\ j - 1 \in 0 .. n
      BY <1>1
    <3>3. j # 0 => f[j - 1] \in T
      BY <3>2
    <3>4. j # 0 => step[j][f[j - 1]] = WithInputs(f[j - 1], w, n - j + 1)
      BY <3>2, <3>3
    <3> QED BY <3>1, <3>4
  <2>2. f = [j \in 0 .. n |-> f[j]]
    OBVIOUS
  <2> QED BY <2>1, <2>2
<1>9. F(fed)
  <2>1. \E g : F(g)
    BY <1>8
  <2> QED BY <2>1
<1>10. /\ fed[0] = {n}
       /\ \A j \in 1 .. n : fed[j] = WithInputs(fed[j - 1], w, n - j + 1)
  <2>1. \A j \in 0 .. n : fed[j] = IF j = 0 THEN {n} ELSE WithInputs(fed[j - 1], w, n - j + 1)
    <3> HIDE DEF fed
    <3> QED BY <1>9
  <2>2. 0 \in 0 .. n /\ \A j \in 1 .. n : j \in 0 .. n /\ j # 0
    BY <1>1
  <2> HIDE DEF fed
  <2> QED BY <2>1, <2>2
<1> HIDE DEF fed, step, F
<1> DEFINE Good == {j \in 0 .. n :
                      /\ fed[j] \subseteq 0 .. n /\ n \in fed[j]
                      /\ \A k \in 1 .. n : k > n - j /\ k \in fed[j] => w[k] \subseteq fed[j]
                      /\ \A S : HoldsInputs(w, S) => fed[j] \subseteq S}
<1>11. 0 \in Good
  <2>1. 0 \in 0 .. n /\ \A k \in 1 .. n : ~(k > n - 0)
    BY <1>1
  <2>2. \A S : HoldsInputs(w, S) => n \in S
    BY DEF HoldsInputs, n
  <2>3. fed[0] \subseteq 0 .. n
    BY <1>1, <1>10
  <2> QED BY <1>10, <2>1, <2>2, <2>3
<1>12. ASSUME NEW j \in 1 .. n, j - 1 \in Good PROVE j \in Good
  <2> DEFINE a == fed[j - 1]
             b == fed[j]
             m == n - j + 1
  <2>1. /\ a \subseteq 0 .. n /\ n \in a
        /\ \A k \in 1 .. n : k > n - (j - 1) /\ k \in a => w[k] \subseteq a
        /\ \A S : HoldsInputs(w, S) => a \subseteq S
    BY <1>12
  <2>2. b = WithInputs(a, w, m)
    BY <1>10
  <2>3. m \in 1 .. n /\ w[m] \subseteq 0 .. m - 1 /\ j \in 0 .. n
    BY <1>1, <1>3
  <2>4. \A k \in 1 .. n : /\ k > n - j <=> k = m \/ k > n - (j - 1)
                          /\ k > n - j => k >= m
    BY <1>1
  <2> HIDE DEF a, b, m
  <2>5. a \subseteq b /\ b \subseteq 0 .. n /\ (m \in a => w[m] \subseteq b)
    BY <1>4, <2>1, <2>2, <2>3 DEF WithInputs
  <2>6. \A k \in 1 .. n : k >= m /\ k \in b => k \in a
    BY <2>2, <2>3 DEF WithInputs
  <2>7. \A k \in 1 .. n : k > n - j /\ k \in b => w[k] \subseteq b
    <3> SUFFICES ASSUME NEW k \in 1 .. n, k > n - j, k \in b PROVE w[k] \subseteq b
      OBVIOUS
    <3>1. k \in a
      BY <2>4, <2>6
    <3>2. CASE k = m
      BY <2>5, <3>1, <3>2
    <3>3. CASE k > n - (j - 1)
      BY <2>1, <2>5, <3>1, <3>3
    <3> QED BY <2>4, <3>2, <3>3
  <2>8. ASSUME NEW S, HoldsInputs(w, S) PROVE b \subseteq S
    <3>1. a \subseteq S /\ (m \in S => w[m] \subseteq S)
      BY <2>1, <2>3, <2>8 DEF HoldsInputs, n
    <3> QED BY <2>2, <3>1 DEF WithInputs
  <2>9. n \in b
    BY <2>1, <2>5
  <2> QED BY <2>3, <2>5, <2>7, <2>8, <2>9 DEF b
<1>13. n \in Good
  <2>1. \A k \in 1 .. n : k - 1 \in Good => k \in Good
    BY <1>12
  <2>2. n \in Nat /\ n \in 0 .. n
    BY <1>1
  <2> HIDE DEF Good
  <2>3. 0 .. n \subseteq Good
    BY <1>11, <2>1, <2>2, UpTo
  <2> QED BY <2>2, <2>3
<1>14. /\ fed[n] \subseteq 0 .. n /\ n \in fed[n]
       /\ \A k \in 1 .. n : k > n - n /\ k \in fed[n] => w[k] \subseteq fed[n]
       /\ \A S : HoldsInputs(w, S) => fed[n] \subseteq S
  BY <1>13
<1>15. \A k \in 1 .. n : k > n - n
  BY <1>1
<1>16. HoldsInputs(w, fed[n])
  BY <1>14, <1>15 DEF HoldsInputs, n
<1> QED BY <1>2, <1>14, <1>16 DEF n

\* After the repair every state is in the output.
LEMMA RepairedIsWhole ==
    ASSUME NEW w, IsWiring(w)
    PROVE  /\ IsWiring(Repaired(w)) /\ Len(Repaired(w)) = Len(w)
           /\ Feeding(Repaired(w)) = 0 .. Len(Repaired(w))
<1> DEFINE n == Len(w)
           old == Feeding(w)
           more == w[n] \cup ((0 .. n - 1) \ old)
           r == [w EXCEPT ![n] = more]
           new == Feeding(r)
<1>1. /\ n \in Nat \ {0} /\ n \in 1 .. n /\ w \in Seq(SUBSET Nat)
      /\ \A k \in 1 .. n : w[k] # {} /\ w[k] \subseteq 0 .. k - 1
  BY DEF IsWiring
<1>2. Repaired(w) = r
  BY DEF Repaired
<1>3. old \subseteq 0 .. n /\ HoldsInputs(w, old) /\ \A S : HoldsInputs(w, S) => old \subseteq S
  BY FeedingIsLeast
<1> HIDE DEF old, n
<1>4. more \subseteq 0 .. n - 1 /\ more # {} /\ more \in SUBSET Nat
  BY <1>1
<1> HIDE DEF more
<1>5. /\ r \in Seq(SUBSET Nat) /\ Len(r) = n
      /\ \A k \in 1 .. n : r[k] = IF k = n THEN more ELSE w[k]
  BY <1>1, <1>4 DEF n
<1> HIDE DEF r
<1>6. IsWiring(r)
  BY <1>1, <1>4, <1>5 DEF IsWiring
<1>7. new \subseteq 0 .. n /\ HoldsInputs(r, new)
  BY <1>5, <1>6, FeedingIsLeast
<1> HIDE DEF new
<1>8. n \in new /\ more \subseteq new /\ \A k \in 1 .. n : k \in new => r[k] \subseteq new
  BY <1>1, <1>5, <1>7 DEF HoldsInputs
<1>9. HoldsInputs(w, new)
  <2>1. ASSUME NEW k \in 1 .. n, k \in new PROVE w[k] \subseteq new
    <3>1. CASE k = n
      BY <1>8, <3>1 DEF more
    <3>2. CASE k # n
      BY <1>5, <1>8, <2>1, <3>2
    <3> QED BY <3>1, <3>2
  <2> QED BY <1>8, <2>1 DEF HoldsInputs, n
<1>10. old \subseteq new
  BY <1>3, <1>9
<1>11. \A k \in 0 .. n : k = n \/ k \in 0 .. n - 1
  BY <1>1
<1>12. 0 .. n \subseteq new
  BY <1>8, <1>10, <1>11 DEF more
<1>13. new = 0 .. n
  BY <1>7, <1>12
<1> QED BY <1>2, <1>5, <1>6, <1>13 DEF n, new

LEMMA ChainIsWhole ==
    ASSUME NEW n \in Nat \ {0}
    PROVE  /\ IsWiring(InSeries(n)) /\ Len(InSeries(n)) = n
           /\ Feeding(InSeries(n)) = 0 .. n
<1> DEFINE w == InSeries(n)
           new == Feeding(w)
<1>1. w = [k \in 1 .. n |-> {k - 1}]
  BY DEF InSeries
<1>2. \A k \in 1 .. n : w[k] = {k - 1} /\ k - 1 \in Nat
  BY <1>1
<1>3. w = [k \in 1 .. n |-> w[k]]
  BY <1>1
<1> HIDE DEF w
<1>4. w \in Seq(SUBSET Nat) /\ Len(w) = n
  <2>1. \A k \in 1 .. n : w[k] \in SUBSET Nat
    BY <1>2
  <2> QED BY <1>3, <2>1, ListedIn
<1>5. IsWiring(w)
  <2>1. ASSUME NEW k \in 1 .. n PROVE w[k] # {} /\ w[k] \subseteq 0 .. k - 1
    BY <1>2
  <2> QED BY <1>4, <2>1 DEF IsWiring
<1>6. new \subseteq 0 .. n /\ n \in new /\ \A k \in 1 .. n : k \in new => k - 1 \in new
  <2>1. new \subseteq 0 .. n /\ HoldsInputs(w, new)
    BY <1>4, <1>5, FeedingIsLeast
  <2> HIDE DEF new
  <2> QED BY <1>2, <1>4, <2>1 DEF HoldsInputs
<1> HIDE DEF new
<1> DEFINE S == {j \in 0 .. n : n - j \in new}
<1>7. 0 \in S
  BY <1>6
<1>8. ASSUME NEW j \in 1 .. n, j - 1 \in S PROVE j \in S
  <2>1. n - (j - 1) \in 1 .. n /\ n - (j - 1) - 1 = n - j /\ n - (j - 1) \in new /\ j \in 0 .. n
    BY <1>8
  <2>2. n - (j - 1) - 1 \in new
    BY <1>6, <2>1
  <2> QED BY <2>1, <2>2
<1>9. 0 .. n \subseteq S
  <2>1. n \in Nat /\ \A k \in 1 .. n : k - 1 \in S => k \in S
    BY <1>8
  <2> HIDE DEF S
  <2> QED BY <1>7, <2>1, UpTo
<1>10. ASSUME NEW k \in 0 .. n PROVE k \in new
  <2>1. n - k \in 0 .. n /\ n - (n - k) = k
    OBVIOUS
  <2>2. n - k \in S
    BY <1>9, <2>1
  <2>3. n - (n - k) \in new
    BY <2>2, SMTT(30)
  <2> QED BY <2>1, <2>3
<1> QED BY <1>4, <1>5, <1>6, <1>10 DEF w, new

Circuits == [version : 1 .. 3, special : BOOLEAN,
             wires : Seq(SUBSET Nat), idle : Seq(BOOLEAN)]

\* The searches differ in the versions they can have made.
OfItsCourse(g) ==
  /\ course.policy = "legacy" <=> g.version = 1
  /\ AdmitsV3 => g.version = 3

CircuitInv ==
  /\ course \in Courses
  /\ circuit \in Circuits /\ Compiles(circuit) /\ OfItsCourse(circuit)
  /\ ~misbuilt

LEMMA BuildingKeeps ==
    ASSUME CircuitInv, NEW g \in Circuits, Compiles(g), OfItsCourse(g), Build(g)
    PROVE  CircuitInv'
BY DEF CircuitInv, Build, Compiles, OfItsCourse, AdmitsV3

LEMMA Up32 ==
    ASSUME NEW n \in 1 .. 32
    PROVE  /\ n \in Nat \ {0} /\ n \in Nat /\ n <= 32 /\ n \in 1 .. n
           /\ n - 1 \in 0 .. n /\ n - 1 <= 32 /\ (n > 1 => n - 1 \in Nat \ {0})
           /\ \A k \in 1 .. n - 1 : k \in 1 .. n
OBVIOUS

LEMMA From32 ==
    ASSUME NEW n \in Nat \ {0}, n <= 32
    PROVE  n \in 1 .. 32
OBVIOUS

LEMMA PinnedIs ==
    ASSUME NEW g \in Circuits, course \in Courses
    PROVE  \E s \in BOOLEAN :
             /\ Pinned(g) \in Circuits
             /\ Pinned(g).version = g.version /\ Pinned(g).special = s
             /\ Pinned(g).wires = g.wires /\ Pinned(g).idle = g.idle
             /\ s => g.special \/ AdmitsV3
BY DEF Pinned, Circuits

\* A circuit of a version above the first, wired as a whole.
LEMMA WholeCompiles ==
    ASSUME NEW g \in Circuits, IsWiring(g.wires), Feeding(g.wires) = 0 .. Len(g.wires),
           Len(g.wires) <= 32, Len(g.idle) = Len(g.wires), g.version \in 2 .. 3,
           g.special => g.version = 3 /\ course.task = "special"
    PROVE  Compiles(g)
<1>1. Depth(g) = Len(g.wires)
  BY DEF Depth
<1>2. /\ Len(g.wires) \in 1 .. 32
      /\ \A k \in 1 .. Len(g.wires) : g.wires[k] # {} /\ g.wires[k] \subseteq 0 .. k - 1
  BY From32, Zenon DEF IsWiring
<1>3. (g.version < 3 => ~g.special) /\ g.version # 1
  OBVIOUS
<1> QED BY <1>1, <1>2, <1>3, Zenon DEF Compiles

LEMMA CircuitIs ==
    ASSUME CircuitInv
    PROVE  /\ circuit \in Circuits /\ course \in Courses
           /\ circuit.version \in 1 .. 3 /\ circuit.special \in BOOLEAN
           /\ IsWiring(circuit.wires) /\ Feeding(circuit.wires) = 0 .. Len(circuit.wires)
           /\ Len(circuit.wires) \in 1 .. 32 /\ Len(circuit.idle) = Len(circuit.wires)
           /\ circuit.wires \in Seq(SUBSET Nat) /\ circuit.idle \in Seq(BOOLEAN)
           /\ circuit.special => circuit.version = 3 /\ course.task = "special"
           /\ Depth(circuit) = Len(circuit.wires)
<1>1. circuit \in Circuits /\ course \in Courses /\ Compiles(circuit)
  BY DEF CircuitInv
<1>2. Depth(circuit) = Len(circuit.wires)
  BY DEF Depth
<1>3. /\ circuit.version \in 1 .. 3 /\ circuit.special \in BOOLEAN
      /\ circuit.wires \in Seq(SUBSET Nat) /\ circuit.idle \in Seq(BOOLEAN)
  BY <1>1 DEF Circuits
<1>4. /\ Len(circuit.wires) \in 1 .. 32 /\ Len(circuit.idle) = Len(circuit.wires)
      /\ \A k \in 1 .. Len(circuit.wires) :
           circuit.wires[k] # {} /\ circuit.wires[k] \subseteq 0 .. k - 1
      /\ Feeding(circuit.wires) = 0 .. Len(circuit.wires)
      /\ circuit.version < 3 => ~circuit.special
      /\ circuit.special => course.task = "special"
  BY <1>1, <1>2 DEF Compiles
<1>5. circuit.special => circuit.version = 3
  BY <1>3, <1>4
<1>6. IsWiring(circuit.wires)
  <2>1. Len(circuit.wires) \in Nat \ {0}
    BY <1>4, Up32, Zenon
  <2> QED BY <1>3, <1>4, <2>1 DEF IsWiring
<1> QED BY <1>1, <1>2, <1>3, <1>4, <1>5, <1>6

LEMMA BroadeningKeeps ==
    ASSUME CircuitInv, NEW w, NEW idle, Broaden(w, idle), IsWiring(w), Len(w) <= 32,
           idle \in Seq(BOOLEAN), Len(idle) = Len(w)
    PROVE  CircuitInv'
<1> DEFINE r == Repaired(w)
           v == IF circuit.version < 2 THEN 2 ELSE circuit.version
           g == [circuit EXCEPT !.version = v, !.wires = r, !.idle = idle]
           p == Pinned(g)
<1>1. Build(p) /\ course.policy # "legacy"
  BY Zenon DEF Broaden
<1>2. /\ circuit \in Circuits /\ course \in Courses /\ circuit.version \in 1 .. 3
      /\ circuit.special \in BOOLEAN
      /\ circuit.special => circuit.version = 3 /\ course.task = "special"
  BY CircuitIs
<1>3. IsWiring(r) /\ Len(r) = Len(w) /\ Feeding(r) = 0 .. Len(r)
  BY RepairedIsWhole
<1> HIDE DEF r
<1>4. r \in Seq(SUBSET Nat)
  BY <1>3 DEF IsWiring
<1>5. (AdmitsV3 => circuit.version = 3) /\ circuit.version # 1
  BY <1>1 DEF CircuitInv, OfItsCourse
<1>6. v \in 2 .. 3 /\ v = circuit.version
  BY <1>2, <1>5
<1> HIDE DEF v
<1>7. /\ g \in Circuits /\ g.version = v /\ g.special = circuit.special
      /\ g.wires = r /\ g.idle = idle
  BY <1>2, <1>4, <1>6 DEF Circuits
<1> HIDE DEF g
<1>8. PICK s \in BOOLEAN :
        /\ p \in Circuits /\ p.version = v /\ p.special = s /\ p.wires = r /\ p.idle = idle
        /\ s => circuit.special \/ AdmitsV3
  <2>1. PICK s \in BOOLEAN :
          /\ p \in Circuits /\ p.version = g.version /\ p.special = s
          /\ p.wires = g.wires /\ p.idle = g.idle
          /\ s => g.special \/ AdmitsV3
    BY <1>2, <1>7, PinnedIs
  <2> HIDE DEF p
  <2> QED BY <1>7, <2>1
<1> HIDE DEF p
<1>9. s => p.version = 3 /\ course.task = "special"
  BY <1>2, <1>5, <1>6, <1>8 DEF AdmitsV3
<1>10. Compiles(p)
  BY <1>3, <1>6, <1>8, <1>9, WholeCompiles
<1>11. OfItsCourse(p)
  BY <1>1, <1>5, <1>6, <1>8 DEF OfItsCourse
<1> QED BY <1>1, <1>8, <1>10, <1>11, BuildingKeeps

LEMMA FreshIs ==
    ASSUME course \in Courses, NEW g \in FreshCircuits
    PROVE  g \in Circuits /\ Compiles(g) /\ OfItsCourse(g)
<1> DEFINE N == 1 .. IF course.policy = "legacy" THEN 1 ELSE MaxDepth
           v == IF course.policy = "legacy" THEN 1 ELSE IF AdmitsV3 THEN 3 ELSE 2
           M == IF ~AdmitsV3 THEN {FALSE}
                ELSE IF course.policy = "pinned" THEN {TRUE} ELSE BOOLEAN
           Fresh(n, s) == [version |-> v, special |-> s, wires |-> InSeries(n),
                           idle |-> [k \in 1 .. n |-> FALSE]]
<1>0. \E n \in N : \E s \in M : g = Fresh(n, s)
  <2>1. FreshCircuits = {[version |-> v, special |-> s, wires |-> InSeries(n),
                          idle |-> [k \in 1 .. n |-> FALSE]] : n \in N, s \in M}
    BY DEF FreshCircuits
  <2> HIDE DEF N, M, v
  <2> QED BY <2>1
<1>1. PICK n \in N, s \in M : g = Fresh(n, s)
  <2> HIDE DEF N, M, Fresh
  <2> QED BY <1>0
<1>2. /\ n \in Nat \ {0} /\ n <= 32
      /\ course.policy = "legacy" => n = 1
  BY <1>1, CircuitAssumption
<1> DEFINE w == InSeries(n)
           idle == [k \in 1 .. n |-> FALSE]
<1>3. IsWiring(w) /\ Len(w) = n /\ Feeding(w) = 0 .. n
  BY <1>2, ChainIsWhole
<1>4. idle \in Seq(BOOLEAN) /\ Len(idle) = n /\ \A k \in 1 .. n : ~idle[k]
  <2>1. idle = [k \in 1 .. n |-> idle[k]] /\ \A k \in 1 .. n : idle[k] \in BOOLEAN /\ ~idle[k]
    OBVIOUS
  <2> HIDE DEF idle
  <2> QED BY <1>2, <2>1, ListedIn
<1>5. s \in BOOLEAN /\ (s => AdmitsV3)
  BY <1>1
<1>6. v \in 1 .. 3 /\ (AdmitsV3 => v = 3) /\ (course.policy = "legacy" <=> v = 1)
  BY DEF AdmitsV3
<1>7. w \in Seq(SUBSET Nat)
  BY <1>3 DEF IsWiring
<1> HIDE DEF w, idle, v
<1>8. /\ g \in Circuits /\ g.version = v /\ g.special = s /\ g.wires = w /\ g.idle = idle
  <2>1. g = [version |-> v, special |-> s, wires |-> w, idle |-> idle]
    BY <1>1 DEF w, idle
  <2> QED BY <1>4, <1>5, <1>6, <1>7, <2>1 DEF Circuits
<1>9. s => v = 3 /\ course.task = "special"
  BY <1>5, <1>6 DEF AdmitsV3
<1>10. Compiles(g)
  <2>1. CASE v = 1
    <3>1. Depth(g) = n /\ n = 1
      BY <1>2, <1>3, <1>6, <1>8, <2>1 DEF Depth
    <3>2. \A k \in 1 .. n : w[k] # {} /\ w[k] \subseteq 0 .. k - 1
      BY <1>3 DEF IsWiring
    <3>3. n \in 1 .. 32 /\ n <= 4
      BY <3>1
    <3>4. ~s
      BY <1>9, <2>1
    <3> QED BY <1>3, <1>4, <1>8, <3>1, <3>2, <3>3, <3>4 DEF Compiles, w
  <2>2. CASE v # 1
    <3>1. v \in 2 .. 3
      BY <1>6, <2>2
    <3> QED BY <1>2, <1>3, <1>4, <1>8, <1>9, <3>1, WholeCompiles
  <2> QED BY <2>1, <2>2
<1>11. OfItsCourse(g)
  BY <1>6, <1>8 DEF OfItsCourse
<1> QED BY <1>8, <1>10, <1>11

LEMMA GrowKeeps == CircuitInv /\ Grow => CircuitInv'
<1> SUFFICES ASSUME CircuitInv, Grow PROVE CircuitInv'
  OBVIOUS
<1> DEFINE n == Len(circuit.wires)
           w == Append(circuit.wires, {n})
           idle == Append(circuit.idle, TRUE)
<1>1. /\ IsWiring(circuit.wires) /\ n \in 1 .. 32 /\ Len(circuit.idle) = n
      /\ circuit.wires \in Seq(SUBSET Nat) /\ circuit.idle \in Seq(BOOLEAN)
      /\ Depth(circuit) = n
  BY CircuitIs
<1>2. n < MaxDepth /\ Broaden(w, idle)
  BY <1>1 DEF Grow
<1>3. /\ w \in Seq(SUBSET Nat) /\ Len(w) = n + 1
      /\ \A k \in 1 .. n + 1 : w[k] = IF k = n + 1 THEN {n} ELSE circuit.wires[k]
  <2>1. {n} \in SUBSET Nat
    BY <1>1
  <2> QED BY <1>1, <2>1
<1>4. idle \in Seq(BOOLEAN) /\ Len(idle) = n + 1
  BY <1>1
<1>5. \A k \in 1 .. n : circuit.wires[k] # {} /\ circuit.wires[k] \subseteq 0 .. k - 1
  BY <1>1 DEF IsWiring
<1> HIDE DEF w, idle, n
<1>6. IsWiring(w)
  <2>1. ASSUME NEW k \in 1 .. n + 1 PROVE w[k] # {} /\ w[k] \subseteq 0 .. k - 1
    <3>1. CASE k = n + 1
      <4>1. w[k] = {n} /\ n \in Nat /\ n \in 0 .. k - 1
        <5>1. n \in Nat
          BY <1>1, Up32, Zenon
        <5> QED BY <1>3, <3>1, <5>1
      <4> QED BY <4>1
    <3>2. CASE k # n + 1
      <4>1. k \in 1 .. n
        BY <1>1, <3>2
      <4>2. w[k] = circuit.wires[k]
        BY <1>3, <3>2
      <4> QED BY <1>5, <4>1, <4>2
    <3> QED BY <3>1, <3>2
  <2>2. n + 1 \in Nat \ {0}
    BY <1>1
  <2> QED BY <1>3, <2>1, <2>2 DEF IsWiring
<1>7. n + 1 <= 32
  BY <1>1, <1>2, CircuitAssumption
<1> QED BY <1>2, <1>3, <1>4, <1>6, <1>7, BroadeningKeeps

LEMMA PruneKeeps == CircuitInv /\ Prune => CircuitInv'
<1> SUFFICES ASSUME CircuitInv, Prune PROVE CircuitInv'
  OBVIOUS
<1> DEFINE n == Len(circuit.wires)
           w == SubSeq(circuit.wires, 1, n - 1)
           idle == SubSeq(circuit.idle, 1, n - 1)
<1>1. /\ IsWiring(circuit.wires) /\ n \in 1 .. 32 /\ Len(circuit.idle) = n
      /\ circuit.wires \in Seq(SUBSET Nat) /\ circuit.idle \in Seq(BOOLEAN)
      /\ Depth(circuit) = n
  BY CircuitIs
<1>2. n > 1 /\ Broaden(w, idle)
  BY <1>1 DEF Prune, Front
<1>3. n - 1 \in 0 .. n /\ n - 1 \in Nat \ {0} /\ n - 1 <= 32 /\ \A k \in 1 .. n - 1 : k \in 1 .. n
  BY <1>1, <1>2, Up32, Zenon
<1>4. w \in Seq(SUBSET Nat) /\ Len(w) = n - 1 /\ \A k \in 1 .. n - 1 : w[k] = circuit.wires[k]
  BY <1>1, <1>3, Begun
<1>5. idle \in Seq(BOOLEAN) /\ Len(idle) = n - 1
  BY <1>1, <1>3, Begun
<1>6. \A k \in 1 .. n - 1 : circuit.wires[k] # {} /\ circuit.wires[k] \subseteq 0 .. k - 1
  BY <1>1, <1>3, Zenon DEF IsWiring
<1> HIDE DEF w, idle, n
<1>7. IsWiring(w)
  BY <1>3, <1>4, <1>6 DEF IsWiring
<1> QED BY <1>2, <1>3, <1>4, <1>5, <1>7, BroadeningKeeps

LEMMA RewireKeeps == CircuitInv /\ RewireOne => CircuitInv'
<1> SUFFICES ASSUME CircuitInv, RewireOne PROVE CircuitInv'
  OBVIOUS
<1> DEFINE n == Len(circuit.wires)
<1>1. /\ IsWiring(circuit.wires) /\ n \in 1 .. 32 /\ Len(circuit.idle) = n
      /\ circuit.wires \in Seq(SUBSET Nat) /\ circuit.idle \in Seq(BOOLEAN)
      /\ Depth(circuit) = n
  BY CircuitIs
<1>2. PICK at \in 2 .. n : \E refs \in (SUBSET (0 .. at - 1)) \ {{}} :
        Broaden([circuit.wires EXCEPT ![at] = refs], circuit.idle)
  BY <1>1 DEF RewireOne
<1>3. PICK refs \in (SUBSET (0 .. at - 1)) \ {{}} :
        Broaden([circuit.wires EXCEPT ![at] = refs], circuit.idle)
  BY <1>2
<1> DEFINE w == [circuit.wires EXCEPT ![at] = refs]
<1>n. n \in Nat \ {0} /\ n <= 32
  BY <1>1, Up32, Zenon
<1>4. refs \in SUBSET Nat /\ refs # {} /\ refs \subseteq 0 .. at - 1 /\ at \in 1 .. n
  <2> HIDE DEF n
  <2>1. at \in 1 .. n /\ at \in Nat
    BY <1>n
  <2>2. 0 .. at - 1 \subseteq Nat
    BY <2>1
  <2> QED BY <2>1, <2>2
<1>5. /\ w \in Seq(SUBSET Nat) /\ Len(w) = n
      /\ \A k \in 1 .. n : w[k] = IF k = at THEN refs ELSE circuit.wires[k]
  BY <1>1, <1>4
<1>6. \A k \in 1 .. n : circuit.wires[k] # {} /\ circuit.wires[k] \subseteq 0 .. k - 1
  BY <1>1 DEF IsWiring
<1> HIDE DEF w, n
<1>7. IsWiring(w)
  <2>2. ASSUME NEW k \in 1 .. n PROVE w[k] # {} /\ w[k] \subseteq 0 .. k - 1
    BY <1>4, <1>5, <1>6
  <2> QED BY <1>5, <1>n, <2>2, Zenon DEF IsWiring
<1>8. Len(w) <= 32 /\ Broaden(w, circuit.idle)
  BY <1>3, <1>5, <1>n, Zenon DEF w
<1> QED BY <1>1, <1>5, <1>7, <1>8, BroadeningKeeps

LEMMA ExchangeKeeps == CircuitInv /\ Exchange => CircuitInv'
<1> SUFFICES ASSUME CircuitInv, Exchange PROVE CircuitInv'
  OBVIOUS
<1>1. /\ IsWiring(circuit.wires) /\ Len(circuit.wires) \in 1 .. 32
      /\ Len(circuit.idle) = Len(circuit.wires)
      /\ circuit.idle \in Seq(BOOLEAN)
      /\ Depth(circuit) = Len(circuit.wires)
  BY CircuitIs
<1>2. PICK k \in 1 .. Depth(circuit), kind \in BOOLEAN :
        Broaden(circuit.wires, [circuit.idle EXCEPT ![k] = kind])
  BY DEF Exchange
<1> DEFINE idle == [circuit.idle EXCEPT ![k] = kind]
<1>3. idle \in Seq(BOOLEAN) /\ Len(idle) = Len(circuit.wires)
  BY <1>1
<1> HIDE DEF idle
<1>4. Broaden(circuit.wires, idle) /\ Len(circuit.wires) <= 32
  BY <1>1, <1>2, Up32, Zenon DEF idle
<1> QED BY <1>1, <1>3, <1>4, BroadeningKeeps

LEMMA RepeatKeeps == CircuitInv /\ Repeat => CircuitInv'
<1> SUFFICES ASSUME CircuitInv, Repeat PROVE CircuitInv'
  OBVIOUS
<1> DEFINE d == Len(circuit.wires)
<1>1. /\ IsWiring(circuit.wires) /\ d \in 1 .. 32 /\ Len(circuit.idle) = d
      /\ circuit.wires \in Seq(SUBSET Nat) /\ circuit.idle \in Seq(BOOLEAN)
      /\ Depth(circuit) = d
  BY CircuitIs
<1> DEFINE Shifted(refs, start, n) == {IF r >= start THEN r + n ELSE r : r \in refs}
           Copy(n) == SubSeq(circuit.wires, d - n + 1, d)
           Tail2(n) == [k \in 1 .. n |-> Shifted(Copy(n)[k], d - n, n)]
           Idle2(n) == SubSeq(circuit.idle, d - n + 1, d)
<1>2. \E n \in 1 .. d : /\ n <= MaxDepth - d
                        /\ Broaden(circuit.wires \o Tail2(n), circuit.idle \o Idle2(n))
  <2> HIDE DEF d
  <2>1. Depth(circuit) = d
    BY <1>1
  <2> QED BY <2>1, Zenon DEF Repeat
<1>3. PICK n \in 1 .. d : /\ n <= MaxDepth - d
                          /\ Broaden(circuit.wires \o Tail2(n), circuit.idle \o Idle2(n))
  BY <1>2
<1>4. \A k \in 1 .. d : circuit.wires[k] # {} /\ circuit.wires[k] \subseteq 0 .. k - 1
  BY <1>1 DEF IsWiring
<1> DEFINE copy == Copy(n)
           tail == Tail2(n)
           rest == Idle2(n)
<1>5. d - n + 1 \in 1 .. d /\ d - n + 1 \in Int /\ d \in Int /\ n \in Nat \ {0} /\ d - n \in Nat
      /\ d - (d - n + 1) + 1 = n /\ d - n + 1 <= d
  BY <1>1
<1>6. \A k \in 1 .. n : copy[k] = circuit.wires[d - n + k]
  <2>1. \A k \in d - n + 1 .. d : circuit.wires[k] \in SUBSET Nat
    BY <1>1, <1>5
  <2>2. \A k \in 1 .. d - (d - n + 1) + 1 : copy[k] = circuit.wires[d - n + 1 + k - 1]
    <3> HIDE DEF d
    <3> QED BY <1>5, <2>1, SubSeqProperties
  <2>3. \A k \in 1 .. n : d - n + 1 + k - 1 = d - n + k
    BY <1>5
  <2> HIDE DEF d, copy
  <2> QED BY <1>5, <2>2, <2>3
<1>7. rest \in Seq(BOOLEAN) /\ Len(rest) = n
  <2>1. \A k \in d - n + 1 .. d : circuit.idle[k] \in BOOLEAN
    BY <1>1, <1>5
  <2>2. rest \in Seq(BOOLEAN) /\ Len(rest) = IF d - n + 1 <= d THEN d - (d - n + 1) + 1 ELSE 0
    <3> HIDE DEF d
    <3> QED BY <1>5, <2>1, SubSeqProperties
  <2> HIDE DEF d, rest
  <2> QED BY <1>5, <2>2
<1> HIDE DEF rest, copy, d
<1>8. ASSUME NEW k \in 1 .. n
      PROVE  tail[k] \in SUBSET Nat /\ tail[k] # {} /\ tail[k] \subseteq 0 .. d + k - 1
  <2> DEFINE refs == circuit.wires[d - n + k]
             start == d - n
  <2>1. tail[k] = {IF r >= start THEN r + n ELSE r : r \in refs}
    BY <1>6 DEF copy
  <2>2. d - n + k \in 1 .. d
    BY <1>1, <1>5
  <2>3. refs # {} /\ refs \subseteq 0 .. start + k - 1
    <3> DEFINE m == d - n + k
    <3>1. m \in 1 .. d /\ m - 1 = start + k - 1
      BY <1>5, <2>2
    <3> HIDE DEF m
    <3>2. circuit.wires[m] # {} /\ circuit.wires[m] \subseteq 0 .. m - 1
      BY <1>4, <3>1
    <3> QED BY <3>1, <3>2 DEF m
  <2> HIDE DEF refs
  <2>4. start \in Nat /\ start + n = d
    BY <1>1, <1>5
  <2> HIDE DEF start
  <2>5. \A r \in refs : (IF r >= start THEN r + n ELSE r) \in 0 .. d + k - 1
    BY <1>5, <2>3, <2>4
  <2>6. tail[k] # {} /\ tail[k] \subseteq 0 .. d + k - 1
    BY <2>1, <2>3, <2>5
  <2>7. d + k - 1 \in Nat
    BY <1>1, <1>5
  <2>8. 0 .. d + k - 1 \subseteq Nat
    BY <2>7
  <2> HIDE DEF tail
  <2> QED BY <2>6, <2>8, Zenon
<1>9. tail \in Seq(SUBSET Nat) /\ Len(tail) = n
  <2>1. tail = [k \in 1 .. n |-> tail[k]] /\ n \in Nat
    BY <1>5
  <2>2. \A k \in 1 .. n : tail[k] \in SUBSET Nat
    BY <1>8
  <2> HIDE DEF tail
  <2> QED BY <2>1, <2>2, ListedIn
<1> HIDE DEF tail
<1> DEFINE w == circuit.wires \o tail
           idle == circuit.idle \o rest
<1>10. Joins(SUBSET Nat, w, circuit.wires, tail)
  BY <1>1, <1>9, JoinsHold, Zenon
<1>11. Joins(BOOLEAN, idle, circuit.idle, rest)
  BY <1>1, <1>7, JoinsHold, Zenon
<1>12. Broaden(w, idle)
  BY <1>3, Zenon DEF tail, rest
<1> HIDE DEF w, idle
<1>13. /\ w \in Seq(SUBSET Nat) /\ Len(w) = d + n
       /\ \A k \in 1 .. d : w[k] = circuit.wires[k]
       /\ \A k \in 1 .. n : w[d + k] = tail[k]
  BY <1>9, <1>10 DEF Joins, d
<1>14. idle \in Seq(BOOLEAN) /\ Len(idle) = d + n
  BY <1>1, <1>7, <1>11 DEF Joins
<1>15. IsWiring(w)
  <2>1. d + n \in Nat \ {0}
    BY <1>1, <1>5
  <2>2. ASSUME NEW k \in 1 .. d + n PROVE w[k] # {} /\ w[k] \subseteq 0 .. k - 1
    <3>1. CASE k <= d
      <4>1. k \in 1 .. d
        BY <1>1, <3>1
      <4> QED BY <1>4, <1>13, <4>1
    <3>2. CASE k > d
      <4> DEFINE j == k - d
      <4>1. j \in 1 .. n /\ k = d + j
        BY <1>1, <1>5, <3>2
      <4> HIDE DEF j
      <4>2. w[k] = tail[j] /\ k - 1 = d + j - 1
        BY <1>1, <1>13, <4>1
      <4> QED BY <1>8, <4>1, <4>2
    <3> QED BY <1>1, <3>1, <3>2
  <2> QED BY <1>13, <2>1, <2>2 DEF IsWiring
<1>16. d + n <= 32
  BY <1>1, <1>3, <1>5, CircuitAssumption
<1> QED BY <1>12, <1>13, <1>14, <1>15, <1>16, BroadeningKeeps

LEMMA TemporalKeeps == CircuitInv /\ Temporal => CircuitInv'
<1> SUFFICES ASSUME CircuitInv, Temporal PROVE CircuitInv'
  OBVIOUS
<1> DEFINE r == Repaired(circuit.wires)
<1>1. course.policy # "legacy" /\ \E s \in {FALSE, circuit.special} :
        Build(Pinned([circuit EXCEPT !.special = s, !.wires = r]))
  BY Zenon DEF Temporal
<1>2. PICK s \in {FALSE, circuit.special} :
        Build(Pinned([circuit EXCEPT !.special = s, !.wires = r]))
  BY <1>1
<1> DEFINE g == [circuit EXCEPT !.special = s, !.wires = r]
           p == Pinned(g)
<1>3. /\ circuit \in Circuits /\ course \in Courses /\ circuit.version \in 1 .. 3
      /\ circuit.special \in BOOLEAN /\ IsWiring(circuit.wires)
      /\ Len(circuit.wires) \in 1 .. 32 /\ Len(circuit.idle) = Len(circuit.wires)
      /\ circuit.special => circuit.version = 3 /\ course.task = "special"
  BY CircuitIs
<1>4. IsWiring(r) /\ Len(r) = Len(circuit.wires) /\ Feeding(r) = 0 .. Len(r)
  BY <1>3, RepairedIsWhole
<1>5. (AdmitsV3 => circuit.version = 3) /\ circuit.version # 1
  BY <1>1 DEF CircuitInv, OfItsCourse
<1> HIDE DEF r
<1>6. r \in Seq(SUBSET Nat)
  BY <1>4 DEF IsWiring
<1>7. /\ g \in Circuits /\ g.version = circuit.version /\ g.special = s
      /\ g.wires = r /\ g.idle = circuit.idle
  <2>1. s \in BOOLEAN
    BY <1>3
  <2> QED BY <1>3, <1>6, <2>1 DEF Circuits
<1> HIDE DEF g
<1>8. PICK t \in BOOLEAN :
        /\ p \in Circuits /\ p.version = g.version /\ p.special = t
        /\ p.wires = g.wires /\ p.idle = g.idle
        /\ t => g.special \/ AdmitsV3
  BY <1>3, <1>7, PinnedIs
<1> HIDE DEF p
<1>9. t => p.version = 3 /\ course.task = "special"
  BY <1>3, <1>5, <1>7, <1>8 DEF AdmitsV3
<1>10. p.version \in 2 .. 3
  BY <1>3, <1>5, <1>7, <1>8
<1>11. IsWiring(p.wires) /\ Feeding(p.wires) = 0 .. Len(p.wires)
  BY <1>4, <1>7, <1>8
<1>12. Len(p.wires) <= 32 /\ Len(p.idle) = Len(p.wires)
  BY <1>3, <1>4, <1>7, <1>8, Up32, Zenon
<1>13. Compiles(p)
  BY <1>8, <1>9, <1>10, <1>11, <1>12, WholeCompiles
<1>14. OfItsCourse(p)
  BY <1>1, <1>5, <1>7, <1>8 DEF OfItsCourse
<1>15. Build(p)
  BY <1>2, Zenon DEF p, g
<1> QED BY <1>8, <1>13, <1>14, <1>15, BuildingKeeps

LEMMA RepresentKeeps == CircuitInv /\ Represent => CircuitInv'
<1> SUFFICES ASSUME CircuitInv, Represent PROVE CircuitInv'
  OBVIOUS
<1>1. AdmitsV3 /\ \E s \in BOOLEAN : Build(Pinned([circuit EXCEPT !.version = 3, !.special = s]))
  BY Zenon DEF Represent
<1>2. PICK s \in BOOLEAN : Build(Pinned([circuit EXCEPT !.version = 3, !.special = s]))
  BY <1>1
<1> DEFINE v == 3
           g == [circuit EXCEPT !.version = v, !.special = s]
           p == Pinned(g)
<1>3. /\ circuit \in Circuits /\ course \in Courses
      /\ IsWiring(circuit.wires) /\ Feeding(circuit.wires) = 0 .. Len(circuit.wires)
      /\ Len(circuit.wires) \in 1 .. 32 /\ Len(circuit.idle) = Len(circuit.wires)
  BY CircuitIs
<1>4. /\ g \in Circuits /\ g.version = 3 /\ g.special = s
      /\ g.wires = circuit.wires /\ g.idle = circuit.idle
  <2>1. v \in 1 .. 3 /\ v = 3
    OBVIOUS
  <2> HIDE DEF v
  <2>2. /\ g \in Circuits /\ g.version = v /\ g.special = s
        /\ g.wires = circuit.wires /\ g.idle = circuit.idle
    BY <1>3, <2>1 DEF Circuits
  <2> QED BY <2>1, <2>2
<1> HIDE DEF g
<1>5. PICK t \in BOOLEAN :
        /\ p \in Circuits /\ p.version = g.version /\ p.special = t
        /\ p.wires = g.wires /\ p.idle = g.idle
        /\ t => g.special \/ AdmitsV3
  BY <1>3, <1>4, PinnedIs
<1> HIDE DEF p
<1>6. p.version = 3 /\ p.version \in 2 .. 3 /\ course.task = "special"
  BY <1>1, <1>4, <1>5 DEF AdmitsV3
<1>7. /\ IsWiring(p.wires) /\ Feeding(p.wires) = 0 .. Len(p.wires)
      /\ Len(p.wires) <= 32 /\ Len(p.idle) = Len(p.wires)
  BY <1>3, <1>4, <1>5, Up32, Zenon
<1>8. Compiles(p)
  BY <1>5, <1>6, <1>7, WholeCompiles
<1>9. OfItsCourse(p)
  BY <1>1, <1>6 DEF OfItsCourse, AdmitsV3
<1>10. Build(p)
  BY <1>2, Zenon DEF p, g, v
<1> QED BY <1>5, <1>8, <1>9, <1>10, BuildingKeeps

LEMMA LegacyKeeps == CircuitInv /\ Legacy => CircuitInv'
<1> SUFFICES ASSUME CircuitInv, Legacy PROVE CircuitInv'
  OBVIOUS
<1> DEFINE d == Depth(circuit)
           kept(n) == IF n > LegacyDepth THEN LegacyDepth ELSE n
           no(k) == [j \in 1 .. k |-> FALSE]
<1>1. course.policy = "legacy" /\ \E n \in {d - 1, d, d + 1} :
        n \in 1 .. 4 /\ Build([circuit EXCEPT !.wires = InSeries(kept(n)), !.idle = no(kept(n))])
  BY Zenon DEF Legacy
<1>2. PICK n \in {d - 1, d, d + 1} :
        n \in 1 .. 4 /\ Build([circuit EXCEPT !.wires = InSeries(kept(n)), !.idle = no(kept(n))])
  BY <1>1
<1> DEFINE k == kept(n)
<1>3. k \in 1 .. 4
  BY <1>2, CircuitAssumption
<1> HIDE DEF k
<1> DEFINE w == InSeries(k)
           idle == no(k)
           g == [circuit EXCEPT !.wires = w, !.idle = idle]
<1>4. IsWiring(w) /\ Len(w) = k /\ Feeding(w) = 0 .. k /\ k \in Nat \ {0}
  BY <1>3, ChainIsWhole
<1>5. idle \in Seq(BOOLEAN) /\ Len(idle) = k /\ \A j \in 1 .. k : ~idle[j]
  <2>1. idle = [j \in 1 .. k |-> idle[j]] /\ \A j \in 1 .. k : idle[j] \in BOOLEAN /\ ~idle[j]
    OBVIOUS
  <2> HIDE DEF idle
  <2> QED BY <1>4, <2>1, ListedIn
<1>6. circuit \in Circuits /\ Compiles(circuit) /\ circuit.version = 1 /\ ~AdmitsV3
  BY <1>1 DEF CircuitInv, OfItsCourse, AdmitsV3
<1>7. ~circuit.special
  BY <1>6 DEF Compiles
<1> HIDE DEF w, idle
<1>8. /\ g \in Circuits /\ g.version = 1 /\ ~g.special /\ g.wires = w /\ g.idle = idle
  <2>1. w \in Seq(SUBSET Nat)
    BY <1>4 DEF IsWiring
  <2> QED BY <1>5, <1>6, <1>7, <2>1 DEF Circuits
<1> HIDE DEF g
<1>9. Compiles(g)
  <2>1. Depth(g) = k
    BY <1>4, <1>8 DEF Depth
  <2>2. \A j \in 1 .. k : w[j] # {} /\ w[j] \subseteq 0 .. j - 1
    BY <1>4 DEF IsWiring
  <2>3. k \in 1 .. 32 /\ k <= 4
    BY <1>3
  <2> QED BY <1>4, <1>5, <1>8, <2>1, <2>2, <2>3 DEF Compiles, w
<1>10. OfItsCourse(g)
  BY <1>1, <1>6, <1>8 DEF OfItsCourse
<1>11. Build(g)
  BY <1>2, Zenon DEF g, w, idle, k
<1> QED BY <1>8, <1>9, <1>10, <1>11, BuildingKeeps

LEMMA RestartKeeps == CircuitInv /\ Restart => CircuitInv'
<1> SUFFICES ASSUME CircuitInv, Restart PROVE CircuitInv'
  OBVIOUS
<1>1. circuit' \in FreshCircuits /\ UNCHANGED <<course, misbuilt>> /\ course \in Courses /\ ~misbuilt
  BY DEF Restart, CircuitInv
<1>2. circuit' \in Circuits /\ Compiles(circuit') /\ OfItsCourse(circuit')
  BY <1>1, FreshIs
<1> QED BY <1>1, <1>2 DEF CircuitInv, Compiles, OfItsCourse, AdmitsV3

LEMMA CircuitsStartWell == CircuitInit => CircuitInv
<1> SUFFICES ASSUME CircuitInit PROVE CircuitInv
  OBVIOUS
<1>1. course \in Courses /\ circuit \in FreshCircuits /\ misbuilt = FALSE
  BY DEF CircuitInit
<1> QED BY <1>1, FreshIs DEF CircuitInv

LEMMA CircuitStepsKeep == CircuitInv /\ [CircuitNext]_circuitVars => CircuitInv'
<1> SUFFICES ASSUME CircuitInv, [CircuitNext]_circuitVars PROVE CircuitInv'
  OBVIOUS
<1>1. CASE UNCHANGED circuitVars
  BY <1>1 DEF CircuitInv, circuitVars, Compiles, OfItsCourse, AdmitsV3
<1>2. CASE CircuitNext
  BY <1>2, GrowKeeps, RepeatKeeps, PruneKeeps, RewireKeeps, ExchangeKeeps, TemporalKeeps,
     RepresentKeeps, LegacyKeeps, RestartKeeps DEF CircuitNext
<1> QED BY <1>1, <1>2

\* Every circuit an edit builds is one that validate_structure and the
\* compiler accept, for every depth of the broad and of the legacy search.
THEOREM CircuitsAreExecutable == CircuitSpec => []CircuitsStayExecutable
<1>1. CircuitInv => CircuitsStayExecutable
  BY DEF CircuitInv, CircuitsStayExecutable
<1> QED BY <1>1, CircuitsStartWell, CircuitStepsKeep, PTL DEF CircuitSpec

(***************************************************************************)
(* Hierarchies. That Kahn's algorithm orders the nodes and that every node *)
(* leads to the output comes to this: there are numbers that rise along every *)
(* edge, and every node but the output has a child. The edits are shown to *)
(* keep the latter, where no order has to be followed.                     *)
(***************************************************************************)

Digraphs == [nodes : SUBSET Nat, edges : SUBSET (Nat \X Nat), out : Nat, twice : BOOLEAN]

IsDigraph(g) ==
  /\ g \in Digraphs /\ IsFiniteSet(g.nodes)
  /\ \A m, n \in Nat : <<m, n>> \in g.edges => m \in g.nodes /\ n \in g.nodes

\* Numbers that rise along every edge.
Rising(g, r) ==
  /\ r \in [g.nodes -> Nat]
  /\ \A m, n \in g.nodes : <<m, n>> \in g.edges => r[m] < r[n]

\* What IsProgram comes to.
Flows(g) ==
  /\ IsDigraph(g) /\ ~g.twice /\ g.out \in g.nodes
  /\ \E r : Rising(g, r)
  /\ \A m \in g.nodes : m # g.out => \E n \in g.nodes : <<m, n>> \in g.edges

LEMMA EdgesAre ==
    ASSUME NEW g, g.edges \subseteq Nat \X Nat
    PROVE  /\ \A e \in g.edges : /\ e = <<e[1], e[2]>> /\ e[1] \in Nat /\ e[2] \in Nat
                                 /\ <<e[1], e[2]>> \in g.edges
           /\ \A m, n : m \in Parents(g, n) <=> <<m, n>> \in g.edges
           /\ \A m, n : m \in Children(g, n) <=> <<n, m>> \in g.edges
<1>1. \A e \in g.edges : e = <<e[1], e[2]>> /\ e[1] \in Nat /\ e[2] \in Nat
  OBVIOUS
<1>2. \A m, n : m \in Parents(g, n) <=> <<m, n>> \in g.edges
  BY <1>1 DEF Parents
<1>3. \A m, n : m \in Children(g, n) <=> <<n, m>> \in g.edges
  BY <1>1 DEF Children
<1> QED BY <1>1, <1>2, <1>3

\* Nodes listed once, each after its parents.
InOrder(g, s) ==
  /\ s \in Seq(g.nodes)
  /\ \A i, j \in 1 .. Len(s) : s[i] = s[j] => i = j
  /\ \A m \in Nat : \A j \in 1 .. Len(s) :
       <<m, s[j]>> \in g.edges => \E i \in 1 .. Len(s) : i < j /\ s[i] = m

LEMMA ToSetIs ==
    ASSUME NEW T, NEW s \in Seq(T)
    PROVE  \A x : x \in ToSet(s) <=> \E i \in 1 .. Len(s) : s[i] = x
BY DEF ToSet

LEMMA MinIs ==
    ASSUME NEW S, S \subseteq Nat, S # {}
    PROVE  Min(S) \in S /\ \A k \in S : Min(S) <= k
<1>1. \E t \in S : \A u \in S : t <= u
  BY LeastExists
<1> QED BY <1>1 DEF Min

LEMMA OneMore ==
    ASSUME NEW g, IsDigraph(g), NEW s, InOrder(g, s)
    PROVE  /\ InOrder(g, WithNext(g, s))
           /\ Startable(g, s) = {} => WithNext(g, s) = s
           /\ Startable(g, s) # {} => Len(WithNext(g, s)) = Len(s) + 1
<1> DEFINE x == Min(Startable(g, s))
           t == Append(s, x)
<1>1. CASE Startable(g, s) = {}
  BY <1>1 DEF WithNext
<1>2. CASE Startable(g, s) # {}
  <2>1. WithNext(g, s) = t
    BY <1>2 DEF WithNext
  <2>2. Startable(g, s) \subseteq g.nodes /\ g.nodes \subseteq Nat
    BY DEF Startable, IsDigraph, Digraphs
  <2>3. x \in Startable(g, s)
    BY <1>2, <2>2, MinIs
  <2> HIDE DEF x
  <2>4. x \in g.nodes /\ x \notin ToSet(s) /\ Parents(g, x) \subseteq ToSet(s)
    BY <2>3 DEF Startable
  <2>5. s \in Seq(g.nodes) /\ Len(s) \in Nat
    BY DEF InOrder
  <2>6. /\ t \in Seq(g.nodes) /\ Len(t) = Len(s) + 1 /\ t[Len(s) + 1] = x
        /\ \A i \in 1 .. Len(s) : t[i] = s[i]
    BY <2>4, <2>5
  <2> HIDE DEF t
  <2>7. \A i \in 1 .. Len(t) : i \in 1 .. Len(s) \/ i = Len(s) + 1
    BY <2>5, <2>6
  <2>8. \A i \in 1 .. Len(s) : s[i] # x /\ i < Len(s) + 1 /\ i \in 1 .. Len(t)
    BY <2>4, <2>5, <2>6, ToSetIs
  <2>9. \A i, j \in 1 .. Len(t) : t[i] = t[j] => i = j
    BY <2>6, <2>7, <2>8 DEF InOrder
  <2>10. ASSUME NEW m \in Nat, NEW j \in 1 .. Len(t), <<m, t[j]>> \in g.edges
         PROVE  \E i \in 1 .. Len(t) : i < j /\ t[i] = m
    <3>1. CASE j \in 1 .. Len(s)
      <4>1. \E i \in 1 .. Len(s) : i < j /\ s[i] = m
        BY <2>6, <2>10, <3>1 DEF InOrder
      <4> QED BY <2>6, <2>8, <4>1
    <3>2. CASE j = Len(s) + 1
      <4>1. m \in Parents(g, x)
        <5>1. g.edges \subseteq Nat \X Nat
          BY DEF IsDigraph, Digraphs
        <5>2. <<m, x>> \in g.edges
          BY <2>6, <2>10, <3>2
        <5> QED BY <5>1, <5>2, EdgesAre
      <4>2. \E i \in 1 .. Len(s) : s[i] = m
        BY <2>4, <2>5, <4>1, ToSetIs
      <4> QED BY <2>6, <2>8, <3>2, <4>2
    <3> QED BY <2>7, <3>1, <3>2
  <2>11. InOrder(g, t)
    BY <2>6, <2>9, <2>10 DEF InOrder
  <2> QED BY <1>2, <2>1, <2>6, <2>11
<1> QED BY <1>1, <1>2

\* How Ordered comes about.
OrderedBy(g, N, f) ==
  /\ f \in [0 .. N -> Seq(g.nodes)]
  /\ f[0] = <<>> /\ \A k \in 1 .. N : f[k] = WithNext(g, f[k - 1])
  /\ Ordered(g) = f[N]

LEMMA OrderedIs ==
    ASSUME NEW g, IsDigraph(g), NEW N \in Nat, N = Cardinality(g.nodes)
    PROVE  \E f : OrderedBy(g, N, f)
<1> DEFINE T == Seq(g.nodes)
           step == [k \in 1 .. N |-> [s \in T |-> WithNext(g, s)]]
           F(f) == f = [k \in 0 .. N |-> IF k = 0 THEN <<>> ELSE WithNext(g, f[k - 1])]
           done == CHOOSE f : F(f)
<1>1. Ordered(g) = done[N]
  BY DEF Ordered
<1>2. ASSUME NEW s \in T PROVE WithNext(g, s) \in T
  <2>1. Startable(g, s) \subseteq g.nodes /\ g.nodes \subseteq Nat
    BY DEF Startable, IsDigraph, Digraphs
  <2>2. Startable(g, s) # {} => Min(Startable(g, s)) \in g.nodes
    BY <2>1, MinIs
  <2> DEFINE x == Min(Startable(g, s))
  <2>3. WithNext(g, s) = IF Startable(g, s) = {} THEN s ELSE Append(s, x)
    BY DEF WithNext
  <2> HIDE DEF x
  <2>4. x \in g.nodes => Append(s, x) \in T
    OBVIOUS
  <2> QED BY <2>2, <2>3, <2>4 DEF x
<1>3. <<>> \in T
  OBVIOUS
<1> HIDE DEF T
<1>4. step \in [1 .. N -> [T -> T]]
  BY <1>2
<1>5. PICK f \in [0 .. N -> T] : RoundsOf(N, <<>>, step, f)
  <2> HIDE DEF step
  <2> QED BY <1>3, <1>4, RoundsExist
<1>6. F(f)
  <2>1. ASSUME NEW j \in 0 .. N
        PROVE  f[j] = IF j = 0 THEN <<>> ELSE WithNext(g, f[j - 1])
    <3>1. f[j] = IF j = 0 THEN <<>> ELSE step[j][f[j - 1]]
      <4> HIDE DEF step
      <4> QED BY <1>5 DEF RoundsOf
    <3>2. j # 0 => j \in 1 .. N /\ j - 1 \in 0 .. N
      OBVIOUS
    <3>3. j # 0 => f[j - 1] \in T
      BY <3>2
    <3>4. j # 0 => step[j][f[j - 1]] = WithNext(g, f[j - 1])
      BY <3>2, <3>3
    <3> QED BY <3>1, <3>4
  <2>2. f = [j \in 0 .. N |-> f[j]]
    OBVIOUS
  <2> QED BY <2>1, <2>2
<1>7. F(done)
  <2>1. \E h : F(h)
    BY <1>6
  <2> QED BY <2>1
<1> HIDE DEF done
<1>8. \A j \in 0 .. N : done[j] = IF j = 0 THEN <<>> ELSE WithNext(g, done[j - 1])
  BY <1>7
<1>9. done = [j \in 0 .. N |-> done[j]]
  BY <1>7
<1>10. \A j \in 1 .. N : j \in 0 .. N /\ j # 0 /\ j - 1 \in 0 .. N
  OBVIOUS
<1>11. 0 \in 0 .. N
  OBVIOUS
<1> HIDE DEF F, step
<1>12. done[0] = <<>> /\ \A k \in 1 .. N : done[k] = WithNext(g, done[k - 1])
  BY <1>8, <1>10, <1>11
<1> DEFINE S == {k \in 0 .. N : done[k] \in T}
<1>13. 0 \in S
  BY <1>3, <1>11, <1>12
<1>14. \A k \in 1 .. N : k - 1 \in S => k \in S
  BY <1>2, <1>10, <1>12
<1>15. 0 .. N \subseteq S
  <2> HIDE DEF S
  <2> QED BY <1>13, <1>14, UpTo
<1>16. done \in [0 .. N -> T]
  BY <1>9, <1>15
<1> QED BY <1>1, <1>12, <1>16 DEF OrderedBy, T

LEMMA CountIs ==
    ASSUME NEW g, IsDigraph(g)
    PROVE  Cardinality(g.nodes) \in Nat
BY FS_CardinalityType DEF IsDigraph

\* Ordered lists nodes in order; all of them, when numbers rise along the edges.
LEMMA OrderedKeepsOrder ==
    ASSUME NEW g, IsDigraph(g)
    PROVE  InOrder(g, Ordered(g))
<1> DEFINE N == Cardinality(g.nodes)
<1>1. N \in Nat
  BY CountIs
<1>2. PICK f : OrderedBy(g, N, f)
  BY <1>1, OrderedIs
<1> HIDE DEF N
<1>3. f[0] = <<>> /\ (\A k \in 1 .. N : f[k] = WithNext(g, f[k - 1])) /\ Ordered(g) = f[N]
  BY <1>2 DEF OrderedBy
<1> DEFINE S == {k \in 0 .. N : InOrder(g, f[k])}
<1>4. 0 \in S
  <2>1. InOrder(g, <<>>)
    BY DEF InOrder
  <2> QED BY <1>1, <1>3, <2>1
<1>5. \A k \in 1 .. N : k - 1 \in S => k \in S
  BY <1>3, OneMore
<1>6. 0 .. N \subseteq S
  <2> HIDE DEF S
  <2> QED BY <1>1, <1>4, <1>5, UpTo
<1> QED BY <1>1, <1>3, <1>6

LEMMA SomeStartable ==
    ASSUME NEW g, IsDigraph(g), NEW r, Rising(g, r), NEW s, InOrder(g, s),
           Len(s) < Cardinality(g.nodes)
    PROVE  Startable(g, s) # {}
<1> DEFINE Left == g.nodes \ ToSet(s)
           R == {r[n] : n \in Left}
<1>1. s \in Seq(g.nodes) /\ Len(s) \in Nat /\ r \in [g.nodes -> Nat] /\ g.nodes \subseteq Nat
  BY DEF InOrder, Rising, IsDigraph, Digraphs
<1>2. Left # {}
  <2> SUFFICES ASSUME Left = {} PROVE FALSE
    OBVIOUS
  <2>1. \A n \in g.nodes : \E i \in 1 .. Len(s) : s[i] = n
    BY <1>1, ToSetIs
  <2>2. s \in Surjection(1 .. Len(s), g.nodes)
    BY <1>1, <2>1 DEF Surjection
  <2>3. IsFiniteSet(1 .. Len(s)) /\ Cardinality(1 .. Len(s)) = Len(s)
    BY <1>1, FS_Interval, SMTT(30)
  <2>4. Cardinality(g.nodes) <= Len(s)
    BY <2>2, <2>3, FS_Surjection
  <2>5. Cardinality(g.nodes) \in Nat
    BY CountIs
  <2> QED BY <1>1, <2>4, <2>5
<1>3. PICK n \in Left : \A m \in Left : r[n] <= r[m]
  <2>1. R \subseteq Nat /\ R # {}
    BY <1>1, <1>2
  <2>2. PICK t \in R : \A u \in R : t <= u
    <3> HIDE DEF R
    <3> QED BY <2>1, LeastExists
  <2> QED BY <2>2
<1>4. Parents(g, n) \subseteq ToSet(s)
  <2> SUFFICES ASSUME NEW m \in Parents(g, n) PROVE m \in ToSet(s)
    OBVIOUS
  <2>1. <<m, n>> \in g.edges
    <3>1. g.edges \subseteq Nat \X Nat
      BY DEF IsDigraph, Digraphs
    <3> QED BY <3>1, EdgesAre
  <2>2. m \in Nat /\ n \in Nat
    BY <2>1 DEF IsDigraph, Digraphs
  <2>3. m \in g.nodes /\ n \in g.nodes
    BY <2>1, <2>2 DEF IsDigraph
  <2>4. r[m] < r[n] /\ r[m] \in Nat /\ r[n] \in Nat
    BY <1>1, <2>1, <2>3 DEF Rising
  <2> QED BY <1>3, <2>3, <2>4
<1> QED BY <1>3, <1>4 DEF Startable

LEMMA OrderedIsFull ==
    ASSUME NEW g, IsDigraph(g), NEW r, Rising(g, r)
    PROVE  Len(Ordered(g)) = Cardinality(g.nodes)
<1> DEFINE N == Cardinality(g.nodes)
<1>1. N \in Nat
  BY CountIs
<1>2. PICK f : OrderedBy(g, N, f)
  BY <1>1, OrderedIs
<1>3. N = Cardinality(g.nodes)
  OBVIOUS
<1> HIDE DEF N
<1>4. f[0] = <<>> /\ (\A k \in 1 .. N : f[k] = WithNext(g, f[k - 1])) /\ Ordered(g) = f[N]
  BY <1>2 DEF OrderedBy
<1> DEFINE S == {k \in 0 .. N : InOrder(g, f[k]) /\ Len(f[k]) = k}
<1>5. 0 \in S
  <2>1. InOrder(g, <<>>)
    BY DEF InOrder
  <2> QED BY <1>1, <1>4, <2>1
<1>6. ASSUME NEW k \in 1 .. N, k - 1 \in S PROVE k \in S
  <2>1. InOrder(g, f[k - 1]) /\ Len(f[k - 1]) = k - 1 /\ f[k] = WithNext(g, f[k - 1])
    BY <1>4, <1>6
  <2>2. Len(f[k - 1]) < Cardinality(g.nodes)
    BY <1>1, <1>3, <2>1
  <2>3. InOrder(g, f[k]) /\ Len(f[k]) = Len(f[k - 1]) + 1
    BY <2>1, <2>2, SomeStartable, OneMore
  <2> QED BY <1>1, <2>1, <2>3
<1>7. 0 .. N \subseteq S
  <2>1. \A k \in 1 .. N : k - 1 \in S => k \in S
    BY <1>6
  <2> HIDE DEF S
  <2> QED BY <1>1, <1>5, <2>1, UpTo
<1> QED BY <1>1, <1>3, <1>4, <1>7

\* All the nodes in order.
Sorted(g, s) ==
  /\ s \in Seq(g.nodes) /\ Len(s) = Cardinality(g.nodes) /\ Len(s) \in Nat
  /\ \A i, j \in 1 .. Len(s) : s[i] = s[j] => i = j
  /\ \A n \in g.nodes : \E i \in 1 .. Len(s) : s[i] = n
  /\ \A i, j \in 1 .. Len(s) : <<s[i], s[j]>> \in g.edges => i < j

LEMMA FullIsSorted ==
    ASSUME NEW g, IsDigraph(g), NEW s, InOrder(g, s), Len(s) = Cardinality(g.nodes)
    PROVE  Sorted(g, s)
<1>1. /\ s \in Seq(g.nodes) /\ Len(s) \in Nat /\ g.nodes \subseteq Nat
      /\ \A i, j \in 1 .. Len(s) : s[i] = s[j] => i = j
  BY DEF InOrder, IsDigraph, Digraphs
<1>2. \A n \in g.nodes : \E i \in 1 .. Len(s) : s[i] = n
  <2>1. s \in Injection(1 .. Len(s), g.nodes)
    BY <1>1 DEF Injection, IsInjective
  <2>2. Cardinality(1 .. Len(s)) = Len(s)
    BY <1>1, FS_Interval
  <2>3. s \in Surjection(1 .. Len(s), g.nodes)
    BY <2>1, <2>2, FS_Injection DEF IsDigraph
  <2> QED BY <2>3 DEF Surjection
<1>3. ASSUME NEW i \in 1 .. Len(s), NEW j \in 1 .. Len(s), <<s[i], s[j]>> \in g.edges
      PROVE  i < j
  <2>1. s[i] \in Nat
    BY <1>1
  <2>2. PICK k \in 1 .. Len(s) : k < j /\ s[k] = s[i]
    BY <1>3, <2>1 DEF InOrder
  <2> QED BY <1>1, <2>2
<1> QED BY <1>1, <1>2, <1>3 DEF Sorted

LEMMA FlowsAreSorted ==
    ASSUME NEW g, Flows(g)
    PROVE  Sorted(g, Ordered(g))
<1>1. IsDigraph(g) /\ \E r : Rising(g, r)
  BY DEF Flows
<1> QED BY <1>1, OrderedIsFull, OrderedKeepsOrder, FullIsSorted

LEMMA SortedRises ==
    ASSUME NEW g, IsDigraph(g), NEW s, Sorted(g, s)
    PROVE  \E p \in [g.nodes -> 1 .. Len(s)] :
             Rising(g, p) /\ \A n \in g.nodes : s[p[n]] = n
<1> DEFINE p == [n \in g.nodes |-> CHOOSE i \in 1 .. Len(s) : s[i] = n]
<1>1. ASSUME NEW n \in g.nodes PROVE p[n] \in 1 .. Len(s) /\ s[p[n]] = n
  <2>1. \E i \in 1 .. Len(s) : s[i] = n
    BY DEF Sorted
  <2> QED BY <2>1
<1>2. p \in [g.nodes -> 1 .. Len(s)] /\ Len(s) \in Nat
  BY <1>1 DEF Sorted
<1> HIDE DEF p
<1>3. ASSUME NEW m \in g.nodes, NEW n \in g.nodes, <<m, n>> \in g.edges PROVE p[m] < p[n]
  <2>1. <<s[p[m]], s[p[n]]>> \in g.edges
    BY <1>1, <1>3
  <2> QED BY <1>1, <2>1 DEF Sorted
<1>4. Rising(g, p)
  BY <1>2, <1>3 DEF Rising
<1> QED BY <1>1, <1>2, <1>4

LEMMA ProgramsFlow ==
    ASSUME NEW g, g \in Digraphs, IsFiniteSet(g.nodes), IsProgram(g)
    PROVE  Flows(g)
<1>1. g.edges \subseteq Nat \X Nat /\ g.nodes \subseteq Nat
  BY DEF Digraphs
<1>2. IsDigraph(g)
  BY <1>1, EdgesAre DEF IsProgram, IsDigraph
<1>3. Sorted(g, Ordered(g))
  BY <1>2, OrderedKeepsOrder, FullIsSorted DEF IsProgram
<1>4. \E r : Rising(g, r)
  BY <1>2, <1>3, SortedRises
<1>5. ASSUME NEW m \in g.nodes, m # g.out PROVE \E n \in g.nodes : <<m, n>> \in g.edges
  <2> DEFINE S == g.nodes \ {m}
  <2> SUFFICES ASSUME ~ \E n \in g.nodes : <<m, n>> \in g.edges PROVE FALSE
    OBVIOUS
  <2>1. ASSUME NEW k \in S, NEW l \in Parents(g, k) PROVE l \in S
    <3>1. <<l, k>> \in g.edges /\ l \in Nat /\ k \in Nat
      BY <1>1, EdgesAre
    <3>2. l \in g.nodes
      BY <1>2, <3>1 DEF IsDigraph
    <3> QED BY <3>1, <3>2
  <2>2. g.out \in S /\ S \in SUBSET g.nodes
    BY <1>5 DEF IsProgram
  <2>3. m \in Upstream(g, g.out)
    BY DEF IsProgram
  <2> HIDE DEF S
  <2>4. m \in S
    BY <2>1, <2>2, <2>3 DEF Upstream
  <2> QED BY <2>4 DEF S
<1> QED BY <1>2, <1>4, <1>5 DEF Flows, IsProgram

LEMMA FlowingIsProgram ==
    ASSUME NEW g, Flows(g)
    PROVE  IsProgram(g)
<1>1. /\ IsDigraph(g) /\ ~g.twice /\ g.out \in g.nodes
      /\ g.edges \subseteq Nat \X Nat /\ g.nodes \subseteq Nat
  BY DEF Flows, IsDigraph, Digraphs
<1>2. Sorted(g, Ordered(g))
  BY FlowsAreSorted
<1> DEFINE N == Len(Ordered(g))
<1>3. N \in Nat /\ N = Cardinality(g.nodes)
  BY <1>2 DEF Sorted
<1>4. PICK p \in [g.nodes -> 1 .. N] : Rising(g, p)
  BY <1>1, <1>2, SortedRises
<1> HIDE DEF N
<1>5. ASSUME NEW e \in g.edges
      PROVE  e[1] \in g.nodes /\ e[2] \in g.nodes /\ e[1] # e[2]
  <2>1. <<e[1], e[2]>> \in g.edges /\ e[1] \in Nat /\ e[2] \in Nat
    BY <1>1, EdgesAre
  <2>2. e[1] \in g.nodes /\ e[2] \in g.nodes
    BY <1>1, <2>1 DEF IsDigraph
  <2>3. p[e[1]] < p[e[2]]
    BY <1>4, <2>1, <2>2 DEF Rising
  <2>4. p[e[1]] \in Nat /\ p[e[2]] \in Nat
    BY <1>3, <1>4, <2>2
  <2> QED BY <2>2, <2>3, <2>4
<1>6. ASSUME NEW S \in SUBSET g.nodes, g.out \in S, \A k \in S : Parents(g, k) \subseteq S
      PROVE  g.nodes \subseteq S
  <2> DEFINE Bad == g.nodes \ S
             R == {N - p[n] : n \in Bad}
  <2> SUFFICES ASSUME Bad # {} PROVE FALSE
    OBVIOUS
  <2>1. \A n \in g.nodes : p[n] \in 1 .. N /\ N - p[n] \in Nat
    BY <1>3, <1>4
  <2>2. PICK n \in Bad : \A m \in Bad : N - p[n] <= N - p[m]
    <3>1. R \subseteq Nat /\ R # {}
      BY <2>1
    <3>2. PICK t \in R : \A u \in R : t <= u
      <4> HIDE DEF R
      <4> QED BY <3>1, LeastExists
    <3> QED BY <3>2
  <2>3. PICK m \in g.nodes : <<n, m>> \in g.edges
    BY <1>6, <2>2 DEF Flows
  <2>4. p[n] < p[m]
    BY <1>4, <2>3 DEF Rising
  <2>5. m \in S
    BY <1>3, <2>1, <2>2, <2>3, <2>4
  <2>6. n \in Parents(g, m)
    BY <1>1, <2>3, EdgesAre
  <2> QED BY <1>6, <2>5, <2>6
<1>7. Upstream(g, g.out) = g.nodes
  BY <1>6 DEF Upstream
<1> QED BY <1>1, <1>3, <1>5, <1>7 DEF IsProgram, N

LEMMA ExtendedFlows ==
    ASSUME NEW g, Flows(g), NEW n \in Nat \ g.nodes
    PROVE  Flows(Extended(g, n)) /\ Extended(g, n).nodes = g.nodes \cup {n}
<1> DEFINE h == Extended(g, n)
<1>1. h = [nodes |-> g.nodes \cup {n}, out |-> n, edges |-> g.edges \cup {<<g.out, n>>},
           twice |-> g.twice \/ n \in g.nodes]
  BY DEF Extended
<1>2. /\ g.edges \subseteq Nat \X Nat /\ g.nodes \subseteq Nat /\ g.out \in g.nodes
      /\ ~g.twice /\ IsFiniteSet(g.nodes)
      /\ \A k, m \in Nat : <<k, m>> \in g.edges => k \in g.nodes /\ m \in g.nodes
  BY DEF Flows, IsDigraph, Digraphs
<1>3. /\ h.nodes = g.nodes \cup {n} /\ h.out = n /\ ~h.twice
      /\ h.edges = g.edges \cup {<<g.out, n>>} /\ h \in Digraphs
  <2> DEFINE E == g.edges \cup {<<g.out, n>>}
             M == g.nodes \cup {n}
  <2>1. h = [nodes |-> M, out |-> n, edges |-> E, twice |-> FALSE]
    BY <1>1, <1>2
  <2>2. E \in SUBSET (Nat \X Nat) /\ M \in SUBSET Nat
    BY <1>2
  <2> HIDE DEF h, E, M
  <2>3. h.nodes = M /\ h.out = n /\ ~h.twice /\ h.edges = E /\ h \in Digraphs
    BY <2>1, <2>2 DEF Digraphs
  <2> QED BY <2>3 DEF E, M
<1> HIDE DEF h
<1>4. IsFiniteSet(h.nodes)
  BY <1>2, <1>3, FS_AddElement
<1>5. IsDigraph(h)
  BY <1>2, <1>3, <1>4 DEF IsDigraph
<1>6. PICK r : Rising(g, r)
  BY DEF Flows
<1> DEFINE s == [m \in h.nodes |-> IF m = n THEN r[g.out] + 1 ELSE r[m]]
<1>7. Rising(h, s)
  <2>1. r \in [g.nodes -> Nat] /\ \A k, m \in g.nodes : <<k, m>> \in g.edges => r[k] < r[m]
    BY <1>6 DEF Rising
  <2>2. s \in [h.nodes -> Nat]
    BY <1>2, <1>3, <2>1
  <2>3. ASSUME NEW k \in h.nodes, NEW m \in h.nodes, <<k, m>> \in h.edges PROVE s[k] < s[m]
    <3>1. CASE <<k, m>> \in g.edges
      <4>1. k \in Nat /\ m \in Nat
        BY <1>2, <3>1
      <4>2. k \in g.nodes /\ m \in g.nodes /\ k # n /\ m # n
        BY <1>2, <3>1, <4>1
      <4> QED BY <2>1, <2>3, <3>1, <4>2
    <3>2. CASE k = g.out /\ m = n
      BY <1>2, <2>1, <2>3, <3>2
    <3> QED BY <1>3, <2>3, <3>1, <3>2
  <2> QED BY <2>2, <2>3 DEF Rising
<1>8. ASSUME NEW k \in h.nodes, k # h.out PROVE \E m \in h.nodes : <<k, m>> \in h.edges
  <2>1. k \in g.nodes
    BY <1>3, <1>8
  <2>2. CASE k = g.out
    BY <1>3, <2>2
  <2>3. CASE k # g.out
    <3>1. \E m \in g.nodes : <<k, m>> \in g.edges
      BY <2>1, <2>3 DEF Flows
    <3> QED BY <1>3, <3>1
  <2> QED BY <2>2, <2>3
<1>9. Flows(h)
  <2> HIDE DEF s
  <2> QED BY <1>3, <1>5, <1>7, <1>8 DEF Flows
<1> QED BY <1>3, <1>9 DEF h

LEMMA ChainFlows ==
    ASSUME NEW n \in Nat \ {0}
    PROVE  /\ Flows(Chain(n)) /\ Chain(n).nodes = 0 .. n - 1
           /\ Cardinality(Chain(n).nodes) = n
<1> DEFINE h == Chain(n)
<1>1. h = [nodes |-> 0 .. n - 1, out |-> n - 1, twice |-> FALSE,
           edges |-> {<<i - 1, i>> : i \in 1 .. n - 1}]
  BY DEF Chain
<1>2. /\ h.nodes = 0 .. n - 1 /\ h.out = n - 1 /\ ~h.twice
      /\ h.edges = {<<i - 1, i>> : i \in 1 .. n - 1} /\ h \in Digraphs
  BY <1>1 DEF Digraphs
<1> HIDE DEF h
<1>3. \A k, m \in Nat : <<k, m>> \in h.edges <=> m \in 1 .. n - 1 /\ k = m - 1
  BY <1>2
<1>4. IsFiniteSet(h.nodes) /\ Cardinality(h.nodes) = n
  BY <1>2, FS_Interval
<1>5. IsDigraph(h)
  BY <1>2, <1>3, <1>4 DEF IsDigraph
<1>6. Rising(h, [m \in h.nodes |-> m])
  BY <1>2, <1>3 DEF Rising
<1>7. ASSUME NEW k \in h.nodes, k # h.out PROVE \E m \in h.nodes : <<k, m>> \in h.edges
  <2>1. k + 1 \in h.nodes /\ k + 1 \in 1 .. n - 1 /\ k = k + 1 - 1 /\ k \in Nat /\ k + 1 \in Nat
    BY <1>2, <1>7
  <2> QED BY <1>3, <2>1
<1>8. Flows(h)
  BY <1>2, <1>5, <1>6, <1>7 DEF Flows
<1> QED BY <1>2, <1>4, <1>8 DEF h

\* The output is the last in the order.
LEMMA OutIsLast ==
    ASSUME NEW g, Flows(g)
    PROVE  LET s == Ordered(g)
           IN  /\ Sorted(g, s) /\ Len(s) \in Nat \ {0}
               /\ \A i \in 1 .. Len(s) : s[i] = g.out <=> i = Len(s)
<1> DEFINE s == Ordered(g)
<1>1. /\ Sorted(g, s) /\ s \in Seq(g.nodes) /\ Len(s) \in Nat
      /\ \A i, j \in 1 .. Len(s) : s[i] = s[j] => i = j
      /\ \A n \in g.nodes : \E i \in 1 .. Len(s) : s[i] = n
      /\ \A i, j \in 1 .. Len(s) : <<s[i], s[j]>> \in g.edges => i < j
  BY FlowsAreSorted DEF Sorted
<1> HIDE DEF s
<1>2. PICK k \in 1 .. Len(s) : s[k] = g.out
  BY <1>1 DEF Flows
<1>3. Len(s) \in 1 .. Len(s)
  BY <1>1
<1>4. s[Len(s)] = g.out
  <2> SUFFICES ASSUME s[Len(s)] # g.out PROVE FALSE
    OBVIOUS
  <2>1. s[Len(s)] \in g.nodes
    BY <1>1, <1>3
  <2>2. PICK m \in g.nodes : <<s[Len(s)], m>> \in g.edges
    BY <2>1 DEF Flows
  <2>3. PICK j \in 1 .. Len(s) : s[j] = m
    BY <1>1
  <2>4. Len(s) < j
    BY <1>1, <1>3, <2>2, <2>3
  <2> QED BY <1>1, <2>4
<1> QED BY <1>1, <1>3, <1>4, SMTT(30) DEF s

\* The graph without one of its nodes and with other edges between the others.
LEMMA WithoutNodeIs ==
    ASSUME NEW g, g \in Digraphs, NEW n
    PROVE  /\ WithoutNode(g, n) \in Digraphs
           /\ WithoutNode(g, n).nodes = g.nodes \ {n} /\ WithoutNode(g, n).out = g.out
           /\ WithoutNode(g, n).twice = g.twice
           /\ \A k, m \in Nat : <<k, m>> \in WithoutNode(g, n).edges <=>
                                  <<k, m>> \in g.edges /\ k # n /\ m # n
<1> DEFINE E == {e \in g.edges : n \notin {e[1], e[2]}}
           M == g.nodes \ {n}
<1>1. WithoutNode(g, n) = [g EXCEPT !.nodes = M, !.edges = E]
  BY DEF WithoutNode
<1>2. E \in SUBSET (Nat \X Nat) /\ M \in SUBSET Nat
  BY DEF Digraphs
<1>3. \A k, m \in Nat : <<k, m>> \in E <=> <<k, m>> \in g.edges /\ k # n /\ m # n
  OBVIOUS
<1> HIDE DEF E, M
<1>4. /\ WithoutNode(g, n) \in Digraphs /\ WithoutNode(g, n).nodes = M
      /\ WithoutNode(g, n).out = g.out /\ WithoutNode(g, n).twice = g.twice
      /\ WithoutNode(g, n).edges = E
  BY <1>1, <1>2 DEF Digraphs
<1> QED BY <1>3, <1>4 DEF M

LEMMA TrimmedFlows ==
    ASSUME NEW g, Flows(g), Cardinality(g.nodes) > 1
    PROVE  LET h == WithoutNode(g, Ordered(g)[1])
           IN  /\ Flows(h) /\ h.nodes \subseteq g.nodes
<1> DEFINE s == Ordered(g)
           x == s[1]
           h == WithoutNode(g, x)
<1>1. /\ Sorted(g, s) /\ Len(s) \in Nat \ {0} /\ Len(s) = Cardinality(g.nodes)
      /\ \A i \in 1 .. Len(s) : s[i] = g.out <=> i = Len(s)
      /\ s \in Seq(g.nodes)
      /\ \A n \in g.nodes : \E i \in 1 .. Len(s) : s[i] = n
      /\ \A i, j \in 1 .. Len(s) : <<s[i], s[j]>> \in g.edges => i < j
  BY OutIsLast DEF Sorted
<1> HIDE DEF s
<1>2. 1 \in 1 .. Len(s) /\ 1 # Len(s)
  BY <1>1
<1>3. x \in g.nodes /\ x # g.out
  BY <1>1, <1>2
<1>4. \A m \in g.nodes : <<m, x>> \notin g.edges
  BY <1>1, <1>2
<1> HIDE DEF x
<1>5. /\ g \in Digraphs /\ g.nodes \subseteq Nat /\ IsFiniteSet(g.nodes) /\ g.out \in g.nodes
      /\ ~g.twice /\ \A k, m \in Nat : <<k, m>> \in g.edges => k \in g.nodes /\ m \in g.nodes
  BY DEF Flows, IsDigraph, Digraphs
<1>6. /\ h \in Digraphs /\ h.nodes = g.nodes \ {x} /\ h.out = g.out /\ ~h.twice
      /\ \A k, m \in Nat : <<k, m>> \in h.edges <=> <<k, m>> \in g.edges /\ k # x /\ m # x
  BY <1>5, WithoutNodeIs
<1> HIDE DEF h
<1>7. IsFiniteSet(h.nodes)
  BY <1>5, <1>6, FS_RemoveElement
<1>8. IsDigraph(h)
  BY <1>5, <1>6, <1>7 DEF IsDigraph
<1>9. PICK r : Rising(g, r)
  BY DEF Flows
<1>10. Rising(h, [m \in h.nodes |-> r[m]])
  <2>1. r \in [g.nodes -> Nat] /\ \A k, m \in g.nodes : <<k, m>> \in g.edges => r[k] < r[m]
    BY <1>9 DEF Rising
  <2>2. \A m \in h.nodes : m \in g.nodes /\ m \in Nat
    BY <1>5, <1>6
  <2> QED BY <1>6, <2>1, <2>2 DEF Rising
<1>11. ASSUME NEW k \in h.nodes, k # h.out PROVE \E m \in h.nodes : <<k, m>> \in h.edges
  <2>1. k \in g.nodes /\ k # x /\ k # g.out
    BY <1>6, <1>11
  <2>2. PICK m \in g.nodes : <<k, m>> \in g.edges
    BY <2>1 DEF Flows
  <2> QED BY <1>4, <1>5, <1>6, <2>1, <2>2
<1> QED BY <1>3, <1>5, <1>6, <1>8, <1>10, <1>11 DEF Flows, h, x, s

LEMMA ContractedFlows ==
    ASSUME NEW g, Flows(g), NEW n \in g.nodes, n # g.out
    PROVE  Flows(Bypassed(g, n)) /\ Bypassed(g, n).nodes = g.nodes \ {n}
<1> DEFINE w == WithoutNode(g, n)
           E == w.edges \cup (Parents(g, n) \X Children(g, n))
           h == [w EXCEPT !.edges = E]
<1>1. /\ g \in Digraphs /\ g.nodes \subseteq Nat /\ IsFiniteSet(g.nodes) /\ g.out \in g.nodes
      /\ ~g.twice /\ \A k, m \in Nat : <<k, m>> \in g.edges => k \in g.nodes /\ m \in g.nodes
      /\ g.edges \subseteq Nat \X Nat
  BY DEF Flows, IsDigraph, Digraphs
<1>2. /\ w \in Digraphs /\ w.nodes = g.nodes \ {n} /\ w.out = g.out /\ ~w.twice
      /\ \A k, m \in Nat : <<k, m>> \in w.edges <=> <<k, m>> \in g.edges /\ k # n /\ m # n
  BY <1>1, WithoutNodeIs
<1>3. /\ \A m : m \in Parents(g, n) <=> <<m, n>> \in g.edges
      /\ \A m : m \in Children(g, n) <=> <<n, m>> \in g.edges
  BY <1>1, EdgesAre
<1> HIDE DEF w
<1>4. E \subseteq Nat \X Nat
  <2>1. w.edges \subseteq Nat \X Nat
    BY <1>2 DEF Digraphs
  <2>2. \A m : (<<m, n>> \in g.edges => m \in Nat) /\ (<<n, m>> \in g.edges => m \in Nat)
    BY <1>1
  <2>3. Parents(g, n) \subseteq Nat /\ Children(g, n) \subseteq Nat
    BY <1>3, <2>2
  <2> QED BY <2>1, <2>3
<1>5. \A k, m \in Nat : <<k, m>> \in E <=>
        \/ <<k, m>> \in g.edges /\ k # n /\ m # n
        \/ <<k, n>> \in g.edges /\ <<n, m>> \in g.edges
  BY <1>2, <1>3
<1> HIDE DEF E
<1>6. h \in Digraphs /\ h.nodes = g.nodes \ {n} /\ h.out = g.out /\ ~h.twice /\ h.edges = E
  BY <1>2, <1>4 DEF Digraphs
<1>7. Bypassed(g, n) = h
  BY DEF w, E, Bypassed
<1> HIDE DEF h
<1>8. PICK r : Rising(g, r)
  BY DEF Flows
<1>9. r \in [g.nodes -> Nat] /\ \A k, m \in g.nodes : <<k, m>> \in g.edges => r[k] < r[m]
  BY <1>8 DEF Rising
<1>10. \A m \in g.nodes : r[m] \in Nat /\ m \in Nat
  BY <1>1, <1>9
<1>11. \A m \in Nat : <<m, m>> \notin g.edges
  <2> SUFFICES ASSUME NEW m \in Nat, <<m, m>> \in g.edges PROVE FALSE
    OBVIOUS
  <2>1. m \in g.nodes
    BY <1>1
  <2> QED BY <1>9, <1>10, <2>1
<1>12. IsDigraph(h)
  <2>1. IsFiniteSet(h.nodes)
    BY <1>1, <1>6, FS_RemoveElement
  <2>2. n \in Nat
    BY <1>1
  <2> QED BY <1>1, <1>5, <1>6, <1>11, <2>1, <2>2 DEF IsDigraph
<1>13. Rising(h, [m \in h.nodes |-> r[m]])
  <2>1. ASSUME NEW k \in h.nodes, NEW m \in h.nodes, <<k, m>> \in h.edges PROVE r[k] < r[m]
    <3>1. /\ k \in g.nodes /\ m \in g.nodes /\ n \in g.nodes
          /\ \/ <<k, m>> \in g.edges
             \/ <<k, n>> \in g.edges /\ <<n, m>> \in g.edges
      BY <1>5, <1>6, <1>10, <2>1
    <3> QED BY <1>9, <1>10, <3>1
  <2>2. \A m \in h.nodes : m \in g.nodes /\ m \in Nat
    BY <1>6, <1>10
  <2> QED BY <1>9, <2>1, <2>2 DEF Rising
<1>14. ASSUME NEW k \in h.nodes, k # h.out PROVE \E m \in h.nodes : <<k, m>> \in h.edges
  <2>1. k \in g.nodes /\ k # n /\ k # g.out /\ n \in Nat /\ k \in Nat
    BY <1>6, <1>10, <1>14
  <2>2. PICK m \in g.nodes : <<k, m>> \in g.edges
    BY <2>1 DEF Flows
  <2>3. CASE m # n
    BY <1>5, <1>6, <1>10, <2>1, <2>2, <2>3
  <2>4. CASE m = n
    <3>1. PICK l \in g.nodes : <<n, l>> \in g.edges
      BY DEF Flows
    <3>2. l # n /\ l \in Nat
      BY <1>10, <1>11, <3>1
    <3> QED BY <1>5, <1>6, <2>1, <2>2, <2>4, <3>1, <3>2
  <2> QED BY <2>3, <2>4
<1>15. Flows(h)
  BY <1>1, <1>6, <1>12, <1>13, <1>14 DEF Flows
<1> QED BY <1>6, <1>7, <1>15

LEMMA OneEdgeMore ==
    ASSUME NEW g, Flows(g), NEW f \in Forward(g) \ g.edges
    PROVE  /\ Flows(WithEdges(g, {f}))
           /\ WithEdges(g, {f}).nodes = g.nodes
<1> DEFINE s == Ordered(g)
           E == g.edges \cup {f}
           h == WithEdges(g, {f})
<1>1. /\ IsDigraph(g) /\ g \in Digraphs /\ g.nodes \subseteq Nat /\ g.edges \subseteq Nat \X Nat
      /\ g.out \in g.nodes /\ ~g.twice
  BY DEF Flows, IsDigraph, Digraphs
<1>2. /\ Sorted(g, s) /\ s \in Seq(g.nodes) /\ Len(s) \in Nat
      /\ \A i, j \in 1 .. Len(s) : s[i] = s[j] => i = j
  BY FlowsAreSorted DEF Sorted
<1>3. /\ f \in g.nodes \X g.nodes
      /\ \E i, j \in 1 .. Len(s) : i < j /\ s[i] = f[1] /\ s[j] = f[2]
  BY <1>2 DEF Forward
<1> HIDE DEF s
<1>4. h = [g EXCEPT !.edges = E, !.twice = FALSE]
  BY <1>1 DEF WithEdges
<1>5. E \subseteq Nat \X Nat
  BY <1>1, <1>3
<1>6. \A e : e \in E <=> e \in g.edges \/ e = f
  OBVIOUS
<1> HIDE DEF E, h
<1>7. h \in Digraphs /\ h.nodes = g.nodes /\ h.edges = E /\ h.out = g.out /\ ~h.twice
  BY <1>1, <1>4, <1>5 DEF Digraphs
<1>8. IsDigraph(h)
  BY <1>1, <1>3, <1>6, <1>7 DEF IsDigraph
<1>9. PICK p \in [g.nodes -> 1 .. Len(s)] : Rising(g, p) /\ \A n \in g.nodes : s[p[n]] = n
  BY <1>1, <1>2, SortedRises
<1>10. p[f[1]] < p[f[2]]
  <2>1. PICK i, j \in 1 .. Len(s) : i < j /\ s[i] = f[1] /\ s[j] = f[2]
    BY <1>3
  <2>2. f[1] \in g.nodes /\ f[2] \in g.nodes
    BY <1>3
  <2>3. /\ p[f[1]] \in 1 .. Len(s) /\ s[p[f[1]]] = s[i]
        /\ p[f[2]] \in 1 .. Len(s) /\ s[p[f[2]]] = s[j]
    BY <1>9, <2>1, <2>2
  <2>4. p[f[1]] = i /\ p[f[2]] = j
    BY <1>2, <2>1, <2>3
  <2> QED BY <2>1, <2>4
<1>11. Rising(h, p)
  <2>1. p \in [g.nodes -> Nat]
    BY <1>9 DEF Rising
  <2>2. ASSUME NEW k \in g.nodes, NEW m \in g.nodes, <<k, m>> \in E PROVE p[k] < p[m]
    <3>1. CASE <<k, m>> \in g.edges
      BY <1>9, <3>1 DEF Rising
    <3>2. CASE <<k, m>> = f
      BY <1>10, <3>2
    <3> QED BY <1>6, <2>2, <3>1, <3>2
  <2> QED BY <1>7, <2>1, <2>2 DEF Rising
<1>12. \A k \in g.nodes : k # g.out => \E m \in g.nodes : <<k, m>> \in E
  BY <1>6 DEF Flows
<1> QED BY <1>1, <1>7, <1>8, <1>11, <1>12 DEF Flows, h

LEMMA RewiredFlows ==
    ASSUME NEW g, Flows(g), NEW h \in Replaced(g) \cup Added(g) \cup Dropped(g)
    PROVE  Flows(h) /\ h.nodes = g.nodes
<1>1. /\ g \in Digraphs /\ g.edges \subseteq Nat \X Nat /\ IsFiniteSet(g.nodes)
      /\ g.nodes \subseteq Nat
  BY DEF Flows, IsDigraph, Digraphs
<1>2. ASSUME NEW E \in SUBSET (Nat \X Nat), h = [g EXCEPT !.edges = E], IsProgram(h)
      PROVE  Flows(h) /\ h.nodes = g.nodes
  <2>1. h \in Digraphs /\ h.nodes = g.nodes
    BY <1>1, <1>2 DEF Digraphs
  <2> QED BY <1>1, <1>2, <2>1, ProgramsFlow
<1>3. CASE h \in Replaced(g)
  <2>1. PICK e \in g.edges, f \in Forward(g) : h = [g EXCEPT !.edges = (@ \ {e}) \cup {f}] /\ IsProgram(h)
    BY <1>3 DEF Replaced
  <2>2. h = [g EXCEPT !.edges = (g.edges \ {e}) \cup {f}]
    BY <2>1
  <2>3. f \in Nat \X Nat
    BY <1>1 DEF Forward
  <2>4. (g.edges \ {e}) \cup {f} \in SUBSET (Nat \X Nat)
    BY <1>1, <2>3
  <2> QED BY <1>2, <2>1, <2>2, <2>4, Zenon
<1>4. CASE h \in Dropped(g)
  <2>1. PICK e \in g.edges : h = [g EXCEPT !.edges = @ \ {e}] /\ IsProgram(h)
    BY <1>4 DEF Dropped
  <2>2. h = [g EXCEPT !.edges = g.edges \ {e}]
    BY <2>1
  <2> QED BY <1>1, <1>2, <2>1, <2>2
<1>5. CASE h \in Added(g)
  <2>1. PICK f \in Forward(g) \ g.edges : h = WithEdges(g, {f})
    BY <1>5 DEF Added
  <2>2. Flows(WithEdges(g, {f})) /\ WithEdges(g, {f}).nodes = g.nodes
    BY <2>1, OneEdgeMore
  <2> QED BY <2>1, <2>2
<1> QED BY <1>3, <1>4, <1>5

LEMMA UnusedIsNew ==
    ASSUME NEW S, S \subseteq Nat, IsFiniteSet(S), Cardinality(S) <= 16
    PROVE  Unused(S) \in Nat \ S
<1> DEFINE Left == (0 .. 16) \ S
           Good(n) == n \notin S /\ \A m \in 0 .. n - 1 : m \in S
<1>1. Left # {}
  <2> SUFFICES ASSUME 0 .. 16 \subseteq S PROVE FALSE
    OBVIOUS
  <2>1. Cardinality(0 .. 16) = 17
    <3>1. 0 \in Int /\ 16 \in Int /\ ~(0 > 16) /\ 16 - 0 + 1 = 17
      OBVIOUS
    <3>2. Cardinality(0 .. 16) = IF 0 > 16 THEN 0 ELSE 16 - 0 + 1
      BY <3>1, FS_Interval, Zenon
    <3> QED BY <3>1, <3>2
  <2>2. Cardinality(0 .. 16) <= Cardinality(S) /\ Cardinality(S) \in Nat
    BY FS_Subset, FS_CardinalityType
  <2> QED BY <2>1, <2>2
<1>2. PICK t \in Left : \A u \in Left : t <= u
  <2>1. Left \subseteq Nat
    OBVIOUS
  <2> HIDE DEF Left
  <2> QED BY <1>1, <2>1, LeastExists
<1>3. t \in 0 .. 16 /\ Good(t)
  BY <1>2
<1>4. Unused(S) = CHOOSE n \in 0 .. 16 : Good(n)
  BY DEF Unused
<1>5. Unused(S) \in 0 .. 16 /\ Good(Unused(S))
  <2> DEFINE u == Unused(S)
  <2>1. u = CHOOSE n \in 0 .. 16 : Good(n)
    BY <1>4
  <2> HIDE DEF Good, u
  <2>2. u \in 0 .. 16 /\ Good(u)
    BY <1>3, <2>1
  <2> QED BY <2>2 DEF u
<1> QED BY <1>5

Genome(v, m, o, c, k) == [variant |-> v, macro |-> m, of |-> o, cells |-> c, marks |-> k]

LEMMA GenomeHas ==
    ASSUME NEW v, NEW m, NEW o, NEW c, NEW k, NEW h, h = Genome(v, m, o, c, k)
    PROVE  h.variant = v /\ h.macro = m /\ h.of = o /\ h.cells = c /\ h.marks = k
BY DEF Genome

\* A genome with other parts.
WithMacro(h, x) == [h EXCEPT !.macro = x]
WithOf(h, x) == [h EXCEPT !.of = x]
WithCells(h, x) == [h EXCEPT !.cells = x]
WithMarks(h, x) == [h EXCEPT !.marks = x]
WithNodes(h, x, y) == [h EXCEPT !.macro = x, !.of = y]
WithLibrary(h, x, y) == [h EXCEPT !.cells = x, !.marks = y]
WithRest(h, x, y, z) == [h EXCEPT !.of = x, !.cells = y, !.marks = z]

LEMMA OneWith ==
    ASSUME NEW v, NEW m, NEW o, NEW c, NEW k, NEW h, h = Genome(v, m, o, c, k), NEW x
    PROVE  /\ WithMacro(h, x) = Genome(v, x, o, c, k)
           /\ WithOf(h, x) = Genome(v, m, x, c, k)
           /\ WithCells(h, x) = Genome(v, m, o, x, k)
           /\ WithMarks(h, x) = Genome(v, m, o, c, x)
<1>1. WithMacro(h, x) = Genome(v, x, o, c, k)
  BY DEF Genome, WithMacro
<1>2. WithOf(h, x) = Genome(v, m, x, c, k)
  BY DEF Genome, WithOf
<1>3. WithCells(h, x) = Genome(v, m, o, x, k)
  BY DEF Genome, WithCells
<1>4. WithMarks(h, x) = Genome(v, m, o, c, x)
  BY DEF Genome, WithMarks
<1> QED BY <1>1, <1>2, <1>3, <1>4

LEMMA TwoWith ==
    ASSUME NEW v, NEW m, NEW o, NEW c, NEW k, NEW h, h = Genome(v, m, o, c, k), NEW x, NEW y
    PROVE  /\ WithNodes(h, x, y) = Genome(v, x, y, c, k)
           /\ WithLibrary(h, x, y) = Genome(v, m, o, x, y)
<1>1. /\ WithNodes(h, x, y) = WithOf(WithMacro(h, x), y)
      /\ WithLibrary(h, x, y) = WithMarks(WithCells(h, x), y)
  BY Zenon DEF WithMacro, WithOf, WithCells, WithMarks, WithNodes, WithLibrary
<1>2. WithOf(WithMacro(h, x), y) = Genome(v, x, y, c, k)
  BY OneWith
<1>3. WithMarks(WithCells(h, x), y) = Genome(v, m, o, x, y)
  BY OneWith
<1> QED BY <1>1, <1>2, <1>3

LEMMA RestWith ==
    ASSUME NEW v, NEW m, NEW o, NEW c, NEW k, NEW h, h = Genome(v, m, o, c, k),
           NEW x, NEW y, NEW z
    PROVE  WithRest(h, x, y, z) = Genome(v, m, x, y, z)
<1>1. WithRest(h, x, y, z) = WithMarks(WithCells(WithOf(h, x), y), z)
  BY Zenon DEF WithOf, WithCells, WithMarks, WithRest
<1>2. WithOf(h, x) = Genome(v, m, x, c, k)
  BY OneWith
<1>3. WithMarks(WithCells(WithOf(h, x), y), z) = Genome(v, m, x, y, z)
  BY <1>2, OneWith
<1> QED BY <1>1, <1>3

\* What every genome that an edit builds satisfies, s the schema ...
Fitting(g) == Flows(g) /\ Cardinality(g.nodes) <= MaxCell
Parts(s, v, m, o, c, k) ==
  /\ v \in {"flat", "unshared", "shared", "no-clone"}
  /\ Flows(m) /\ Cardinality(m.nodes) <= MaxMacro
  /\ s = 1 => m.nodes = 0 .. Cardinality(m.nodes) - 1
  /\ \A n \in m.nodes : o[n] \in DOMAIN c
  /\ DOMAIN c \subseteq Nat
  /\ \A x \in DOMAIN c : Fitting(c[x])
  /\ \A x, y \in DOMAIN c : k[x] = k[y] => x = y
  /\ v = "flat" => Cardinality(m.nodes) = 1
  /\ v = "unshared" => \A x, y \in m.nodes : o[x] = o[y] => x = y
Kept(s, h) == \E v, m, o, c, k : h = Genome(v, m, o, c, k) /\ Parts(s, v, m, o, c, k)

\* ... and what a genome is when it has been accepted.
Tidy(m, o, c, k) ==
  /\ o = [n \in m.nodes |-> o[n]]
  /\ c = [x \in DOMAIN c |-> c[x]]
  /\ k = [x \in DOMAIN c |-> <<x>>]
  /\ \A x \in DOMAIN c : \E n \in m.nodes : o[n] = x
Standing(s, h) ==
  \E v, m, o, c, k : /\ h = Genome(v, m, o, c, k)
                     /\ Parts(s, v, m, o, c, k) /\ Tidy(m, o, c, k)

LEMMA KeptIsAccepted ==
    ASSUME NEW s, NEW h, Kept(s, h)
    PROVE  Accepts(Pruned(h)) /\ Standing(s, Renamed(Pruned(h)))
<1>1. PICK v, m, o, c, k : h = Genome(v, m, o, c, k) /\ Parts(s, v, m, o, c, k)
  BY Zenon DEF Kept
<1>2. h.variant = v /\ h.macro = m /\ h.of = o /\ h.cells = c /\ h.marks = k
  BY <1>1, GenomeHas
<1> DEFINE U == {o[n] : n \in m.nodes}
           o2 == [n \in m.nodes |-> o[n]]
           c2 == [x \in U |-> c[x]]
           k2 == [x \in U |-> k[x]]
           k3 == [x \in U |-> <<x>>]
           p == Pruned(h)
           q == Renamed(p)
<1>3. Used(h) = U
  BY <1>2 DEF Used
<1>4. p = Genome(v, m, o2, c2, k2)
  <2>1. p = WithRest(h, o2, c2, k2)
    BY <1>2, <1>3, Zenon DEF Pruned, WithRest
  <2> HIDE DEF o2, c2, k2, p
  <2> QED BY <1>1, <2>1, RestWith
<1>5. p.variant = v /\ p.macro = m /\ p.of = o2 /\ p.cells = c2 /\ p.marks = k2
  <2> HIDE DEF o2, c2, k2, p
  <2> QED BY <1>4, GenomeHas
<1>6. DOMAIN c2 = U /\ \A x \in U : c2[x] = c[x] /\ k2[x] = k[x]
  OBVIOUS
<1>7. q = Genome(v, m, o2, c2, k3)
  <2>1. q = WithMarks(p, k3)
    BY <1>5, <1>6, Zenon DEF Renamed, WithMarks
  <2> HIDE DEF o2, c2, k2, k3, p, q
  <2> QED BY <1>4, <2>1, OneWith
<1>8. /\ U \subseteq DOMAIN c /\ \A n \in m.nodes : o2[n] = o[n] /\ o[n] \in U
      /\ \A x \in U : \E n \in m.nodes : o2[n] = x
  BY <1>1 DEF Parts
<1>9. k3 = [x \in DOMAIN c2 |-> <<x>>] /\ \A x, y \in U : k3[x] = k3[y] => x = y
  BY <1>6
<1>10. o2 = [n \in m.nodes |-> o2[n]] /\ c2 = [x \in DOMAIN c2 |-> c2[x]]
  OBVIOUS
<1>11. v = "unshared" => Cardinality(U) = Cardinality(m.nodes)
  <2> SUFFICES ASSUME v = "unshared" PROVE Cardinality(U) = Cardinality(m.nodes)
    OBVIOUS
  <2>1. o2 \in Surjection(m.nodes, U)
    BY <1>8 DEF Surjection
  <2>2. o2 \in Injection(m.nodes, U)
    BY <1>1, <1>8 DEF Injection, IsInjective, Parts
  <2>3. IsFiniteSet(m.nodes)
    BY <1>1 DEF Parts, Flows, IsDigraph
  <2> QED BY <2>1, <2>2, <2>3, FS_Surjection
<1> HIDE DEF U, o2, c2, k2, k3, p, q
<1>12. Accepts(p)
  <2>1. IsProgram(m) /\ Cardinality(m.nodes) <= MaxMacro
    BY <1>1, FlowingIsProgram DEF Parts
  <2>2. \A x \in U : IsProgram(c2[x]) /\ Cardinality(c2[x].nodes) <= MaxCell
    BY <1>1, <1>6, <1>8, FlowingIsProgram DEF Parts, Fitting
  <2>3. \A x, y \in U : k2[x] = k2[y] => x = y
    BY <1>1, <1>6, <1>8 DEF Parts
  <2> QED BY <1>1, <1>5, <1>6, <1>11, <2>1, <2>2, <2>3 DEF Accepts, Parts
<1>13. Parts(s, v, m, o2, c2, k3)
  BY <1>1, <1>6, <1>8, <1>9 DEF Parts
<1>14. Tidy(m, o2, c2, k3)
  BY <1>6, <1>8, <1>9, <1>10 DEF Tidy
<1>15. Standing(s, q)
  BY <1>7, <1>13, <1>14, Zenon DEF Standing
<1> QED BY <1>12, <1>15 DEF p, q

LEMMA StandingIsKept ==
    ASSUME NEW s, NEW h, Standing(s, h)
    PROVE  Kept(s, h)
BY Zenon DEF Standing, Kept

HasOneMore(g, f, x, y) ==
  /\ DOMAIN g = DOMAIN f \cup {x} /\ g[x] = y
  /\ \A z \in DOMAIN f : z # x => g[z] = f[z]

LEMMA WithIs ==
    ASSUME NEW f, NEW x, NEW y
    PROVE  HasOneMore(With(f, x, y), f, x, y)
BY DEF With, HasOneMore

LEMMA ClonedKeeps ==
    ASSUME NEW s, NEW v \in {"shared", "unshared"}, NEW m, NEW o, NEW c, NEW k,
           NEW h, h = Genome(v, m, o, c, k), Parts(s, "shared", m, o, c, k),
           k = [x \in DOMAIN c |-> <<x>>], o = [x \in m.nodes |-> o[x]],
           IsFiniteSet(DOMAIN c), NEW n \in m.nodes,
           v = "unshared" =>
             /\ Cardinality(DOMAIN c) < 8
             /\ \E y \in m.nodes : y # n /\ o[y] = o[n]
             /\ \A x, y \in m.nodes \ {n} : o[x] = o[y] => x = y
    PROVE  Kept(s, Cloned(h, n))
<1> DEFINE copy == Unused(DOMAIN c)
           S == {x \in m.nodes : o[x] = o[n]}
           o2 == [o EXCEPT ![n] = copy]
           c2 == With(c, copy, c[o[n]])
           k2 == With(k, copy, <<o[n], n>>)
           g == Cloned(h, n)
<1>1. h.variant = v /\ h.macro = m /\ h.of = o /\ h.cells = c /\ h.marks = k
  BY GenomeHas
<1>2. g = IF Cardinality(S) < 2 \/ Cardinality(DOMAIN c) >= 8 THEN h ELSE WithRest(h, o2, c2, k2)
  <2>1. g = IF \/ Cardinality({x \in h.macro.nodes : h.of[x] = h.of[n]}) < 2
               \/ Cardinality(DOMAIN h.cells) >= 8
            THEN h
            ELSE [h EXCEPT !.of[n] = Unused(DOMAIN h.cells),
                           !.cells = With(@, Unused(DOMAIN h.cells), h.cells[h.of[n]]),
                           !.marks = With(@, Unused(DOMAIN h.cells), <<h.of[n], n>>)]
    BY Zenon DEF Cloned
  <2>2. WithRest(h, o2, c2, k2) =
          [h EXCEPT !.of[n] = Unused(DOMAIN h.cells),
                    !.cells = With(@, Unused(DOMAIN h.cells), h.cells[h.of[n]]),
                    !.marks = With(@, Unused(DOMAIN h.cells), <<h.of[n], n>>)]
    BY <1>1, Zenon DEF WithRest
  <2>3. {x \in h.macro.nodes : h.of[x] = h.of[n]} = S
    BY <1>1
  <2> HIDE DEF g, S, o2, c2, k2
  <2>4. g = IF Cardinality(S) < 2 \/ Cardinality(DOMAIN h.cells) >= 8
            THEN h ELSE WithRest(h, o2, c2, k2)
    BY <2>1, <2>2, <2>3, Zenon
  <2> QED BY <1>1, <2>4, Zenon
<1>3. v = "unshared" => Cardinality(S) >= 2
  <2> SUFFICES ASSUME v = "unshared" PROVE Cardinality(S) >= 2
    OBVIOUS
  <2>1. PICK y \in m.nodes : y # n /\ o[y] = o[n]
    OBVIOUS
  <2>2. IsFiniteSet(S)
    <3>1. IsFiniteSet(m.nodes) /\ S \in SUBSET m.nodes
      BY DEF Parts, Flows, IsDigraph
    <3> QED BY <3>1, FS_Subset
  <2>3. {y} \cup {n} \in SUBSET S /\ n \notin {y}
    BY <2>1
  <2> HIDE DEF S
  <2>4. IsFiniteSet({y}) /\ Cardinality({y}) = 1
    BY FS_Singleton
  <2>5. Cardinality({y} \cup {n}) = 1 + 1
    BY <2>3, <2>4, FS_AddElement
  <2>6. Cardinality({y} \cup {n}) <= Cardinality(S)
    BY <2>2, <2>3, FS_Subset
  <2>7. Cardinality(S) \in Nat
    BY <2>2, FS_CardinalityType
  <2> QED BY <2>5, <2>6, <2>7
<1> HIDE DEF S
<1>4. /\ Cardinality(DOMAIN c) \in Nat
      /\ v = "unshared" => ~(Cardinality(DOMAIN c) >= 8)
  <2>1. Cardinality(DOMAIN c) \in Nat
    BY FS_CardinalityType
  <2> QED BY <2>1
<1>5. CASE Cardinality(S) < 2 \/ Cardinality(DOMAIN c) >= 8
  <2>1. g = h
    <3> HIDE DEF g, o2, c2, k2
    <3> QED BY <1>2, <1>5
  <2>2. v # "unshared"
    <3>1. Cardinality(S) \in Nat
      <4>1. IsFiniteSet(m.nodes) /\ S \in SUBSET m.nodes
        BY DEF Parts, Flows, IsDigraph, S
      <4> QED BY <4>1, FS_Subset, FS_CardinalityType
    <3> QED BY <1>3, <1>4, <1>5, <3>1
  <2>3. v = "shared"
    BY <2>2
  <2>4. Kept(s, h)
    BY <2>3, Zenon DEF Kept
  <2> QED BY <2>1, <2>4
<1>6. CASE ~(Cardinality(S) < 2 \/ Cardinality(DOMAIN c) >= 8)
  <2>1. g = WithRest(h, o2, c2, k2) /\ ~(Cardinality(DOMAIN c) >= 8)
    <3> HIDE DEF g, o2, c2, k2
    <3> QED BY <1>2, <1>6
  <2>2. g = Genome(v, m, o2, c2, k2)
    <3> HIDE DEF g, o2, c2, k2
    <3> QED BY <2>1, RestWith
  <2>3. copy \in Nat \ DOMAIN c
    <3>1. Cardinality(DOMAIN c) <= 16 /\ DOMAIN c \subseteq Nat
      BY <1>4, <2>1 DEF Parts
    <3> QED BY <3>1, UnusedIsNew
  <2> HIDE DEF copy
  <2>4. /\ \A x \in m.nodes : o2[x] = IF x = n THEN copy ELSE o[x]
        /\ \A x \in m.nodes : o[x] \in DOMAIN c
    <3>1. DOMAIN o = m.nodes
      OBVIOUS
    <3> QED BY <3>1 DEF Parts
  <2>5. /\ DOMAIN c2 = DOMAIN c \cup {copy} /\ c2[copy] = c[o[n]]
        /\ \A x \in DOMAIN c : x # copy => c2[x] = c[x]
    <3>1. HasOneMore(c2, c, copy, c[o[n]])
      BY WithIs, Zenon
    <3> HIDE DEF c2
    <3> QED BY <3>1 DEF HasOneMore
  <2> DEFINE pair == <<o[n], n>>
  <2>6. /\ k2[copy] = pair
        /\ \A x \in DOMAIN c : x # copy => k2[x] = <<x>>
    <3>1. DOMAIN k = DOMAIN c /\ \A x \in DOMAIN c : k[x] = <<x>>
      OBVIOUS
    <3>2. HasOneMore(k2, k, copy, pair)
      BY WithIs, Zenon
    <3> HIDE DEF k2, pair
    <3>3. k2[copy] = pair /\ \A x \in DOMAIN k : x # copy => k2[x] = k[x]
      BY <3>2 DEF HasOneMore
    <3> QED BY <3>1, <3>3
  <2> HIDE DEF o2, c2, k2, g
  <2>7. \A x \in m.nodes : o2[x] \in DOMAIN c2
    BY <2>4, <2>5
  <2>8. DOMAIN c2 \subseteq Nat /\ \A x \in DOMAIN c2 : Fitting(c2[x])
    BY <2>3, <2>4, <2>5 DEF Parts
  <2>9. \A x, y \in DOMAIN c2 : k2[x] = k2[y] => x = y
    <3>1. \A x : <<x>> # pair
      OBVIOUS
    <3>2. \A x, y : <<x>> = <<y>> => x = y
      OBVIOUS
    <3> HIDE DEF pair
    <3> QED BY <2>3, <2>5, <2>6, <3>1, <3>2
  <2>10. v = "unshared" => \A x, y \in m.nodes : o2[x] = o2[y] => x = y
    BY <2>3, <2>4
  <2>11. Parts(s, v, m, o2, c2, k2)
    BY <2>7, <2>8, <2>9, <2>10 DEF Parts
  <2>12. Kept(s, g)
    BY <2>2, <2>11, Zenon DEF Kept
  <2> QED BY <2>12 DEF g
<1> QED BY <1>5, <1>6

LEMMA LibraryIs ==
    ASSUME NEW s, NEW v, NEW m, NEW o, NEW c, NEW k, Parts(s, v, m, o, c, k), Tidy(m, o, c, k)
    PROVE  /\ IsFiniteSet(m.nodes) /\ Cardinality(m.nodes) \in Nat
           /\ IsFiniteSet(DOMAIN c) /\ Cardinality(DOMAIN c) \in Nat
           /\ Cardinality(DOMAIN c) <= Cardinality(m.nodes)
<1>1. IsFiniteSet(m.nodes)
  BY DEF Parts, Flows, IsDigraph
<1>2. o \in Surjection(m.nodes, DOMAIN c)
  <2>1. \A n \in m.nodes : o[n] \in DOMAIN c
    BY DEF Parts
  <2>2. DOMAIN o = m.nodes
    BY DEF Tidy
  <2>3. o = [n \in m.nodes |-> o[n]]
    BY DEF Tidy
  <2>4. o \in [m.nodes -> DOMAIN c]
    BY <2>1, <2>3
  <2> QED BY <2>4 DEF Tidy, Surjection
<1> QED BY <1>1, <1>2, FS_Surjection, FS_CardinalityType

LEMMA ExpansionsKeep ==
    ASSUME HierarchyAssumption, schema \in {1, 2}, NEW h, Standing(schema, h),
           NEW g \in Expansions(h)
    PROVE  Kept(schema, g)
<1>1. PICK v, m, o, c, k : /\ h = Genome(v, m, o, c, k)
                           /\ Parts(schema, v, m, o, c, k) /\ Tidy(m, o, c, k)
  BY Zenon DEF Standing
<1>2. h.variant = v /\ h.macro = m /\ h.of = o /\ h.cells = c /\ h.marks = k
  BY <1>1, GenomeHas
<1>3. v # "flat" /\ Cardinality(m.nodes) < MaxMacro /\ MaxMacro \in Nat /\ MaxMacro <= 8
  BY <1>2 DEF Expansions, HierarchyAssumption
<1>4. PICK d \in DOMAIN c : g = ExpandedWith(h, d)
  BY <1>2, <1>3 DEF Expansions
<1>5. /\ IsFiniteSet(m.nodes) /\ Cardinality(m.nodes) \in Nat
      /\ IsFiniteSet(DOMAIN c) /\ Cardinality(DOMAIN c) \in Nat
      /\ Cardinality(DOMAIN c) <= Cardinality(m.nodes)
  BY <1>1, LibraryIs
<1> DEFINE n == IF schema = 1 THEN Cardinality(h.macro.nodes) ELSE Unused(h.macro.nodes)
           m2 == Extended(m, n)
           o2 == With(o, n, d)
           child == WithNodes(h, m2, o2)
<1>6. g = IF v = "unshared" THEN Cloned(child, n) ELSE child
  <2>1. g = IF h.variant = "unshared"
            THEN Cloned([h EXCEPT !.macro = Extended(@, n), !.of = With(@, n, d)], n)
            ELSE [h EXCEPT !.macro = Extended(@, n), !.of = With(@, n, d)]
    BY <1>4, Zenon DEF ExpandedWith
  <2>2. child = [h EXCEPT !.macro = Extended(@, n), !.of = With(@, n, d)]
    BY <1>2, Zenon DEF WithNodes
  <2> HIDE DEF child, n
  <2> QED BY <1>2, <2>1, <2>2, Zenon
<1>7. n \in Nat \ m.nodes
  <2>1. CASE schema = 1
    BY <1>1, <1>2, <1>5, <2>1 DEF Parts
  <2>2. CASE schema # 1
    <3>1. m.nodes \subseteq Nat
      BY <1>1 DEF Parts, Flows, IsDigraph, Digraphs
    <3>2. Cardinality(m.nodes) <= 16
      BY <1>3, <1>5
    <3> QED BY <1>2, <1>5, <2>2, <3>1, <3>2, UnusedIsNew
  <2> QED BY <2>1, <2>2
<1>8. schema = 1 => n = Cardinality(m.nodes)
  BY <1>2
<1> HIDE DEF n
<1>9. Flows(m2) /\ m2.nodes = m.nodes \cup {n}
  BY <1>1, <1>7, ExtendedFlows DEF Parts
<1>10. child = Genome(v, m2, o2, c, k)
  <2> HIDE DEF m2, o2, child
  <2> QED BY <1>1, TwoWith DEF child
<1>11. /\ DOMAIN o2 = m.nodes \cup {n} /\ o2[n] = d
       /\ \A x \in m.nodes : o2[x] = o[x]
  <2>1. HasOneMore(o2, o, n, d)
    BY WithIs, Zenon
  <2>2. DOMAIN o = m.nodes
    BY <1>1 DEF Tidy
  <2> HIDE DEF o2
  <2> QED BY <1>7, <2>1, <2>2 DEF HasOneMore
<1>12. o2 = [x \in m2.nodes |-> o2[x]]
  <2>1. o2 = [x \in DOMAIN o2 |-> o2[x]]
    BY DEF With
  <2> HIDE DEF o2
  <2> QED BY <1>9, <1>11, <2>1
<1> HIDE DEF m2, o2, child
<1>13. Cardinality(m2.nodes) = Cardinality(m.nodes) + 1
  BY <1>5, <1>7, <1>9, FS_AddElement
<1>14. Cardinality(m2.nodes) <= MaxMacro
  BY <1>3, <1>5, <1>13
<1>15. schema = 1 => m2.nodes = 0 .. Cardinality(m2.nodes) - 1
  <2> SUFFICES ASSUME schema = 1 PROVE m2.nodes = 0 .. Cardinality(m2.nodes) - 1
    OBVIOUS
  <2>1. m.nodes = 0 .. Cardinality(m.nodes) - 1
    BY <1>1 DEF Parts
  <2> QED BY <1>5, <1>8, <1>9, <1>13, <2>1
<1>16. ASSUME NEW u \in {"shared", "no-clone"} PROVE Parts(schema, u, m2, o2, c, k)
  BY <1>1, <1>9, <1>11, <1>14, <1>15 DEF Parts
<1>17. CASE v = "unshared"
  <2>1. Cardinality(DOMAIN c) < 8
    BY <1>3, <1>5
  <2>2. \E y \in m2.nodes : y # n /\ o2[y] = o2[n]
    <3>1. PICK y \in m.nodes : o[y] = d
      BY <1>1 DEF Tidy
    <3> QED BY <1>7, <1>9, <1>11, <3>1
  <2>3. \A x, y \in m2.nodes \ {n} : o2[x] = o2[y] => x = y
    BY <1>1, <1>9, <1>11, <1>17 DEF Parts
  <2>4. Parts(schema, "shared", m2, o2, c, k)
    BY <1>16
  <2>5. k = [x \in DOMAIN c |-> <<x>>] /\ n \in m2.nodes /\ v \in {"shared", "unshared"}
    BY <1>1, <1>9, <1>17 DEF Tidy
  <2>6. Kept(schema, Cloned(child, n))
    BY <1>5, <1>10, <1>12, <2>1, <2>2, <2>3, <2>4, <2>5, ClonedKeeps
  <2> QED BY <1>6, <1>17, <2>6
<1>18. CASE v # "unshared"
  <2>1. v \in {"shared", "no-clone"}
    BY <1>1, <1>3, <1>18 DEF Parts
  <2>2. g = Genome(v, m2, o2, c, k) /\ Parts(schema, v, m2, o2, c, k)
    BY <1>6, <1>10, <1>16, <1>18, <2>1
  <2> QED BY <2>2, Zenon DEF Kept
<1> QED BY <1>17, <1>18

LEMMA ClonesKeep ==
    ASSUME NEW s, NEW h, Standing(s, h), NEW g \in Clones(h)
    PROVE  Kept(s, g)
<1>1. PICK v, m, o, c, k : /\ h = Genome(v, m, o, c, k)
                           /\ Parts(s, v, m, o, c, k) /\ Tidy(m, o, c, k)
  BY Zenon DEF Standing
<1>2. h.variant = v /\ h.macro = m /\ h.of = o /\ h.cells = c /\ h.marks = k
  BY <1>1, GenomeHas
<1>3. v = "shared"
  BY <1>2 DEF Clones
<1>4. PICK n \in m.nodes : g = Cloned(h, n)
  BY <1>2, <1>3 DEF Clones
<1>5. IsFiniteSet(DOMAIN c)
  BY <1>1, LibraryIs
<1>6. k = [x \in DOMAIN c |-> <<x>>] /\ o = [x \in m.nodes |-> o[x]]
  BY <1>1, Zenon DEF Tidy
<1>7. v \in {"shared", "unshared"} /\ v # "unshared" /\ Parts(s, "shared", m, o, c, k)
  BY <1>1, <1>3
<1>8. Kept(s, Cloned(h, n))
  BY <1>1, <1>5, <1>6, <1>7, ClonedKeeps
<1> QED BY <1>4, <1>8

LEMMA SharesKeep ==
    ASSUME NEW h, Standing(schema, h), NEW g \in Shares(h)
    PROVE  Kept(schema, g)
<1>1. PICK v, m, o, c, k : /\ h = Genome(v, m, o, c, k)
                           /\ Parts(schema, v, m, o, c, k) /\ Tidy(m, o, c, k)
  BY Zenon DEF Standing
<1>2. h.variant = v /\ h.macro = m /\ h.of = o /\ h.cells = c /\ h.marks = k
  BY <1>1, GenomeHas
<1>3. v = "shared" /\ g \in {[h EXCEPT !.of[n] = d] : n \in h.macro.nodes, d \in DOMAIN h.cells}
  BY <1>2 DEF Shares
<1> DEFINE T == h.macro.nodes
           C == DOMAIN h.cells
<1>4. g \in {[h EXCEPT !.of[n] = d] : n \in T, d \in C}
  BY <1>3
<1>5. T = m.nodes /\ C = DOMAIN c
  BY <1>2
<1> HIDE DEF T, C
<1>A. PICK n \in T, d \in C : g = [h EXCEPT !.of[n] = d]
  BY <1>4
<1> DEFINE o2 == [o EXCEPT ![n] = d]
<1>6. g = WithOf(h, o2)
  BY <1>2, <1>A, Zenon DEF WithOf
<1>7. g = Genome(v, m, o2, c, k)
  <2> HIDE DEF o2
  <2> QED BY <1>1, <1>6, OneWith
<1>8. \A x \in m.nodes : o2[x] \in DOMAIN c
  <2>1. DOMAIN o = m.nodes
    BY <1>1 DEF Tidy
  <2> QED BY <1>1, <1>5, <2>1 DEF Parts
<1> HIDE DEF o2
<1>9. Parts(schema, v, m, o2, c, k)
  BY <1>1, <1>3, <1>8 DEF Parts
<1> QED BY <1>7, <1>9, Zenon DEF Kept

LEMMA RewiringsKeep ==
    ASSUME NEW s, NEW h, Standing(s, h), NEW g \in Rewirings(h) \cup Skips(h)
    PROVE  Kept(s, g)
<1>1. PICK v, m, o, c, k : /\ h = Genome(v, m, o, c, k)
                           /\ Parts(s, v, m, o, c, k) /\ Tidy(m, o, c, k)
  BY Zenon DEF Standing
<1>2. h.variant = v /\ h.macro = m /\ h.of = o /\ h.cells = c /\ h.marks = k
  BY <1>1, GenomeHas
<1> DEFINE More == Replaced(m) \cup Added(m) \cup Dropped(m)
<1>3. Rewired(m) \subseteq More /\ Added(m) \subseteq More
  BY DEF Rewired
<1> HIDE DEF More
<1>4. PICK m2 \in More : g = WithMacro(h, m2)
  <2>1. \/ g \in {[h EXCEPT !.macro = x] : x \in Rewired(h.macro)}
        \/ g \in {[h EXCEPT !.macro = x] : x \in Added(h.macro)}
    BY DEF Rewirings, Skips
  <2>2. \/ \E x \in Rewired(h.macro) : g = WithMacro(h, x)
        \/ \E x \in Added(h.macro) : g = WithMacro(h, x)
    BY <2>1, Zenon DEF WithMacro
  <2> QED BY <1>2, <1>3, <2>2
<1>5. Flows(m2) /\ m2.nodes = m.nodes
  BY <1>1, <1>4, RewiredFlows DEF Parts, More
<1>6. g = Genome(v, m2, o, c, k)
  BY <1>1, <1>4, OneWith
<1>7. Parts(s, v, m2, o, c, k)
  BY <1>1, <1>5 DEF Parts
<1> QED BY <1>6, <1>7, Zenon DEF Kept

LEMMA CollapsedKeeps ==
    ASSUME HierarchyAssumption, NEW s, s # 1, NEW h, Standing(s, h),
           NEW n \in h.macro.nodes
    PROVE  Kept(s, Collapsed(h, n))
<1>1. PICK v, m, o, c, k : /\ h = Genome(v, m, o, c, k)
                           /\ Parts(s, v, m, o, c, k) /\ Tidy(m, o, c, k)
  BY Zenon DEF Standing
<1>2. h.variant = v /\ h.macro = m /\ h.of = o /\ h.cells = c /\ h.marks = k
  BY <1>1, GenomeHas
<1> DEFINE o2 == [x \in {0} |-> o[n]]
<1>3. Collapsed(h, n) = WithNodes(h, Chain(1), o2)
  BY <1>2, Zenon DEF Collapsed, WithNodes
<1>4. Collapsed(h, n) = Genome(v, Chain(1), o2, c, k)
  <2> HIDE DEF o2
  <2> QED BY <1>1, <1>3, TwoWith
<1>5. Flows(Chain(1)) /\ Chain(1).nodes = {0} /\ Cardinality(Chain(1).nodes) = 1
  <2>1. Flows(Chain(1)) /\ Chain(1).nodes = 0 .. 1 - 1 /\ Cardinality(Chain(1).nodes) = 1
    BY ChainFlows
  <2> QED BY <2>1
<1>6. o2[0] \in DOMAIN c
  BY <1>1, <1>2 DEF Parts
<1> HIDE DEF o2
<1>7. Parts(s, v, Chain(1), o2, c, k)
  BY <1>1, <1>5, <1>6 DEF Parts, HierarchyAssumption
<1> QED BY <1>4, <1>7, Zenon DEF Kept

LEMMA CollapsesKeep ==
    ASSUME HierarchyAssumption, NEW h, Standing(schema, h), NEW g \in Collapses(h)
    PROVE  Kept(schema, g)
<1>1. schema # 1 /\ \E n \in h.macro.nodes : g = Collapsed(h, n)
  BY DEF Collapses
<1> QED BY <1>1, CollapsedKeeps

LEMMA ContractionsKeep ==
    ASSUME HierarchyAssumption, NEW h, Standing(schema, h), NEW g \in Contractions(h)
    PROVE  Kept(schema, g)
<1>1. PICK v, m, o, c, k : /\ h = Genome(v, m, o, c, k)
                           /\ Parts(schema, v, m, o, c, k) /\ Tidy(m, o, c, k)
  BY Zenon DEF Standing
<1>2. h.variant = v /\ h.macro = m /\ h.of = o /\ h.cells = c /\ h.marks = k
  BY <1>1, GenomeHas
<1>3. /\ schema # 1 /\ v # "flat"
      /\ \/ \E n \in m.nodes \ {m.out} : g = Joined(h, n)
         \/ \E p \in Parents(m, m.out) : g = Collapsed(h, p)
  BY <1>2 DEF Contractions
<1>4. ASSUME NEW n \in m.nodes \ {m.out}, g = Joined(h, n) PROVE Kept(schema, g)
  <2> DEFINE m2 == Bypassed(m, n)
  <2>1. g = WithMacro(h, m2)
    BY <1>2, <1>4, Zenon DEF Joined, WithMacro
  <2>2. Flows(m2) /\ m2.nodes = m.nodes \ {n}
    BY <1>1, <1>4, ContractedFlows DEF Parts
  <2> HIDE DEF m2
  <2>3. g = Genome(v, m2, o, c, k)
    BY <1>1, <2>1, OneWith
  <2>4. Cardinality(m2.nodes) <= MaxMacro
    <3>1. IsFiniteSet(m.nodes) /\ Cardinality(m.nodes) \in Nat
      BY <1>1, LibraryIs
    <3>2. Cardinality(m2.nodes) = Cardinality(m.nodes) - 1 /\ Cardinality(m.nodes) <= MaxMacro
      BY <1>1, <1>4, <2>2, <3>1, FS_RemoveElement DEF Parts
    <3> QED BY <3>1, <3>2 DEF HierarchyAssumption
  <2>5. Parts(schema, v, m2, o, c, k)
    BY <1>1, <1>3, <2>2, <2>4 DEF Parts
  <2> QED BY <2>3, <2>5, Zenon DEF Kept
<1>5. ASSUME NEW p \in Parents(m, m.out), g = Collapsed(h, p) PROVE Kept(schema, g)
  <2>1. /\ m.edges \subseteq Nat \X Nat /\ m.out \in Nat
        /\ \A i, j \in Nat : <<i, j>> \in m.edges => i \in m.nodes
    BY <1>1 DEF Parts, Flows, IsDigraph, Digraphs
  <2>2. <<p, m.out>> \in m.edges
    BY <1>5, <2>1, EdgesAre
  <2>3. p \in m.nodes
    BY <2>1, <2>2
  <2> QED BY <1>2, <1>3, <1>5, <2>3, CollapsedKeeps
<1> QED BY <1>3, <1>4, <1>5

LEMMA CellKeeps ==
    ASSUME NEW s, NEW h, Standing(s, h), NEW x \in DOMAIN h.cells, NEW g, Fitting(g)
    PROVE  /\ Kept(s, [h EXCEPT !.cells[x] = g])
           /\ Kept(s, [h EXCEPT !.cells[x] = g, !.marks[x] = <<"fresh", x>>])
<1>1. PICK v, m, o, c, k : /\ h = Genome(v, m, o, c, k)
                           /\ Parts(s, v, m, o, c, k) /\ Tidy(m, o, c, k)
  BY Zenon DEF Standing
<1>2. h.variant = v /\ h.macro = m /\ h.of = o /\ h.cells = c /\ h.marks = k
  BY <1>1, GenomeHas
<1> DEFINE c2 == [c EXCEPT ![x] = g]
           pair == <<"fresh", x>>
           k2 == [k EXCEPT ![x] = pair]
<1>3. /\ [h EXCEPT !.cells[x] = g] = WithCells(h, c2)
      /\ [h EXCEPT !.cells[x] = g, !.marks[x] = <<"fresh", x>>] = WithLibrary(h, c2, k2)
  BY <1>2, Zenon DEF WithCells, WithLibrary
<1>4. DOMAIN c2 = DOMAIN c /\ \A y \in DOMAIN c : Fitting(c2[y])
  <2>1. DOMAIN c2 = DOMAIN c /\ \A y \in DOMAIN c : c2[y] = IF y = x THEN g ELSE c[y]
    OBVIOUS
  <2>2. \A y \in DOMAIN c : Fitting(c[y])
    BY <1>1 DEF Parts
  <2> HIDE DEF c2
  <2> QED BY <2>1, <2>2
<1>5. \A y, z \in DOMAIN c : k2[y] = k2[z] => y = z
  <2>1. \A y : <<y>> # pair
    OBVIOUS
  <2>2. \A y, z : <<y>> = <<z>> => y = z
    OBVIOUS
  <2>3. k = [y \in DOMAIN c |-> <<y>>]
    BY <1>1, Zenon DEF Tidy
  <2> HIDE DEF pair
  <2>4. \A y \in DOMAIN c : k2[y] = IF y = x THEN pair ELSE <<y>>
    BY <2>3
  <2> HIDE DEF k2
  <2> QED BY <2>1, <2>2, <2>4
<1> HIDE DEF c2, k2
<1>6. Parts(s, v, m, o, c2, k) /\ Parts(s, v, m, o, c2, k2)
  BY <1>1, <1>4, <1>5 DEF Parts
<1>7. WithCells(h, c2) = Genome(v, m, o, c2, k)
  BY <1>1, OneWith
<1>8. WithLibrary(h, c2, k2) = Genome(v, m, o, c2, k2)
  BY <1>1, TwoWith
<1>9. Kept(s, WithCells(h, c2)) /\ Kept(s, WithLibrary(h, c2, k2))
  BY <1>6, <1>7, <1>8, Zenon DEF Kept
<1> QED BY <1>3, <1>9, Zenon

LEMMA CellsAre ==
    ASSUME NEW s, NEW h, Standing(s, h)
    PROVE  \A x \in DOMAIN h.cells : Fitting(h.cells[x])
<1>1. PICK v, m, o, c, k : h = Genome(v, m, o, c, k) /\ Parts(s, v, m, o, c, k)
  BY Zenon DEF Standing
<1>2. h.cells = c
  BY <1>1, GenomeHas
<1> QED BY <1>1, <1>2 DEF Parts

LEMMA ReworkedKeep ==
    ASSUME NEW s, NEW h, Standing(s, h), NEW versions,
           \A x \in DOMAIN h.cells : \A g \in versions[x] : Fitting(g),
           NEW w \in Reworked(h, versions)
    PROVE  Kept(s, w)
<1>1. PICK x \in DOMAIN h.cells : \E g \in versions[x] : w = [h EXCEPT !.cells[x] = g]
  BY Zenon DEF Reworked
<1>2. PICK g \in versions[x] : w = [h EXCEPT !.cells[x] = g]
  BY <1>1, Zenon
<1>3. Kept(s, [h EXCEPT !.cells[x] = g])
  BY <1>2, CellKeeps, Zenon
<1> QED BY <1>2, <1>3, Zenon

LEMMA AtMostOneMore ==
    ASSUME NEW S, IsFiniteSet(S), NEW x
    PROVE  /\ IsFiniteSet(S \cup {x}) /\ Cardinality(S \cup {x}) \in Nat
           /\ Cardinality(S \cup {x}) <= Cardinality(S) + 1
<1>1. /\ IsFiniteSet(S \cup {x})
      /\ Cardinality(S \cup {x}) = IF x \in S THEN Cardinality(S) ELSE Cardinality(S) + 1
  BY FS_AddElement
<1>2. Cardinality(S) \in Nat
  BY FS_CardinalityType
<1> QED BY <1>1, <1>2

LEMMA CellEditsFit ==
    ASSUME HierarchyAssumption, NEW g, Fitting(g)
    PROVE  /\ \A f \in Grown(g) : Fitting(f)
           /\ \A f \in TrimmedCell(g) : Fitting(f)
           /\ \A f \in Rewired(g) : Fitting(f)
<1>1. /\ Flows(g) /\ Cardinality(g.nodes) <= MaxCell /\ MaxCell \in Nat /\ MaxCell <= 6
      /\ IsFiniteSet(g.nodes) /\ g.nodes \subseteq Nat
  BY DEF Fitting, Flows, IsDigraph, Digraphs, HierarchyAssumption
<1>2. Cardinality(g.nodes) \in Nat
  BY <1>1, FS_CardinalityType
<1>3. ASSUME NEW f \in Grown(g) PROVE Fitting(f)
  <2> DEFINE n == Unused(g.nodes \cup {0, 1})
  <2>1. Cardinality(g.nodes) < MaxCell /\ f = Extended(g, n)
    BY <1>3 DEF Grown
  <2>2. /\ IsFiniteSet((g.nodes \cup {0}) \cup {1})
        /\ Cardinality((g.nodes \cup {0}) \cup {1}) <= 16
    <3>1. /\ IsFiniteSet(g.nodes \cup {0}) /\ Cardinality(g.nodes \cup {0}) \in Nat
          /\ Cardinality(g.nodes \cup {0}) <= Cardinality(g.nodes) + 1
      BY <1>1, AtMostOneMore
    <3>2. /\ IsFiniteSet((g.nodes \cup {0}) \cup {1})
          /\ Cardinality((g.nodes \cup {0}) \cup {1}) <= Cardinality(g.nodes \cup {0}) + 1
          /\ Cardinality((g.nodes \cup {0}) \cup {1}) \in Nat
      BY <3>1, AtMostOneMore
    <3> QED BY <1>1, <1>2, <3>1, <3>2
  <2>3. g.nodes \cup {0, 1} = (g.nodes \cup {0}) \cup {1}
    OBVIOUS
  <2>4. n \in Nat \ (g.nodes \cup {0, 1})
    <3> DEFINE S == g.nodes \cup {0, 1}
    <3>1. S \subseteq Nat /\ IsFiniteSet(S) /\ Cardinality(S) <= 16
      BY <1>1, <2>2, <2>3
    <3> HIDE DEF S
    <3>2. Unused(S) \in Nat \ S
      BY <3>1, UnusedIsNew
    <3> QED BY <3>2 DEF S
  <2> HIDE DEF n
  <2>5. Flows(f) /\ f.nodes = g.nodes \cup {n}
    BY <1>1, <2>1, <2>4, ExtendedFlows
  <2>6. Cardinality(f.nodes) = Cardinality(g.nodes) + 1
    BY <1>1, <2>4, <2>5, FS_AddElement
  <2> QED BY <1>1, <1>2, <2>1, <2>5, <2>6 DEF Fitting
<1>4. ASSUME NEW f \in TrimmedCell(g) PROVE Fitting(f)
  <2>1. Cardinality(g.nodes) > 1 /\ f = WithoutNode(g, Ordered(g)[1])
    BY <1>4 DEF TrimmedCell
  <2>2. Flows(f) /\ f.nodes \subseteq g.nodes
    BY <1>1, <2>1, TrimmedFlows
  <2>3. Cardinality(f.nodes) <= Cardinality(g.nodes) /\ Cardinality(f.nodes) \in Nat
    BY <1>1, <2>2, FS_Subset, FS_CardinalityType
  <2> QED BY <1>1, <1>2, <2>2, <2>3 DEF Fitting
<1>5. ASSUME NEW f \in Rewired(g) PROVE Fitting(f)
  <2>1. f \in Replaced(g) \cup Added(g) \cup Dropped(g)
    BY <1>5 DEF Rewired
  <2>2. Flows(f) /\ f.nodes = g.nodes
    BY <1>1, <2>1, RewiredFlows
  <2> QED BY <1>1, <2>2 DEF Fitting
<1> QED BY <1>3, <1>4, <1>5

LEMMA MotifsKeep ==
    ASSUME NEW s, NEW h, Standing(s, h), NEW bank, \A g \in bank : Fitting(g),
           NEW w \in Motifs(h, bank)
    PROVE  Kept(s, w)
<1>1. PICK x \in DOMAIN h.cells : \E g \in bank :
             w = [h EXCEPT !.cells[x] = g, !.marks[x] = <<"fresh", x>>]
  BY Zenon DEF Motifs
<1>2. PICK g \in bank : w = [h EXCEPT !.cells[x] = g, !.marks[x] = <<"fresh", x>>]
  BY <1>1, Zenon
<1>3. Kept(s, [h EXCEPT !.cells[x] = g, !.marks[x] = <<"fresh", x>>])
  BY <1>2, CellKeeps, Zenon
<1> QED BY <1>2, <1>3, Zenon

LEMMA FlatOffspringKeep ==
    ASSUME NEW s, NEW a, Standing(s, a), a.variant = "flat", NEW b, Standing(s, b),
           NEW w \in Offspring(a, b)
    PROVE  Kept(s, w)
<1>1. PICK v, m, o, c, k : /\ a = Genome(v, m, o, c, k)
                           /\ Parts(s, v, m, o, c, k) /\ Tidy(m, o, c, k)
  BY Zenon DEF Standing
<1>2. a.variant = v /\ a.macro = m /\ a.of = o /\ a.cells = c /\ a.marks = k
  BY <1>1, GenomeHas
<1>3. PICK x \in DOMAIN b.cells : w = [a EXCEPT !.cells = [y \in DOMAIN @ |-> b.cells[x]]]
  BY DEF Offspring
<1> DEFINE g == b.cells[x]
           c2 == [y \in DOMAIN c |-> g]
<1>4. Fitting(g)
  BY <1>3, CellsAre
<1> HIDE DEF g
<1>5. w = WithCells(a, c2)
  BY <1>2, <1>3, Zenon DEF WithCells, g
<1>6. DOMAIN c2 = DOMAIN c /\ \A y \in DOMAIN c : Fitting(c2[y])
  BY <1>4
<1> HIDE DEF c2
<1>7. w = Genome(v, m, o, c2, k)
  BY <1>1, <1>5, OneWith
<1>8. Parts(s, v, m, o, c2, k)
  BY <1>1, <1>6 DEF Parts
<1> QED BY <1>7, <1>8, Zenon DEF Kept

LEMMA ForemostIs ==
    ASSUME NEW size \in Nat, NEW keys, DOMAIN keys = 1 .. size, NEW i \in 1 .. size
    PROVE  /\ Foremost(keys, i) \in 1 .. size /\ keys[Foremost(keys, i)] = keys[i]
           /\ Foremost(keys, Foremost(keys, i)) = Foremost(keys, i)
<1> DEFINE S(k) == {j \in DOMAIN keys : keys[j] = keys[k]}
           f == Foremost(keys, i)
<1>1. S(i) \subseteq Nat /\ S(i) # {}
  OBVIOUS
<1>2. f \in S(i)
  <2>1. f = Min(S(i))
    BY DEF Foremost
  <2> HIDE DEF f, S
  <2> QED BY <1>1, <2>1, MinIs
<1> HIDE DEF f
<1>3. f \in 1 .. size /\ keys[f] = keys[i]
  BY <1>2
<1>4. S(f) = S(i)
  BY <1>3
<1>5. Foremost(keys, f) = Min(S(f)) /\ f = Min(S(i))
  BY DEF Foremost, f
<1> HIDE DEF S
<1> QED BY <1>3, <1>4, <1>5 DEF f

LEMMA NumberedIs ==
    ASSUME NEW size \in Nat, NEW keys, DOMAIN keys = 1 .. size, NEW i \in 1 .. size
    PROVE  /\ Numbered(keys, i) \in Nat
           /\ Numbered(keys, Foremost(keys, i)) = Numbered(keys, i)
           /\ (\A j, k \in 1 .. size : keys[j] = keys[k] => j = k) => Numbered(keys, i) = i - 1
<1> DEFINE f == Foremost(keys, i)
           T(n) == {Foremost(keys, j) : j \in 1 .. n}
<1>1. f \in 1 .. size /\ keys[f] = keys[i] /\ Foremost(keys, f) = f
  BY ForemostIs
<1>2. /\ Numbered(keys, i) = Cardinality(T(f)) - 1
      /\ Numbered(keys, f) = Cardinality(T(Foremost(keys, f))) - 1
  BY DEF Numbered
<1>3. \A j \in 1 .. f : j \in 1 .. size /\ Foremost(keys, j) \in 1 .. size
  <2> SUFFICES ASSUME NEW j \in 1 .. f PROVE j \in 1 .. size /\ Foremost(keys, j) \in 1 .. size
    OBVIOUS
  <2>1. j \in 1 .. size
    BY <1>1
  <2> QED BY <2>1, ForemostIs
<1>4. T(f) \subseteq 1 .. size /\ f \in T(f)
  <2>1. f \in 1 .. f
    BY <1>1
  <2> HIDE DEF f
  <2> QED BY <1>1, <1>3, <2>1
<1>5. (\A j, k \in 1 .. size : keys[j] = keys[k] => j = k) => f = i /\ T(f) = 1 .. f
  <2> SUFFICES ASSUME \A j, k \in 1 .. size : keys[j] = keys[k] => j = k
               PROVE  f = i /\ T(f) = 1 .. f
    OBVIOUS
  <2>1. f = i
    BY <1>1
  <2>2. \A j \in 1 .. f : Foremost(keys, j) = j
    <3> SUFFICES ASSUME NEW j \in 1 .. f PROVE Foremost(keys, j) = j
      OBVIOUS
    <3>1. j \in 1 .. size /\ Foremost(keys, j) \in 1 .. size /\ keys[Foremost(keys, j)] = keys[j]
      BY <1>3, ForemostIs
    <3> QED BY <3>1
  <2> HIDE DEF f
  <2> QED BY <2>1, <2>2
<1> HIDE DEF f, T
<1>6. Numbered(keys, f) = Numbered(keys, i)
  BY <1>1, <1>2
<1>7. Cardinality(T(f)) \in Nat /\ Cardinality(T(f)) # 0
  <2>1. IsFiniteSet(1 .. size)
    BY FS_Interval
  <2>2. IsFiniteSet(T(f))
    BY <1>4, <2>1, FS_Subset
  <2> QED BY <1>4, <2>2, FS_CardinalityType, FS_EmptySet
<1>8. Numbered(keys, i) \in Nat
  BY <1>2, <1>7
<1>9. T(f) = 1 .. f => Cardinality(T(f)) = f
  BY <1>1, FS_Interval
<1> QED BY <1>1, <1>2, <1>5, <1>6, <1>8, <1>9 DEF f

LEMMA EdgesAdded ==
    ASSUME NEW g, g \in Digraphs, NEW es \in SUBSET (Nat \X Nat), ~g.twice, es \cap g.edges = {}
    PROVE  LET h == WithEdges(g, es)
           IN  /\ h \in Digraphs /\ h.nodes = g.nodes /\ h.out = g.out /\ ~h.twice
               /\ h.edges = g.edges \cup es
<1> DEFINE E == g.edges \cup es
           t == g.twice \/ es \cap g.edges # {}
<1>1. WithEdges(g, es) = [g EXCEPT !.edges = E, !.twice = t]
  BY DEF WithEdges
<1>2. E \in SUBSET (Nat \X Nat) /\ t = FALSE
  BY DEF Digraphs
<1> HIDE DEF E, t
<1>3. LET h == WithEdges(g, es)
      IN  /\ h \in Digraphs /\ h.nodes = g.nodes /\ h.out = g.out /\ ~h.twice
          /\ h.edges = E
  BY <1>1, <1>2 DEF Digraphs
<1> QED BY <1>3 DEF E

\* The two parts of a crossover and the bridges between them flow.
LEMMA BridgedFlows ==
    ASSUME NEW size \in Nat, NEW lefts \in 1 .. size - 1,
           NEW within \in SUBSET ((0 .. size - 1) \X (0 .. size - 1)),
           \A m, n \in 0 .. size - 1 : <<m, n>> \in within =>
             m < n /\ ((m < lefts) = (n < lefts)),
           \A m \in lefts .. size - 2 : \E n \in 0 .. size - 1 : <<m, n>> \in within
    PROVE  LET g == Bridged(within, lefts, size)
           IN  Flows(g) /\ g.nodes = 0 .. size - 1
<1> DEFINE last == lefts - 1
           N == 0 .. size - 1
           parts == [nodes |-> N, edges |-> within, twice |-> FALSE, out |-> size - 1]
           ends == {m \in 0 .. last - 1 : \A e \in within : e[1] # m}
           heads == {m \in lefts .. size - 1 : \A e \in within : e[2] # m}
           closing == {<<n, last>> : n \in ends}
           bridges == {<<last, n>> : n \in heads}
           half == WithEdges(parts, closing)
           g == WithEdges(half, bridges)
<1>1. Bridged(within, lefts, size) = g
  BY DEF Bridged
<1>2. last \in N /\ last \in Nat /\ N \subseteq Nat /\ size - 1 \in N /\ lefts \in N
  OBVIOUS
<1>3. within \subseteq Nat \X Nat
  BY <1>2
<1>4. /\ parts \in Digraphs /\ parts.nodes = N /\ parts.edges = within
      /\ ~parts.twice /\ parts.out = size - 1
  BY <1>2, <1>3 DEF Digraphs
<1>5. ends \subseteq N /\ heads \subseteq N
  OBVIOUS
<1>6. /\ closing \in SUBSET (Nat \X Nat)
      /\ \A m, n : <<m, n>> \in closing <=> m \in ends /\ n = last
      /\ \A e \in closing : e[1] \in ends /\ e[2] = last
  <2>1. last \in Nat /\ \A n \in ends : n \in Nat
    BY <1>2, <1>5
  <2> HIDE DEF ends, last
  <2>2. \A e \in closing : e \in Nat \X Nat /\ e[1] \in ends /\ e[2] = last
    BY <2>1
  <2>3. \A m, n : <<m, n>> \in closing <=> m \in ends /\ n = last
    OBVIOUS
  <2> QED BY <2>2, <2>3
<1>7. /\ bridges \in SUBSET (Nat \X Nat)
      /\ \A m, n : <<m, n>> \in bridges <=> n \in heads /\ m = last
      /\ \A e \in bridges : e[2] \in heads /\ e[1] = last
  <2>1. last \in Nat /\ \A n \in heads : n \in Nat
    BY <1>2, <1>5
  <2> HIDE DEF heads, last
  <2>2. \A e \in bridges : e \in Nat \X Nat /\ e[2] \in heads /\ e[1] = last
    BY <2>1
  <2>3. \A m, n : <<m, n>> \in bridges <=> n \in heads /\ m = last
    OBVIOUS
  <2> QED BY <2>2, <2>3
<1>8. \A n \in heads : n # last
  OBVIOUS
<1>9. closing \cap within = {}
  BY <1>6
<1>10. bridges \cap (within \cup closing) = {}
  <2>1. \A e \in bridges : e \notin within
    BY <1>7
  <2>2. \A e \in bridges : e \notin closing
    BY <1>6, <1>7, <1>8
  <2> QED BY <2>1, <2>2
<1>11. ends \subseteq 0 .. last - 1 /\ heads \subseteq lefts .. size - 1
  OBVIOUS
<1>12. lefts \in heads
  <2>1. lefts \in lefts .. size - 1
    OBVIOUS
  <2>2. ASSUME NEW e \in within, e[2] = lefts PROVE FALSE
    <3>1. e[1] \in N /\ e[2] \in N /\ <<e[1], e[2]>> \in within
      OBVIOUS
    <3>2. e[1] < e[2] /\ ((e[1] < lefts) = (e[2] < lefts))
      BY <3>1
    <3> QED BY <2>2, <3>1, <3>2
  <2> QED BY <2>1, <2>2
<1>13. \A m \in 0 .. last - 1 : m \in ends \/ \E n \in N : <<m, n>> \in within
  <2> SUFFICES ASSUME NEW m \in 0 .. last - 1, m \notin ends PROVE \E n \in N : <<m, n>> \in within
    OBVIOUS
  <2>1. PICK e \in within : e[1] = m
    OBVIOUS
  <2>2. e = <<m, e[2]>> /\ e[2] \in N
    BY <2>1
  <2> QED BY <2>2
<1> HIDE DEF ends, heads, closing, bridges, parts
<1>14. half \in Digraphs /\ half.nodes = N /\ half.out = size - 1 /\ ~half.twice
       /\ half.edges = within \cup closing
  BY <1>4, <1>6, <1>9, EdgesAdded
<1> HIDE DEF half
<1>15. g \in Digraphs /\ g.nodes = N /\ g.out = size - 1 /\ ~g.twice
       /\ g.edges = (within \cup closing) \cup bridges
  BY <1>7, <1>10, <1>14, EdgesAdded
<1> HIDE DEF g
<1>16. ASSUME NEW m \in Nat, NEW n \in Nat, <<m, n>> \in g.edges
       PROVE  m \in N /\ n \in N /\ m < n
  <2>1. CASE <<m, n>> \in within
    <3>1. m \in N /\ n \in N
      BY <2>1
    <3> QED BY <2>1, <3>1
  <2>2. CASE <<m, n>> \in closing
    <3>1. m \in ends /\ n = last
      BY <1>6, <2>2
    <3>2. m \in 0 .. last - 1
      BY <1>11, <3>1
    <3> QED BY <1>2, <3>1, <3>2
  <2>3. CASE <<m, n>> \in bridges
    <3>1. n \in heads /\ m = last
      BY <1>7, <2>3
    <3>2. n \in lefts .. size - 1
      BY <1>11, <3>1
    <3> QED BY <1>2, <3>1, <3>2
  <2> QED BY <1>15, <1>16, <2>1, <2>2, <2>3
<1>17. IsDigraph(g)
  <2>1. IsFiniteSet(N)
    BY FS_Interval
  <2> QED BY <1>15, <1>16, <2>1 DEF IsDigraph
<1>18. Rising(g, [m \in N |-> m])
  <2>1. [m \in N |-> m] \in [N -> Nat]
    BY <1>2
  <2> HIDE DEF N
  <2> QED BY <1>2, <1>15, <1>16, <2>1 DEF Rising
<1>19. ASSUME NEW m \in N, m # size - 1 PROVE \E n \in N : <<m, n>> \in g.edges
  <2>1. CASE m \in 0 .. last - 1
    <3>1. m \in ends => <<m, last>> \in g.edges
      BY <1>6, <1>15
    <3> QED BY <1>2, <1>13, <1>15, <2>1, <3>1
  <2>2. CASE m = last
    <3>1. <<last, lefts>> \in g.edges
      BY <1>7, <1>12, <1>15
    <3> QED BY <1>2, <2>2, <3>1
  <2>3. CASE m \in lefts .. size - 2
    BY <1>15, <2>3
  <2> QED BY <1>19, <2>1, <2>2, <2>3
<1>20. Flows(g)
  <2> HIDE DEF N
  <2> QED BY <1>2, <1>15, <1>17, <1>18, <1>19 DEF Flows
<1> QED BY <1>1, <1>15, <1>20

\* A piece of the sorted nodes of a graph.
IsPiece(g, t, s, p, n) ==
  /\ s \in Seq(g.nodes) /\ Len(s) = n
  /\ \A i \in 1 .. n : s[i] = t[p + i - 1] /\ s[i] \in g.nodes
  /\ \A i, j \in 1 .. n : s[i] = s[j] => i = j
  /\ \A i, j \in 1 .. n : <<s[i], s[j]>> \in g.edges => i < j

IsCut(S, t, p, q, s) ==
  /\ s \in Seq(S) /\ Len(s) = IF p <= q THEN q - p + 1 ELSE 0
  /\ \A i \in 1 .. q - p + 1 : s[i] = t[p + i - 1]

LEMMA CutIs ==
    ASSUME NEW S, NEW t, NEW p \in Int, NEW q \in Int, \A i \in p .. q : t[i] \in S
    PROVE  IsCut(S, t, p, q, SubSeq(t, p, q))
BY SubSeqProperties DEF IsCut

LEMMA PieceIs ==
    ASSUME NEW g, NEW t, Sorted(g, t), NEW p \in 1 .. Len(t), NEW q \in p .. Len(t),
           NEW n \in Nat, n = q - p + 1
    PROVE  IsPiece(g, t, SubSeq(t, p, q), p, n)
<1> DEFINE s == SubSeq(t, p, q)
<1>1. t \in Seq(g.nodes) /\ Len(t) \in Nat
  BY DEF Sorted
<1>2. \A i \in p .. q : i \in 1 .. Len(t) /\ t[i] \in g.nodes
  BY <1>1
<1>3. p \in Int /\ q \in Int /\ p <= q
  BY <1>1
<1>4. /\ s \in Seq(g.nodes) /\ Len(s) = IF p <= q THEN q - p + 1 ELSE 0
      /\ \A i \in 1 .. q - p + 1 : s[i] = t[p + i - 1]
  <2>1. \A i \in p .. q : t[i] \in g.nodes
    BY <1>2
  <2>2. p \in Int /\ q \in Int
    BY <1>3
  <2>3. IsCut(g.nodes, t, p, q, s)
    BY <2>1, <2>2, CutIs, Zenon
  <2> HIDE DEF s
  <2> QED BY <2>3 DEF IsCut
<1> HIDE DEF s
<1>5. Len(s) = n /\ \A i \in 1 .. n : s[i] = t[p + i - 1]
  BY <1>3, <1>4
<1>6. \A i \in 1 .. n : p + i - 1 \in p .. q /\ p + i - 1 \in 1 .. Len(t) /\ p + i - 1 \in Int
  BY <1>1, <1>3
<1>7. ASSUME NEW i \in 1 .. n, NEW j \in 1 .. n, s[i] = s[j] PROVE i = j
  <2>1. t[p + i - 1] = t[p + j - 1]
    BY <1>5, <1>7
  <2>2. p + i - 1 = p + j - 1
    BY <1>6, <2>1 DEF Sorted
  <2> QED BY <1>3, <2>2
<1>8. ASSUME NEW i \in 1 .. n, NEW j \in 1 .. n, <<s[i], s[j]>> \in g.edges PROVE i < j
  <2>1. <<t[p + i - 1], t[p + j - 1]>> \in g.edges
    BY <1>5, <1>8
  <2>2. p + i - 1 < p + j - 1
    BY <1>6, <2>1 DEF Sorted
  <2> QED BY <1>3, <2>2
<1>9. \A i \in 1 .. n : s[i] \in g.nodes
  BY <1>2, <1>5, <1>6
<1> QED BY <1>4, <1>5, <1>7, <1>8, <1>9 DEF IsPiece, s

LEMMA FrontIs ==
    ASSUME NEW g, Flows(g), NEW n \in 1 .. Cardinality(g.nodes)
    PROVE  IsPiece(g, Ordered(g), SubSeq(Ordered(g), 1, n), 1, n)
<1> DEFINE t == Ordered(g)
<1>1. Sorted(g, t) /\ Len(t) \in Nat /\ Len(t) = Cardinality(g.nodes)
  BY FlowsAreSorted DEF Sorted
<1> HIDE DEF t
<1>2. 1 \in 1 .. Len(t) /\ n \in 1 .. Len(t) /\ n \in Nat /\ n = n - 1 + 1
  BY <1>1
<1>3. IsPiece(g, t, SubSeq(t, 1, n), 1, n)
  BY <1>1, <1>2, PieceIs
<1> QED BY <1>3 DEF t

LEMMA BackIs ==
    ASSUME NEW g, Flows(g), NEW n \in 1 .. Cardinality(g.nodes)
    PROVE  LET t == Ordered(g)
               s == SubSeq(t, Len(t) - n + 1, Len(t))
           IN  /\ IsPiece(g, t, s, Len(t) - n + 1, n)
               /\ \A i \in 1 .. n - 1 : \E j \in 1 .. n : <<s[i], s[j]>> \in g.edges
<1> DEFINE t == Ordered(g)
           L == Len(t)
           p == L - n + 1
           s == SubSeq(t, p, L)
<1>1. /\ Sorted(g, t) /\ L \in Nat /\ L = Cardinality(g.nodes)
      /\ \A i \in 1 .. L : t[i] = g.out <=> i = L
      /\ t \in Seq(g.nodes)
      /\ \A m \in g.nodes : \E i \in 1 .. L : t[i] = m
      /\ \A i, j \in 1 .. L : <<t[i], t[j]>> \in g.edges => i < j
  BY OutIsLast DEF Sorted
<1> HIDE DEF t
<1>2. p \in 1 .. L /\ L \in p .. L /\ n \in Nat /\ n = L - p + 1
  BY <1>1
<1>3. IsPiece(g, t, s, p, n)
  BY <1>1, <1>2, PieceIs
<1>4. \A i \in 1 .. n : s[i] = t[p + i - 1] /\ s[i] \in g.nodes
  BY <1>3 DEF IsPiece
<1> HIDE DEF L, s
<1>5. ASSUME NEW i \in 1 .. n - 1 PROVE \E j \in 1 .. n : <<s[i], s[j]>> \in g.edges
  <2>1. i \in 1 .. n /\ p + i - 1 \in 1 .. L /\ p + i - 1 # L
    <3>1. L \in Nat /\ n \in Nat /\ n <= L /\ i \in Nat /\ i >= 1 /\ i <= n - 1
      BY <1>1, <1>2
    <3> QED BY <3>1
  <2>2. s[i] \in g.nodes /\ s[i] # g.out /\ s[i] = t[p + i - 1]
    BY <1>1, <1>4, <2>1
  <2>3. PICK m \in g.nodes : <<s[i], m>> \in g.edges
    BY <2>2 DEF Flows
  <2>4. PICK k \in 1 .. L : t[k] = m
    BY <1>1
  <2>5. p + i - 1 < k
    BY <1>1, <2>1, <2>2, <2>3, <2>4
  <2> DEFINE j == k - p + 1
  <2>6. j \in 1 .. n /\ p + j - 1 = k
    BY <1>1, <1>2, <2>5, SMTT(30)
  <2> HIDE DEF j, p
  <2>7. s[j] = m
    BY <1>4, <2>4, <2>6
  <2> QED BY <2>3, <2>6, <2>7
<1> QED BY <1>3, <1>5 DEF t, L, s

LEMMA SplicedKeeps ==
    ASSUME HierarchyAssumption, NEW s, NEW a, Standing(s, a), a.variant # "flat",
           NEW b, Standing(s, b),
           NEW l \in 1 .. Cardinality(a.macro.nodes),
           NEW r \in 1 .. Cardinality(b.macro.nodes), l + r <= MaxMacro
    PROVE  Kept(s, Spliced(a, b, l, r))
<1>1. PICK v, ma, oa, ca, ka : /\ a = Genome(v, ma, oa, ca, ka)
                               /\ Parts(s, v, ma, oa, ca, ka) /\ Tidy(ma, oa, ca, ka)
  BY Zenon DEF Standing
<1>2. PICK vb, mb, ob, cb, kb : /\ b = Genome(vb, mb, ob, cb, kb)
                                /\ Parts(s, vb, mb, ob, cb, kb) /\ Tidy(mb, ob, cb, kb)
  BY Zenon DEF Standing
<1>3. /\ a.variant = v /\ a.macro = ma /\ a.of = oa /\ a.cells = ca
      /\ b.macro = mb /\ b.of = ob /\ b.cells = cb
  BY <1>1, <1>2, GenomeHas
<1> DEFINE front == SubSeq(Ordered(a.macro), 1, l)
           order == Ordered(b.macro)
           back == SubSeq(order, Len(order) - r + 1, Len(order))
           size == l + r
           side(i) == IF i <= l THEN a ELSE b
           old(i) == IF i <= l THEN front[i] ELSE back[i - l]
           keys == [i \in 1 .. size |-> <<i <= l, side(i).of[old(i)],
                                          IF a.variant = "unshared" THEN old(i) ELSE 0>>]
           within == {e \in (0 .. size - 1) \X (0 .. size - 1) :
                        /\ (e[1] < l) = (e[2] < l)
                        /\ <<old(e[1] + 1), old(e[2] + 1)>> \in side(e[1] + 1).macro.edges}
           cell(i) == Numbered(keys, i)
           source(c) == CHOOSE i \in 1 .. size : Foremost(keys, i) = i /\ cell(i) = c
           library == {cell(i) : i \in 1 .. size}
           m2 == Bridged(within, l, size)
           o2 == [n \in 0 .. size - 1 |-> cell(n + 1)]
           c2 == [c \in library |-> side(source(c)).cells[side(source(c)).of[old(source(c))]]]
           k2 == [c \in library |-> <<keys[source(c)], c>>]
<1>4. Spliced(a, b, l, r) = Genome(v, m2, o2, c2, k2)
  BY <1>3, Zenon DEF Spliced, Genome
<1>5. /\ Flows(ma) /\ Flows(mb) /\ l \in 1 .. Cardinality(ma.nodes) /\ r \in 1 .. Cardinality(mb.nodes)
      /\ l \in Nat /\ l >= 1 /\ r \in Nat /\ r >= 1 /\ size \in Nat /\ size <= MaxMacro
      /\ l \in 1 .. size - 1
  BY <1>1, <1>2, <1>3 DEF Parts
<1>6. /\ \A i \in 1 .. l : front[i] \in ma.nodes
      /\ \A i, j \in 1 .. l : front[i] = front[j] => i = j
      /\ \A i, j \in 1 .. l : <<front[i], front[j]>> \in ma.edges => i < j
  <2>1. IsPiece(ma, Ordered(ma), front, 1, l)
    BY <1>3, <1>5, FrontIs
  <2> HIDE DEF front
  <2> QED BY <2>1 DEF IsPiece
<1>7. /\ \A i \in 1 .. r : back[i] \in mb.nodes
      /\ \A i, j \in 1 .. r : back[i] = back[j] => i = j
      /\ \A i, j \in 1 .. r : <<back[i], back[j]>> \in mb.edges => i < j
      /\ \A i \in 1 .. r - 1 : \E j \in 1 .. r : <<back[i], back[j]>> \in mb.edges
  <2>1. /\ IsPiece(mb, order, back, Len(order) - r + 1, r)
        /\ \A i \in 1 .. r - 1 : \E j \in 1 .. r : <<back[i], back[j]>> \in mb.edges
    BY <1>3, <1>5, BackIs
  <2> HIDE DEF back
  <2> QED BY <2>1 DEF IsPiece
<1> HIDE DEF front, back, order
<1>8. \A i \in 1 .. size : ~(i <= l) => i - l \in 1 .. r
  BY <1>5
<1>9. \A i \in 1 .. size : i <= l => i \in 1 .. l
  BY <1>5
\* The edges within the parts.
<1>10. \A m, n \in 0 .. size - 1 :
         <<m, n>> \in within <=>
           /\ (m < l) = (n < l)
           /\ <<old(m + 1), old(n + 1)>> \in side(m + 1).macro.edges
  <2> HIDE DEF old, side, size
  <2> QED OBVIOUS
<1>11. \A m, n \in 0 .. size - 1 : <<m, n>> \in within => m < n /\ ((m < l) = (n < l))
  <2> SUFFICES ASSUME NEW m \in 0 .. size - 1, NEW n \in 0 .. size - 1, <<m, n>> \in within
               PROVE  m < n /\ ((m < l) = (n < l))
    OBVIOUS
  <2>1. /\ (m < l) = (n < l)
        /\ <<old(m + 1), old(n + 1)>> \in side(m + 1).macro.edges
    BY <1>10
  <2>2. /\ m + 1 \in 1 .. size /\ n + 1 \in 1 .. size /\ m \in Nat /\ n \in Nat
        /\ (m < l) = (m + 1 <= l) /\ (n < l) = (n + 1 <= l)
    BY <1>5
  <2>3. CASE m + 1 <= l
    <3>1. n + 1 <= l
      BY <2>1, <2>2, <2>3
    <3>2. <<front[m + 1], front[n + 1]>> \in ma.edges
      BY <1>3, <2>1, <2>3, <3>1
    <3>3. m + 1 < n + 1
      BY <1>6, <1>9, <2>2, <2>3, <3>1, <3>2
    <3> QED BY <2>1, <2>2, <3>3
  <2>4. CASE ~(m + 1 <= l)
    <3>1. ~(n + 1 <= l)
      BY <2>1, <2>2, <2>4
    <3>2. <<back[m + 1 - l], back[n + 1 - l]>> \in mb.edges
      BY <1>3, <2>1, <2>4, <3>1
    <3>3. m + 1 - l < n + 1 - l
      BY <1>7, <1>8, <2>2, <2>4, <3>1, <3>2
    <3> QED BY <1>5, <2>1, <2>2, <3>3
  <2> QED BY <2>3, <2>4
<1>12. \A m \in l .. size - 2 : \E n \in 0 .. size - 1 : <<m, n>> \in within
  <2> SUFFICES ASSUME NEW m \in l .. size - 2 PROVE \E n \in 0 .. size - 1 : <<m, n>> \in within
    OBVIOUS
  <2>1. m + 1 - l \in 1 .. r - 1 /\ ~(m + 1 <= l) /\ ~(m < l) /\ m \in 0 .. size - 1
    BY <1>5
  <2>2. PICK j \in 1 .. r : <<back[m + 1 - l], back[j]>> \in mb.edges
    BY <1>7, <2>1
  <2> DEFINE n == l + j - 1
  <2>3. n \in 0 .. size - 1 /\ ~(n < l) /\ ~(n + 1 <= l) /\ n + 1 - l = j
    BY <1>5
  <2> HIDE DEF n
  <2>4. <<old(m + 1), old(n + 1)>> \in side(m + 1).macro.edges
    BY <1>3, <2>1, <2>2, <2>3
  <2>5. <<m, n>> \in within
    <3> HIDE DEF old, side, size, within
    <3> QED BY <1>10, <2>1, <2>3, <2>4
  <2> QED BY <2>3, <2>5
<1>13. Flows(m2) /\ m2.nodes = 0 .. size - 1
  <2>1. within \in SUBSET ((0 .. size - 1) \X (0 .. size - 1))
    OBVIOUS
  <2> HIDE DEF within, size
  <2> QED BY <1>5, <1>11, <1>12, <2>1, BridgedFlows
<1> HIDE DEF within
<1>14. Cardinality(m2.nodes) = size
  BY <1>5, <1>13, FS_Interval
<1> HIDE DEF m2
\* The cells.
<1>15. DOMAIN keys = 1 .. size
  OBVIOUS
<1>16. v = "unshared" => \A i, j \in 1 .. size : keys[i] = keys[j] => i = j
  <2> SUFFICES ASSUME v = "unshared", NEW i \in 1 .. size, NEW j \in 1 .. size, keys[i] = keys[j]
               PROVE  i = j
    OBVIOUS
  <2>1. <<i <= l, side(i).of[old(i)], old(i)>> = <<j <= l, side(j).of[old(j)], old(j)>>
    BY <1>3
  <2>2. (i <= l) = (j <= l) /\ old(i) = old(j)
    <3> HIDE DEF old, side
    <3> QED BY <2>1
  <2>3. CASE i <= l
    BY <1>6, <1>9, <2>2, <2>3
  <2>4. CASE ~(i <= l)
    <3>1. i - l \in 1 .. r /\ j - l \in 1 .. r /\ back[i - l] = back[j - l]
      BY <1>8, <2>2, <2>4
    <3>2. i - l = j - l
      BY <1>7, <3>1
    <3> QED BY <1>5, <3>2
  <2> QED BY <2>3, <2>4
<1>17. \A i \in 1 .. size : Fitting(side(i).cells[side(i).of[old(i)]])
  <2> SUFFICES ASSUME NEW i \in 1 .. size PROVE Fitting(side(i).cells[side(i).of[old(i)]])
    OBVIOUS
  <2>1. CASE i <= l
    <3>1. Fitting(ca[oa[front[i]]])
      BY <1>1, <1>6, <1>9, <2>1 DEF Parts
    <3> QED BY <1>3, <2>1, <3>1
  <2>2. CASE ~(i <= l)
    <3>1. Fitting(cb[ob[back[i - l]]])
      BY <1>2, <1>7, <1>8, <2>2 DEF Parts
    <3> QED BY <1>3, <2>2, <3>1
  <2> QED BY <2>1, <2>2
<1> HIDE DEF keys, side, old
<1>18. \A i \in 1 .. size :
         /\ cell(i) \in Nat /\ cell(Foremost(keys, i)) = cell(i)
         /\ Foremost(keys, i) \in 1 .. size /\ Foremost(keys, Foremost(keys, i)) = Foremost(keys, i)
         /\ v = "unshared" => cell(i) = i - 1
  <2> SUFFICES ASSUME NEW i \in 1 .. size
               PROVE  /\ cell(i) \in Nat /\ cell(Foremost(keys, i)) = cell(i)
                      /\ Foremost(keys, i) \in 1 .. size /\ Foremost(keys, Foremost(keys, i)) = Foremost(keys, i)
                      /\ v = "unshared" => cell(i) = i - 1
    OBVIOUS
  <2>1. size \in Nat
    BY <1>5
  <2> HIDE DEF size
  <2>2. /\ Foremost(keys, i) \in 1 .. size
        /\ Foremost(keys, Foremost(keys, i)) = Foremost(keys, i)
    BY <1>15, <2>1, ForemostIs
  <2>3. /\ cell(i) \in Nat /\ cell(Foremost(keys, i)) = cell(i)
        /\ (\A j, k \in 1 .. size : keys[j] = keys[k] => j = k) => cell(i) = i - 1
    BY <1>15, <2>1, NumberedIs
  <2> HIDE DEF cell
  <2> QED BY <1>16, <2>2, <2>3
<1> HIDE DEF cell, size
<1>19. \A c \in library : source(c) \in 1 .. size
  <2> SUFFICES ASSUME NEW c \in library PROVE source(c) \in 1 .. size
    OBVIOUS
  <2>1. PICK i \in 1 .. size : c = cell(i)
    OBVIOUS
  <2>2. \E j \in 1 .. size : Foremost(keys, j) = j /\ cell(j) = c
    BY <1>18, <2>1
  <2> QED BY <2>2
<1> HIDE DEF source
<1>20. DOMAIN c2 = library /\ library \subseteq Nat /\ \A c \in library : Fitting(c2[c])
  <2>1. DOMAIN c2 = library /\ library \subseteq Nat
    BY <1>18
  <2>2. \A c \in library : c2[c] = side(source(c)).cells[side(source(c)).of[old(source(c))]]
    OBVIOUS
  <2> HIDE DEF library, c2
  <2> QED BY <1>17, <1>19, <2>1, <2>2
<1>21. \A c, d \in library : k2[c] = k2[d] => c = d
  <2>1. \A c \in library : k2[c] = <<keys[source(c)], c>>
    OBVIOUS
  <2> HIDE DEF library, k2
  <2> QED BY <2>1
<1>22. \A n \in 0 .. size - 1 : o2[n] \in library /\ (v = "unshared" => o2[n] = n)
  <2> SUFFICES ASSUME NEW n \in 0 .. size - 1
               PROVE  o2[n] \in library /\ (v = "unshared" => o2[n] = n)
    OBVIOUS
  <2>1. n + 1 \in 1 .. size /\ o2[n] = cell(n + 1) /\ n + 1 - 1 = n
    BY <1>5
  <2> QED BY <1>18, <2>1
<1> HIDE DEF library, o2, c2, k2
<1>23. Parts(s, v, m2, o2, c2, k2)
  <2>1. v \in {"unshared", "shared", "no-clone"}
    BY <1>1, <1>3 DEF Parts
  <2>2. /\ Flows(m2) /\ Cardinality(m2.nodes) <= MaxMacro
        /\ s = 1 => m2.nodes = 0 .. Cardinality(m2.nodes) - 1
    BY <1>5, <1>13, <1>14
  <2>3. /\ \A n \in m2.nodes : o2[n] \in DOMAIN c2 /\ (v = "unshared" => o2[n] = n)
        /\ DOMAIN c2 \subseteq Nat /\ \A x \in DOMAIN c2 : Fitting(c2[x])
        /\ \A x, y \in DOMAIN c2 : k2[x] = k2[y] => x = y
    BY <1>13, <1>20, <1>21, <1>22
  <2>4. v = "unshared" => \A x, y \in m2.nodes : o2[x] = o2[y] => x = y
    BY <2>3
  <2>5. v \in {"flat", "unshared", "shared", "no-clone"} /\ v # "flat"
    BY <2>1
  <2> QED BY <2>2, <2>3, <2>4, <2>5 DEF Parts
<1> QED BY <1>4, <1>23, Zenon DEF Kept

LEMMA MinOfTwo ==
    ASSUME NEW x \in Nat, NEW y \in Nat
    PROVE  Min({x, y}) \in {x, y} /\ Min({x, y}) <= x /\ Min({x, y}) <= y
<1>1. {x, y} \subseteq Nat /\ {x, y} # {} /\ x \in {x, y} /\ y \in {x, y}
  OBVIOUS
<1> DEFINE S == {x, y}
<1> HIDE DEF S
<1>2. Min(S) \in S /\ \A k \in S : Min(S) <= k
  BY <1>1, MinIs DEF S
<1> QED BY <1>1, <1>2 DEF S

LEMMA OffspringKeep ==
    ASSUME HierarchyAssumption, NEW s, NEW a, Standing(s, a), NEW b, Standing(s, b),
           NEW w \in Offspring(a, b)
    PROVE  Kept(s, w)
<1>1. CASE a.variant = "flat"
  BY <1>1, FlatOffspringKeep
<1>2. CASE a.variant # "flat"
  <2> DEFINE A == Cardinality(a.macro.nodes)
             B == Cardinality(b.macro.nodes)
  <2>1. A \in Nat /\ B \in Nat /\ MaxMacro \in Nat \ {0}
    <3>1. ASSUME NEW h, Standing(s, h) PROVE Cardinality(h.macro.nodes) \in Nat
      <4>1. PICK v, m, o, c, k : /\ h = Genome(v, m, o, c, k)
                                 /\ Parts(s, v, m, o, c, k) /\ Tidy(m, o, c, k)
        BY <3>1, Zenon DEF Standing
      <4> QED BY <4>1, GenomeHas, LibraryIs
    <3> QED BY <3>1 DEF HierarchyAssumption
  <2>2. PICK l \in 1 .. Min({A, MaxMacro - 1}) :
          w \in {Spliced(a, b, l, r) : r \in 1 .. Min({B, MaxMacro - l})}
    BY <1>2 DEF Offspring
  <2>3. PICK r \in 1 .. Min({B, MaxMacro - l}) : w = Spliced(a, b, l, r)
    BY <2>2
  <2> HIDE DEF A, B
  <2>4. l \in 1 .. A /\ l <= MaxMacro - 1
    <3>1. Min({A, MaxMacro - 1}) \in Nat /\ Min({A, MaxMacro - 1}) <= A /\ Min({A, MaxMacro - 1}) <= MaxMacro - 1
      BY <2>1, MinOfTwo
    <3> QED BY <2>1, <2>2, <3>1
  <2>5. r \in 1 .. B /\ l + r <= MaxMacro
    <3>1. MaxMacro - l \in Nat
      BY <2>1, <2>4
    <3>2. Min({B, MaxMacro - l}) \in Nat /\ Min({B, MaxMacro - l}) <= B /\ Min({B, MaxMacro - l}) <= MaxMacro - l
      BY <2>1, <3>1, MinOfTwo
    <3> QED BY <2>1, <2>3, <2>4, <3>1, <3>2
  <2>6. Kept(s, Spliced(a, b, l, r))
    BY <1>2, <2>4, <2>5, SplicedKeeps DEF A, B
  <2> QED BY <2>3, <2>6
<1> QED BY <1>1, <1>2

HierarchyInv ==
  /\ schema \in {1, 2}
  /\ DOMAIN stock = 1 .. 2 /\ stock = [i \in 1 .. 2 |-> stock[i]]
  /\ \A i \in 1 .. 2 : Standing(schema, stock[i])
  /\ ~misfit

LEMMA RebuildingKeeps ==
    ASSUME HierarchyInv, NEW i \in 1 .. 2, NEW children, Rebuild(i, children),
           \A h \in children : Kept(schema, h)
    PROVE  HierarchyInv'
<1>1. PICK h \in children :
        /\ misfit' = ~Accepts(Pruned(h))
        /\ stock' = IF Accepts(Pruned(h))
                    THEN [stock EXCEPT ![i] = Renamed(Pruned(h))] ELSE stock
        /\ schema' = schema
  BY Zenon DEF Rebuild
<1>2. Accepts(Pruned(h)) /\ Standing(schema, Renamed(Pruned(h)))
  BY KeptIsAccepted
<1>3. ~misfit' /\ stock' = [stock EXCEPT ![i] = Renamed(Pruned(h))] /\ schema' = schema
  BY <1>1, <1>2
<1> DEFINE new == Renamed(Pruned(h))
<1> HIDE DEF new
<1>4. /\ DOMAIN stock' = 1 .. 2 /\ stock' = [j \in 1 .. 2 |-> stock'[j]]
      /\ \A j \in 1 .. 2 : stock'[j] = IF j = i THEN new ELSE stock[j]
  BY <1>3 DEF HierarchyInv, new
<1>5. Standing(schema, new)
  BY <1>2 DEF new
<1>6. \A j \in 1 .. 2 : Standing(schema, stock'[j])
  BY <1>4, <1>5 DEF HierarchyInv
<1>7. \A j \in 1 .. 2 : Standing(schema', stock'[j])
  BY <1>3, <1>6
<1> QED BY <1>3, <1>4, <1>7 DEF HierarchyInv

LEMMA HierarchyStepsKeep ==
    ASSUME HierarchyAssumption, HierarchyInv, [HierarchyNext]_hierarchyVars
    PROVE  HierarchyInv'
<1>1. CASE UNCHANGED hierarchyVars
  BY <1>1, Zenon DEF HierarchyInv, hierarchyVars
<1>2. ASSUME NEW i \in 1 .. 2,
             \/ Clone(i) \/ Share(i) \/ Expand(i) \/ Rewire(i) \/ SkipAhead(i)
             \/ Collapse(i) \/ Contract(i) \/ GrowCell(i) \/ TrimCell(i)
             \/ RewireCell(i) \/ Motif(i) \/ Crossover(i)
      PROVE  HierarchyInv'
  <2> DEFINE h == stock[i]
  <2>1. schema \in {1, 2} /\ Standing(schema, h) /\ Standing(schema, stock[1]) /\ Standing(schema, stock[2])
    BY DEF HierarchyInv
  <2>2. \A x \in DOMAIN h.cells : Fitting(h.cells[x])
    BY <2>1, CellsAre
  <2>3. CASE Clone(i)
    <3>1. \A g \in Clones(h) : Kept(schema, g)
      BY <2>1, ClonesKeep
    <3> QED BY <2>3, <3>1, RebuildingKeeps DEF Clone
  <2>4. CASE Share(i)
    <3>1. \A g \in Shares(h) : Kept(schema, g)
      BY <2>1, SharesKeep
    <3> QED BY <2>4, <3>1, RebuildingKeeps DEF Share
  <2>5. CASE Expand(i)
    <3>1. \A g \in Expansions(h) : Kept(schema, g)
      BY <2>1, ExpansionsKeep
    <3> QED BY <2>5, <3>1, RebuildingKeeps DEF Expand
  <2>6. CASE Rewire(i)
    <3>1. \A g \in Rewirings(h) : Kept(schema, g)
      BY <2>1, RewiringsKeep
    <3> QED BY <2>6, <3>1, RebuildingKeeps DEF Rewire
  <2>7. CASE SkipAhead(i)
    <3>1. \A g \in Skips(h) : Kept(schema, g)
      BY <2>1, RewiringsKeep
    <3> QED BY <2>7, <3>1, RebuildingKeeps DEF SkipAhead
  <2>8. CASE Collapse(i)
    <3>1. \A g \in Collapses(h) : Kept(schema, g)
      BY <2>1, CollapsesKeep
    <3> QED BY <2>8, <3>1, RebuildingKeeps DEF Collapse
  <2>9. CASE Contract(i)
    <3>1. \A g \in Contractions(h) : Kept(schema, g)
      BY <2>1, ContractionsKeep
    <3> QED BY <2>9, <3>1, RebuildingKeeps DEF Contract
  <2>10. CASE GrowCell(i)
    <3> DEFINE versions == [c \in DOMAIN h.cells |-> Grown(h.cells[c])]
    <3>1. \A x \in DOMAIN h.cells : \A g \in versions[x] : Fitting(g)
      BY <2>2, CellEditsFit
    <3>2. Rebuild(i, Reworked(h, versions))
      BY <2>10, Zenon DEF GrowCell
    <3> HIDE DEF versions, h
    <3>3. \A g \in Reworked(h, versions) : Kept(schema, g)
      BY <2>1, <3>1, ReworkedKeep
    <3> QED BY <3>2, <3>3, RebuildingKeeps
  <2>11. CASE TrimCell(i)
    <3> DEFINE versions == [c \in DOMAIN h.cells |-> TrimmedCell(h.cells[c])]
    <3>1. \A x \in DOMAIN h.cells : \A g \in versions[x] : Fitting(g)
      BY <2>2, CellEditsFit
    <3>2. Rebuild(i, Reworked(h, versions))
      BY <2>11, Zenon DEF TrimCell
    <3> HIDE DEF versions, h
    <3>3. \A g \in Reworked(h, versions) : Kept(schema, g)
      BY <2>1, <3>1, ReworkedKeep
    <3> QED BY <3>2, <3>3, RebuildingKeeps
  <2>12. CASE RewireCell(i)
    <3> DEFINE versions == [c \in DOMAIN h.cells |-> Rewired(h.cells[c])]
    <3>1. \A x \in DOMAIN h.cells : \A g \in versions[x] : Fitting(g)
      BY <2>2, CellEditsFit
    <3>2. Rebuild(i, Reworked(h, versions))
      BY <2>12, Zenon DEF RewireCell
    <3> HIDE DEF versions, h
    <3>3. \A g \in Reworked(h, versions) : Kept(schema, g)
      BY <2>1, <3>1, ReworkedKeep
    <3> QED BY <3>2, <3>3, RebuildingKeeps
  <2>13. CASE Motif(i)
    <3> DEFINE bank == UNION {{stock[j].cells[c] : c \in DOMAIN stock[j].cells} : j \in 1 .. 2}
    <3>1. \A g \in bank : Fitting(g)
      <4> SUFFICES ASSUME NEW g \in bank PROVE Fitting(g)
        OBVIOUS
      <4>1. PICK j \in 1 .. 2 : \E c \in DOMAIN stock[j].cells : g = stock[j].cells[c]
        BY Zenon
      <4>2. Standing(schema, stock[j])
        BY DEF HierarchyInv
      <4> QED BY <4>1, <4>2, CellsAre
    <3>2. Rebuild(i, Motifs(h, bank))
      BY <2>13, Zenon DEF Motif
    <3> HIDE DEF bank, h
    <3>3. \A g \in Motifs(h, bank) : Kept(schema, g)
      BY <2>1, <3>1, MotifsKeep
    <3> QED BY <3>2, <3>3, RebuildingKeeps
  <2>14. CASE Crossover(i)
    <3>1. 3 - i \in 1 .. 2
      OBVIOUS
    <3>2. Standing(schema, stock[3 - i])
      BY <3>1 DEF HierarchyInv
    <3>3. \A g \in Offspring(stock[i], stock[3 - i]) : Kept(schema, g)
      BY <2>1, <3>2, OffspringKeep
    <3> QED BY <2>14, <3>3, RebuildingKeeps DEF Crossover
  <2> QED BY <1>2, <2>3, <2>4, <2>5, <2>6, <2>7, <2>8, <2>9, <2>10, <2>11, <2>12, <2>13, <2>14
<1> QED BY <1>1, <1>2 DEF HierarchyNext

LEMMA SeedLengthIs ==
    ASSUME HierarchyAssumption, NEW variant, NEW index \in 0 .. 2
    PROVE  /\ SeedLength(variant, index) \in 1 .. MaxMacro
           /\ variant = "flat" => SeedLength(variant, index) = 1
<1>1. MaxMacro \in 2 .. 8
  BY DEF HierarchyAssumption
<1> DEFINE d == Min({3, MaxMacro})
           e == Min({MaxMacro, 2 + (index % 2)})
<1>2. d \in Nat /\ d >= 2 /\ d <= MaxMacro
  <2>1. d \in {3, MaxMacro} /\ d <= MaxMacro
    BY <1>1, MinOfTwo
  <2> HIDE DEF d
  <2> QED BY <1>1, <2>1
<1>3. e \in 1 .. MaxMacro
  <2>1. 2 + (index % 2) \in Nat /\ 2 + (index % 2) >= 2
    OBVIOUS
  <2> DEFINE two == 2 + (index % 2)
  <2> HIDE DEF two
  <2>2. Min({MaxMacro, two}) \in {MaxMacro, two} /\ Min({MaxMacro, two}) <= MaxMacro
    BY <1>1, <2>1, MinOfTwo DEF two
  <2>3. Min({MaxMacro, two}) \in 1 .. MaxMacro
    BY <1>1, <2>1, <2>2 DEF two
  <2> QED BY <2>3 DEF two
<1>4. SeedLength(variant, index) = IF variant = "flat" THEN 1
                                   ELSE IF schema = 1 THEN e ELSE 1 + (index % d)
  BY DEF SeedLength
<1> HIDE DEF d, e
<1>5. 1 + (index % d) \in 1 .. MaxMacro
  <2>1. index % d \in 0 .. d - 1
    BY <1>2
  <2> QED BY <1>1, <1>2, <2>1
<1> QED BY <1>1, <1>3, <1>4, <1>5

LEMMA SeededStands ==
    ASSUME HierarchyAssumption, NEW s, NEW variant \in {"flat", "unshared", "shared", "no-clone"},
           NEW index \in 0 .. 2
    PROVE  Standing(s, Seeded(variant, index))
<1> DEFINE n == SeedLength(variant, index)
           library == IF variant = "unshared" THEN 0 .. n - 1 ELSE {0}
           two == Min({2, MaxCell})
           o == [x \in 0 .. n - 1 |-> IF variant = "unshared" THEN x ELSE 0]
           c == [x \in library |-> Chain(two)]
           k == [x \in library |-> <<x>>]
<1>1. Seeded(variant, index) = Genome(variant, Chain(n), o, c, k)
  BY Zenon DEF Seeded, Genome
<1>2. n \in 1 .. MaxMacro /\ MaxMacro \in Nat /\ (variant = "flat" => n = 1)
  BY SeedLengthIs DEF HierarchyAssumption
<1>3. two \in Nat \ {0} /\ two <= MaxCell
  <2>1. MaxCell \in Nat \ {0}
    BY DEF HierarchyAssumption
  <2>2. two \in {2, MaxCell} /\ two <= MaxCell
    BY <2>1, MinOfTwo
  <2> HIDE DEF two
  <2> QED BY <2>1, <2>2
<1> HIDE DEF n, two
<1>4. n \in Nat \ {0} /\ n <= MaxMacro /\ 0 \in 0 .. n - 1
  BY <1>2
<1>5. Flows(Chain(n)) /\ Chain(n).nodes = 0 .. n - 1 /\ Cardinality(Chain(n).nodes) = n
  BY <1>4, ChainFlows
<1>6. Fitting(Chain(two))
  BY <1>3, ChainFlows DEF Fitting
<1>7. /\ library \subseteq Nat /\ DOMAIN c = library /\ c = [x \in DOMAIN c |-> c[x]]
      /\ k = [x \in DOMAIN c |-> <<x>>]
      /\ \A x \in library : c[x] = Chain(two)
  BY <1>4
<1>8. /\ o = [x \in 0 .. n - 1 |-> o[x]]
      /\ \A x \in 0 .. n - 1 : o[x] \in library /\ (variant = "unshared" => o[x] = x)
  BY <1>4
<1>9. \A x \in library : \E y \in 0 .. n - 1 : o[y] = x
  <2>1. CASE variant = "unshared"
    BY <2>1
  <2>2. CASE variant # "unshared"
    BY <1>4, <2>2
  <2> QED BY <2>1, <2>2
<1>10. \A x, y \in DOMAIN c : k[x] = k[y] => x = y
  <2>1. \A x, y : <<x>> = <<y>> => x = y
    OBVIOUS
  <2>2. \A x \in library : k[x] = <<x>>
    OBVIOUS
  <2> HIDE DEF library, c, k
  <2> QED BY <1>7, <2>1, <2>2
<1> HIDE DEF library, o, c, k
<1>11. Parts(s, variant, Chain(n), o, c, k)
  <2>1. /\ \A x \in Chain(n).nodes : o[x] \in DOMAIN c
        /\ DOMAIN c \subseteq Nat /\ \A x \in DOMAIN c : Fitting(c[x])
    BY <1>5, <1>6, <1>7, <1>8
  <2>2. variant = "unshared" => \A x, y \in Chain(n).nodes : o[x] = o[y] => x = y
    BY <1>5, <1>8
  <2>3. variant = "flat" => Cardinality(Chain(n).nodes) = 1
    BY <1>2, <1>5
  <2>4. s = 1 => Chain(n).nodes = 0 .. Cardinality(Chain(n).nodes) - 1
    BY <1>5
  <2>5. Cardinality(Chain(n).nodes) <= MaxMacro
    BY <1>4, <1>5
  <2> QED BY <1>5, <1>10, <2>1, <2>2, <2>3, <2>4, <2>5 DEF Parts
<1>12. Tidy(Chain(n), o, c, k)
  BY <1>5, <1>7, <1>8, <1>9 DEF Tidy
<1> QED BY <1>1, <1>11, <1>12, Zenon DEF Standing

LEMMA HierarchiesStartWell ==
    ASSUME HierarchyAssumption, HierarchyInit
    PROVE  HierarchyInv
<1>1. PICK variant \in {"flat", "unshared", "shared", "no-clone"}, j \in 0 .. 2 :
        \E i \in 0 .. j : stock = <<Seeded(variant, i), Seeded(variant, j)>>
  BY Zenon DEF HierarchyInit
<1>2. PICK i \in 0 .. j : stock = <<Seeded(variant, i), Seeded(variant, j)>>
  BY <1>1, Zenon
<1>3. i \in 0 .. 2
  BY <1>2
<1> DEFINE a == Seeded(variant, i)
           b == Seeded(variant, j)
<1>4. Standing(schema, a) /\ Standing(schema, b)
  BY <1>3, SeededStands
<1> HIDE DEF a, b
<1>5. stock = <<a, b>>
  BY <1>2 DEF a, b
<1>6. DOMAIN stock = 1 .. 2 /\ stock = [x \in 1 .. 2 |-> stock[x]] /\ stock[1] = a /\ stock[2] = b
  BY <1>5
<1>7. \A x \in 1 .. 2 : x = 1 \/ x = 2
  OBVIOUS
<1>8. \A x \in 1 .. 2 : Standing(schema, stock[x])
  BY <1>4, <1>6, <1>7
<1> QED BY <1>6, <1>8 DEF HierarchyInit, HierarchyInv

LEMMA HierarchiesStayWell == HierarchySpec => []HierarchyInv
<1>1. HierarchyAssumption
  BY HierarchyAssumption
<1>2. HierarchyInit => HierarchyInv
  BY <1>1, HierarchiesStartWell
<1>3. HierarchyInv /\ [HierarchyNext]_hierarchyVars => HierarchyInv'
  BY <1>1, HierarchyStepsKeep
<1> QED BY <1>2, <1>3, PTL DEF HierarchySpec

THEOREM HierarchiesAreExecutable == HierarchySpec => []HierarchiesStayExecutable
<1>1. HierarchyInv => HierarchiesStayExecutable
  BY DEF HierarchyInv, HierarchiesStayExecutable
<1> QED BY <1>1, HierarchiesStayWell, PTL

(***************************************************************************)
(* The families together.                                                  *)
(***************************************************************************)

\* Whichever family searches, and whatever its edits and crossovers draw, for
\* every bound on sizes: no genome is refused by its own validation or compiler.
THEOREM GenomesAreExecutable ==
    HierarchySpec /\ CircuitSpec /\ BlockSpec => []GenomesStayExecutable
<1>1. GenomesStayExecutable <=>
        HierarchiesStayExecutable /\ CircuitsStayExecutable /\ ModelsStayExecutable
  BY DEF GenomesStayExecutable
<1> QED
  BY <1>1, HierarchiesAreExecutable, CircuitsAreExecutable, ModelsAreExecutable, PTL
=============================================================================
