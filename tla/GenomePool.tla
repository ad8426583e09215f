----------------------------- MODULE GenomePool -----------------------------
(* What the four searches share: proposals drawn from a random source,       *)
(* attempts that end in a quality or fail, and the weights kept between them. *)
(*                                                                            *)
(* A genome is a family and a variant of it, written as one number whose      *)
(* order is the order of the identities. The random source is a tape of draws *)
(* for each step; a search that is restored from a committed state continues  *)
(* the same tape (rng.setstate), so two copies that have seen the same        *)
(* attempts read the same draws.                                              *)
EXTENDS Integers, Sequences, FiniteSets

CONSTANTS
  Size,          \* population_size
  Families,      \* families 1..Families
  Variants,      \* variants 1..Variants of each; the parameter count grows
  LargestBuilt,  \* the largest variant below the parameter cap
  CacheEntries,  \* capacity of the weight cache in entries
  CacheBytes,    \* and in bytes
  ReservoirRoom, \* entries of a reservoir (4 or 8 per member, 32 or a policy)
  CellRoom,      \* descriptor cells or niches kept (8 per member, or a policy)
  ArchiveRoom,   \* entries of a ranked archive or front (2 per member)
  Draws,         \* length of a tape
  Sides          \* values of a draw

ASSUME PoolAssumption ==
  /\ Size \in Nat /\ Size >= 2
  /\ Families \in 1..9 /\ Variants \in Size..9
  /\ LargestBuilt \in 1..Variants
  /\ {CacheEntries, CacheBytes, ReservoirRoom, CellRoom, Draws, Sides}
       \subseteq Nat \ {0}
  /\ ArchiveRoom \in Nat /\ ArchiveRoom >= 2

LOCAL INSTANCE SequencesExt
LOCAL INSTANCE FiniteSetsExt
LOCAL INSTANCE TLC

----------------------------------------------------------------------------
(* Python dictionaries as the searches use them: an insertion-ordered         *)
(* sequence of pairs. Assigning to a key that is there keeps its place,       *)
(* assigning to a new one appends, and list(d.values()) follows that order.   *)
(* A dictionary written to disk goes through json.dumps(sort_keys=True): it   *)
(* comes back in the order of its keys.                                       *)

Keys(d) == {d[i].key : i \in DOMAIN d}

Has(d, k) == k \in Keys(d)

At(d, k) == LET i == CHOOSE j \in DOMAIN d : d[j].key = k IN d[i].val

Lookup(d, k, default) == IF Has(d, k) THEN At(d, k) ELSE default

Assign(d, k, v) ==
  LET pair == [key |-> k, val |-> v]
  IN  IF Has(d, k)
        THEN [i \in DOMAIN d |-> IF d[i].key = k THEN pair ELSE d[i]]
        ELSE Append(d, pair)

Delete(d, k) == SelectSeq(d, LAMBDA pair : pair.key # k)

DictValues(d) == [i \in DOMAIN d |-> d[i].val]

\* {item[identity]: item for item in s}: a later item takes the place of an
\* earlier one of its identity.
ByIdentity(s) ==
  FoldLeft(LAMBDA d, e : Assign(d, e.id, e), <<>>, s)

\* One trip through runner_search_snapshot, the journal and json.loads.
Reloaded(d) == SortSeq(d, LAMBDA a, b : a.key < b.key)

----------------------------------------------------------------------------

Genome(family, variant) == 10 * family + variant
Family(g) == g \div 10
Variant(g) == g % 10
Genomes == {Genome(f, v) : f \in 1..Families, v \in 1..Variants}
\* The groups of families between which weights may be transferred.
Group(g) == (Family(g) + 1) \div 2
Parameters(g) == Variant(g)

Tapes == [1..Draws -> 0..(Sides - 1)]
Draw(tape, k, n) == tape[1 + (k % Draws)] % n
Chosen(tape, k, s) == s[1 + Draw(tape, k, Len(s))]

\* rng.sample(s, n): n of the values, from a drawn place on.
Sampled(tape, k, s, n) ==
  LET from == Draw(tape, k, Len(s))
      m == IF n < Len(s) THEN n ELSE Len(s)
  IN  [i \in 1..m |-> s[1 + ((from + i) % Len(s))]]

\* Mutant of Varied: family_locked is ignored.
VariedUnlocked(g, x) ==
  IF x % 2 = 0 THEN Genome(Family(g), 1 + ((Variant(g) + x) % Variants))
  ELSE Genome(1 + (Family(g) % Families), Variant(g))

\* A mutation within the family, and one that may leave it.
Varied(g, x) == Genome(Family(g), 1 + ((Variant(g) + x) % Variants))
Moved(g, x) == Genome(1 + (Family(g) % Families), Variant(g))
Mutated(g, x) == IF x % 2 = 0 THEN Varied(g, x) ELSE Moved(g, x)
Crossed(g, h) == Genome(Family(g), Variant(h))

\* Reservoir sampling: the n-th arrival takes a drawn place, if there is one.
Reservoir(s, e, n, tape, room) ==
  LET index == 1 + Draw(tape, 0, n)
  IN  IF Len(s) < room THEN Append(s, e)
      ELSE IF index <= room THEN [s EXCEPT ![index] = e] ELSE s

Failed == 0
NoGenome == -1
Better(a, b) == a.q > b.q

\* The first of the best, as Python's max() returns it.
FirstBest(s) ==
  s[CHOOSE i \in DOMAIN s :
      /\ \A j \in DOMAIN s : ~Better(s[j], s[i])
      /\ \A j \in 1..(i - 1) : Better(s[i], s[j])]

\* sorted(..., key = (-quality, identity))
Ranked(s) ==
  LET Before(a, b) == a.q > b.q \/ (a.q = b.q /\ a.id < b.id)
      rank(i) == 1 + Cardinality({j \in DOMAIN s :
                     Before(s[j], s[i]) \/ (j < i /\ ~Before(s[i], s[j]))})
  IN  [k \in DOMAIN s |-> s[CHOOSE i \in DOMAIN s : rank(i) = k]]

Dominates(a, b) ==
  /\ a.q >= b.q /\ a.cost <= b.cost
  /\ a.q > b.q \/ a.cost < b.cost

ParetoFront(s) == SelectSeq(s, LAMBDA e : \A i \in DOMAIN s : ~Dominates(s[i], e))

Prefix(s, n) == SubSeq(s, 1, IF Len(s) < n THEN Len(s) ELSE n)
LastOf(s, n) == SubSeq(s, IF Len(s) < n THEN 1 ELSE Len(s) - n + 1, Len(s))

-----------------------------------------------------------------------------
(* The weight cache: entries from the least to the most recently used. The   *)
(* chain of an entry lists the attempts whose training its weights went      *)
(* through; it is not in the code, which only keeps summaries of it.         *)

Bytes(c) == FoldLeft(LAMBDA n, e : n + Parameters(e.id), 0, c)

Trimmed(c) ==
  LET kept == {n \in 0..Len(c) :
                 n <= CacheEntries /\ Bytes(LastOf(c, n)) <= CacheBytes}
  IN  LastOf(c, Max(kept))

CacheHas(c, g) == \E i \in DOMAIN c : c[i].id = g
CacheOf(c, g) == c[CHOOSE i \in DOMAIN c : c[i].id = g]
Without(c, g) == SelectSeq(c, LAMBDA e : e.id # g)

Remembered(c, g, chain) == Trimmed(Append(Without(c, g), [id |-> g, chain |-> chain]))

\* move_to_end of the entry that was used.
Touched(c, g) ==
  IF CacheHas(c, g) THEN Append(Without(c, g), CacheOf(c, g)) ELSE c

\* The entry the weights are copied from: the genome itself, then its parents in
\* their order, its family, then the oldest of the compatible ones; None if there
\* is none.
Source(c, g, parents, compatible) ==
  LET rank(h) == IF \E i \in DOMAIN parents : parents[i] = h
                   THEN 1 + Len(parents)
                        - Min({i \in DOMAIN parents : parents[i] = h})
                   ELSE 0
      priority(h) == 1000 * (IF h = g THEN 1 ELSE 0) + 10 * rank(h)
                     + (IF Family(h) = Family(g) THEN 1 ELSE 0)
      usable == {i \in DOMAIN c : c[i].id \in compatible}
      best == {i \in usable : \A j \in usable :
                 priority(c[j].id) <= priority(c[i].id)}
  IN  IF usable = {} THEN NoGenome ELSE c[Min(best)].id
=============================================================================
