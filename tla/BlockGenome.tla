----------------------------- MODULE BlockGenome -----------------------------
(***************************************************************************)
(* The family genomes of Prism (prism/genome.py, frontier.py): a family,   *)
(* the fields that must agree with it, and for the composite family a      *)
(* sequence of blocks, each with an optional skip.  A skip names a state:  *)
(* state 0 is the stem, state k the output of block k (composition.py).    *)
(*                                                                         *)
(* One family stands for each group; activation, dropout, sparsity,        *)
(* kernels, rates, the kinds of the blocks and the widths of the layers    *)
(* are left out.  Every block has a tag that tells it from every other     *)
(* block, wherever an edit moves it.                                       *)
(***************************************************************************)
EXTENDS Integers, FiniteSets, Sequences, SequencesExt

CONSTANTS
  Embeddings,   \* the embedding widths searched
  Heads,        \* the head counts searched
  MaxBlocks,    \* blocks of a composite genome
  MaxRewrites   \* bound: edits of a run

ASSUME BlockAssumption == /\ Embeddings \subseteq Nat \ {0}
                          /\ \E w \in Embeddings : \A v \in Embeddings : v <= w
                          /\ Heads \subseteq Nat \ {0}
                          /\ 1 \in Heads
                          /\ MaxBlocks \in 2 .. 6
                          /\ MaxRewrites \in Nat

VARIABLES
  text,         \* the task is language modelling
  models,       \* the two genomes edits are made of
  misdrawn,     \* an edit built a genome its own validation refuses
  rewrites      \* edits so far

blockVars == <<text, models, misdrawn, rewrites>>

Stem == 0
NoSkip == -1
OpenFamilies == IF text THEN {"attention", "composite"}
            ELSE {"mlp", "conv2d", "attention", "composite"}
Norms == IF text THEN {"none", "layer"} ELSE {"none", "layer", "batch"}

\* validate_architecture
Agrees(g) ==
  /\ g.width % g.heads = 0 /\ g.heads % g.kv = 0
  /\ g.rope => (g.width \div g.heads) % 2 = 0
  /\ g.residual => g.family = "mlp"
  /\ IF g.family = "composite"
     THEN /\ Len(g.blocks) \in 1 .. MaxBlocks
          /\ \A i \in 1 .. Len(g.blocks) : g.blocks[i].skip < i
     ELSE g.blocks = <<>>
  /\ g.pyramid => g.family = "conv2d"
  /\ g.input_skip => g.family = "mlp"
  /\ g.pre_norm => g.family = "attention" /\ g.norm = "layer"

\* What a language model must not have is no error, but is never left.
Allowed(g) == text => g.norm # "batch"

----------------------------------------------------------------------------

Tagged(kind, t) == [tag |-> t, skip |-> kind]
FirstBlocks(t) == <<Tagged(NoSkip, t), Tagged(Stem, t + 1)>>

\* founder, with or without the representation gene (represent).
FoundersOf(family, t) ==
  {[family |-> family, norm |-> n, residual |-> FALSE, pyramid |-> r /\ family = "conv2d",
    input_skip |-> r /\ family = "mlp", pre_norm |-> r /\ family = "attention",
    width |-> CHOOSE w \in Embeddings : \A v \in Embeddings : v <= w,
    heads |-> 1, kv |-> 1, rope |-> FALSE,
    blocks |-> IF family = "composite" THEN FirstBlocks(t) ELSE <<>>] :
     n \in {"none", "layer"}, r \in BOOLEAN}
WithNorm(g) == IF g.pre_norm THEN [g EXCEPT !.norm = "layer"] ELSE g

BlockInit ==
  /\ text \in BOOLEAN
  /\ \E f, d \in OpenFamilies : \E g \in FoundersOf(f, 1), h \in FoundersOf(d, 3) :
       models = <<WithNorm(g), WithNorm(h)>>
  /\ misdrawn = FALSE
  /\ rewrites = 0

NextTag == 5 + 10 * rewrites

----------------------------------------------------------------------------
(* The sets of genomes the edits can build.                                *)

\* family; convert_family differs only in what it draws.
OtherFamilies(g) ==
  {[g EXCEPT !.family = f, !.residual = FALSE, !.input_skip = FALSE,
             !.pyramid = FALSE, !.pre_norm = FALSE,
             !.blocks = IF f = "composite" THEN FirstBlocks(NextTag) ELSE <<>>] :
     f \in OpenFamilies \ {g.family}}

\* norm: a pre-normalised genome chooses among those that can be so.
Normings(g) == {[g EXCEPT !.norm = n] :
                  n \in IF g.pre_norm THEN {"layer"} ELSE Norms}
Flags(g) ==
  CASE g.family = "mlp" -> {[g EXCEPT !.residual = ~@], [g EXCEPT !.input_skip = ~@]}
    [] g.family = "conv2d" -> {[g EXCEPT !.pyramid = ~@]}
    [] g.family = "attention" ->
         {[g EXCEPT !.pre_norm = ~@, !.norm = IF g.pre_norm THEN @ ELSE "layer"]}
    [] OTHER -> {}

HasHeads(g) == g.family \in {"attention", "composite"}
\* heads, kv_heads, position, embedding: each one among what the others allow.
Headings(g) ==
  IF ~HasHeads(g) THEN {}
  ELSE {[g EXCEPT !.heads = h] :
          h \in {k \in Heads : /\ g.width % k = 0 /\ k % g.kv = 0
                               /\ g.rope => (g.width \div k) % 2 = 0}}
       \cup {[g EXCEPT !.kv = k] : k \in {j \in Heads : g.heads % j = 0}}
       \cup {[g EXCEPT !.rope = r] :
               r \in {FALSE} \cup {x \in {TRUE} : (g.width \div g.heads) % 2 = 0}}
       \cup {[g EXCEPT !.width = w] :
               w \in {v \in Embeddings : /\ v % g.heads = 0
                                         /\ g.rope => (v \div g.heads) % 2 = 0}}

\* Mutant: what stands behind the new block keeps its skips as they are.
SkipsAsTheyAre(skip, at) == skip

\* block_add and block_remove move the states behind the place they change.
MovedUp(skip, at) == IF skip > at THEN skip + 1 ELSE skip
MovedDown(skip, at) == IF skip = at THEN NoSkip
                       ELSE IF skip > at THEN skip - 1 ELSE skip

Inserted(blocks, at) ==
  SubSeq(blocks, 1, at) \o <<Tagged(NoSkip, NextTag)>>
    \o [i \in 1 .. Len(blocks) - at |->
          [blocks[at + i] EXCEPT !.skip = MovedUp(@, at)]]
Shortened(blocks, at) ==
  SubSeq(blocks, 1, at - 1)
    \o [i \in 1 .. Len(blocks) - at |->
          [blocks[at + i] EXCEPT !.skip = MovedDown(@, at)]]

Insertions(g) == IF g.family = "composite" /\ Len(g.blocks) < MaxBlocks
                 THEN {[g EXCEPT !.blocks = Inserted(@, at)] : at \in 0 .. Len(g.blocks)}
                 ELSE {}
Removals(g) == IF g.family = "composite" /\ Len(g.blocks) > 1
               THEN {[g EXCEPT !.blocks = Shortened(@, at)] : at \in 1 .. Len(g.blocks)}
               ELSE {}
SkipChanges(g) ==
  UNION {{[g EXCEPT !.blocks[i].skip = s] :
            s \in ({NoSkip} \cup 0 .. i - 1) \ {g.blocks[i].skip}} :
           i \in DOMAIN g.blocks}

\* crossover: fields one by one, the attention dimensions together, and the
\* first blocks of one genome before the rest of the other's.
Mixed(a, b) ==
  LET dims(g) == IF a.family = b.family
                 THEN {[g EXCEPT !.width = p.width, !.heads = p.heads,
                                 !.kv = p.kv, !.rope = p.rope] : p \in {a, b}}
                 ELSE {g}
      spliced(n) == SubSeq(a.blocks, 1, n) \o SubSeq(b.blocks, n + 1, Len(b.blocks))
      blocks(g) == IF a.family = "composite" /\ b.family = "composite"
                   THEN {[g EXCEPT !.blocks =
                            [i \in DOMAIN spliced(n) |->
                               Tagged(IF spliced(n)[i].skip >= i THEN NoSkip
                                      ELSE spliced(n)[i].skip, NextTag + i)]] :
                           n \in 0 .. Min({Len(a.blocks), Len(b.blocks)})}
                   ELSE {g}
      renormed(g) == [g EXCEPT !.norm =
                        IF (g.pre_norm /\ @ # "layer") \/ (text /\ @ = "batch")
                        THEN "layer" ELSE @]
  IN  UNION {{renormed(g) : g \in blocks(h)} :
               h \in UNION {dims([a EXCEPT !.norm = n]) : n \in {a.norm, b.norm}}}

----------------------------------------------------------------------------

Redraw(i, children) ==
  /\ rewrites < MaxRewrites
  /\ \E g \in children :
    /\ rewrites' = rewrites + 1
    /\ misdrawn' = ~(Agrees(g) /\ Allowed(g))
    /\ models' = IF Agrees(g) THEN [models EXCEPT ![i] = g] ELSE models
    /\ UNCHANGED text

SwitchFamily(i) == Redraw(i, OtherFamilies(models[i]))
Renorm(i) == Redraw(i, Normings(models[i]))
FlipGene(i) == Redraw(i, Flags(models[i]))
Reshape(i) == Redraw(i, Headings(models[i]))
AddBlock(i) == Redraw(i, Insertions(models[i]))
RemoveBlock(i) == Redraw(i, Removals(models[i]))
RewireSkip(i) == Redraw(i, SkipChanges(models[i]))
Mate(i) == Redraw(i, Mixed(models[i], models[3 - i]))

BlockNext ==
  \E i \in 1 .. 2 :
    \/ SwitchFamily(i) \/ Renorm(i) \/ FlipGene(i) \/ Reshape(i)
    \/ AddBlock(i) \/ RemoveBlock(i) \/ RewireSkip(i) \/ Mate(i)

BlockSpec == BlockInit /\ [][BlockNext]_blockVars

----------------------------------------------------------------------------

Tags(blocks) == {blocks[i].tag : i \in DOMAIN blocks}
\* What the skip of a block reads: the stem, nothing, or the block with a tag.
Reads(blocks, i) == IF blocks[i].skip \in {Stem, NoSkip} THEN blocks[i].skip
                    ELSE blocks[blocks[i].skip].tag

\* No edit draws a genome its validation refuses (validate_architecture).
ModelsStayExecutable == ~misdrawn

\* Inserting and removing blocks never redirects a skip: a block that stays
\* reads what it read, or nothing when the block it read is the one that went,
\* although the states are named by position and every position behind the
\* change has moved (genome.py block_add, block_remove).
SkipsKeepTheirSource ==
  [][\A n \in DOMAIN models :
       LET old == models[n].blocks
           new == models'[n].blocks
       IN  Len(old) # Len(new) =>
             \A i \in DOMAIN old, j \in DOMAIN new : old[i].tag = new[j].tag =>
               \/ Reads(new, j) = Reads(old, i)
               \/ /\ Reads(new, j) = NoSkip
                  /\ Reads(old, i) \notin Tags(new) \cup {Stem}]_blockVars
=============================================================================
