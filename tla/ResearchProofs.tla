--------------------------- MODULE ResearchProofs ---------------------------
(***************************************************************************)
(* What is proved of the parts of MCResearch that keep books of fits: the  *)
(* fits themselves (Training), the JEPA pilot (Pilot), the continuations   *)
(* (Continuations) and the study drivers (Studies).  Each part has its own *)
(* specification, its own inductive invariant (FitInv, PilotInv, ChainInv, *)
(* StudyInv) and its own theorem, at the end of its section.               *)
(***************************************************************************)
EXTENDS Training, Pilot, Continuations, Studies, FiniteSetTheorems, TLAPS

(***************************************************************************)
(* Sequences of sequences.  FlattenSeq is a recursive function; what it    *)
(* computes is proved by its least counterexample, since the installed     *)
(* provers cannot instantiate the library's induction theorems.            *)
(***************************************************************************)

LEMMA LeastExists ==
    ASSUME NEW S, S \subseteq Nat, S # {}
    PROVE  \E t \in S : \A u \in S : t <= u
<1>1. \E t \in S : \A u \in S : ~(<<u, t>> \in OpToRel(<, Nat))
  BY NatLessThanWellFounded, WFMin, Zenon
<1>2. PICK t \in S : \A u \in S : ~(<<u, t>> \in OpToRel(<, Nat))
  BY <1>1, Zenon
<1>3. ASSUME NEW u \in S PROVE t <= u
  <2>1. t \in Nat /\ u \in Nat /\ <<u, t>> \in Nat \X Nat
    OBVIOUS
  <2>2. ~(u < t)
    BY <1>2, <2>1, Zenon DEF OpToRel
  <2> QED BY <2>1, <2>2
<1> QED BY <1>3

FlattensTo(seqs, f, m) ==
  f = [i \in 1 .. m |-> IF i = 1 THEN seqs[i] ELSE f[i - 1] \o seqs[i]]

LEMMA FlattenBegins == ASSUME NEW seqs PROVE \E f : FlattensTo(seqs, f, 1)
<1> DEFINE f == [i \in 1 .. 1 |-> seqs[1]]
<1>1. \A i \in 1 .. 1 : i = 1
  OBVIOUS
<1>2. f = [i \in 1 .. 1 |-> IF i = 1 THEN seqs[i] ELSE f[i - 1] \o seqs[i]]
  BY <1>1
<1> QED BY <1>2 DEF FlattensTo

LEMMA FlattenGoesOn ==
    ASSUME NEW seqs, NEW m \in Nat \ {0, 1}, NEW g, FlattensTo(seqs, g, m - 1)
    PROVE  \E f : FlattensTo(seqs, f, m)
<1> DEFINE last == g[m - 1] \o seqs[m]
           f == [i \in 1 .. m |-> IF i = m THEN last ELSE g[i]]
<1>1. \A i \in 1 .. (m - 1) : g[i] = IF i = 1 THEN seqs[i] ELSE g[i - 1] \o seqs[i]
  BY DEF FlattensTo
<1>2. last = g[m - 1] \o seqs[m]
  OBVIOUS
<1> HIDE DEF last
<1>3. \A i \in 1 .. m : f[i] = IF i = m THEN last ELSE g[i]
  OBVIOUS
<1>4. f = [i \in 1 .. m |-> f[i]]
  OBVIOUS
<1> HIDE DEF f
<1>5. ASSUME NEW i \in 1 .. m
      PROVE  f[i] = IF i = 1 THEN seqs[i] ELSE f[i - 1] \o seqs[i]
  <2>1. CASE i = m
    <3>1. m - 1 \in 1 .. m /\ m - 1 # m /\ i # 1
      BY <2>1
    <3>2. f[i] = last /\ f[m - 1] = g[m - 1]
      BY <1>3, <2>1, <3>1
    <3> QED BY <1>2, <2>1, <3>1, <3>2
  <2>2. CASE i # m
    <3>1. i \in 1 .. (m - 1) /\ f[i] = g[i]
      BY <1>3, <2>2
    <3>2. i # 1 => i - 1 \in 1 .. m /\ i - 1 # m
      BY <2>2
    <3>3. i # 1 => f[i - 1] = g[i - 1]
      BY <1>3, <3>2
    <3> QED BY <1>1, <3>1, <3>3
  <2> QED BY <2>1, <2>2
<1>6. f = [i \in 1 .. m |-> IF i = 1 THEN seqs[i] ELSE f[i - 1] \o seqs[i]]
  BY <1>4, <1>5
<1> QED BY <1>6 DEF FlattensTo

LEMMA FlattenIsDefined ==
    ASSUME NEW S, NEW seqs \in Seq(Seq(S)), Len(seqs) # 0
    PROVE  \E f : /\ f[1] = seqs[1]
                  /\ \A i \in 2 .. Len(seqs) : f[i] = f[i - 1] \o seqs[i]
                  /\ FlattenSeq(seqs) = f[Len(seqs)]
<1> DEFINE n == Len(seqs)
           Broken == {m \in 1 .. n : ~\E f : FlattensTo(seqs, f, m)}
           F == CHOOSE f : FlattensTo(seqs, f, n)
<1>0. n \in Nat \ {0}
  OBVIOUS
<1>1. Broken = {}
  <2>1. SUFFICES ASSUME Broken # {} PROVE FALSE
    OBVIOUS
  <2>2. Broken \subseteq Nat
    OBVIOUS
  <2>3. PICK m \in Broken : \A u \in Broken : m <= u
    <3> HIDE DEF Broken
    <3> QED BY <2>1, <2>2, LeastExists
  <2>4. /\ m \in 1 .. n /\ ~\E f : FlattensTo(seqs, f, m)
        /\ \A u \in 1 .. n : u < m => \E f : FlattensTo(seqs, f, u)
    <3>1. m \in 1 .. n /\ ~\E f : FlattensTo(seqs, f, m)
      OBVIOUS
    <3>2. ASSUME NEW u \in 1 .. n, u < m PROVE \E f : FlattensTo(seqs, f, u)
      <4>1. ~(m <= u)
        BY <3>1, <3>2
      <4>2. u \notin Broken
        BY <2>3, <4>1, Zenon
      <4> QED BY <4>2
    <3> QED BY <3>1, <3>2
  <2> HIDE DEF Broken
  <2>5. CASE m = 1
    BY <2>4, <2>5, FlattenBegins
  <2>6. CASE m # 1
    <3>1. m \in Nat \ {0, 1} /\ m - 1 \in 1 .. n /\ m - 1 < m
      BY <1>0, <2>4, <2>6
    <3>2. PICK g : FlattensTo(seqs, g, m - 1)
      BY <2>4, <3>1
    <3> QED BY <2>4, <3>1, <3>2, FlattenGoesOn
  <2> QED BY <2>5, <2>6
<1>2. FlattensTo(seqs, F, n)
  <2>1. \E f : FlattensTo(seqs, f, n)
    <3>2. \A m \in 1 .. n : m \notin Broken => \E f : FlattensTo(seqs, f, m)
      OBVIOUS
    <3> HIDE DEF Broken, n
    <3>1. n \notin Broken /\ n \in 1 .. n
      BY <1>0, <1>1
    <3> QED BY <3>1, <3>2
  <2> QED BY <2>1
<1>3. FlattenSeq(seqs) = F[n]
  BY DEF FlattenSeq, FlattensTo
<1> HIDE DEF F
<1>4. \A i \in 1 .. n : F[i] = IF i = 1 THEN seqs[i] ELSE F[i - 1] \o seqs[i]
  BY <1>2 DEF FlattensTo
<1>5. F[1] = seqs[1] /\ \A i \in 2 .. n : F[i] = F[i - 1] \o seqs[i]
  <2>1. 1 \in 1 .. n /\ \A i \in 2 .. n : i \in 1 .. n /\ i # 1
    BY <1>0
  <2> HIDE DEF n
  <2> QED BY <1>4, <2>1
<1> QED BY <1>3, <1>5

Among(x, s) == \E i \in 1 .. Len(s) : s[i] = x

LEMMA ElementsOfBoth ==
    ASSUME NEW S, NEW a \in Seq(S), NEW b \in Seq(S)
    PROVE  /\ a \o b \in Seq(S)
           /\ \A x : Among(x, a \o b) <=> (Among(x, a) \/ Among(x, b))
<1> DEFINE c == a \o b
           k == Len(a)
           l == Len(b)
<1>1. /\ c \in Seq(S) /\ Len(c) = k + l /\ k \in Nat /\ l \in Nat
      /\ \A i \in 1 .. k : c[i] = a[i]
      /\ \A i \in 1 .. l : c[i + k] = b[i]
  OBVIOUS
<1>2. ASSUME NEW x PROVE Among(x, a) <=> \E i \in 1 .. k : a[i] = x
  BY DEF Among
<1>3. ASSUME NEW x PROVE Among(x, b) <=> \E i \in 1 .. l : b[i] = x
  BY DEF Among
<1>4. ASSUME NEW x PROVE Among(x, c) <=> \E i \in 1 .. (k + l) : c[i] = x
  BY <1>1 DEF Among
<1> HIDE DEF c, k, l
<1>5. ASSUME NEW x, Among(x, a) PROVE Among(x, c)
  <2>1. PICK i \in 1 .. k : a[i] = x
    BY <1>2, <1>5
  <2>2. i \in 1 .. (k + l) /\ c[i] = x
    BY <1>1, <2>1
  <2> QED BY <1>4, <2>2
<1>6. ASSUME NEW x, Among(x, b) PROVE Among(x, c)
  <2>1. PICK i \in 1 .. l : b[i] = x
    BY <1>3, <1>6
  <2>2. i + k \in 1 .. (k + l) /\ c[i + k] = x
    BY <1>1, <2>1
  <2> QED BY <1>4, <2>2
<1>7. ASSUME NEW x, Among(x, c) PROVE Among(x, a) \/ Among(x, b)
  <2>1. PICK i \in 1 .. (k + l) : c[i] = x
    BY <1>4, <1>7
  <2>2. CASE i \in 1 .. k
    <3>1. a[i] = x
      BY <1>1, <2>1, <2>2
    <3> QED BY <1>2, <2>2, <3>1
  <2>3. CASE i \notin 1 .. k
    <3>1. i - k \in 1 .. l /\ (i - k) + k = i
      BY <1>1, <2>3
    <3>2. b[i - k] = x
      BY <1>1, <2>1, <3>1
    <3> QED BY <1>3, <3>1, <3>2
  <2> QED BY <2>2, <2>3
<1>8. \A x : Among(x, c) <=> (Among(x, a) \/ Among(x, b))
  BY <1>5, <1>6, <1>7
<1> QED BY <1>1, <1>8 DEF c

HasTheFirst(seqs, s, n, S) ==
  s \in Seq(S) /\ \A x : Among(x, s) <=> \E j \in 1 .. n : Among(x, seqs[j])

LEMMA FirstGrow ==
    ASSUME NEW S, NEW seqs, NEW m \in Nat \ {0, 1}, NEW s, HasTheFirst(seqs, s, m - 1, S),
           seqs[m] \in Seq(S)
    PROVE  HasTheFirst(seqs, s \o seqs[m], m, S)
<1> DEFINE t == s \o seqs[m]
<1>1. s \in Seq(S) /\ \A x : Among(x, s) <=> \E j \in 1 .. (m - 1) : Among(x, seqs[j])
  BY DEF HasTheFirst
<1>2. t \in Seq(S) /\ \A x : Among(x, t) <=> (Among(x, s) \/ Among(x, seqs[m]))
  BY <1>1, ElementsOfBoth
<1> HIDE DEF t
<1>3. ASSUME NEW x PROVE Among(x, t) <=> \E j \in 1 .. m : Among(x, seqs[j])
  <2>1. \A j \in 1 .. m : j \in 1 .. (m - 1) \/ j = m
    OBVIOUS
  <2>2. m \in 1 .. m /\ \A j \in 1 .. (m - 1) : j \in 1 .. m
    OBVIOUS
  <2> QED BY <1>1, <1>2, <2>1, <2>2
<1>4. HasTheFirst(seqs, t, m, S)
  BY <1>2, <1>3 DEF HasTheFirst
<1> QED BY <1>4 DEF t

\* A sequence of sequences, flattened, has their elements.
LEMMA FlattenHasTheElements ==
    ASSUME NEW S, NEW seqs \in Seq(Seq(S)), Len(seqs) # 0
    PROVE  HasTheFirst(seqs, FlattenSeq(seqs), Len(seqs), S)
<1> DEFINE n == Len(seqs)
<1>1. n \in Nat \ {0} /\ \A i \in 1 .. n : seqs[i] \in Seq(S)
  OBVIOUS
<1>2. PICK f : /\ f[1] = seqs[1]
               /\ \A i \in 2 .. n : f[i] = f[i - 1] \o seqs[i]
               /\ FlattenSeq(seqs) = f[n]
  BY FlattenIsDefined
<1> HIDE DEF n
<1> DEFINE Broken == {i \in 1 .. n : ~HasTheFirst(seqs, f[i], i, S)}
<1>3. Broken \subseteq Nat /\ \A i \in 1 .. n : i \notin Broken => HasTheFirst(seqs, f[i], i, S)
  OBVIOUS
<1>4. ASSUME NEW m \in Broken, \A u \in Broken : m <= u PROVE FALSE
  <2>1. m \in 1 .. n /\ ~HasTheFirst(seqs, f[m], m, S)
    OBVIOUS
  <2> HIDE DEF Broken
  <2>2. CASE m = 1
    <3>1. 1 \in 1 .. n /\ \A j \in 1 .. 1 : j = 1
      BY <1>1
    <3>2. f[1] \in Seq(S)
      BY <1>1, <1>2, <3>1
    <3>3. \A x : Among(x, f[1]) <=> \E j \in 1 .. 1 : Among(x, seqs[j])
      BY <1>2, <3>1
    <3> QED BY <2>1, <2>2, <3>2, <3>3 DEF HasTheFirst
  <2>3. CASE m # 1
    <3>1. /\ m \in Nat \ {0, 1} /\ m \in 2 .. n /\ m - 1 \in 1 .. n /\ ~(m <= m - 1)
      BY <1>1, <2>1, <2>3
    <3>2. HasTheFirst(seqs, f[m - 1], m - 1, S)
      BY <1>3, <1>4, <3>1
    <3>3. f[m] = f[m - 1] \o seqs[m] /\ seqs[m] \in Seq(S)
      BY <1>1, <1>2, <2>1, <3>1
    <3>4. HasTheFirst(seqs, f[m - 1] \o seqs[m], m, S)
      BY <3>1, <3>2, <3>3, FirstGrow
    <3> QED BY <2>1, <3>3, <3>4
  <2> QED BY <2>2, <2>3
<1>5. HasTheFirst(seqs, f[n], n, S)
  <2> HIDE DEF Broken
  <2>1. Broken = {}
    BY <1>3, <1>4, LeastExists
  <2>2. n \in 1 .. n
    BY <1>1
  <2> QED BY <1>3, <2>1, <2>2
<1> QED BY <1>2, <1>5 DEF n

(***************************************************************************)
(* The fits.  What is kept is the best of all epochs validated so far, the *)
(* first among equals, and it is the whole state that epoch left.          *)
(***************************************************************************)

Losses == [loss : Ranks, choice : Ranks]
Sources == {"raw", "average"}
Epoch == [found : Losses, source : Sources]
Stamps == Seq(Nat \cup {"average"})
States == [weights : Stamps, buffers : Stamps, moments : Stamps, step : Nat]
FitTyped ==
  /\ task \in [engine : Engines, policy : TrainConfig, fit : Nat]
  /\ current \in States
  /\ stored \in [state : States, loss : Nat, choice : Nat, epoch : Nat, source : Sources]
  /\ curve \in [start : {<<>>} \cup (States \X Losses), curve : Seq(Epoch)]
  /\ stale \in Nat
  /\ fitting \in {"ready", "train", "validate", "score", "done", "failed"}
  /\ handed = <<>> \/ \E o \in [weights : Stamps, moments : Stamps, step : Nat] :
                        handed = <<o>>

\* The early stop of an engine that trains its full allowance is never chosen.
PolicyIsTheEngines == task.policy \in PoliciesOf(task.engine)

Fitted == fitting \in {"train", "validate", "score", "done"}
Passed == Len(curve.curve)
FoundAt(e) == IF e = 0 THEN curve.start[2] ELSE curve.curve[e].found
Eligible == {e \in 0..Passed : e > 0 \/ task.policy.initial}

\* The checkpoint: the best candidate so far, or none.
BestIsStored ==
  /\ curve.start \in States \X Losses
  /\ stored.epoch \in 0..Passed
  /\ IF Eligible = {} THEN stored.choice = Worst
     ELSE /\ stored.epoch \in Eligible
          /\ stored.choice = FoundAt(stored.epoch).choice
          /\ stored.loss = FoundAt(stored.epoch).loss
  /\ \A e \in Eligible :
       /\ ~Ahead(FoundAt(e), stored)
       /\ e < stored.epoch => Ahead(stored, FoundAt(e))

\* The state an epoch leaves, and what is kept of it.
LeftBy(s, e) ==
  LET start == curve.start[1]
  IN  /\ s.weights = IF e = 0 THEN start.weights ELSE Stamp(e * Batches)
      /\ s.buffers = IF e = 0 THEN start.buffers ELSE Stamp(e * Batches)
      /\ s.moments = IF e = 0 THEN start.moments ELSE Stamp(e * Batches)
      /\ s.step = start.step + e * Batches
KeptOf(s, e) ==
  LET start == curve.start[1]
  IN  /\ s.weights = Append(Stamp(e * Batches), "average")
      /\ s.buffers = Stamp(e * Batches)
      /\ s.step = start.step + e * Batches
StatesAreOfEpochs ==
  /\ fitting = "train" => LeftBy(current, Passed)
  /\ fitting = "validate" => LeftBy(current, Passed + 1)
  /\ stored.source =
       IF stored.epoch = 0 THEN "raw" ELSE curve.curve[stored.epoch].source
  /\ IF stored.source = "raw" THEN LeftBy(stored.state, stored.epoch)
     ELSE KeptOf(stored.state, stored.epoch)

\* Patience counts the epochs since the checkpoint.
PatienceCounts ==
  /\ Passed <= Epochs /\ stale = Passed - stored.epoch
  /\ fitting \in {"train", "validate"} => Passed < Epochs
  /\ fitting \in {"score", "done"} =>
       /\ Passed > 0
       /\ Passed < Epochs =>
            stale >= Patience /\ Passed >= task.policy.least /\ ~task.policy.full

BestIsHanded ==
  fitting = "done" =>
    /\ current = stored.state
    /\ handed # <<>> =>
         /\ stored.source = "raw"
         /\ handed[1].weights = stored.state.weights
         /\ handed[1].moments = stored.state.moments
         /\ handed[1].step = stored.state.step

FitInv ==
  /\ FitTyped /\ PolicyIsTheEngines
  /\ Fitted => BestIsStored /\ StatesAreOfEpochs /\ PatienceCounts /\ BestIsHanded

LEMMA WorstIsWorst == Worst \in Nat /\ \A r \in Ranks : r < Worst
<1> DEFINE top == CHOOSE r \in Ranks : \A s \in Ranks : s <= r
<1>1. top \in Ranks /\ \A s \in Ranks : s <= top
  BY FitAssumption
<1>2. Worst = 1 + top
  BY DEF Worst
<1> HIDE DEF top
<1> QED BY <1>1, <1>2, FitAssumption

LEMMA PoliciesTyped ==
    ASSUME NEW e \in Engines, NEW p \in PoliciesOf(e)
    PROVE  /\ p \in TrainConfig
           /\ e = "topograph" => p.least = 1
           /\ e = "stratograph" => p.least = 1 /\ ~p.full
           /\ e \in {"prism", "primordia"} => ~p.full
<1>1. e \in {"prism", "topograph", "stratograph", "primordia"}
  BY FitAssumption
<1>2. CASE e = "prism"
  BY <1>2 DEF PoliciesOf, PrismPolicies
<1>3. CASE e = "topograph"
  BY <1>3 DEF PoliciesOf, TopographPolicies, PlainPolicies
<1>4. CASE e = "stratograph"
  BY <1>4 DEF PoliciesOf, StratographPolicies, PlainPolicies
<1>5. CASE e = "primordia"
  BY <1>5 DEF PoliciesOf, PrimordiaPolicies, PlainPolicies
<1> QED BY <1>1, <1>2, <1>3, <1>4, <1>5

LEMMA FreshTyped ==
    <<>> \in Stamps /\ \A n, m \in Nat : <<n, m>> \in Stamps
BY DEF Stamps

LEMMA FitBegins == ASSUME FitInit PROVE FitInv
<1>1. PICK e \in Engines : \E p \in PoliciesOf(e) :
         task = [engine |-> e, policy |-> p, fit |-> 1]
  BY DEF FitInit
<1>2. PICK p \in PoliciesOf(e) : task = [engine |-> e, policy |-> p, fit |-> 1]
  BY <1>1
<1>3. FreshFit \in States
  BY FreshTyped DEF FreshFit, States
<1>4. FitTyped
  <2>1. task \in [engine : Engines, policy : TrainConfig, fit : Nat]
    BY <1>2, PoliciesTyped
  <2>2. stored \in [state : States, loss : Nat, choice : Nat, epoch : Nat, source : Sources]
    BY <1>3, WorstIsWorst DEF FitInit, Sources
  <2>3. curve \in [start : {<<>>} \cup (States \X Losses), curve : Seq(Epoch)]
    BY DEF FitInit, NoLog
  <2> QED BY <1>3, <2>1, <2>2, <2>3 DEF FitInit, FitTyped
<1>5. PolicyIsTheEngines
  BY <1>2 DEF PolicyIsTheEngines
<1>6. ~Fitted
  BY DEF FitInit, Fitted
<1> QED BY <1>4, <1>5, <1>6 DEF FitInv

LEMMA FitFails == ASSUME FitInv, Breaks PROVE FitInv'
<1>1. fitting' = "failed" /\ UNCHANGED <<task, current, stored, curve, stale, handed>>
  BY DEF Breaks, Fail
<1>2. FitTyped' /\ PolicyIsTheEngines'
  BY <1>1 DEF FitInv, FitTyped, PolicyIsTheEngines
<1>3. ~Fitted'
  BY <1>1 DEF Fitted
<1> QED BY <1>2, <1>3 DEF FitInv

LEMMA FitInherits == ASSUME FitInv, Inherit PROVE FitInv'
<1>1. /\ task' = [task EXCEPT !.fit = @ + 1] /\ fitting' = "ready"
      /\ UNCHANGED <<current, stored, curve, stale, handed>>
  BY DEF Inherit
<1>2. /\ task' \in [engine : Engines, policy : TrainConfig, fit : Nat]
      /\ task'.policy = task.policy /\ task'.engine = task.engine
  BY <1>1, SMTT(30) DEF FitInv, FitTyped
<1>3. FitTyped' /\ PolicyIsTheEngines'
  BY <1>1, <1>2 DEF FitInv, FitTyped, PolicyIsTheEngines
<1>4. ~Fitted'
  BY <1>1 DEF Fitted
<1> QED BY <1>3, <1>4 DEF FitInv

\* How epochs, their updates and the order of findings add up.
LEMMA EpochsAddUp ==
    ASSUME NEW m \in Nat, NEW n \in Nat
    PROVE  (m + 1) * n = m * n + n /\ m * n \in Nat /\ 0 * n = 0
OBVIOUS

LEMMA AheadIsAnOrder ==
    ASSUME NEW a, NEW b, NEW c,
           a.choice \in Nat, b.choice \in Nat, c.choice \in Nat,
           a.loss \in Nat, b.loss \in Nat, c.loss \in Nat
    PROVE  /\ ~Ahead(a, a)
           /\ Ahead(a, b) /\ Ahead(b, c) => Ahead(a, c)
           /\ Ahead(a, b) /\ ~Ahead(c, b) => Ahead(a, c)
BY DEF Ahead

LEMMA LossesTyped ==
    ASSUME NEW f \in Losses
    PROVE  f.choice \in Nat /\ f.loss \in Nat /\ f.choice \in Ranks /\ f.loss \in Ranks
BY FitAssumption DEF Losses

LEMMA FindingsTyped == Findings \subseteq Losses
BY DEF Findings, Losses

\* What every step of a fit may start from.
LEMMA FitFacts ==
    ASSUME FitInv, Fitted
    PROVE  /\ Passed \in Nat /\ Batches \in Nat /\ stored.epoch \in 0..Passed
           /\ stored.choice \in Nat /\ stored.loss \in Nat /\ stored.state \in States
           /\ curve.curve \in Seq(Epoch) /\ curve.start \in States \X Losses
           /\ curve.start[1] \in States /\ curve.start[2] \in Losses
           /\ task.policy \in TrainConfig /\ task.engine \in Engines
           /\ \A e \in 0..Passed : FoundAt(e) \in Losses
<1>1. /\ Passed \in Nat /\ curve.curve \in Seq(Epoch)
      /\ stored.choice \in Nat /\ stored.loss \in Nat /\ stored.state \in States
      /\ task.policy \in TrainConfig /\ task.engine \in Engines
  BY DEF FitInv, FitTyped, Passed
<1>2. /\ curve.start \in States \X Losses /\ stored.epoch \in 0..Passed
      /\ curve.start[1] \in States /\ curve.start[2] \in Losses
  BY DEF FitInv, BestIsStored
<1>3. \A e \in 0..Passed : FoundAt(e) \in Losses
  <2> TAKE e \in 0..Passed
  <2>1. CASE e = 0
    BY <1>2, <2>1 DEF FoundAt
  <2>2. CASE e # 0
    <3>1. e \in 1..Len(curve.curve)
      BY <1>1, <2>2 DEF Passed
    <3>2. curve.curve[e] \in Epoch
      BY <1>1, <3>1
    <3> QED BY <2>2, <3>2 DEF FoundAt, Epoch
  <2> QED BY <2>1, <2>2
<1> QED BY <1>1, <1>2, <1>3, FitAssumption

LEMMA FitStarts ==
    ASSUME FitInv, NEW found \in Findings, StartFit(found)
    PROVE  FitInv'
<1>1. current \in States /\ task.policy \in TrainConfig /\ handed # <<>> =>
         handed[1] \in [weights : Stamps, moments : Stamps, step : Nat]
  BY DEF FitInv, FitTyped
<1>2. current' \in States
  <2>1. CASE task.policy.resume /\ handed # <<>>
    <3> DEFINE m == handed[1].moments
               s == handed[1].step
               c == [current EXCEPT !.moments = m]
    <3>1. current' = [c EXCEPT !.step = s]
      BY <2>1 DEF StartFit
    <3>2. m \in Stamps /\ s \in Nat
      BY <2>1 DEF FitInv, FitTyped
    <3> HIDE DEF m, s
    <3>3. c \in States
      BY <3>2 DEF FitInv, FitTyped, States
    <3> HIDE DEF c
    <3> QED BY <3>1, <3>2, <3>3 DEF States
  <2>2. CASE ~(task.policy.resume /\ handed # <<>>)
    <3> DEFINE c == [current EXCEPT !.moments = <<>>]
    <3>1. current' = [c EXCEPT !.step = 0]
      BY <2>2 DEF StartFit
    <3>2. c \in States
      BY FreshTyped DEF FitInv, FitTyped, States
    <3> HIDE DEF c
    <3> QED BY <3>1, <3>2 DEF States
  <2> QED BY <2>1, <2>2
<1>3. found \in Losses /\ found.choice \in Nat /\ found.loss \in Nat
  BY FindingsTyped, LossesTyped
<1> DEFINE loss == IF task.policy.initial THEN found.loss ELSE Worst
           choice == IF task.policy.initial THEN found.choice ELSE Worst
<1>4. /\ stored' = [state |-> current', epoch |-> 0, source |-> "raw", loss |-> loss,
                    choice |-> choice]
      /\ loss \in Nat /\ choice \in Nat
      /\ task.policy.initial => loss = found.loss /\ choice = found.choice
      /\ ~task.policy.initial => choice = Worst
  BY <1>3, WorstIsWorst DEF StartFit
<1> HIDE DEF loss, choice
<1>5. /\ stored'.state = current' /\ stored'.epoch = 0 /\ stored'.source = "raw"
      /\ stored'.loss = loss /\ stored'.choice = choice
      /\ stored' \in [state : States, loss : Nat, choice : Nat, epoch : Nat, source : Sources]
  BY <1>2, <1>4 DEF Sources
<1>6. /\ curve' = [start |-> <<current', found>>, curve |-> <<>>]
      /\ stale' = 0 /\ fitting' = "train" /\ handed' = <<>> /\ task' = task
  BY DEF StartFit
<1>7. /\ curve'.start = <<current', found>> /\ curve'.curve = <<>>
      /\ curve' \in [start : {<<>>} \cup (States \X Losses), curve : Seq(Epoch)]
      /\ curve'.start \in States \X Losses
      /\ curve'.start[1] = current' /\ curve'.start[2] = found
  BY <1>2, <1>3, <1>6
<1>8. Passed' = 0 /\ FoundAt(0)' = found
  BY <1>7 DEF Passed, FoundAt
<1>9. FitTyped'
  BY <1>2, <1>5, <1>6, <1>7 DEF FitInv, FitTyped
<1>10. PolicyIsTheEngines'
  BY <1>6 DEF FitInv, PolicyIsTheEngines
<1>11. BestIsStored'
  <2>1. Eligible' = IF task.policy.initial THEN {0} ELSE {}
    BY <1>6, <1>8 DEF Eligible
  <2>2. task.policy.initial => ~Ahead(found, stored')
    BY <1>3, <1>4, <1>5 DEF Ahead
  <2>3. \A a, b : Ahead(a, b)' <=> Ahead(a', b')
    BY <1>6 DEF Ahead
  <2>4. \A e \in Eligible' : e = 0 /\ task.policy.initial
    BY <2>1
  <2>5. \A e \in Eligible' : ~Ahead(FoundAt(e), stored)'
    BY <1>6, <1>8, <2>2, <2>4 DEF Ahead
  <2>6. IF Eligible' = {} THEN stored'.choice = Worst
        ELSE /\ stored'.epoch \in Eligible'
             /\ stored'.choice = FoundAt(stored.epoch)'.choice
             /\ stored'.loss = FoundAt(stored.epoch)'.loss
    BY <1>4, <1>5, <1>6, <1>7, <1>8, <2>1 DEF FoundAt
  <2> QED BY <1>5, <1>7, <1>8, <2>4, <2>5, <2>6 DEF BestIsStored, Worst
<1>12. StatesAreOfEpochs'
  <2>1. current'.step = current'.step + 0 * Batches
    BY <1>2, FitAssumption DEF States
  <2> QED BY <1>5, <1>6, <1>7, <1>8, <2>1 DEF StatesAreOfEpochs, LeftBy
<1>13. PatienceCounts'
  BY <1>5, <1>6, <1>8, FitAssumption DEF PatienceCounts
<1>14. BestIsHanded'
  BY <1>6 DEF BestIsHanded
<1> QED BY <1>9, <1>10, <1>11, <1>12, <1>13, <1>14 DEF FitInv

\* The best so far and its patience depend on no more than these.
LEMMA BestRests ==
    ASSUME BestIsStored, UNCHANGED <<task, stored, curve>>
    PROVE  BestIsStored'
BY DEF BestIsStored, Passed, Eligible, FoundAt, Ahead, Worst

LEMMA FitTrains == ASSUME FitInv, TrainEpoch PROVE FitInv'
<1>1. /\ fitting = "train" /\ fitting' = "validate"
      /\ current' = [weights |-> Stamp(Updates), buffers |-> Stamp(Updates),
                     moments |-> Stamp(Updates), step |-> current.step + Batches]
      /\ UNCHANGED <<task, stored, curve, stale, handed>>
  BY DEF TrainEpoch
<1>2. Fitted
  BY <1>1 DEF Fitted
<1>3. /\ Passed \in Nat /\ Batches \in Nat /\ current.step \in Nat /\ task.fit \in Nat
      /\ curve.start[1] \in States /\ curve.start[1].step \in Nat
  BY <1>2, FitFacts DEF FitInv, FitTyped, States
<1>4. Updates = (Passed + 1) * Batches /\ Updates \in Nat
  BY <1>3, EpochsAddUp DEF Updates, Passed
<1> DEFINE stamp == Stamp(Updates)
<1>5. stamp \in Stamps
  BY <1>3, <1>4, FreshTyped DEF Stamp
<1>6. stamp = Stamp((Passed + 1) * Batches)
  BY <1>4
<1> HIDE DEF stamp
<1>7. /\ current'.weights = stamp /\ current'.buffers = stamp /\ current'.moments = stamp
      /\ current'.step = current.step + Batches /\ current' \in States
  BY <1>1, <1>3, <1>5, FitAssumption DEF States, stamp
<1>8. FitTyped' /\ PolicyIsTheEngines'
  BY <1>1, <1>7 DEF FitInv, FitTyped, PolicyIsTheEngines
<1>9. BestIsStored'
  BY <1>1, <1>2, BestRests DEF FitInv
<1>10. StatesAreOfEpochs'
  <2>1. current.step = curve.start[1].step + Passed * Batches
    BY <1>1, <1>2 DEF FitInv, StatesAreOfEpochs, LeftBy
  <2>2. current'.step = curve.start[1].step + (Passed + 1) * Batches
    <3> DEFINE a == Passed * Batches
               b == (Passed + 1) * Batches
    <3>1. b = a + Batches /\ a \in Nat
      BY <1>3, EpochsAddUp
    <3>2. current.step = curve.start[1].step + a
      BY <2>1
    <3> HIDE DEF a, b
    <3>3. current'.step = curve.start[1].step + b
      BY <1>3, <1>7, <3>1, <3>2
    <3> QED BY <3>3 DEF b
  <2>3. Passed + 1 # 0
    BY <1>3
  <2>4. LeftBy(current, Passed + 1)'
    BY <1>1, <1>6, <1>7, <2>2, <2>3 DEF LeftBy, Stamp, Passed
  <2>5. fitting' # "train"
    BY <1>1
  <2>6. /\ stored.source =
             IF stored.epoch = 0 THEN "raw" ELSE curve.curve[stored.epoch].source
        /\ IF stored.source = "raw" THEN LeftBy(stored.state, stored.epoch)
           ELSE KeptOf(stored.state, stored.epoch)
    BY <1>2 DEF FitInv, StatesAreOfEpochs
  <2>7. /\ stored'.source =
             IF stored'.epoch = 0 THEN "raw" ELSE curve'.curve[stored'.epoch].source
        /\ IF stored'.source = "raw" THEN LeftBy(stored.state, stored.epoch)'
           ELSE KeptOf(stored.state, stored.epoch)'
    BY <1>1, <2>6 DEF LeftBy, KeptOf, Stamp
  <2> QED BY <2>4, <2>5, <2>7 DEF StatesAreOfEpochs
<1>11. PatienceCounts'
  BY <1>1, <1>2 DEF FitInv, PatienceCounts, Passed
<1>12. BestIsHanded'
  BY <1>1 DEF BestIsHanded
<1> QED BY <1>8, <1>9, <1>10, <1>11, <1>12 DEF FitInv

LEMMA FitScores == ASSUME FitInv, Score PROVE FitInv'
<1>1. /\ fitting = "score" /\ fitting' = "done" /\ current' = stored.state
      /\ UNCHANGED <<task, stored, curve, stale>>
      /\ handed' = IF task.policy.resume /\ stored.source = "raw"
               THEN <<[weights |-> stored.state.weights, moments |-> stored.state.moments,
                       step |-> stored.state.step]>>
               ELSE <<>>
  BY DEF Score, BestRestored
<1>2. Fitted
  BY <1>1 DEF Fitted
<1>3. stored.state \in States
  BY <1>2, FitFacts
<1>4. handed' = <<>> \/ \E o \in [weights : Stamps, moments : Stamps, step : Nat] :
                          handed' = <<o>>
  BY <1>1, <1>3 DEF States
<1>5. FitTyped' /\ PolicyIsTheEngines'
  BY <1>1, <1>3, <1>4 DEF FitInv, FitTyped, PolicyIsTheEngines
<1>6. BestIsStored'
  BY <1>1, <1>2, BestRests DEF FitInv
<1>7. StatesAreOfEpochs'
  <2>1. /\ stored.source =
             IF stored.epoch = 0 THEN "raw" ELSE curve.curve[stored.epoch].source
        /\ IF stored.source = "raw" THEN LeftBy(stored.state, stored.epoch)
           ELSE KeptOf(stored.state, stored.epoch)
    BY <1>2 DEF FitInv, StatesAreOfEpochs
  <2>2. /\ stored'.source =
             IF stored'.epoch = 0 THEN "raw" ELSE curve'.curve[stored'.epoch].source
        /\ IF stored'.source = "raw" THEN LeftBy(stored.state, stored.epoch)'
           ELSE KeptOf(stored.state, stored.epoch)'
    BY <1>1, <2>1 DEF LeftBy, KeptOf, Stamp
  <2>3. fitting' = "done"
    BY <1>1
  <2> QED BY <2>2, <2>3 DEF StatesAreOfEpochs
<1>8. PatienceCounts'
  BY <1>1, <1>2 DEF FitInv, PatienceCounts, Passed
<1>9. BestIsHanded'
  BY <1>1 DEF BestIsHanded
<1> QED BY <1>5, <1>6, <1>7, <1>8, <1>9 DEF FitInv

LEMMA SelectedTyped ==
    ASSUME NEW raw \in Losses, NEW average \in Losses
    PROVE  Selected(raw, average) \in Epoch
BY DEF Selected, Epoch, Sources

\* The checkpoint of an epoch just trained.
LEMMA KeptTyped ==
    ASSUME FitInv, fitting = "validate", NEW chosen \in Epoch
    PROVE  /\ Kept(chosen) \in States
           /\ chosen.source = "raw" => LeftBy(Kept(chosen), Passed + 1)
           /\ chosen.source # "raw" => KeptOf(Kept(chosen), Passed + 1)
<1>1. Fitted
  BY DEF Fitted
<1>2. /\ LeftBy(current, Passed + 1) /\ Passed + 1 # 0
      /\ current \in States /\ stored.state \in States
  BY <1>1, FitFacts DEF FitInv, FitTyped, StatesAreOfEpochs
<1>3. CASE chosen.source = "raw"
  BY <1>2, <1>3 DEF Kept
<1>4. CASE chosen.source # "raw"
  <2> DEFINE w == Append(current.weights, "average")
             m == stored.state.moments
             c == [current EXCEPT !.weights = w]
  <2>1. Kept(chosen) = [c EXCEPT !.moments = m]
    BY <1>4 DEF Kept
  <2>2. w \in Stamps /\ m \in Stamps
    BY <1>2 DEF States, Stamps
  <2>3. w = Append(Stamp((Passed + 1) * Batches), "average")
    BY <1>2 DEF LeftBy
  <2> HIDE DEF w, m
  <2>4. /\ c \in States /\ c.weights = w /\ c.buffers = current.buffers
        /\ c.step = current.step
    BY <1>2, <2>2 DEF States
  <2> HIDE DEF c
  <2>5. /\ Kept(chosen) \in States /\ Kept(chosen).weights = w
        /\ Kept(chosen).buffers = current.buffers /\ Kept(chosen).step = current.step
    BY <2>1, <2>2, <2>4 DEF States
  <2> QED BY <1>2, <1>4, <2>3, <2>5 DEF LeftBy, KeptOf
<1> QED BY <1>3, <1>4

LEMMA FitValidates ==
    ASSUME FitInv, NEW raw \in Findings, NEW average \in Findings, Validate(raw, average)
    PROVE  FitInv'
<1> DEFINE chosen == Selected(raw, average)
           better == Ahead(chosen.found, stored)
           kept == Kept(chosen)
           loss == chosen.found.loss
           choice == chosen.found.choice
           source == chosen.source
<1>1. /\ chosen \in Epoch /\ chosen.found \in Losses /\ source \in Sources
      /\ choice \in Nat /\ loss \in Nat /\ choice \in Ranks
  <2>1. chosen \in Epoch
    BY FindingsTyped, SelectedTyped
  <2>2. chosen.found \in Losses /\ source \in Sources
    BY <2>1 DEF Epoch
  <2> QED BY <2>1, <2>2, LossesTyped
<1>2. /\ fitting = "validate" /\ UNCHANGED <<task, current, handed>>
      /\ curve' = [curve EXCEPT !.curve = Append(@, chosen)]
      /\ better => stored' = [state |-> kept, loss |-> loss, choice |-> choice,
                              epoch |-> Passed + 1, source |-> source]
      /\ ~better => stored' = stored
      /\ stale' = IF better THEN 0 ELSE stale + 1
      /\ fitting' = IF \/ Passed + 1 = Epochs
                       \/ ~better /\ StopsNow(stale', Passed + 1)
                    THEN "score" ELSE "train"
  BY DEF Validate, Passed
<1>3. Fitted
  BY <1>2 DEF Fitted
<1>4. /\ kept \in States
      /\ source = "raw" => LeftBy(kept, Passed + 1)
      /\ source # "raw" => KeptOf(kept, Passed + 1)
  BY <1>1, <1>2, KeptTyped
<1>5. /\ Passed \in Nat /\ stored.epoch \in 0..Passed
      /\ stored.choice \in Nat /\ stored.loss \in Nat
      /\ curve.curve \in Seq(Epoch) /\ curve.start \in States \X Losses
      /\ curve.start[1] \in States /\ curve.start[2] \in Losses
      /\ \A e \in 0..Passed : FoundAt(e) \in Losses
  BY <1>3, FitFacts
<1>6. better \in BOOLEAN
  BY DEF Ahead
<1>7. /\ better = Ahead(chosen.found, stored)
      /\ chosen.found.choice = choice /\ chosen.found.loss = loss
  OBVIOUS
<1> HIDE DEF kept, loss, choice, source, better, chosen
<1> DEFINE h == Append(curve.curve, chosen)
<1>8. /\ h \in Seq(Epoch) /\ Len(h) = Passed + 1 /\ h[Passed + 1] = chosen
      /\ \A e \in 1..Passed : h[e] = curve.curve[e]
  BY <1>1, <1>5 DEF Passed
<1>9. curve' = [curve EXCEPT !.curve = h]
  BY <1>2
<1> HIDE DEF h
<1>10. /\ curve'.start = curve.start /\ curve'.curve = h
       /\ curve' \in [start : {<<>>} \cup (States \X Losses), curve : Seq(Epoch)]
  BY <1>8, <1>9 DEF FitInv, FitTyped
<1>11. Passed' = Passed + 1
  BY <1>8, <1>10 DEF Passed
<1> DEFINE Seen(e) == IF e = 0 THEN curve'.start[2] ELSE curve'.curve[e].found
<1>12. /\ \A e \in 0..Passed : Seen(e) = FoundAt(e)
       /\ Seen(Passed + 1) = chosen.found
       /\ \A e : FoundAt(e)' = Seen(e)
       /\ FoundAt(stored.epoch)' = Seen(stored'.epoch)
  <2>1. Seen(Passed + 1) = chosen.found
    BY <1>5, <1>8, <1>10
  <2>2. \A e \in 0..Passed : e = 0 \/ e \in 1..Passed
    BY <1>5
  <2>3. \A e \in 0..Passed : Seen(e) = FoundAt(e)
    BY <1>8, <1>10, <2>2 DEF FoundAt
  <2>4. (\A e : FoundAt(e)' = Seen(e)) /\ FoundAt(stored.epoch)' = Seen(stored'.epoch)
    BY DEF FoundAt
  <2> QED BY <2>1, <2>3, <2>4
<1> HIDE DEF Seen
<1>13. /\ better => /\ stored'.state = kept /\ stored'.loss = loss
                    /\ stored'.choice = choice /\ stored'.epoch = Passed + 1
                    /\ stored'.source = source
       /\ stored' \in [state : States, loss : Nat, choice : Nat, epoch : Nat,
                       source : Sources]
  <2>1. CASE better
    BY <1>1, <1>2, <1>4, <1>5, <2>1
  <2>2. CASE ~better
    BY <1>2, <2>2 DEF FitInv, FitTyped
  <2> QED BY <2>1, <2>2
<1>14. FitTyped' /\ PolicyIsTheEngines'
  <2>1. stale' \in Nat
    BY <1>2 DEF FitInv, FitTyped
  <2>2. fitting' \in {"score", "train"}
    BY <1>2
  <2>3. /\ task' \in [engine : Engines, policy : TrainConfig, fit : Nat]
        /\ current' \in States
        /\ handed' = <<>> \/ \E o \in [weights : Stamps, moments : Stamps, step : Nat] :
                               handed' = <<o>>
    BY <1>2 DEF FitInv, FitTyped
  <2>4. PolicyIsTheEngines'
    BY <1>2 DEF FitInv, PolicyIsTheEngines
  <2> QED BY <1>10, <1>13, <2>1, <2>2, <2>3, <2>4 DEF FitTyped
<1>15. BestIsStored'
  <2>1. /\ Eligible' = Eligible \cup {Passed + 1}
        /\ Eligible \subseteq 0..Passed
    BY <1>2, <1>5, <1>11 DEF Eligible
  <2>2. BestIsStored
    BY <1>3 DEF FitInv
  <2>3. \A e \in 0..Passed : FoundAt(e).choice \in Nat /\ FoundAt(e).loss \in Nat
    BY <1>5, LossesTyped
  <2>4. /\ \A e \in Eligible' :
             /\ ~Ahead(Seen(e), stored')
             /\ e < stored'.epoch => Ahead(stored', Seen(e))
        /\ stored'.epoch \in Eligible'
        /\ stored'.choice = Seen(stored'.epoch).choice
        /\ stored'.loss = Seen(stored'.epoch).loss
    <3>1. CASE better
      <4>1. Ahead(stored', stored)
        BY <1>7, <1>13, <3>1 DEF Ahead
      <4>2. /\ stored'.choice = choice /\ stored'.loss = loss
            /\ stored'.epoch = Passed + 1
        BY <1>13, <3>1
      <4>3. ASSUME NEW e \in Eligible
            PROVE  ~Ahead(Seen(e), stored') /\ Ahead(stored', Seen(e))
        <5>1. /\ e \in 0..Passed /\ Seen(e) = FoundAt(e) /\ ~Ahead(FoundAt(e), stored)
              /\ FoundAt(e).choice \in Nat /\ FoundAt(e).loss \in Nat
          BY <1>12, <2>1, <2>2, <2>3 DEF BestIsStored
        <5>2. stored'.choice \in Nat /\ stored'.loss \in Nat
          BY <1>1, <4>2
        <5>3. Ahead(FoundAt(e), stored') => Ahead(FoundAt(e), stored)
          BY <1>5, <4>1, <5>1, <5>2, AheadIsAnOrder
        <5>4. Ahead(stored', FoundAt(e))
          BY <1>5, <4>1, <5>1, <5>2, AheadIsAnOrder
        <5> QED BY <5>1, <5>3, <5>4
      <4>4. ~Ahead(chosen.found, stored')
        BY <1>1, <1>7, <4>2 DEF Ahead
      <4>5. Passed + 1 \in Eligible' /\ ~(Passed + 1 < Passed + 1)
        BY <1>5, <2>1
      <4> QED BY <1>7, <1>12, <2>1, <4>2, <4>3, <4>4, <4>5
    <3>2. CASE ~better
      <4>1. stored' = stored
        BY <1>2, <3>2
      <4>2. Eligible # {}
        <5>1. choice < Worst /\ Worst \in Nat
          BY <1>1, WorstIsWorst
        <5>2. stored.choice # Worst
          BY <1>7, <3>2, <5>1 DEF Ahead
        <5> QED BY <2>2, <5>2 DEF BestIsStored
      <4>3. /\ stored.epoch \in Eligible
            /\ stored.choice = FoundAt(stored.epoch).choice
            /\ stored.loss = FoundAt(stored.epoch).loss
            /\ \A e \in Eligible :
                 /\ ~Ahead(FoundAt(e), stored)
                 /\ e < stored.epoch => Ahead(stored, FoundAt(e))
        BY <2>2, <4>2 DEF BestIsStored
      <4>4. ~Ahead(chosen.found, stored) /\ ~(Passed + 1 < stored.epoch)
        BY <1>5, <1>7, <3>2
      <4> QED BY <1>12, <2>1, <4>1, <4>3, <4>4
    <3> QED BY <3>1, <3>2, <1>6
  <2>5. stored'.epoch \in 0..Passed'
    <3>1. stored'.epoch \in 0..Passed \/ stored'.epoch = Passed + 1
      BY <2>1, <2>4
    <3> QED BY <1>5, <1>11, <3>1
  <2>6. curve'.start \in States \X Losses /\ Eligible' # {}
    BY <1>5, <1>10, <2>1
  <2>7. \A e \in Eligible' :
          /\ ~Ahead(FoundAt(e), stored)'
          /\ e < stored'.epoch => Ahead(stored, FoundAt(e))'
    BY <1>2, <1>12, <2>4 DEF Ahead
  <2>8. /\ stored'.epoch \in Eligible'
        /\ stored'.choice = FoundAt(stored.epoch)'.choice
        /\ stored'.loss = FoundAt(stored.epoch)'.loss
    BY <1>12, <2>4
  <2> QED BY <2>5, <2>6, <2>7, <2>8 DEF BestIsStored
<1>16. StatesAreOfEpochs'
  <2>1. fitting' # "validate"
    BY <1>2
  <2>2. LeftBy(current, Passed)'
    <3>1. LeftBy(current, Passed + 1)
      BY <1>2, <1>3 DEF FitInv, StatesAreOfEpochs
    <3> QED BY <1>2, <1>10, <1>11, <3>1 DEF LeftBy, Stamp
  <2>3. CASE better
    <3>1. /\ stored'.state = kept /\ stored'.epoch = Passed + 1
          /\ stored'.source = source /\ Passed + 1 # 0
      BY <1>5, <1>13, <2>3
    <3>2. curve'.curve[stored'.epoch].source = source
      BY <1>8, <1>10, <3>1 DEF source
    <3>3. IF stored'.source = "raw" THEN LeftBy(stored.state, stored.epoch)'
          ELSE KeptOf(stored.state, stored.epoch)'
      BY <1>2, <1>4, <1>10, <3>1 DEF LeftBy, KeptOf, Stamp
    <3> QED BY <2>1, <2>2, <3>1, <3>2, <3>3 DEF StatesAreOfEpochs
  <2>4. CASE ~better
    <3>1. stored' = stored
      BY <1>2, <2>4
    <3>2. stored.epoch = 0 \/ stored.epoch \in 1..Passed
      BY <1>5
    <3>3. /\ stored.source =
               IF stored.epoch = 0 THEN "raw" ELSE curve.curve[stored.epoch].source
          /\ IF stored.source = "raw" THEN LeftBy(stored.state, stored.epoch)
             ELSE KeptOf(stored.state, stored.epoch)
      BY <1>3 DEF FitInv, StatesAreOfEpochs
    <3>4. stored'.source =
            IF stored'.epoch = 0 THEN "raw" ELSE curve'.curve[stored'.epoch].source
      BY <1>8, <1>10, <3>1, <3>2, <3>3
    <3>5. IF stored'.source = "raw" THEN LeftBy(stored.state, stored.epoch)'
          ELSE KeptOf(stored.state, stored.epoch)'
      BY <1>2, <1>10, <3>1, <3>3 DEF LeftBy, KeptOf, Stamp
    <3> QED BY <2>1, <2>2, <3>4, <3>5 DEF StatesAreOfEpochs
  <2> QED BY <2>3, <2>4, <1>6
<1>17. PatienceCounts'
  <2>1. /\ Passed < Epochs /\ stale = Passed - stored.epoch /\ Epochs \in Nat
        /\ Patience \in Nat
    BY <1>2, <1>3, FitAssumption DEF FitInv, PatienceCounts
  <2>2. stale' = (Passed + 1) - stored'.epoch
    <3>1. CASE better
      BY <1>2, <1>5, <1>13, <3>1
    <3>2. CASE ~better
      BY <1>2, <1>5, <2>1, <3>2, SMTT(30)
    <3> QED BY <3>1, <3>2, <1>6
  <2>3. fitting' = "train" => Passed + 1 < Epochs
    BY <1>2, <1>5, <2>1
  <2>4. StopsNow(stale', Passed + 1) =>
          stale' >= Patience /\ Passed + 1 >= task.policy.least /\ ~task.policy.full
    <3>1. /\ task.engine \in Engines /\ task.policy \in PoliciesOf(task.engine)
      BY DEF FitInv, FitTyped, PolicyIsTheEngines
    <3>2. task.engine \in {"prism", "topograph", "stratograph", "primordia"}
      BY <3>1, FitAssumption
    <3>3. /\ task.engine = "topograph" => task.policy.least = 1
          /\ task.engine = "stratograph" => task.policy.least = 1 /\ ~task.policy.full
          /\ task.engine \in {"prism", "primordia"} => ~task.policy.full
      BY <3>1, PoliciesTyped
    <3>4. CASE task.engine = "prism"
      BY <3>3, <3>4 DEF StopsNow, PrismStops
    <3>5. CASE task.engine = "topograph"
      BY <1>5, <3>3, <3>5 DEF StopsNow, TopographStops
    <3>6. CASE task.engine = "stratograph"
      BY <1>5, <3>3, <3>6 DEF StopsNow, StratographStops
    <3>7. CASE task.engine = "primordia"
      BY <3>3, <3>7 DEF StopsNow, PrimordiaStops
    <3> QED BY <3>2, <3>4, <3>5, <3>6, <3>7
  <2>5. /\ fitting' \in {"train", "validate"} => Passed' < Epochs
        /\ fitting' \in {"score", "done"} =>
             /\ Passed' > 0
             /\ Passed' < Epochs =>
                  stale' >= Patience /\ Passed' >= task'.policy.least /\ ~task'.policy.full
    BY <1>2, <1>5, <1>11, <2>1, <2>3, <2>4
  <2> QED BY <1>5, <1>11, <2>1, <2>2, <2>5 DEF PatienceCounts
<1>18. BestIsHanded'
  BY <1>2 DEF BestIsHanded
<1> QED BY <1>14, <1>15, <1>16, <1>17, <1>18 DEF FitInv

LEMMA FitKept == ASSUME FitInv, [FitNext]_fitVars PROVE FitInv'
<1>1. CASE UNCHANGED fitVars
  <2>1. UNCHANGED <<task, current, stored, curve, stale, fitting, handed>>
    BY <1>1 DEF fitVars
  <2>2. FitTyped' /\ PolicyIsTheEngines'
    BY <2>1 DEF FitInv, FitTyped, PolicyIsTheEngines
  <2>3. ASSUME Fitted' PROVE BestIsStored' /\ StatesAreOfEpochs' /\ PatienceCounts' /\ BestIsHanded'
    <3>1. Fitted
      BY <2>1, <2>3 DEF Fitted
    <3>2. BestIsStored'
      BY <2>1, <3>1, BestRests DEF FitInv
    <3>3. StatesAreOfEpochs'
      BY <2>1, <3>1 DEF FitInv, StatesAreOfEpochs, LeftBy, KeptOf, Stamp, Passed
    <3>4. PatienceCounts' /\ BestIsHanded'
      BY <2>1, <3>1 DEF FitInv, PatienceCounts, BestIsHanded, Passed
    <3> QED BY <3>2, <3>3, <3>4
  <2> QED BY <2>2, <2>3 DEF FitInv
<1> QED BY <1>1, FitFails, FitTrains, FitScores, FitInherits, FitStarts, FitValidates
        DEF FitNext

LEMMA HeldBest == ASSUME FitInv PROVE BestEpochIsReturned
<1> SUFFICES ASSUME fitting = "done" PROVE BestEpochIsReturned
  BY DEF BestEpochIsReturned
<1>1. Fitted
  BY DEF Fitted
<1>2. BestIsStored /\ StatesAreOfEpochs /\ PatienceCounts /\ BestIsHanded
  BY <1>1 DEF FitInv
<1>3. /\ Passed \in Nat /\ stored.epoch \in 0..Passed /\ Passed = Len(curve.curve)
      /\ Patience \in Nat
  BY <1>1, FitFacts, FitAssumption DEF Passed
<1> DEFINE found(e) == IF e = 0 THEN curve.start[2] ELSE curve.curve[e].found
           pool == {e \in 0..Len(curve.curve) : e > 0 \/ task.policy.initial}
           at == stored.epoch
           start == curve.start[1]
           stamp == IF at = 0 THEN start.weights ELSE Stamp(at * Batches)
<1>4. pool = Eligible /\ \A e : found(e) = FoundAt(e)
  BY DEF Eligible, Passed, FoundAt
<1>5. Eligible # {}
  <2>1. Passed \in Eligible
    BY <1>2, <1>3 DEF PatienceCounts, Eligible
  <2> QED BY <2>1
<1>6. /\ at \in pool
      /\ \A e \in pool : ~Ahead(found(e), stored) /\ (e < at => Ahead(stored, found(e)))
  BY <1>2, <1>4, <1>5 DEF BestIsStored
<1>7. stored.source = "raw" <=> ~(at > 0 /\ curve.curve[at].source = "average")
  <2>1. stored.source \in Sources
    BY DEF FitInv, FitTyped
  <2>2. stored.source = IF at = 0 THEN "raw" ELSE curve.curve[at].source
    BY <1>2 DEF StatesAreOfEpochs
  <2> QED BY <1>3, <2>1, <2>2 DEF Sources
<1>8. /\ current.weights = IF at > 0 /\ curve.curve[at].source = "average"
                         THEN Append(stamp, "average") ELSE stamp
      /\ current.buffers = IF at = 0 THEN start.buffers ELSE stamp
  <2>1. CASE stored.source = "raw"
    <3>1. LeftBy(stored.state, at) /\ current = stored.state
      BY <1>2, <2>1 DEF StatesAreOfEpochs, BestIsHanded
    <3> QED BY <1>7, <2>1, <3>1 DEF LeftBy
  <2>2. CASE stored.source # "raw"
    <3>1. KeptOf(stored.state, at) /\ current = stored.state /\ at # 0
      BY <1>2, <1>3, <1>7, <2>2 DEF StatesAreOfEpochs, BestIsHanded
    <3> QED BY <1>7, <2>2, <3>1 DEF KeptOf
  <2> QED BY <2>1, <2>2
<1>9. handed # <<>> =>
            /\ handed[1].weights = current.weights
            /\ handed[1].moments = IF at = 0 THEN start.moments ELSE stamp
            /\ handed[1].step = start.step + at * Batches
  BY <1>2 DEF StatesAreOfEpochs, BestIsHanded, LeftBy
<1>10. Len(curve.curve) < Epochs =>
            /\ Len(curve.curve) >= task.policy.least /\ ~task.policy.full
            /\ Len(curve.curve) - at >= Patience
  BY <1>2, <1>3 DEF PatienceCounts
<1> QED BY <1>6, <1>8, <1>9, <1>10 DEF BestEpochIsReturned

\* BestEpochIsReturned for every allowance, patience, number of minibatches and
\* range of losses: a finished fit is its best epoch, whole, with the optimizer of
\* just those weights.
THEOREM BestAlwaysReturned == FitSpec => []BestEpochIsReturned
<1>1. FitInit => FitInv
  BY FitBegins
<1>2. FitInv /\ [FitNext]_fitVars => FitInv'
  BY FitKept
<1>3. FitInv => BestEpochIsReturned
  BY HeldBest
<1> QED BY <1>1, <1>2, <1>3, PTL DEF FitSpec

(***************************************************************************)
(* The JEPA pilot.  A case is charged before its fit begins, whatever is   *)
(* before it in the matrix was accepted before, and a receipt that is not  *)
(* that of the case at hand never changes.                                 *)
(***************************************************************************)

Receipts == {"none", "running", "ok", "failed"}
RunnerSteps == {"off", "look", "made", "charged", "working", "accepted"}

PilotBooks ==
  /\ DOMAIN jobs = DOMAIN Matrix
  /\ \A c \in DOMAIN jobs :
       {"made", "receipt", "accepts", "weights", "embeddings", "result"} \subseteq DOMAIN jobs[c]
  /\ runner \in [step : RunnerSteps, at : Nat]
  /\ fitted \in Seq(Nat)

\* All cases before the one at hand are accepted.
BehindIsAccepted ==
  runner.step # "off" =>
    /\ runner.at > 0
    /\ \A c \in 1 .. (runner.at - 1) : c \in DOMAIN jobs /\ jobs[c].receipt = "ok"

\* The case at hand, by what the session does with it.
AtHand ==
  runner.step \in {"made", "charged", "working", "accepted"} =>
    /\ runner.at \in DOMAIN jobs
    /\ jobs[runner.at].receipt =
         CASE runner.step = "made" -> "none"
           [] runner.step \in {"charged", "working"} -> "running"
           [] runner.step = "accepted" -> "ok"
    /\ runner.step = "charged" => \A n \in DOMAIN fitted : fitted[n] # runner.at
    /\ runner.step = "accepted" => \A n \in DOMAIN fitted : fitted[n] <= runner.at

FitsAreCharged ==
  \A n \in DOMAIN fitted :
    /\ fitted[n] \in DOMAIN jobs /\ jobs[fitted[n]].receipt # "none"
    /\ \A m \in DOMAIN fitted : fitted[m] = fitted[n] => m = n
    /\ \A c \in 1 .. (fitted[n] - 1) : c \in DOMAIN jobs /\ jobs[c].receipt = "ok"

PilotInv == PilotBooks /\ BehindIsAccepted /\ AtHand /\ FitsAreCharged

LEMMA PilotBegins == ASSUME PilotInit PROVE PilotInv
<1>1. PilotBooks
  BY DEF PilotInit, PilotBooks, NoCell, NoRunner, RunnerSteps
<1> QED BY <1>1 DEF PilotInit, PilotInv, BehindIsAccepted, AtHand, FitsAreCharged, NoRunner

\* What none of these steps touches: which case has which receipt.
SameReceipts ==
  /\ DOMAIN jobs' = DOMAIN jobs
  /\ \A c \in DOMAIN jobs : /\ jobs'[c].receipt = jobs[c].receipt
                            /\ DOMAIN jobs'[c] = DOMAIN jobs[c]

LEMMA BooksRest == ASSUME UNCHANGED jobs PROVE SameReceipts
BY DEF SameReceipts

\* A worker that writes, and a session that goes on to the next case or ends.
LEMMA PilotRests ==
    ASSUME PilotInv, SameReceipts, UNCHANGED fitted,
           \/ UNCHANGED runner
           \/ runner' = NoRunner
           \/ runner' = [step |-> "look", at |-> 1]
           \/ /\ runner' = [step |-> "look", at |-> runner.at + 1] /\ runner.step # "off"
              /\ runner.at \in DOMAIN jobs /\ jobs[runner.at].receipt = "ok"
    PROVE  PilotInv'
<1>1. runner' \in [step : RunnerSteps, at : Nat]
  BY DEF PilotInv, PilotBooks, NoRunner, RunnerSteps
<1>2. PilotBooks'
  BY <1>1 DEF PilotInv, PilotBooks, SameReceipts
<1>3. BehindIsAccepted'
  <2>1. CASE UNCHANGED runner
    BY <2>1 DEF PilotInv, BehindIsAccepted, SameReceipts
  <2>2. CASE runner' = NoRunner
    BY <2>2 DEF NoRunner, BehindIsAccepted
  <2>3. CASE runner' = [step |-> "look", at |-> 1]
    BY <2>3 DEF BehindIsAccepted
  <2>4. CASE /\ runner' = [step |-> "look", at |-> runner.at + 1] /\ runner.step # "off"
             /\ runner.at \in DOMAIN jobs /\ jobs[runner.at].receipt = "ok"
    <3>1. runner'.at = runner.at + 1 /\ runner.at \in Nat
      BY <2>4 DEF PilotInv, PilotBooks
    <3>2. \A c \in 1 .. runner.at : c \in DOMAIN jobs /\ jobs[c].receipt = "ok"
      <4>1. \A c \in 1 .. runner.at : c = runner.at \/ c \in 1 .. (runner.at - 1)
        BY <3>1
      <4> QED BY <2>4, <4>1 DEF PilotInv, BehindIsAccepted
    <3>3. runner'.at - 1 = runner.at /\ runner'.at > 0
      BY <3>1
    <3> QED BY <3>2, <3>3 DEF BehindIsAccepted, SameReceipts
  <2> QED BY <2>1, <2>2, <2>3, <2>4
<1>4. AtHand'
  <2>1. CASE UNCHANGED runner
    BY <2>1 DEF PilotInv, AtHand, SameReceipts
  <2>2. CASE ~UNCHANGED runner
    BY <2>2 DEF AtHand, NoRunner
  <2> QED BY <2>1, <2>2
<1>5. FitsAreCharged'
  BY DEF PilotInv, FitsAreCharged, SameReceipts
<1> QED BY <1>2, <1>3, <1>4, <1>5 DEF PilotInv

\* A step of the session that writes the receipt of the case at hand.
LEMMA ReceiptIsWritten ==
    ASSUME PilotBooks, NEW status, runner.at \in DOMAIN jobs, SetReceipt(status)
    PROVE  /\ DOMAIN jobs' = DOMAIN jobs
           /\ jobs'[runner.at].receipt = status
           /\ \A c \in DOMAIN jobs : /\ c # runner.at => jobs'[c] = jobs[c]
                                     /\ DOMAIN jobs'[c] = DOMAIN jobs[c]
BY DEF PilotBooks, SetReceipt

LEMMA CaseIsMade == ASSUME PilotInv, MakeCase PROVE PilotInv'
<1>1. /\ runner.step = "look" /\ runner.at \in DOMAIN jobs
      /\ jobs[runner.at].receipt = "none"
      /\ jobs' = [jobs EXCEPT ![runner.at].made = TRUE]
      /\ runner' = [runner EXCEPT !.step = "made"] /\ UNCHANGED fitted
  BY DEF MakeCase, Does, Goes, PilotInv, PilotBooks
<1>2. SameReceipts
  BY <1>1 DEF PilotInv, PilotBooks, SameReceipts
<1>3. /\ runner'.step = "made" /\ runner'.at = runner.at
      /\ runner' \in [step : RunnerSteps, at : Nat]
  BY <1>1 DEF PilotInv, PilotBooks, RunnerSteps
<1>4. PilotBooks' /\ FitsAreCharged'
  BY <1>1, <1>2, <1>3 DEF PilotInv, PilotBooks, FitsAreCharged, SameReceipts
<1>5. BehindIsAccepted' /\ AtHand'
  BY <1>1, <1>2, <1>3 DEF PilotInv, BehindIsAccepted, AtHand, SameReceipts
<1> QED BY <1>4, <1>5 DEF PilotInv

LEMMA CaseIsCharged == ASSUME PilotInv, ChargeCase PROVE PilotInv'
<1>1. /\ runner.step = "made" /\ SetReceipt("running")
      /\ runner' = [runner EXCEPT !.step = "charged"] /\ UNCHANGED fitted
  BY DEF ChargeCase, Does, Goes
<1>2. runner.at \in DOMAIN jobs /\ jobs[runner.at].receipt = "none"
  BY <1>1 DEF PilotInv, AtHand
<1>3. /\ DOMAIN jobs' = DOMAIN jobs
      /\ jobs'[runner.at].receipt = "running"
      /\ \A c \in DOMAIN jobs : /\ c # runner.at => jobs'[c] = jobs[c]
                                /\ DOMAIN jobs'[c] = DOMAIN jobs[c]
  BY <1>1, <1>2, ReceiptIsWritten DEF PilotInv
<1>4. /\ runner'.step = "charged" /\ runner'.at = runner.at /\ runner.at \in Nat
      /\ runner' \in [step : RunnerSteps, at : Nat]
  BY <1>1 DEF PilotInv, PilotBooks, RunnerSteps
<1>5. \A n \in DOMAIN fitted : fitted[n] # runner.at
  BY <1>2 DEF PilotInv, FitsAreCharged
<1>6. PilotBooks'
  BY <1>1, <1>3, <1>4 DEF PilotInv, PilotBooks
<1>7. FitsAreCharged'
  <2>1. ASSUME NEW n \in DOMAIN fitted, NEW c \in 1 .. (fitted[n] - 1)
        PROVE  c # runner.at /\ c \in DOMAIN jobs /\ jobs[c].receipt = "ok"
    BY <1>2 DEF PilotInv, FitsAreCharged
  <2> QED BY <1>1, <1>3, <1>5, <2>1 DEF PilotInv, FitsAreCharged
<1>8. BehindIsAccepted'
  <2>1. \A c \in 1 .. (runner.at - 1) :
          c # runner.at /\ c \in DOMAIN jobs /\ jobs[c].receipt = "ok"
    BY <1>1, <1>2 DEF PilotInv, BehindIsAccepted
  <2>2. runner.at > 0
    BY <1>1 DEF PilotInv, BehindIsAccepted
  <2> QED BY <1>3, <1>4, <2>1, <2>2 DEF BehindIsAccepted
<1>9. AtHand'
  BY <1>1, <1>2, <1>3, <1>4, <1>5 DEF AtHand
<1> QED BY <1>6, <1>7, <1>8, <1>9 DEF PilotInv

LEMMA WorkerIsLaunched == ASSUME PilotInv, LaunchWorker PROVE PilotInv'
<1>1. /\ runner.step = "charged" /\ UNCHANGED jobs
      /\ fitted' = Append(fitted, runner.at)
      /\ runner' = [runner EXCEPT !.step = "working"]
  BY DEF LaunchWorker, Does, Goes
<1>2. /\ runner'.step = "working" /\ runner'.at = runner.at /\ runner.at \in Nat
      /\ runner' \in [step : RunnerSteps, at : Nat] /\ fitted \in Seq(Nat)
  BY <1>1 DEF PilotInv, PilotBooks, RunnerSteps
<1> DEFINE h == Append(fitted, runner.at)
           k == Len(fitted) + 1
<1>3. /\ h \in Seq(Nat) /\ DOMAIN h = DOMAIN fitted \cup {k} /\ h[k] = runner.at
      /\ \A n \in DOMAIN fitted : h[n] = fitted[n] /\ n # k
  BY <1>2
<1>4. fitted' = h
  BY <1>1
<1> HIDE DEF h, k
<1>5. /\ runner.at \in DOMAIN jobs /\ jobs[runner.at].receipt = "running"
      /\ \A n \in DOMAIN fitted : fitted[n] # runner.at
      /\ \A c \in 1 .. (runner.at - 1) : c \in DOMAIN jobs /\ jobs[c].receipt = "ok"
      /\ runner.at > 0
  BY <1>1 DEF PilotInv, AtHand, BehindIsAccepted
<1>6. PilotBooks'
  BY <1>1, <1>2, <1>3, <1>4 DEF PilotInv, PilotBooks
<1>7. FitsAreCharged'
  <2>1. ASSUME NEW n \in DOMAIN h
        PROVE  /\ h[n] \in DOMAIN jobs /\ jobs[h[n]].receipt # "none"
               /\ \A m \in DOMAIN h : h[m] = h[n] => m = n
               /\ \A c \in 1 .. (h[n] - 1) : c \in DOMAIN jobs /\ jobs[c].receipt = "ok"
    <3>1. CASE n = k
      BY <1>3, <1>5, <3>1
    <3>2. CASE n # k
      BY <1>3, <1>5, <3>2 DEF PilotInv, FitsAreCharged
    <3> QED BY <3>1, <3>2
  <2> QED BY <1>1, <1>4, <2>1 DEF FitsAreCharged
<1>8. BehindIsAccepted' /\ AtHand'
  BY <1>1, <1>2, <1>5 DEF BehindIsAccepted, AtHand
<1> QED BY <1>6, <1>7, <1>8 DEF PilotInv

\* The receipt of a case that is not accepted yet: no fit is beyond it.
LEMMA NoFitBeyond ==
    ASSUME PilotInv, runner.step \in {"charged", "working", "accepted"}
    PROVE  \A n \in DOMAIN fitted : fitted[n] <= runner.at
<1>1. runner.at \in Nat /\ runner.at \in DOMAIN jobs /\ fitted \in Seq(Nat)
  BY DEF PilotInv, PilotBooks, AtHand
<1>2. CASE runner.step = "accepted"
  BY <1>2 DEF PilotInv, AtHand
<1>3. CASE runner.step # "accepted"
  <2>1. jobs[runner.at].receipt = "running"
    BY <1>3 DEF PilotInv, AtHand
  <2>2. ASSUME NEW n \in DOMAIN fitted, ~(fitted[n] <= runner.at) PROVE FALSE
    <3>1. fitted[n] \in Nat
      BY <1>1
    <3>2. runner.at = 0 \/ runner.at \in 1 .. (fitted[n] - 1)
      BY <1>1, <2>2, <3>1
    <3>3. runner.at # 0
      BY <1>1 DEF PilotInv, BehindIsAccepted
    <3> QED BY <2>1, <3>2, <3>3 DEF PilotInv, FitsAreCharged
  <2> QED BY <2>2
<1> QED BY <1>2, <1>3

LEMMA CaseIsAccepted == ASSUME PilotInv, AcceptResult PROVE PilotInv'
<1>1. /\ runner.step = "working" /\ UNCHANGED fitted
      /\ jobs' = [jobs EXCEPT ![runner.at].receipt = "ok",
                              ![runner.at].accepts = jobs[runner.at].result[1].fit]
      /\ runner' = [runner EXCEPT !.step = "accepted"]
  BY DEF AcceptResult, Does, Goes
<1>2. /\ runner.at \in DOMAIN jobs /\ jobs[runner.at].receipt = "running"
      /\ runner.at > 0
      /\ \A c \in 1 .. (runner.at - 1) : c \in DOMAIN jobs /\ jobs[c].receipt = "ok"
  BY <1>1 DEF PilotInv, AtHand, BehindIsAccepted
<1> DEFINE first == [jobs EXCEPT ![runner.at].receipt = "ok"]
           fit == jobs[runner.at].result[1].fit
<1>3. jobs' = [first EXCEPT ![runner.at].accepts = fit]
  BY <1>1
<1>4. /\ DOMAIN first = DOMAIN jobs /\ first[runner.at].receipt = "ok"
      /\ DOMAIN first[runner.at] = DOMAIN jobs[runner.at]
      /\ \A c \in DOMAIN jobs : c # runner.at => first[c] = jobs[c]
  BY <1>2 DEF PilotInv, PilotBooks
<1> HIDE DEF first, fit
<1>5. /\ DOMAIN jobs' = DOMAIN jobs /\ jobs'[runner.at].receipt = "ok"
      /\ \A c \in DOMAIN jobs : /\ c # runner.at => jobs'[c] = jobs[c]
                                /\ DOMAIN jobs'[c] = DOMAIN jobs[c]
  BY <1>2, <1>3, <1>4 DEF PilotInv, PilotBooks
<1>6. /\ runner'.step = "accepted" /\ runner'.at = runner.at /\ runner.at \in Nat
      /\ runner' \in [step : RunnerSteps, at : Nat]
  BY <1>1 DEF PilotInv, PilotBooks, RunnerSteps
<1>7. PilotBooks'
  BY <1>1, <1>5, <1>6 DEF PilotInv, PilotBooks
<1>8. FitsAreCharged'
  <2>1. \A c \in DOMAIN jobs : /\ jobs[c].receipt = "ok" => jobs'[c].receipt = "ok"
                               /\ jobs[c].receipt # "none" => jobs'[c].receipt # "none"
    BY <1>5
  <2> QED BY <1>1, <1>5, <2>1 DEF PilotInv, FitsAreCharged
<1>9. BehindIsAccepted'
  BY <1>2, <1>5, <1>6 DEF BehindIsAccepted
<1>10. AtHand'
  <2>1. \A n \in DOMAIN fitted : fitted[n] <= runner.at
    BY <1>1, NoFitBeyond
  <2> QED BY <1>1, <1>2, <1>5, <1>6, <2>1 DEF AtHand
<1> QED BY <1>7, <1>8, <1>9, <1>10 DEF PilotInv

LEMMA CaseIsFailed == ASSUME PilotInv, FailCase PROVE PilotInv'
<1>1. /\ runner.step \in {"charged", "working", "accepted"}
      /\ SetReceipt("failed") /\ runner' = NoRunner /\ UNCHANGED fitted
  BY DEF FailCase, Does, Leaves
<1>2. runner.at \in DOMAIN jobs /\ runner.at \in Nat
  BY <1>1 DEF PilotInv, PilotBooks, AtHand
<1>3. /\ DOMAIN jobs' = DOMAIN jobs
      /\ jobs'[runner.at].receipt = "failed"
      /\ \A c \in DOMAIN jobs : /\ c # runner.at => jobs'[c] = jobs[c]
                                /\ DOMAIN jobs'[c] = DOMAIN jobs[c]
  BY <1>1, <1>2, ReceiptIsWritten DEF PilotInv
<1>4. \A n \in DOMAIN fitted : fitted[n] <= runner.at
  BY <1>1, NoFitBeyond
<1>5. runner'.step = "off" /\ runner' \in [step : RunnerSteps, at : Nat]
  BY <1>1 DEF NoRunner, RunnerSteps
<1>6. PilotBooks'
  BY <1>1, <1>3, <1>5 DEF PilotInv, PilotBooks
<1>7. FitsAreCharged'
  <2>1. ASSUME NEW n \in DOMAIN fitted, NEW c \in 1 .. (fitted[n] - 1)
        PROVE  c \in DOMAIN jobs' /\ jobs'[c].receipt = "ok"
    <3>1. fitted[n] \in Nat
      BY DEF PilotInv, PilotBooks
    <3>2. c # runner.at
      BY <1>2, <1>4, <3>1
    <3> QED BY <1>3, <3>2 DEF PilotInv, FitsAreCharged
  <2>2. ASSUME NEW n \in DOMAIN fitted
        PROVE  /\ fitted[n] \in DOMAIN jobs' /\ jobs'[fitted[n]].receipt # "none"
               /\ \A m \in DOMAIN fitted : fitted[m] = fitted[n] => m = n
    BY <1>3 DEF PilotInv, FitsAreCharged
  <2> QED BY <1>1, <2>1, <2>2 DEF FitsAreCharged
<1>8. BehindIsAccepted' /\ AtHand'
  BY <1>5 DEF BehindIsAccepted, AtHand
<1> QED BY <1>6, <1>7, <1>8 DEF PilotInv

LEMMA FileIsWritten ==
    ASSUME PilotBooks, NEW k, NEW file \in {"weights", "embeddings", "result"}, NEW x,
           jobs' = [jobs EXCEPT ![k] = [jobs[k] EXCEPT ![file] = x]]
    PROVE  SameReceipts
<1> DEFINE cell == [jobs[k] EXCEPT ![file] = x]
<1>1. /\ DOMAIN cell = DOMAIN jobs[k]
      /\ k \in DOMAIN jobs => cell.receipt = jobs[k].receipt
  BY DEF PilotBooks
<1>2. jobs' = [jobs EXCEPT ![k] = cell]
  OBVIOUS
<1> HIDE DEF cell
<1>3. CASE k \in DOMAIN jobs
  BY <1>1, <1>2, <1>3 DEF SameReceipts
<1>4. CASE k \notin DOMAIN jobs
  BY <1>2, <1>4 DEF SameReceipts
<1> QED BY <1>3, <1>4

\* A worker writes its files, never a receipt.
LEMMA WorkersWriteFiles ==
    ASSUME PilotInv, NEW w \in workers, WorkerStep(w)
    PROVE  SameReceipts /\ UNCHANGED <<runner, fitted>>
<1>1. UNCHANGED <<runner, fitted>>
  BY DEF WorkerStep, OpenRequest, TrainPhase, TrainStep, EndPhase, SaveWeights,
         ExportTeacher, WriteResult
<1>2. CASE UNCHANGED jobs
  BY <1>1, <1>2 DEF SameReceipts
<1>3. CASE SaveWeights(w) /\ ~UNCHANGED jobs
  <2>1. jobs' = [jobs EXCEPT ![w.cell] = [jobs[w.cell] EXCEPT !["weights"] = w.fit]]
    BY <1>3 DEF SaveWeights
  <2> QED BY <1>1, <2>1, FileIsWritten DEF PilotInv
<1>4. CASE ExportTeacher(w)
  <2>1. jobs' = [jobs EXCEPT ![w.cell] = [jobs[w.cell] EXCEPT !["embeddings"] = w.fit]]
    BY <1>4 DEF ExportTeacher
  <2> QED BY <1>1, <2>1, FileIsWritten DEF PilotInv
<1>5. CASE WriteResult(w)
  <2> DEFINE result ==
       <<[fit |-> w.fit, updates |-> w.updates, source |-> w.source,
          embeddings |-> IF ExportsEmbeddings(w.cell) THEN w.fit ELSE 0,
          skewed |-> w.skewed, tainted |-> w.tainted]>>
  <2>1. jobs' = [jobs EXCEPT ![w.cell] = [jobs[w.cell] EXCEPT !["result"] = result]]
    BY <1>5 DEF WriteResult
  <2> HIDE DEF result
  <2> QED BY <1>1, <2>1, FileIsWritten DEF PilotInv
<1> QED BY <1>1, <1>2, <1>3, <1>4, <1>5
        DEF WorkerStep, OpenRequest, TrainPhase, TrainStep, EndPhase

LEMMA PilotKept == ASSUME PilotInv, [PilotNext]_pilotVars PROVE PilotInv'
<1>1. CASE UNCHANGED pilotVars
  BY <1>1, PilotRests, BooksRest DEF pilotVars
<1>2. CASE OpenSession
  BY <1>2, PilotRests, BooksRest DEF OpenSession
<1>3. CASE SkipCase
  <2>1. /\ UNCHANGED <<jobs, fitted>> /\ runner.step = "look"
        /\ runner' = [runner EXCEPT !.at = @ + 1]
        /\ runner.at \in DOMAIN jobs /\ jobs[runner.at].receipt = "ok"
    BY <1>3 DEF SkipCase, Does, PilotInv, PilotBooks
  <2>2. runner' = [step |-> "look", at |-> runner.at + 1]
    BY <2>1 DEF PilotInv, PilotBooks
  <2> QED BY <2>1, <2>2, PilotRests, BooksRest
<1>4. CASE EndSession
  BY <1>4, PilotRests, BooksRest DEF EndSession, Leaves
<1>5. CASE RefuseCase
  BY <1>5, PilotRests, BooksRest DEF RefuseCase, Leaves
<1>6. CASE CheckResult
  <2>1. /\ UNCHANGED <<jobs, fitted>> /\ runner.step = "accepted"
        /\ runner' = [step |-> "look", at |-> runner.at + 1]
    BY <1>6 DEF CheckResult, Does
  <2>2. runner.at \in DOMAIN jobs /\ jobs[runner.at].receipt = "ok"
    BY <2>1 DEF PilotInv, AtHand
  <2> QED BY <2>1, <2>2, PilotRests, BooksRest
<1>7. CASE PilotDies
  BY <1>7, PilotRests, BooksRest DEF PilotDies, Leaves
<1>8. CASE EditSources
  BY <1>8, PilotRests, BooksRest DEF EditSources
<1>9. CASE \E w \in workers : WorkerStep(w)
  BY <1>9, PilotRests, WorkersWriteFiles
<1> QED BY <1>1, <1>2, <1>3, <1>4, <1>5, <1>6, <1>7, <1>8, <1>9, CaseIsMade,
           CaseIsCharged, WorkerIsLaunched, CaseIsAccepted, CaseIsFailed
        DEF PilotNext

\* PilotFailsClosed for every matrix, whatever dies or trains on: no case is ever
\* trained twice, and nothing is trained past a case that was not accepted.
THEOREM PilotAlwaysFailsClosed == PilotSpec => []PilotFailsClosed
<1>1. PilotInit => PilotInv
  BY PilotBegins
<1>2. PilotInv /\ [PilotNext]_pilotVars => PilotInv'
  BY PilotKept
<1>3. PilotInv => PilotFailsClosed
  BY DEF PilotInv, FitsAreCharged, PilotFailsClosed
<1> QED BY <1>1, <1>2, <1>3, PTL DEF PilotSpec

\* The matrix has a case of each arm, system and candidate, and no other.
MatrixCase ==
  [arm : ToSet(PilotArms), system : ToSet(PilotSystems), candidate : Nat]
CasesOf(a, s) ==
  [k \in 1 .. (IF PilotSystems[s] = "contenders" THEN 1 ELSE Candidates) |->
     [arm |-> PilotArms[a], system |-> PilotSystems[s], candidate |-> k]]
RowsOf(a) == [s \in DOMAIN PilotSystems |-> CasesOf(a, s)]

LEMMA CasesOfTyped ==
    ASSUME NEW a \in DOMAIN PilotArms, NEW s \in DOMAIN PilotSystems
    PROVE  /\ CasesOf(a, s) \in Seq(MatrixCase)
           /\ PilotSystems[s] = Teacher =>
                Among([arm |-> PilotArms[a], system |-> Teacher, candidate |-> 1], CasesOf(a, s))
           /\ \A x : Among(x, CasesOf(a, s)) => x.arm = PilotArms[a]
<1> DEFINE n == IF PilotSystems[s] = "contenders" THEN 1 ELSE Candidates
           c(k) == [arm |-> PilotArms[a], system |-> PilotSystems[s], candidate |-> k]
<1>1. n \in Nat \ {0}
  BY PilotAssumption
<1>2. CasesOf(a, s) = [k \in 1 .. n |-> c(k)]
  BY DEF CasesOf
<1>3. PilotArms[a] \in ToSet(PilotArms) /\ PilotSystems[s] \in ToSet(PilotSystems)
  BY DEF ToSet
<1>4. \A k \in 1 .. n : c(k) \in MatrixCase
  BY <1>1, <1>3 DEF MatrixCase
<1>5. \A k \in 1 .. n : c(k).arm = PilotArms[a]
  OBVIOUS
<1>6. c(1) = [arm |-> PilotArms[a], system |-> PilotSystems[s], candidate |-> 1]
  OBVIOUS
<1> HIDE DEF n, c
<1> DEFINE h == [k \in 1 .. n |-> c(k)]
<1>7. /\ h \in Seq(MatrixCase) /\ Len(h) = n
      /\ \A k \in 1 .. n : h[k] = c(k)
  BY <1>1, <1>4
<1> HIDE DEF h
<1>8. \A x : Among(x, h) => x.arm = PilotArms[a]
  BY <1>5, <1>7 DEF Among
<1>9. Among(c(1), h)
  BY <1>1, <1>7 DEF Among
<1>10. CasesOf(a, s) = h
  BY <1>2 DEF h
<1> QED BY <1>6, <1>7, <1>8, <1>9, <1>10

LEMMA RowsOfTyped ==
    ASSUME NEW a \in DOMAIN PilotArms
    PROVE  /\ FlattenSeq(RowsOf(a)) \in Seq(MatrixCase)
           /\ Teacher \in ToSet(PilotSystems) =>
                Among([arm |-> PilotArms[a], system |-> Teacher, candidate |-> 1],
                   FlattenSeq(RowsOf(a)))
           /\ \A x : Among(x, FlattenSeq(RowsOf(a))) => x.arm = PilotArms[a]
<1> DEFINE n == Len(PilotSystems)
           rows == RowsOf(a)
<1>1. n \in Nat \ {0} /\ DOMAIN PilotSystems = 1 .. n
  BY PilotAssumption
<1> HIDE DEF n
<1>2. \A s \in 1 .. n : CasesOf(a, s) \in Seq(MatrixCase)
  BY <1>1, CasesOfTyped
<1>3. rows = [s \in 1 .. n |-> CasesOf(a, s)]
  BY <1>1 DEF RowsOf
<1>4. /\ rows \in Seq(Seq(MatrixCase)) /\ Len(rows) = n
      /\ \A s \in 1 .. n : rows[s] = CasesOf(a, s)
  BY <1>1, <1>2, <1>3
<1> HIDE DEF rows
<1>5. HasTheFirst(rows, FlattenSeq(rows), n, MatrixCase)
  BY <1>1, <1>4, FlattenHasTheElements
<1>6. /\ FlattenSeq(rows) \in Seq(MatrixCase)
      /\ \A x : Among(x, FlattenSeq(rows)) <=> \E s \in 1 .. n : Among(x, rows[s])
  BY <1>5 DEF HasTheFirst
<1>7. ASSUME NEW x, Among(x, FlattenSeq(rows)) PROVE x.arm = PilotArms[a]
  <2>1. PICK s \in 1 .. n : Among(x, rows[s])
    BY <1>6, <1>7
  <2>2. Among(x, CasesOf(a, s))
    BY <1>4, <2>1
  <2> QED BY <1>1, <2>2, CasesOfTyped
<1>8. ASSUME Teacher \in ToSet(PilotSystems)
      PROVE  Among([arm |-> PilotArms[a], system |-> Teacher, candidate |-> 1], FlattenSeq(rows))
  <2>1. PICK s \in 1 .. n : PilotSystems[s] = Teacher
    BY <1>1, <1>8 DEF ToSet
  <2> DEFINE t == [arm |-> PilotArms[a], system |-> Teacher, candidate |-> 1]
  <2>2. Among(t, CasesOf(a, s))
    BY <1>1, <2>1, CasesOfTyped
  <2> HIDE DEF t
  <2>3. Among(t, FlattenSeq(rows))
    BY <1>4, <1>6, <2>2
  <2> QED BY <2>3 DEF t
<1> QED BY <1>6, <1>7, <1>8 DEF rows

TeachersCase == [arm |-> "supervised_long", system |-> Teacher, candidate |-> 1]

LEMMA MatrixIsComplete ==
  /\ DOMAIN Matrix \subseteq Nat \ {0}
  /\ \A c \in DOMAIN Matrix : Matrix[c].arm \in ToSet(PilotArms)
  /\ TransferArms \cap ToSet(PilotArms) # {} =>
       \E t \in DOMAIN Matrix : Matrix[t] = TeachersCase
<1> DEFINE n == Len(PilotArms)
           rows == [a \in 1 .. n |-> FlattenSeq(RowsOf(a))]
<1>1. n \in Nat \ {0} /\ DOMAIN PilotArms = 1 .. n
  BY PilotAssumption
<1>2. Matrix = FlattenSeq(rows)
  BY <1>1 DEF Matrix, RowsOf, CasesOf
<1> HIDE DEF n
<1>3. \A a \in 1 .. n : FlattenSeq(RowsOf(a)) \in Seq(MatrixCase)
  BY <1>1, RowsOfTyped
<1>4. /\ rows \in Seq(Seq(MatrixCase)) /\ Len(rows) = n
      /\ \A a \in 1 .. n : rows[a] = FlattenSeq(RowsOf(a))
  BY <1>1, <1>3
<1> HIDE DEF rows
<1>5. HasTheFirst(rows, Matrix, n, MatrixCase)
  BY <1>1, <1>2, <1>4, FlattenHasTheElements
<1>6. /\ Matrix \in Seq(MatrixCase)
      /\ \A x : Among(x, Matrix) <=> \E a \in 1 .. n : Among(x, rows[a])
  BY <1>5 DEF HasTheFirst
<1>7. DOMAIN Matrix = 1 .. Len(Matrix) /\ Len(Matrix) \in Nat
  BY <1>6
<1>8. ASSUME NEW c \in DOMAIN Matrix PROVE Matrix[c].arm \in ToSet(PilotArms)
  <2>1. Matrix[c] \in MatrixCase
    BY <1>6, <1>7, <1>8
  <2> QED BY <2>1 DEF MatrixCase
<1>9. ASSUME TransferArms \cap ToSet(PilotArms) # {}
      PROVE  \E t \in DOMAIN Matrix : Matrix[t] = TeachersCase
  <2>1. "supervised_long" \in ToSet(PilotArms) /\ Teacher \in ToSet(PilotSystems)
    BY <1>9, PilotAssumption
  <2>2. PICK a \in 1 .. n : PilotArms[a] = "supervised_long"
    BY <1>1, <2>1 DEF ToSet
  <2>3. Among(TeachersCase, FlattenSeq(RowsOf(a)))
    BY <1>1, <2>1, <2>2, RowsOfTyped DEF TeachersCase
  <2>4. Among(TeachersCase, Matrix)
    BY <1>4, <1>6, <2>3
  <2> QED BY <1>7, <2>4 DEF Among
<1> QED BY <1>7, <1>8, <1>9

\* A case that is trained on embeddings has a teacher in the matrix.
LEMMA TeacherIsACase ==
    ASSUME NEW c \in DOMAIN Matrix
    PROVE  /\ TeacherOf(c) # 0 => TeacherOf(c) = TeacherCase /\ TeacherCase \in DOMAIN Matrix
           /\ Neural(c) /\ Matrix[c].arm \in TransferArms => TeacherOf(c) # 0
<1>1. CASE TransferArms \cap ToSet(PilotArms) = {}
  BY <1>1, MatrixIsComplete DEF TeacherOf, TeacherCase
<1>2. CASE TransferArms \cap ToSet(PilotArms) # {}
  <2>1. PICK t \in DOMAIN Matrix : Matrix[t] = TeachersCase
    BY <1>2, MatrixIsComplete
  <2>2. TeacherCase = CHOOSE x \in DOMAIN Matrix : Matrix[x] = TeachersCase
    BY <1>2 DEF TeacherCase, TeachersCase
  <2>3. TeacherCase \in DOMAIN Matrix
    BY <2>1, <2>2
  <2>4. TeacherCase # 0
    BY <2>3, MatrixIsComplete
  <2> QED BY <2>3, <2>4 DEF TeacherOf
<1> QED BY <1>1, <1>2

(***************************************************************************)
(* What is compared was trained alike.  A worker trains its plan to the    *)
(* end, each phase under its own optimizer, and writes for its own case,   *)
(* which no other worker has; a result is final, and was accepted only if  *)
(* the sources were those of the manifest while it was trained.            *)
(***************************************************************************)
Phase == [phase : {"pretrain", "finetune"}, steps : Nat]
PilotStages == {"open", "train", "update", "saved", "exported", "done"}
Results == [fit : Nat, updates : Nat, source : Nat, embeddings : Nat,
            skewed : BOOLEAN, tainted : BOOLEAN]
Cell == [made : BOOLEAN, receipt : Receipts, accepts : Nat, weights : Nat,
         embeddings : Nat, result : {<<>>} \cup {<<r>> : r \in Results}]
Worker == [fit : Nat, cell : Nat, stage : PilotStages, plan : Seq(Phase), step : Nat,
           momentum : Nat, skewed : BOOLEAN, updates : Nat, source : Nat,
           tainted : BOOLEAN]

StepsOf(plan) ==
  IF Len(plan) = 0 THEN 0
  ELSE IF Len(plan) = 1 THEN plan[1].steps ELSE plan[1].steps + plan[2].steps
Due(c) == StepsOf(FitPlan(c))

CellHolds(c, cell) ==
  /\ cell.receipt = "ok" => cell.accepts # 0
  /\ cell.accepts # 0 => /\ cell.result # <<>> /\ cell.accepts = cell.result[1].fit
                         /\ ~cell.result[1].tainted
  /\ cell.result # <<>> =>
       /\ cell.result[1].fit \in DOMAIN fitted /\ fitted[cell.result[1].fit] = c
       /\ ~cell.result[1].skewed /\ cell.result[1].updates = Due(c)
       /\ cell.result[1].tainted => edited
       /\ ExportsEmbeddings(c) => cell.embeddings = cell.result[1].fit

WorkerHolds(w, cell) ==
  /\ w.fit \in DOMAIN fitted /\ fitted[w.fit] = w.cell
  /\ ~w.skewed /\ (w.tainted => edited)
  /\ Len(w.plan) <= 2
  /\ IF w.stage = "update"
     THEN /\ w.momentum = w.step /\ w.plan # <<>> /\ w.step <= w.plan[1].steps
          /\ w.updates + StepsOf(w.plan) = Due(w.cell) + w.step
     ELSE w.updates + StepsOf(w.plan) = Due(w.cell)
  /\ w.stage \in {"saved", "exported", "done"} => w.plan = <<>>
  /\ w.stage = "exported" => cell.embeddings = w.fit
  /\ IF w.stage = "done" THEN cell.result # <<>> /\ cell.result[1].fit = w.fit
     ELSE cell.result = <<>>

CellsHold == \A c \in DOMAIN Matrix : CellHolds(c, jobs[c])
WorkersHold == \A w \in workers : WorkerHolds(w, jobs[w.cell])
OneWorkerEach == \A v, w \in workers : v.fit = w.fit => v = w
TeacherIsAccepted ==
  \A n \in DOMAIN fitted :
    TeacherOf(fitted[n]) # 0 => jobs[TeacherOf(fitted[n])].accepts # 0
LastIsAtHand ==
  runner.step = "working" => fitted # <<>> /\ fitted[Len(fitted)] = runner.at
MatchTyped == jobs \in [DOMAIN Matrix -> Cell] /\ workers \subseteq Worker

MatchInv ==
  /\ MatchTyped /\ CellsHold /\ WorkersHold /\ OneWorkerEach
  /\ TeacherIsAccepted /\ LastIsAtHand

LEMMA PlansTyped ==
    ASSUME NEW c \in DOMAIN Matrix
    PROVE  FitPlan(c) \in Seq(Phase) /\ Len(FitPlan(c)) \in {1, 2} /\ Due(c) \in Nat
<1>1. 2 \in Nat /\ FineSteps \in Nat /\ PreSteps \in Nat /\ PreSteps + FineSteps \in Nat
  BY PilotAssumption
<1>2. ASSUME NEW n \in Nat
      PROVE  /\ <<[phase |-> "finetune", steps |-> n]>> \in Seq(Phase)
             /\ StepsOf(<<[phase |-> "finetune", steps |-> n]>>) \in Nat
             /\ Len(<<[phase |-> "finetune", steps |-> n]>>) = 1
  BY DEF Phase, StepsOf
<1> DEFINE p == [phase |-> "pretrain", steps |-> PreSteps]
           f == [phase |-> "finetune", steps |-> FineSteps]
<1>3. /\ p \in Phase /\ f \in Phase /\ p.steps = PreSteps /\ f.steps = FineSteps
  BY <1>1 DEF Phase
<1> HIDE DEF p, f
<1>4. <<p, f>> \in Seq(Phase) /\ Len(<<p, f>>) = 2 /\ StepsOf(<<p, f>>) \in Nat
  BY <1>1, <1>3 DEF StepsOf
<1>5. \/ \E n \in {2, FineSteps, PreSteps + FineSteps} :
           FitPlan(c) = <<[phase |-> "finetune", steps |-> n]>>
      \/ FitPlan(c) = <<p, f>>
  BY DEF FitPlan, p, f
<1> QED BY <1>1, <1>2, <1>4, <1>5 DEF Due

LEMMA DueOfTheArms ==
    ASSUME NEW c \in DOMAIN Matrix
    PROVE  Due(c) = IF ~Neural(c) THEN 2
                    ELSE IF Matrix[c].arm = "supervised_short" THEN FineSteps
                    ELSE PreSteps + FineSteps
<1>1. ASSUME NEW n PROVE StepsOf(<<[phase |-> "finetune", steps |-> n]>>) = n
  BY DEF StepsOf
<1>2. StepsOf(<<[phase |-> "pretrain", steps |-> PreSteps],
                [phase |-> "finetune", steps |-> FineSteps]>>) = PreSteps + FineSteps
  BY DEF StepsOf
<1> QED BY <1>1, <1>2 DEF Due, FitPlan

LEMMA MatchBegins == ASSUME PilotInit PROVE MatchInv
<1>1. NoCell \in Cell
  BY DEF NoCell, Cell, Receipts
<1>2. /\ jobs = [c \in DOMAIN Matrix |-> NoCell] /\ workers = {} /\ fitted = <<>>
      /\ runner.step = "off"
  BY DEF PilotInit, NoRunner
<1>3. MatchTyped
  BY <1>1, <1>2 DEF MatchTyped
<1>4. CellsHold
  BY <1>2 DEF CellsHold, CellHolds, NoCell
<1> QED BY <1>2, <1>3, <1>4
        DEF MatchInv, WorkersHold, OneWorkerEach, TeacherIsAccepted, LastIsAtHand

\* The cells whose files only change on paper, and the workers that are left.
LEMMA MatchRests ==
    ASSUME MatchInv, UNCHANGED <<fitted, edited>>, workers' \subseteq workers,
           jobs' \in [DOMAIN Matrix -> Cell],
           \A c \in DOMAIN Matrix :
             /\ jobs'[c].accepts = jobs[c].accepts /\ jobs'[c].result = jobs[c].result
             /\ jobs'[c].embeddings = jobs[c].embeddings
             /\ jobs'[c].receipt = "ok" => jobs[c].receipt = "ok",
           runner'.step = "working" => runner' = runner,
           \A w \in workers : w.cell \in DOMAIN Matrix,
           \A n \in DOMAIN fitted : fitted[n] \in DOMAIN Matrix
    PROVE  MatchInv'
<1>1. MatchTyped'
  BY DEF MatchInv, MatchTyped
<1>2. CellsHold'
  BY DEF MatchInv, CellsHold, CellHolds
<1>3. WorkersHold'
  BY DEF MatchInv, WorkersHold, WorkerHolds
<1>4. OneWorkerEach'
  BY DEF MatchInv, OneWorkerEach
<1>5. TeacherIsAccepted'
  <2> SUFFICES ASSUME NEW n \in DOMAIN fitted, TeacherOf(fitted[n]) # 0
               PROVE  jobs'[TeacherOf(fitted[n])].accepts # 0
    BY DEF TeacherIsAccepted, TeacherOf, TeacherCase, Neural
  <2>1. jobs[TeacherOf(fitted[n])].accepts # 0
    BY DEF MatchInv, TeacherIsAccepted
  <2>2. TeacherOf(fitted[n]) \in DOMAIN Matrix
    BY TeacherIsACase
  <2> QED BY <2>1, <2>2
<1>6. LastIsAtHand'
  BY DEF MatchInv, LastIsAtHand
<1> QED BY <1>1, <1>2, <1>3, <1>4, <1>5, <1>6 DEF MatchInv

\* A worker goes on and changes its own cell, which is no other worker's.
LEMMA WorkerChanges ==
    ASSUME MatchInv, PilotInv, NEW w \in workers, NEW v \in Worker, NEW cell \in Cell,
           v.fit = w.fit, v.cell = w.cell,
           jobs' = [jobs EXCEPT ![w.cell] = cell],
           workers' \subseteq (workers \ {w}) \cup {v},
           WorkerHolds(v, cell), CellHolds(w.cell, cell),
           cell.accepts = 0 => jobs[w.cell].accepts = 0,
           runner'.step = "working" => runner' = runner,
           UNCHANGED <<fitted, edited>>
    PROVE  MatchInv'
<1>1. /\ jobs \in [DOMAIN Matrix -> Cell] /\ workers \subseteq Worker
      /\ w.fit \in DOMAIN fitted /\ fitted[w.fit] = w.cell
      /\ \A n \in DOMAIN fitted : fitted[n] \in DOMAIN Matrix
      /\ w.cell \in DOMAIN Matrix
  BY DEF MatchInv, MatchTyped, WorkersHold, WorkerHolds, PilotInv, PilotBooks, FitsAreCharged
<1>2. /\ jobs' \in [DOMAIN Matrix -> Cell] /\ jobs'[w.cell] = cell
      /\ \A c \in DOMAIN Matrix : c # w.cell => jobs'[c] = jobs[c]
  BY <1>1
<1>3. MatchTyped'
  BY <1>1, <1>2 DEF MatchTyped
<1>4. CellsHold'
  <2> SUFFICES ASSUME NEW c \in DOMAIN Matrix PROVE CellHolds(c, jobs[c])'
    BY DEF CellsHold
  <2>1. CellHolds(c, jobs[c])
    BY DEF MatchInv, CellsHold
  <2>2. CASE c = w.cell
    BY <1>2, <2>2 DEF CellHolds
  <2>3. CASE c # w.cell
    BY <1>2, <2>1, <2>3 DEF CellHolds
  <2> QED BY <2>2, <2>3
<1>5. WorkersHold'
  <2> SUFFICES ASSUME NEW u \in workers' PROVE WorkerHolds(u, jobs[u.cell])'
    BY DEF WorkersHold
  <2>1. CASE u = v
    BY <1>2, <2>1 DEF WorkerHolds
  <2>2. CASE u # v
    <3>1. u \in workers /\ u # w
      BY <2>2
    <3>2. WorkerHolds(u, jobs[u.cell]) /\ u.fit # w.fit
      BY <3>1 DEF MatchInv, WorkersHold, OneWorkerEach
    <3>3. u.fit \in DOMAIN fitted /\ fitted[u.fit] = u.cell
      BY <3>2 DEF WorkerHolds
    <3>4. u.cell # w.cell /\ u.cell \in DOMAIN Matrix
      BY <1>1, <3>2, <3>3 DEF PilotInv, FitsAreCharged
    <3> QED BY <1>2, <3>2, <3>4 DEF WorkerHolds
  <2> QED BY <2>1, <2>2
<1>6. OneWorkerEach'
  BY DEF MatchInv, OneWorkerEach
<1>7. TeacherIsAccepted'
  <2> SUFFICES ASSUME NEW n \in DOMAIN fitted, TeacherOf(fitted[n]) # 0
               PROVE  jobs'[TeacherOf(fitted[n])].accepts # 0
    BY DEF TeacherIsAccepted, TeacherOf, TeacherCase, Neural
  <2>1. jobs[TeacherOf(fitted[n])].accepts # 0
    BY DEF MatchInv, TeacherIsAccepted
  <2>2. TeacherOf(fitted[n]) \in DOMAIN Matrix
    BY <1>1, TeacherIsACase
  <2> QED BY <1>2, <2>1, <2>2
<1>8. LastIsAtHand'
  BY DEF MatchInv, LastIsAtHand
<1> QED BY <1>3, <1>4, <1>5, <1>6, <1>7, <1>8 DEF MatchInv

\* A worker that touches no file.
LEMMA WorkerMoves ==
    ASSUME MatchInv, PilotInv, NEW w \in workers, NEW v \in Worker,
           v.fit = w.fit, v.cell = w.cell, Becomes(w, v), WorkerHolds(v, jobs[w.cell]),
           UNCHANGED <<jobs, runner, fitted, edited>>
    PROVE  MatchInv'
<1>1. /\ jobs \in [DOMAIN Matrix -> Cell] /\ w.cell \in DOMAIN Matrix
  BY DEF MatchInv, MatchTyped, WorkersHold, WorkerHolds, PilotInv, PilotBooks, FitsAreCharged
<1> DEFINE cell == jobs[w.cell]
<1>2. cell \in Cell /\ jobs' = [jobs EXCEPT ![w.cell] = cell] /\ CellHolds(w.cell, cell)
  BY <1>1 DEF MatchInv, CellsHold
<1>3. workers' \subseteq (workers \ {w}) \cup {v} /\ WorkerHolds(v, cell)
  BY DEF Becomes
<1>4. cell.accepts = 0 => jobs[w.cell].accepts = 0
  OBVIOUS
<1> HIDE DEF cell
<1> QED BY <1>2, <1>3, <1>4, WorkerChanges

LEMMA WorkerAtWork ==
    ASSUME MatchInv, PilotInv, NEW w \in workers
    PROVE  /\ w \in Worker /\ w.cell \in DOMAIN Matrix /\ jobs[w.cell] \in Cell
           /\ w.fit \in DOMAIN fitted /\ fitted[w.fit] = w.cell /\ w.fit \in Nat \ {0}
           /\ WorkerHolds(w, jobs[w.cell]) /\ CellHolds(w.cell, jobs[w.cell])
<1>1. WorkerHolds(w, jobs[w.cell]) /\ w \in Worker /\ jobs \in [DOMAIN Matrix -> Cell]
  BY DEF MatchInv, MatchTyped, WorkersHold
<1>2. w.fit \in DOMAIN fitted /\ fitted[w.fit] = w.cell
  BY <1>1 DEF WorkerHolds
<1>3. w.cell \in DOMAIN Matrix /\ fitted \in Seq(Nat)
  BY <1>2 DEF PilotInv, PilotBooks, FitsAreCharged
<1>4. CellHolds(w.cell, jobs[w.cell])
  BY <1>3 DEF MatchInv, CellsHold
<1> QED BY <1>1, <1>2, <1>3, <1>4

LEMMA StepsOfAPlan ==
    ASSUME NEW plan \in Seq(Phase), Len(plan) <= 2
    PROVE  /\ StepsOf(plan) \in Nat
           /\ plan # <<>> =>
                /\ plan[1].steps \in Nat
                /\ Tail(plan) \in Seq(Phase) /\ Len(Tail(plan)) <= 2
                /\ StepsOf(plan) = plan[1].steps + StepsOf(Tail(plan))
                /\ StepsOf(Tail(plan)) \in Nat
<1>1. \A i \in 1 .. Len(plan) : plan[i] \in Phase
  OBVIOUS
<1>2. \A p \in Phase : p.steps \in Nat
  BY DEF Phase
<1>3. Len(plan) \in Nat /\ (plan # <<>> => Len(plan) # 0)
  OBVIOUS
<1>4. CASE Len(plan) = 0
  BY <1>3, <1>4 DEF StepsOf
<1>5. CASE Len(plan) = 1
  <2>1. plan[1].steps \in Nat
    BY <1>1, <1>2, <1>5
  <2>2. Tail(plan) \in Seq(Phase) /\ Len(Tail(plan)) = 0
    BY <1>3, <1>5
  <2>3. StepsOf(plan) = plan[1].steps /\ StepsOf(Tail(plan)) = 0
    BY <1>5, <2>2 DEF StepsOf
  <2> QED BY <2>1, <2>2, <2>3
<1>6. CASE Len(plan) = 2
  <2>1. plan[1].steps \in Nat /\ plan[2].steps \in Nat
    BY <1>1, <1>2, <1>6
  <2>2. Tail(plan) \in Seq(Phase) /\ Len(Tail(plan)) = 1 /\ Tail(plan)[1] = plan[2]
    BY <1>3, <1>6
  <2>3. StepsOf(plan) = plan[1].steps + plan[2].steps /\ StepsOf(Tail(plan)) = plan[2].steps
    BY <1>6, <2>2, SMTT(30) DEF StepsOf
  <2> QED BY <2>1, <2>2, <2>3
<1>7. Len(plan) = 0 \/ Len(plan) = 1 \/ Len(plan) = 2
  <2> DEFINE n == Len(plan)
  <2>1. n \in Nat /\ n <= 2
    BY <1>3
  <2> HIDE DEF n
  <2>2. n = 0 \/ n = 1 \/ n = 2
    BY <2>1
  <2> QED BY <2>2 DEF n
<1> QED BY <1>4, <1>5, <1>6, <1>7

LEMMA RequestOpens ==
    ASSUME MatchInv, PilotInv, NEW w \in workers, OpenRequest(w)
    PROVE  MatchInv'
<1>1. PICK source \in Nat : Becomes(w, [w EXCEPT !.stage = "train", !.source = source])
  <2>1. w \in Worker /\ w.cell \in DOMAIN Matrix /\ jobs \in [DOMAIN Matrix -> Cell]
    BY WorkerAtWork DEF MatchInv, MatchTyped
  <2>2. CASE TeacherOf(w.cell) = 0
    <3>1. [w EXCEPT !.stage = "train"] = [w EXCEPT !.stage = "train", !.source = w.source]
      BY <2>1 DEF Worker
    <3>2. Becomes(w, [w EXCEPT !.stage = "train"]) /\ w.source \in Nat
      BY <2>1, <2>2 DEF OpenRequest, Worker
    <3> QED BY <3>1, <3>2
  <2>3. CASE TeacherOf(w.cell) # 0
    <3>1. TeacherOf(w.cell) \in DOMAIN Matrix
      BY <2>1, <2>3, TeacherIsACase
    <3>2. jobs[TeacherOf(w.cell)].embeddings \in Nat
      BY <2>1, <3>1 DEF Cell
    <3> QED BY <2>3, <3>2 DEF OpenRequest
  <2> QED BY <2>2, <2>3
<1> DEFINE v == [w EXCEPT !.stage = "train", !.source = source]
<1>2. w \in Worker /\ WorkerHolds(w, jobs[w.cell]) /\ w.stage = "open"
  BY WorkerAtWork DEF OpenRequest
<1>3. v \in Worker /\ v.stage = "train"
      /\ v.fit = w.fit /\ v.cell = w.cell /\ v.plan = w.plan /\ v.updates = w.updates
      /\ v.skewed = w.skewed /\ v.tainted = w.tainted
  BY <1>2 DEF Worker, PilotStages
<1> HIDE DEF v
<1>4. WorkerHolds(v, jobs[w.cell])
  BY <1>2, <1>3 DEF WorkerHolds
<1>5. Becomes(w, v) /\ UNCHANGED <<jobs, runner, fitted, edited>>
  BY <1>1 DEF v, OpenRequest
<1> QED BY <1>3, <1>4, <1>5, WorkerMoves

LEMMA PhaseBegins ==
    ASSUME MatchInv, PilotInv, NEW w \in workers, TrainPhase(w)
    PROVE  MatchInv'
<1> DEFINE v == [w EXCEPT !.stage = "update", !.step = 0, !.momentum = 0]
<1>2. w \in Worker /\ WorkerHolds(w, jobs[w.cell]) /\ w.stage = "train" /\ w.plan # <<>>
  BY WorkerAtWork DEF TrainPhase
<1>3. v \in Worker /\ v.stage = "update" /\ v.step = 0 /\ v.momentum = 0
      /\ v.fit = w.fit /\ v.cell = w.cell /\ v.plan = w.plan /\ v.updates = w.updates
      /\ v.skewed = w.skewed /\ v.tainted = w.tainted
  BY <1>2 DEF Worker, PilotStages
<1>4. Becomes(w, v) /\ UNCHANGED <<jobs, runner, fitted, edited>>
  BY DEF TrainPhase
<1> HIDE DEF v
<1>5. w.plan[1].steps \in Nat /\ Due(w.cell) \in Nat
  <2>1. w.plan \in Seq(Phase) /\ Len(w.plan) <= 2
    BY <1>2 DEF Worker, WorkerHolds
  <2> QED BY <1>2, <2>1, StepsOfAPlan, PlansTyped, WorkerAtWork
<1>6. WorkerHolds(v, jobs[w.cell])
  BY <1>2, <1>3, <1>5 DEF WorkerHolds
<1> QED BY <1>3, <1>4, <1>6, WorkerMoves

LEMMA StepIsTrained ==
    ASSUME MatchInv, PilotInv, NEW w \in workers, TrainStep(w)
    PROVE  MatchInv'
<1> DEFINE skewed == w.skewed \/ w.momentum # w.step
           w1 == [w EXCEPT !.step = w.step + 1]
           w2 == [w1 EXCEPT !.momentum = w.momentum + 1]
           w3 == [w2 EXCEPT !.updates = w.updates + 1]
           v == [w3 EXCEPT !.skewed = skewed]
<1>2. /\ w \in Worker /\ WorkerHolds(w, jobs[w.cell])
      /\ w.stage = "update" /\ w.step < w.plan[1].steps
  BY WorkerAtWork DEF TrainStep
<1>10. skewed \in BOOLEAN /\ (skewed <=> w.skewed \/ w.momentum # w.step)
  OBVIOUS
<1>11. v = [w EXCEPT !.step = @ + 1, !.momentum = @ + 1, !.updates = @ + 1,
                      !.skewed = @ \/ w.momentum # w.step]
  BY <1>2 DEF Worker
<1>4. Becomes(w, v) /\ UNCHANGED <<jobs, runner, fitted, edited>>
  BY <1>11 DEF TrainStep
<1> HIDE DEF skewed
<1>15. w.momentum + 1 \in Nat /\ w.updates + 1 \in Nat /\ w.step + 1 \in Nat
  BY <1>2 DEF Worker
<1>12. /\ w1 \in Worker /\ w1.stage = "update" /\ w1.step = w.step + 1
       /\ w1.momentum = w.momentum /\ w1.updates = w.updates
       /\ w1.fit = w.fit /\ w1.cell = w.cell /\ w1.plan = w.plan
       /\ w1.skewed = w.skewed /\ w1.tainted = w.tainted
  BY <1>2, SMTT(30) DEF Worker
<1> HIDE DEF w1
<1>13. /\ w2 \in Worker /\ w2.stage = "update" /\ w2.step = w.step + 1
       /\ w2.momentum = w.momentum + 1 /\ w2.updates = w.updates
       /\ w2.fit = w.fit /\ w2.cell = w.cell /\ w2.plan = w.plan
       /\ w2.skewed = w.skewed /\ w2.tainted = w.tainted
  BY <1>12, <1>15 DEF Worker
<1> HIDE DEF w2
<1>14. /\ w3 \in Worker /\ w3.stage = "update" /\ w3.step = w.step + 1
       /\ w3.momentum = w.momentum + 1 /\ w3.updates = w.updates + 1
       /\ w3.fit = w.fit /\ w3.cell = w.cell /\ w3.plan = w.plan
       /\ w3.skewed = w.skewed /\ w3.tainted = w.tainted
  BY <1>13, <1>15 DEF Worker
<1> HIDE DEF w3
<1>3. v \in Worker /\ v.stage = "update" /\ v.step = w.step + 1
      /\ v.momentum = w.momentum + 1 /\ v.updates = w.updates + 1
      /\ v.fit = w.fit /\ v.cell = w.cell /\ v.plan = w.plan
      /\ v.skewed = skewed /\ v.tainted = w.tainted
  BY <1>10, <1>14 DEF Worker
<1> HIDE DEF v
<1>5. /\ w.momentum = w.step /\ w.plan # <<>>
      /\ w.updates + StepsOf(w.plan) = Due(w.cell) + w.step
  BY <1>2 DEF WorkerHolds
<1>6. /\ w.updates \in Nat /\ w.step \in Nat /\ w.plan[1].steps \in Nat
      /\ StepsOf(w.plan) \in Nat /\ Due(w.cell) \in Nat
  <2>1. w.plan \in Seq(Phase) /\ Len(w.plan) <= 2 /\ w.updates \in Nat /\ w.step \in Nat
    BY <1>2 DEF Worker, WorkerHolds
  <2> QED BY <1>5, <2>1, StepsOfAPlan, PlansTyped, WorkerAtWork
<1>7. v.updates + StepsOf(v.plan) = Due(v.cell) + v.step /\ v.step <= v.plan[1].steps
  <2>1. /\ v.plan = w.plan /\ v.cell = w.cell
        /\ v.updates = w.updates + 1 /\ v.step = w.step + 1
    BY <1>3
  <2>2. w.step + 1 <= w.plan[1].steps
    BY <1>2, <1>6
  <2>3. (w.updates + 1) + StepsOf(w.plan) = Due(w.cell) + (w.step + 1)
    BY <1>5, <1>6, SMTT(30)
  <2> QED BY <2>1, <2>2, <2>3
<1>8. WorkerHolds(v, jobs[w.cell])
  BY <1>2, <1>3, <1>5, <1>7, <1>10 DEF WorkerHolds
<1> QED BY <1>3, <1>4, <1>8, WorkerMoves

LEMMA PhaseEnds ==
    ASSUME MatchInv, PilotInv, NEW w \in workers, EndPhase(w)
    PROVE  MatchInv'
<1> DEFINE v == [w EXCEPT !.stage = "train", !.plan = Tail(@)]
<1>2. /\ w \in Worker /\ WorkerHolds(w, jobs[w.cell])
      /\ w.stage = "update" /\ w.step = w.plan[1].steps
  BY WorkerAtWork DEF EndPhase
<1>3. /\ w.plan # <<>> /\ Len(w.plan) <= 2 /\ w.plan \in Seq(Phase)
      /\ w.updates + StepsOf(w.plan) = Due(w.cell) + w.step
      /\ w.updates \in Nat /\ w.step \in Nat /\ Due(w.cell) \in Nat
  BY <1>2, PlansTyped, WorkerAtWork DEF WorkerHolds, Worker
<1>4. /\ Tail(w.plan) \in Seq(Phase) /\ Len(Tail(w.plan)) <= 2
      /\ w.plan[1].steps \in Nat /\ StepsOf(Tail(w.plan)) \in Nat
      /\ StepsOf(w.plan) = w.plan[1].steps + StepsOf(Tail(w.plan))
  BY <1>3, StepsOfAPlan
<1>6. /\ v \in Worker /\ v.stage = "train" /\ v.plan = Tail(w.plan)
      /\ v.updates = w.updates
      /\ v.fit = w.fit /\ v.cell = w.cell
      /\ v.skewed = w.skewed /\ v.tainted = w.tainted
  BY <1>2, <1>4 DEF Worker, PilotStages
<1>7. Becomes(w, v) /\ UNCHANGED <<jobs, runner, fitted, edited>>
  BY DEF EndPhase
<1> HIDE DEF v
<1>8. v.updates + StepsOf(v.plan) = Due(v.cell) /\ Len(v.plan) <= 2
  BY <1>2, <1>3, <1>4, <1>6
<1>9. WorkerHolds(v, jobs[w.cell])
  BY <1>2, <1>6, <1>8 DEF WorkerHolds
<1> QED BY <1>6, <1>7, <1>9, WorkerMoves

LEMMA WeightsAreSaved ==
    ASSUME MatchInv, PilotInv, NEW w \in workers, SaveWeights(w)
    PROVE  MatchInv'
<1> DEFINE v == [w EXCEPT !.stage = "saved"]
           old == jobs[w.cell]
           cell == IF Neural(w.cell) THEN [old EXCEPT !.weights = w.fit] ELSE old
<1>1. /\ w \in Worker /\ WorkerHolds(w, old) /\ w.stage = "train" /\ w.plan = <<>>
      /\ old \in Cell /\ CellHolds(w.cell, old) /\ w.fit \in Nat
      /\ w.cell \in DOMAIN Matrix /\ jobs \in [DOMAIN Matrix -> Cell]
  BY WorkerAtWork DEF SaveWeights, MatchInv, MatchTyped
<1>2. /\ v \in Worker /\ v.stage = "saved" /\ v.plan = w.plan /\ v.updates = w.updates
      /\ v.fit = w.fit /\ v.cell = w.cell
      /\ v.skewed = w.skewed /\ v.tainted = w.tainted
  BY <1>1 DEF Worker, PilotStages
<1>3. workers' = (workers \ {w}) \cup {v} /\ UNCHANGED <<runner, fitted, edited>>
  BY DEF SaveWeights, Becomes
<1>4. jobs' = [jobs EXCEPT ![w.cell] = cell]
  BY <1>1 DEF SaveWeights
<1> HIDE DEF v
<1>5. /\ cell \in Cell /\ cell.receipt = old.receipt /\ cell.accepts = old.accepts
      /\ cell.result = old.result /\ cell.embeddings = old.embeddings
  BY <1>1 DEF Cell
<1> HIDE DEF cell
<1>6. WorkerHolds(v, cell) /\ CellHolds(w.cell, cell)
  BY <1>1, <1>2, <1>5 DEF WorkerHolds, CellHolds
<1>7. cell.accepts = 0 => jobs[w.cell].accepts = 0
  BY <1>5
<1>8. workers' \subseteq (workers \ {w}) \cup {v} /\ (runner'.step = "working" => runner' = runner)
  BY <1>3
<1> HIDE DEF old
<1> QED BY <1>2, <1>3, <1>4, <1>5, <1>6, <1>7, <1>8, WorkerChanges

LEMMA TeacherIsExported ==
    ASSUME MatchInv, PilotInv, NEW w \in workers, ExportTeacher(w)
    PROVE  MatchInv'
<1> DEFINE v == [w EXCEPT !.stage = "exported"]
           old == jobs[w.cell]
           cell == [old EXCEPT !.embeddings = w.fit]
<1>1. /\ w \in Worker /\ WorkerHolds(w, old) /\ w.stage = "saved"
      /\ old \in Cell /\ CellHolds(w.cell, old) /\ w.fit \in Nat
      /\ w.cell \in DOMAIN Matrix /\ jobs \in [DOMAIN Matrix -> Cell]
  BY WorkerAtWork DEF ExportTeacher, MatchInv, MatchTyped
<1>2. /\ v \in Worker /\ v.stage = "exported" /\ v.plan = w.plan /\ v.updates = w.updates
      /\ v.fit = w.fit /\ v.cell = w.cell
      /\ v.skewed = w.skewed /\ v.tainted = w.tainted
  BY <1>1 DEF Worker, PilotStages
<1>3. workers' = (workers \ {w}) \cup {v} /\ UNCHANGED <<runner, fitted, edited>>
  BY DEF ExportTeacher, Becomes
<1>4. jobs' = [jobs EXCEPT ![w.cell] = cell]
  BY <1>1 DEF ExportTeacher
<1> HIDE DEF v
<1>5. /\ cell \in Cell /\ cell.receipt = old.receipt /\ cell.accepts = old.accepts
      /\ cell.result = old.result /\ cell.embeddings = w.fit
  BY <1>1 DEF Cell
<1> HIDE DEF cell
<1>6. WorkerHolds(v, cell) /\ CellHolds(w.cell, cell)
  BY <1>1, <1>2, <1>5 DEF WorkerHolds, CellHolds
<1>7. cell.accepts = 0 => jobs[w.cell].accepts = 0
  BY <1>5
<1>8. workers' \subseteq (workers \ {w}) \cup {v} /\ (runner'.step = "working" => runner' = runner)
  BY <1>3
<1> HIDE DEF old
<1> QED BY <1>2, <1>3, <1>4, <1>5, <1>6, <1>7, <1>8, WorkerChanges

LEMMA ResultIsWritten ==
    ASSUME MatchInv, PilotInv, NEW w \in workers, WriteResult(w)
    PROVE  MatchInv'
<1> DEFINE v == [w EXCEPT !.stage = "done"]
           old == jobs[w.cell]
           shown == IF ExportsEmbeddings(w.cell) THEN w.fit ELSE 0
           r == [fit |-> w.fit, updates |-> w.updates, source |-> w.source,
                 embeddings |-> shown, skewed |-> w.skewed, tainted |-> w.tainted]
           cell == [old EXCEPT !.result = <<r>>]
<1>1. /\ w \in Worker /\ WorkerHolds(w, old)
      /\ w.stage = IF ExportsEmbeddings(w.cell) THEN "exported" ELSE "saved"
      /\ old \in Cell /\ CellHolds(w.cell, old) /\ w.fit \in Nat
      /\ w.cell \in DOMAIN Matrix /\ jobs \in [DOMAIN Matrix -> Cell]
  BY WorkerAtWork DEF WriteResult, MatchInv, MatchTyped
<1>2. /\ v \in Worker /\ v.stage = "done" /\ v.plan = w.plan /\ v.updates = w.updates
      /\ v.fit = w.fit /\ v.cell = w.cell
      /\ v.skewed = w.skewed /\ v.tainted = w.tainted
  BY <1>1 DEF Worker, PilotStages
<1>3. workers' = (workers \ {w}) \cup {v} /\ UNCHANGED <<runner, fitted, edited>>
  BY DEF WriteResult, Becomes
<1>4. jobs' = [jobs EXCEPT ![w.cell] = cell]
  BY <1>1 DEF WriteResult
<1> HIDE DEF v
<1>5. shown \in Nat
  BY <1>1
<1> HIDE DEF shown
<1>6. r \in Results /\ r.fit = w.fit /\ r.updates = w.updates /\ r.skewed = w.skewed
      /\ r.tainted = w.tainted
  BY <1>1, <1>5 DEF Worker, Results
<1> HIDE DEF r
<1>7. /\ cell \in Cell /\ cell.receipt = old.receipt /\ cell.accepts = old.accepts
      /\ cell.result = <<r>> /\ cell.embeddings = old.embeddings
  BY <1>1, <1>6 DEF Cell
<1> HIDE DEF cell
<1>8. /\ w.fit \in DOMAIN fitted /\ fitted[w.fit] = w.cell /\ ~w.skewed
      /\ (w.tainted => edited) /\ w.plan = <<>> /\ old.result = <<>>
      /\ w.updates + StepsOf(w.plan) = Due(w.cell) /\ w.updates \in Nat
      /\ w.stage = "exported" => old.embeddings = w.fit
  BY <1>1 DEF WorkerHolds, Worker
<1>9. w.updates = Due(w.cell)
  BY <1>8 DEF StepsOf
<1>10. /\ cell.result # <<>> /\ cell.result[1] = r /\ old.accepts = 0 /\ old.receipt # "ok"
  BY <1>1, <1>7, <1>8 DEF CellHolds
<1>11. CellHolds(w.cell, cell)
  BY <1>1, <1>6, <1>7, <1>8, <1>9, <1>10 DEF CellHolds
<1>12. WorkerHolds(v, cell)
  BY <1>1, <1>2, <1>6, <1>10 DEF WorkerHolds
<1>13. cell.accepts = 0 => jobs[w.cell].accepts = 0
  BY <1>7
<1>14. workers' \subseteq (workers \ {w}) \cup {v} /\ (runner'.step = "working" => runner' = runner)
  BY <1>3
<1> HIDE DEF old
<1> QED BY <1>2, <1>3, <1>4, <1>7, <1>11, <1>12, <1>13, <1>14, WorkerChanges

\* A fit begins: nothing was written for its case, and its teacher is accepted.
LEMMA PilotFitBegins ==
    ASSUME MatchInv, PilotInv, LaunchWorker
    PROVE  MatchInv'
<1> DEFINE at == runner.at
           n == Len(fitted) + 1
           new == [fit |-> n, cell |-> at, stage |-> "open", plan |-> FitPlan(at),
                   step |-> 0, momentum |-> 0, skewed |-> FALSE, updates |-> 0,
                   source |-> 0, tainted |-> FALSE]
<1>1. /\ fitted \in Seq(Nat) /\ at \in DOMAIN Matrix /\ at \in Nat
      /\ \A m \in DOMAIN fitted : fitted[m] # at /\ fitted[m] \in DOMAIN Matrix
      /\ jobs \in [DOMAIN Matrix -> Cell] /\ workers \subseteq Worker
  BY DEF LaunchWorker, Does, PilotInv, PilotBooks, AtHand, FitsAreCharged, MatchInv, MatchTyped
<1>2. /\ fitted' = Append(fitted, at) /\ workers' = workers \cup {new}
      /\ UNCHANGED <<jobs, edited>> /\ runner' = [runner EXCEPT !.step = "working"]
      /\ TeacherOf(at) # 0 => jobs[TeacherOf(at)].receipt = "ok"
  BY DEF LaunchWorker, Goes
<1>3. /\ n \in Nat \ {0} /\ n \notin DOMAIN fitted /\ DOMAIN fitted' = DOMAIN fitted \cup {n}
      /\ fitted'[n] = at /\ \A m \in DOMAIN fitted : fitted'[m] = fitted[m]
      /\ fitted' # <<>> /\ Len(fitted') = n
  BY <1>1, <1>2
<1>4. /\ FitPlan(at) \in Seq(Phase) /\ Len(FitPlan(at)) <= 2 /\ Due(at) \in Nat
      /\ StepsOf(FitPlan(at)) = Due(at)
  <2> DEFINE plan == FitPlan(at)
  <2>1. plan \in Seq(Phase) /\ Len(plan) \in {1, 2} /\ Due(at) \in Nat
        /\ StepsOf(plan) = Due(at)
    BY <1>1, PlansTyped DEF Due
  <2> HIDE DEF plan
  <2>2. Len(plan) <= 2
    <3> DEFINE length == Len(plan)
    <3>1. length \in {1, 2}
      BY <2>1
    <3> HIDE DEF length
    <3>2. length <= 2
      BY <3>1
    <3> QED BY <3>2 DEF length
  <2> QED BY <2>1, <2>2 DEF plan
<1> HIDE DEF n
<1>5. /\ new \in Worker /\ new.fit = n /\ new.cell = at /\ new.stage = "open"
      /\ new.plan = FitPlan(at) /\ new.updates = 0 /\ new.skewed = FALSE
      /\ new.tainted = FALSE
  BY <1>1, <1>3, <1>4 DEF Worker, PilotStages
<1> HIDE DEF new
<1>6. MatchTyped'
  BY <1>1, <1>2, <1>5 DEF MatchTyped
<1>7. CellsHold'
  <2> SUFFICES ASSUME NEW c \in DOMAIN Matrix PROVE CellHolds(c, jobs[c])'
    BY DEF CellsHold
  <2>1. CellHolds(c, jobs[c])
    BY DEF MatchInv, CellsHold
  <2> QED BY <1>2, <1>3, <2>1 DEF CellHolds
<1>8. WorkersHold'
  <2> SUFFICES ASSUME NEW w \in workers' PROVE WorkerHolds(w, jobs[w.cell])'
    BY DEF WorkersHold
  <2>1. CASE w = new
    <3>1. CellHolds(at, jobs[at])
      BY <1>1 DEF MatchInv, CellsHold
    <3>2. jobs[at].result = <<>>
      BY <1>1, <3>1 DEF CellHolds
    <3>3. new.updates + StepsOf(new.plan) = Due(new.cell)
      BY <1>4, <1>5
    <3> QED BY <1>2, <1>3, <1>4, <1>5, <2>1, <3>2, <3>3 DEF WorkerHolds
  <2>2. CASE w # new
    <3>1. WorkerHolds(w, jobs[w.cell])
      BY <1>2, <2>2 DEF MatchInv, WorkersHold
    <3> QED BY <1>2, <1>3, <3>1 DEF WorkerHolds
  <2> QED BY <2>1, <2>2
<1>9. OneWorkerEach'
  <2>1. \A w \in workers : w.fit \in DOMAIN fitted
    BY DEF MatchInv, WorkersHold, WorkerHolds
  <2> QED BY <1>2, <1>3, <1>5, <2>1 DEF MatchInv, OneWorkerEach
<1>10. TeacherIsAccepted'
  <2> SUFFICES ASSUME NEW m \in DOMAIN fitted', TeacherOf(fitted'[m]) # 0
               PROVE  jobs[TeacherOf(fitted'[m])].accepts # 0
    BY <1>2 DEF TeacherIsAccepted, TeacherOf, TeacherCase, Neural
  <2>1. CASE m = n
    <3>1. TeacherOf(at) \in DOMAIN Matrix /\ jobs[TeacherOf(at)].receipt = "ok"
      BY <1>1, <1>2, <1>3, <2>1, TeacherIsACase
    <3>2. CellHolds(TeacherOf(at), jobs[TeacherOf(at)])
      BY <3>1 DEF MatchInv, CellsHold
    <3> QED BY <1>3, <2>1, <3>1, <3>2 DEF CellHolds
  <2>2. CASE m # n
    BY <1>3, <2>2 DEF MatchInv, TeacherIsAccepted
  <2> QED BY <2>1, <2>2
<1>11. LastIsAtHand'
  <2>1. runner'.at = at
    BY <1>2 DEF PilotInv, PilotBooks
  <2> QED BY <1>3, <2>1 DEF LastIsAtHand
<1> QED BY <1>6, <1>7, <1>8, <1>9, <1>10, <1>11 DEF MatchInv

\* A result is accepted: it is the one of the fit at hand, under the sources of
\* the manifest.
LEMMA ResultIsAccepted ==
    ASSUME MatchInv, PilotInv, AcceptResult
    PROVE  MatchInv'
<1>1. PICK w \in workers : OwnWorker(w) /\ w.stage = "done" /\ workers' = workers \ {w}
  BY DEF AcceptResult
<1> DEFINE old == jobs[w.cell]
           mine == old.result[1].fit
           cell == [old EXCEPT !.receipt = "ok", !.accepts = mine]
<1>2. /\ w \in Worker /\ w.cell \in DOMAIN Matrix /\ old \in Cell
      /\ w.fit \in DOMAIN fitted /\ fitted[w.fit] = w.cell /\ w.fit \in Nat \ {0}
      /\ WorkerHolds(w, old) /\ CellHolds(w.cell, old)
      /\ jobs \in [DOMAIN Matrix -> Cell]
  BY WorkerAtWork DEF MatchInv, MatchTyped
<1>3. w.cell = runner.at
  BY <1>1, <1>2 DEF OwnWorker, Does, MatchInv, LastIsAtHand
<1>4. jobs' = [jobs EXCEPT ![w.cell] = cell]
  BY <1>2, <1>3 DEF AcceptResult
<1>5. old.result # <<>> /\ mine = w.fit /\ ~edited
  BY <1>1, <1>2 DEF WorkerHolds, AcceptResult
<1> HIDE DEF mine
<1>6. /\ cell \in Cell /\ cell.receipt = "ok" /\ cell.accepts = w.fit
      /\ cell.result = old.result /\ cell.embeddings = old.embeddings
  BY <1>2, <1>5 DEF Cell, Receipts
<1> HIDE DEF cell
<1>7. /\ old.result[1].fit = w.fit /\ ~old.result[1].tainted
  BY <1>2, <1>5 DEF CellHolds, mine
<1>8. CellHolds(w.cell, cell)
  BY <1>2, <1>5, <1>6, <1>7 DEF CellHolds
<1>9. WorkerHolds(w, cell)
  BY <1>1, <1>2, <1>6 DEF WorkerHolds
<1>10. /\ cell.accepts # 0 /\ workers' \subseteq (workers \ {w}) \cup {w}
       /\ UNCHANGED <<fitted, edited>>
  BY <1>1, <1>2, <1>6 DEF AcceptResult
<1>11. runner'.step # "working"
  BY DEF AcceptResult, Goes, PilotInv, PilotBooks
<1> HIDE DEF old
<1> QED BY <1>2, <1>4, <1>6, <1>8, <1>9, <1>10, <1>11, WorkerChanges

\* Sources are edited: whoever trains may load them, who is done does not.
LEMMA SourcesChange ==
    ASSUME MatchInv, PilotInv, EditSources
    PROVE  MatchInv'
<1> DEFINE Late(w) == [w EXCEPT !.tainted = w.stage # "done"]
<1>1. /\ workers' = {Late(w) : w \in workers} /\ edited' = TRUE
      /\ UNCHANGED <<jobs, runner, fitted>>
  BY DEF EditSources
<1>2. ASSUME NEW w \in workers
      PROVE  /\ Late(w) \in Worker /\ Late(w).fit = w.fit /\ Late(w).cell = w.cell
             /\ Late(w).stage = w.stage /\ Late(w).plan = w.plan
             /\ Late(w).updates = w.updates /\ Late(w).skewed = w.skewed
             /\ Late(w).step = w.step /\ Late(w).momentum = w.momentum
  <2> DEFINE late == w.stage # "done"
  <2>1. late \in BOOLEAN /\ w \in Worker
    BY WorkerAtWork
  <2> HIDE DEF late
  <2> QED BY <2>1 DEF Worker
<1> HIDE DEF Late
<1>3. MatchTyped'
  BY <1>1, <1>2 DEF MatchInv, MatchTyped
<1>4. CellsHold'
  BY <1>1 DEF MatchInv, CellsHold, CellHolds
<1>5. WorkersHold'
  <2> SUFFICES ASSUME NEW v \in workers' PROVE WorkerHolds(v, jobs[v.cell])'
    BY DEF WorkersHold
  <2>1. PICK w \in workers : v = Late(w)
    BY <1>1
  <2>2. WorkerHolds(w, jobs[w.cell])
    BY DEF MatchInv, WorkersHold
  <2> QED BY <1>1, <1>2, <2>1, <2>2 DEF WorkerHolds
<1>6. OneWorkerEach'
  BY <1>1, <1>2 DEF MatchInv, OneWorkerEach
<1>7. TeacherIsAccepted' /\ LastIsAtHand'
  BY <1>1 DEF MatchInv, TeacherIsAccepted, LastIsAtHand, TeacherOf, TeacherCase, Neural
<1> QED BY <1>3, <1>4, <1>5, <1>6, <1>7 DEF MatchInv

LEMMA MatchKept ==
    ASSUME MatchInv, PilotInv, [PilotNext]_pilotVars
    PROVE  MatchInv'
<1>1. /\ \A w \in workers : w.cell \in DOMAIN Matrix
      /\ \A n \in DOMAIN fitted : fitted[n] \in DOMAIN Matrix
      /\ jobs \in [DOMAIN Matrix -> Cell]
      /\ runner \in [step : RunnerSteps, at : Nat]
  BY WorkerAtWork DEF PilotInv, PilotBooks, FitsAreCharged, MatchInv, MatchTyped
<1>2. CASE OpenSession \/ SkipCase \/ EndSession \/ RefuseCase \/ CheckResult \/ PilotDies
           \/ UNCHANGED pilotVars
  <2>1. /\ UNCHANGED <<jobs, fitted, edited>> /\ workers' \subseteq workers
        /\ runner'.step = "working" => runner' = runner
    BY <1>1, <1>2 DEF OpenSession, SkipCase, EndSession, RefuseCase, CheckResult, PilotDies,
              pilotVars, Does, Leaves, NoRunner
  <2> QED BY <1>1, <2>1, MatchRests
<1>3. CASE MakeCase \/ ChargeCase \/ FailCase
  <2> DEFINE c == runner.at
  <2>1. /\ UNCHANGED <<fitted, edited>> /\ workers' \subseteq workers
        /\ runner'.step # "working" /\ c \in DOMAIN Matrix
    BY <1>1, <1>3 DEF MakeCase, ChargeCase, FailCase, Does, Goes, Leaves, NoRunner,
              PilotInv, PilotBooks, AtHand
  <2>2. jobs' \in [DOMAIN Matrix -> Cell]
        /\ \A d \in DOMAIN Matrix :
             /\ jobs'[d].accepts = jobs[d].accepts /\ jobs'[d].result = jobs[d].result
             /\ jobs'[d].embeddings = jobs[d].embeddings
             /\ jobs'[d].receipt = "ok" => jobs[d].receipt = "ok"
    <3> DEFINE old == jobs[c]
    <3>1. \/ jobs' = [jobs EXCEPT ![c] = [old EXCEPT !.made = TRUE]]
          \/ jobs' = [jobs EXCEPT ![c] = [old EXCEPT !.receipt = "running"]]
          \/ jobs' = [jobs EXCEPT ![c] = [old EXCEPT !.receipt = "failed"]]
      BY <1>1, <1>3 DEF MakeCase, ChargeCase, FailCase, SetReceipt
    <3>2. old \in Cell
      BY <1>1, <2>1
    <3>3. PICK cell \in Cell :
            /\ jobs' = [jobs EXCEPT ![c] = cell] /\ cell.accepts = old.accepts
            /\ cell.result = old.result /\ cell.embeddings = old.embeddings
            /\ cell.receipt = "ok" => old.receipt = "ok"
      <4>1. CASE jobs' = [jobs EXCEPT ![c] = [old EXCEPT !.made = TRUE]]
        <5> DEFINE cell == [old EXCEPT !.made = TRUE]
        <5>1. /\ cell \in Cell /\ cell.accepts = old.accepts /\ cell.result = old.result
              /\ cell.embeddings = old.embeddings /\ cell.receipt = old.receipt
          BY <3>2 DEF Cell
        <5>2. jobs' = [jobs EXCEPT ![c] = cell]
          BY <4>1
        <5> HIDE DEF cell, old
        <5> QED BY <5>1, <5>2
      <4>2. ASSUME NEW s \in {"running", "failed"},
                   jobs' = [jobs EXCEPT ![c] = [old EXCEPT !.receipt = s]]
            PROVE  \E cell \in Cell :
                     /\ jobs' = [jobs EXCEPT ![c] = cell] /\ cell.accepts = old.accepts
                     /\ cell.result = old.result /\ cell.embeddings = old.embeddings
                     /\ cell.receipt = "ok" => old.receipt = "ok"
        <5> DEFINE cell == [old EXCEPT !.receipt = s]
        <5>1. /\ cell \in Cell /\ cell.accepts = old.accepts /\ cell.result = old.result
              /\ cell.embeddings = old.embeddings /\ cell.receipt = s
          BY <3>2 DEF Cell, Receipts
        <5>2. jobs' = [jobs EXCEPT ![c] = cell]
          BY <4>2
        <5> HIDE DEF cell, old
        <5> QED BY <5>1, <5>2
      <4> QED BY <3>1, <4>1, <4>2
    <3> HIDE DEF old
    <3> QED BY <1>1, <3>3 DEF old
  <2> QED BY <1>1, <2>1, <2>2, MatchRests
<1>4. ASSUME NEW w \in workers, WorkerStep(w) PROVE MatchInv'
  BY <1>4, RequestOpens, PhaseBegins, StepIsTrained, PhaseEnds, WeightsAreSaved,
     TeacherIsExported, ResultIsWritten DEF WorkerStep
<1> QED BY <1>2, <1>3, <1>4, PilotFitBegins, ResultIsAccepted, SourcesChange DEF PilotNext

LEMMA HeldContrastsMatch == ASSUME MatchInv, PilotInv PROVE ContrastsAreMatched
<1> DEFINE Of(c) == jobs[c].result[1]
<1>1. ASSUME NEW c \in Accepted
      PROVE  /\ c \in DOMAIN Matrix /\ ~Of(c).tainted /\ ~Of(c).skewed
             /\ Of(c).updates = Due(c) /\ Due(c) \in Nat
             /\ ~Disputed(c) /\ jobs[c].receipt = "ok" /\ jobs[c].accepts # 0
             /\ Of(c).fit \in DOMAIN fitted /\ fitted[Of(c).fit] = c
             /\ jobs[c].accepts = Of(c).fit
  <2>1. c \in DOMAIN Matrix /\ jobs[c].receipt = "ok" /\ ~Disputed(c)
    BY DEF Accepted, PilotInv, PilotBooks
  <2>2. CellHolds(c, jobs[c])
    BY <2>1 DEF MatchInv, CellsHold
  <2> QED BY <2>1, <2>2, PlansTyped DEF CellHolds
<1> HIDE DEF Of
<1>2. ASSUME NEW c \in Accepted, NEW d \in Accepted, Long(c, d) \/ Transfer(c, d)
      PROVE  Due(d) - Due(c) =
               IF Neural(c) /\ Matrix[c].arm = "supervised_short" THEN PreSteps ELSE 0
  <2>1. c \in DOMAIN Matrix /\ d \in DOMAIN Matrix
    BY <1>1
  <2>2. /\ Matrix[d].arm = "supervised_long" \/ Matrix[d].arm = "distillation"
        /\ Matrix[d].arm = "distillation" => Matrix[c].arm = "jepa_transfer"
        /\ Matrix[c].system = Matrix[d].system
    BY <1>2 DEF Long, Transfer, Contrast
  <2>3. Neural(c) <=> Neural(d)
    BY <2>2 DEF Neural
  <2>4. PreSteps \in Nat /\ FineSteps \in Nat
    BY PilotAssumption
  <2> QED BY <2>1, <2>2, <2>3, <2>4, DueOfTheArms
<1>3. ASSUME NEW c \in Accepted, NEW d \in Accepted, Neural(c), Transfer(c, d)
      PROVE  Of(c).source = Of(d).source /\ Of(c).source = jobs[TeacherOf(c)].accepts
  <2>1. c \in DOMAIN Matrix /\ d \in DOMAIN Matrix
    BY <1>1
  <2>2. /\ Matrix[d].arm \in TransferArms /\ Matrix[c].arm \in TransferArms /\ Neural(d)
    BY <1>3 DEF Transfer, Contrast, TransferArms, Neural
  <2>3. /\ TeacherOf(c) # 0 /\ TeacherOf(c) = TeacherCase /\ TeacherOf(d) # 0
        /\ TeacherOf(d) = TeacherCase /\ TeacherCase \in DOMAIN Matrix
    BY <1>3, <2>1, <2>2, TeacherIsACase
  <2>4. /\ Of(c).source = jobs[TeacherCase].embeddings
        /\ Of(d).source = jobs[TeacherCase].embeddings
    BY <1>1, <2>3 DEF Disputed, Of
  <2>5. jobs[TeacherCase].accepts # 0
    BY <1>1, <2>3 DEF MatchInv, TeacherIsAccepted
  <2>6. CellHolds(TeacherCase, jobs[TeacherCase])
    BY <2>3 DEF MatchInv, CellsHold
  <2>7. jobs[TeacherCase].embeddings = jobs[TeacherCase].accepts
    BY <2>5, <2>6 DEF CellHolds, ExportsEmbeddings
  <2> QED BY <2>3, <2>4, <2>7
<1> QED BY <1>1, <1>2, <1>3 DEF ContrastsAreMatched, Of

\* The contrasts of a report compare like with like, whatever died, strayed or
\* was edited meanwhile, for every number of candidates and of steps
\* (jepa.py report).
THEOREM ContrastsAlwaysMatch == PilotSpec => []ContrastsAreMatched
<1>1. PilotInit => PilotInv /\ MatchInv
  BY PilotBegins, MatchBegins
<1>2. (PilotInv /\ MatchInv) /\ [PilotNext]_pilotVars => (PilotInv /\ MatchInv)'
  BY PilotKept, MatchKept
<1>3. PilotInv /\ MatchInv => ContrastsAreMatched
  BY HeldContrastsMatch
<1> QED BY <1>1, <1>2, <1>3, PTL DEF PilotSpec

(***************************************************************************)
(* The amendments.  Of the runs of the roots before the newest one, each   *)
(* is inherited as a whole cell or retained as cost, and none of them ever *)
(* changes again.                                                          *)
(***************************************************************************)

RunType ==
  [fits : 0 .. FitsPerRun, stand : {"none", "partial", "exhausted", "failed", "done"},
   cause : Causes \cup {Nothing}, recorded : BOOLEAN, replayed : BOOLEAN]
Inheritances == UNION {[S -> 1 .. 5] : S \in SUBSET Slots}
Costs == [root : 1 .. 5, slot : Slots, charged : 0 .. FitsPerRun]
RootType == [inherited : Inheritances, retained : SUBSET Costs, failed : BOOLEAN]
FinalReports == [origins : [Slots -> 1 .. 5], cost : SUBSET Costs]
KeeperSteps == {"idle", "visit", "train", "orphan", "replay", "record"}

ChainTyped ==
  /\ chain \in [family : ChainFamilies, roots : Seq(RootType), paused : BOOLEAN,
                drift : BOOLEAN, report : {<<>>} \cup {<<r>> : r \in FinalReports}]
  /\ Latest \in 1 .. 5 /\ Latest <= Len(Diagnoses[chain.family]) + 1
  /\ runs \in [(1 .. 5) \X Slots -> RunType]
  /\ keeper \in [pc : KeeperSteps, slot : Nat]

KeeperIsAtItsCell ==
  keeper.pc # "idle" => keeper.slot \in Slots \ DOMAIN Root.inherited

RunsAreWhole ==
  \A k \in (1 .. 5) \X Slots :
    /\ runs[k].stand = "none" <=> runs[k].fits = 0
    /\ runs[k].stand = "done" => runs[k].fits = FitsPerRun
    /\ k[1] > Latest => runs[k].stand = "none"

InheritedIsWhole ==
  \A i \in DOMAIN Root.inherited :
    /\ i \in Slots /\ Root.inherited[i] \in 1 .. (Latest - 1)
    /\ runs[<<Root.inherited[i], i>>].stand = "done"
    /\ runs[<<Root.inherited[i], i>>].replayed
    /\ runs[<<Latest, i>>].stand = "none"

CostOf(k) == [root |-> k[1], slot |-> k[2], charged |-> runs[k].fits]
IsInherited(k) == k[2] \in DOMAIN Root.inherited /\ Root.inherited[k[2]] = k[1]
Lost ==
  {k \in (1 .. 5) \X Slots : k[1] < Latest /\ runs[k].stand # "none" /\ ~IsInherited(k)}
RetainedIsExact == Root.retained = {CostOf(k) : k \in Lost}

\* Once reported, a chain is at its end.
ReportIsKept ==
  chain.report # <<>> =>
    /\ keeper.pc = "idle" /\ Waiting = {}
    /\ chain.report[1].cost = Root.retained
    /\ chain.report[1].origins =
         [i \in Slots |-> IF i \in Own THEN Latest ELSE Root.inherited[i]]

ChainInv ==
  /\ ChainTyped /\ KeeperIsAtItsCell /\ RunsAreWhole /\ InheritedIsWhole
  /\ RetainedIsExact /\ ReportIsKept

LEMMA LeastOf ==
    ASSUME NEW S, S \subseteq Nat, S # {}
    PROVE  Min(S) \in S
BY LeastExists DEF Min

LEMMA EmptyInheritance == <<>> \in Inheritances /\ DOMAIN <<>> = {}
<1>1. <<>> \in [{} -> 1 .. 5] /\ DOMAIN <<>> = {}
  OBVIOUS
<1>2. {} \in SUBSET Slots
  OBVIOUS
<1> QED BY <1>1, <1>2 DEF Inheritances

LEMMA ChainBegins == ASSUME ChainInit PROVE ChainInv
<1>1. PICK f \in ChainFamilies :
        chain = [family |-> f, roots |-> <<FreshRoot(<<>>, {})>>, paused |-> FALSE,
                 drift |-> FALSE, report |-> <<>>]
  BY DEF ChainInit
<1> DEFINE r == FreshRoot(<<>>, {})
<1>2. r \in RootType /\ DOMAIN r.inherited = {} /\ r.retained = {}
  BY EmptyInheritance DEF FreshRoot, RootType
<1>3. chain = [family |-> f, roots |-> <<r>>, paused |-> FALSE, drift |-> FALSE,
               report |-> <<>>]
  BY <1>1
<1> HIDE DEF r
<1>4. /\ chain.roots = <<r>> /\ <<r>> \in Seq(RootType) /\ Latest = 1 /\ Root = r
      /\ chain.family = f /\ chain.report = <<>>
  BY <1>2, <1>3 DEF Latest, Root
<1>5. Latest <= Len(Diagnoses[chain.family]) + 1
  <2>1. f \in {"prism", "primordia", "topograph", "stratograph"}
    BY ChainAssumption
  <2>2. Len(Diagnoses[f]) \in Nat
    BY <2>1 DEF Diagnoses
  <2> QED BY <1>4, <2>2
<1>6. NoRun \in RunType /\ NoRun.stand = "none" /\ NoRun.fits = 0
  BY ChainAssumption DEF NoRun, RunType
<1>7. runs = [k \in (1 .. 5) \X Slots |-> NoRun] /\ keeper = Resting
  BY DEF ChainInit
<1>8. ChainTyped
  BY <1>3, <1>4, <1>5, <1>6, <1>7 DEF ChainTyped, Resting, KeeperSteps
<1>9. KeeperIsAtItsCell /\ ReportIsKept
  BY <1>4, <1>7 DEF KeeperIsAtItsCell, ReportIsKept, Resting
<1>10. RunsAreWhole
  BY <1>6, <1>7 DEF RunsAreWhole
<1>11. InheritedIsWhole
  BY <1>2, <1>4 DEF InheritedIsWhole
<1>12. RetainedIsExact
  <2>1. Lost = {}
    BY <1>6, <1>7 DEF Lost
  <2> QED BY <1>2, <1>4, <2>1 DEF RetainedIsExact
<1> QED BY <1>8, <1>9, <1>10, <1>11, <1>12 DEF ChainInv

\* What a session leaves of the roots: everything but who failed.
SameRoots ==
  /\ chain' \in [family : ChainFamilies, roots : Seq(RootType), paused : BOOLEAN,
                 drift : BOOLEAN, report : {<<>>} \cup {<<r>> : r \in FinalReports}]
  /\ chain'.family = chain.family /\ Latest' = Latest
  /\ Root'.inherited = Root.inherited /\ Root'.retained = Root.retained
  /\ chain'.report = chain.report

LEMMA RootsRest == ASSUME ChainTyped, UNCHANGED chain PROVE SameRoots
BY DEF ChainTyped, SameRoots, Latest, Root

LEMMA FailureIsNoted ==
    ASSUME ChainTyped, NEW b \in BOOLEAN,
           chain' = [chain EXCEPT !.roots[Latest].failed = b]
    PROVE  SameRoots
<1> DEFINE r == [chain.roots[Latest] EXCEPT !.failed = b]
           rs == [chain.roots EXCEPT ![Latest] = r]
<1>1. chain' = [chain EXCEPT !.roots = rs]
  OBVIOUS
<1>2. /\ chain.roots \in Seq(RootType) /\ Latest \in DOMAIN chain.roots
      /\ chain.roots[Latest] \in RootType
  <2>1. chain.roots \in Seq(RootType) /\ Latest \in 1 .. 5 /\ Latest = Len(chain.roots)
    BY DEF ChainTyped, Latest
  <2> DEFINE n == Len(chain.roots)
  <2>2. n \in 1 .. n /\ DOMAIN chain.roots = 1 .. n /\ Latest = n
    <3>1. n \in 1 .. 5 /\ DOMAIN chain.roots = 1 .. n
      BY <2>1
    <3>2. Latest = n
      BY <2>1
    <3> HIDE DEF n
    <3>3. n \in 1 .. n
      BY <3>1
    <3> QED BY <3>1, <3>2, <3>3
  <2> QED BY <2>1, <2>2
<1>3. /\ r \in RootType /\ r.inherited = Root.inherited /\ r.retained = Root.retained
  BY <1>2 DEF RootType, Root
<1> HIDE DEF r
<1>4. /\ rs \in Seq(RootType) /\ Len(rs) = Latest /\ rs[Latest] = r
  BY <1>2, <1>3 DEF Latest
<1> HIDE DEF rs
<1>5. /\ chain' \in [family : ChainFamilies, roots : Seq(RootType), paused : BOOLEAN,
                     drift : BOOLEAN, report : {<<>>} \cup {<<q>> : q \in FinalReports}]
      /\ chain'.roots = rs /\ chain'.family = chain.family
      /\ chain'.report = chain.report
  BY <1>1, <1>4 DEF ChainTyped
<1>6. Latest' = Latest
  BY <1>4, <1>5 DEF Latest
<1>7. Root' = r
  BY <1>4, <1>5, <1>6 DEF Root
<1> QED BY <1>3, <1>5, <1>6, <1>7 DEF SameRoots

LEMMA FlagIsSet ==
    ASSUME ChainTyped, NEW b \in BOOLEAN,
           \/ chain' = [chain EXCEPT !.paused = b]
           \/ chain' = [chain EXCEPT !.drift = b]
    PROVE  SameRoots
<1>1. /\ chain' \in [family : ChainFamilies, roots : Seq(RootType), paused : BOOLEAN,
                     drift : BOOLEAN, report : {<<>>} \cup {<<r>> : r \in FinalReports}]
      /\ chain'.family = chain.family /\ chain'.roots = chain.roots
      /\ chain'.report = chain.report
  BY DEF ChainTyped
<1> QED BY <1>1 DEF SameRoots, Latest, Root

LEMMA WaitingAreSlots ==
    Waiting \subseteq Slots \ DOMAIN Root.inherited /\ Waiting \subseteq Nat
BY ChainAssumption DEF Waiting

\* A step that changes no run: the session begins, looks, ends or is disturbed.
LEMMA SessionMoves ==
    ASSUME ChainInv, SameRoots, UNCHANGED runs,
           keeper' \in [pc : KeeperSteps, slot : Nat],
           keeper'.pc # "idle" =>
             /\ keeper'.slot \in Slots \ DOMAIN Root.inherited
             /\ keeper.pc # "idle" \/ Waiting # {}
    PROVE  ChainInv'
<1>1. ChainTyped'
  BY DEF ChainInv, ChainTyped, SameRoots
<1>2. KeeperIsAtItsCell'
  BY DEF KeeperIsAtItsCell, SameRoots
<1>3. RunsAreWhole'
  BY DEF ChainInv, RunsAreWhole, SameRoots
<1>4. InheritedIsWhole'
  BY DEF ChainInv, InheritedIsWhole, SameRoots
<1>5. RetainedIsExact'
  <2>1. Lost' = Lost
    BY DEF Lost, IsInherited, SameRoots
  <2>2. \A k : CostOf(k)' = CostOf(k)
    BY DEF CostOf
  <2> QED BY <2>1, <2>2 DEF ChainInv, RetainedIsExact, SameRoots
<1>6. ReportIsKept'
  <2>1. SUFFICES ASSUME chain'.report # <<>>
                 PROVE  /\ keeper'.pc = "idle" /\ Waiting' = {}
                        /\ chain'.report[1].cost = Root'.retained
                        /\ chain'.report[1].origins =
                             [i \in Slots |-> IF i \in Own' THEN Latest' ELSE Root'.inherited[i]]
    BY DEF ReportIsKept
  <2>2. /\ keeper.pc = "idle" /\ Waiting = {}
        /\ chain.report[1].cost = Root.retained
        /\ chain.report[1].origins =
             [i \in Slots |-> IF i \in Own THEN Latest ELSE Root.inherited[i]]
    BY <2>1 DEF ChainInv, ReportIsKept, SameRoots
  <2>3. Waiting' = Waiting /\ Own' = Own
    BY DEF SameRoots, Waiting, Own, Settles, Run
  <2> QED BY <2>1, <2>2, <2>3 DEF SameRoots
<1> QED BY <1>1, <1>2, <1>3, <1>4, <1>5, <1>6 DEF ChainInv

\* A step of the cell at hand.
LEMMA CellMoves ==
    ASSUME ChainInv, SameRoots, keeper.pc # "idle", NEW r \in RunType,
           (r.stand = "none") <=> (r.fits = 0), r.stand = "done" => r.fits = FitsPerRun,
           runs' = [runs EXCEPT ![<<Latest, keeper.slot>>] = r],
           keeper' \in [pc : KeeperSteps, slot : Nat],
           keeper'.pc # "idle" => keeper'.slot \in Slots \ DOMAIN Root.inherited
    PROVE  ChainInv'
<1> DEFINE at == <<Latest, keeper.slot>>
<1>1. /\ Latest \in 1 .. 5 /\ keeper.slot \in Slots \ DOMAIN Root.inherited
      /\ at \in (1 .. 5) \X Slots /\ at[1] = Latest /\ at[2] = keeper.slot
      /\ runs \in [(1 .. 5) \X Slots -> RunType]
  BY DEF ChainInv, ChainTyped, KeeperIsAtItsCell
<1>2. /\ runs' \in [(1 .. 5) \X Slots -> RunType] /\ runs'[at] = r
      /\ \A k \in (1 .. 5) \X Slots : k # at => runs'[k] = runs[k]
      /\ \A k : k[1] # Latest \/ k[2] # keeper.slot => k # at
  BY <1>1
<1> HIDE DEF at
<1>3. ChainTyped'
  BY <1>2 DEF ChainInv, ChainTyped, SameRoots
<1>4. KeeperIsAtItsCell'
  BY DEF KeeperIsAtItsCell, SameRoots
<1>5. RunsAreWhole'
  <2>1. ASSUME NEW k \in (1 .. 5) \X Slots
        PROVE  /\ runs'[k].stand = "none" <=> runs'[k].fits = 0
               /\ runs'[k].stand = "done" => runs'[k].fits = FitsPerRun
               /\ k[1] > Latest => runs'[k].stand = "none"
    <3>1. CASE k = at
      BY <1>1, <1>2, <3>1
    <3>2. CASE k # at
      BY <1>2, <3>2 DEF ChainInv, RunsAreWhole
    <3> QED BY <3>1, <3>2
  <2> QED BY <2>1 DEF RunsAreWhole, SameRoots
<1>6. InheritedIsWhole'
  <2>1. ASSUME NEW i \in DOMAIN Root.inherited
        PROVE  /\ i \in Slots /\ Root.inherited[i] \in 1 .. (Latest - 1)
               /\ runs'[<<Root.inherited[i], i>>].stand = "done"
               /\ runs'[<<Root.inherited[i], i>>].replayed
               /\ runs'[<<Latest, i>>].stand = "none"
    <3>1. /\ i \in Slots /\ Root.inherited[i] \in 1 .. (Latest - 1)
          /\ runs[<<Root.inherited[i], i>>].stand = "done"
          /\ runs[<<Root.inherited[i], i>>].replayed
          /\ runs[<<Latest, i>>].stand = "none"
      BY DEF ChainInv, InheritedIsWhole
    <3>2. /\ <<Root.inherited[i], i>> \in (1 .. 5) \X Slots
          /\ <<Latest, i>> \in (1 .. 5) \X Slots
          /\ Root.inherited[i] # Latest /\ i # keeper.slot
      BY <1>1, <3>1
    <3>3. <<Root.inherited[i], i>> # at /\ <<Latest, i>> # at
      BY <3>2 DEF at
    <3> QED BY <1>2, <3>1, <3>2, <3>3
  <2> QED BY <2>1 DEF InheritedIsWhole, SameRoots
<1>7. RetainedIsExact'
  <2>1. Lost' = Lost
    <3>1. \A k \in (1 .. 5) \X Slots : k[1] < Latest => k # at
      BY <1>1
    <3>2. Lost' = {k \in (1 .. 5) \X Slots :
                     k[1] < Latest /\ runs'[k].stand # "none" /\ ~IsInherited(k)}
      BY DEF Lost, IsInherited, SameRoots
    <3> QED BY <1>2, <3>1, <3>2 DEF Lost
  <2>2. \A k \in Lost : CostOf(k)' = CostOf(k)
    BY <1>1, <1>2 DEF CostOf, Lost
  <2> QED BY <2>1, <2>2 DEF ChainInv, RetainedIsExact, SameRoots
<1>8. ReportIsKept'
  BY DEF ChainInv, ReportIsKept, SameRoots
<1> QED BY <1>3, <1>4, <1>5, <1>6, <1>7, <1>8 DEF ChainInv

\* How a session ends, well or not.
LEMMA SessionEnds ==
    ASSUME ChainInv, NEW failed \in BOOLEAN, StopsThere(failed)
    PROVE  SameRoots /\ keeper' \in [pc : KeeperSteps, slot : Nat] /\ keeper'.pc = "idle"
<1> DEFINE b == Root.failed \/ (failed /\ Remembers)
<1>1. keeper' = Resting /\ chain' = [chain EXCEPT !.roots[Latest].failed = b]
  BY DEF StopsThere, Root
<1>2. b \in BOOLEAN
  OBVIOUS
<1> HIDE DEF b
<1>3. SameRoots
  BY <1>1, <1>2, FailureIsNoted DEF ChainInv
<1> QED BY <1>1, <1>3 DEF Resting, KeeperSteps

LEMMA KeeperTyped ==
    ASSUME ChainInv
    PROVE  /\ keeper \in [pc : KeeperSteps, slot : Nat]
           /\ keeper.pc # "idle" => keeper.slot \in Slots \ DOMAIN Root.inherited
           /\ \A pc \in KeeperSteps : [keeper EXCEPT !.pc = pc].slot = keeper.slot
           /\ \A pc \in KeeperSteps : [keeper EXCEPT !.pc = pc].pc = pc
           /\ \A pc \in KeeperSteps :
                [keeper EXCEPT !.pc = pc] \in [pc : KeeperSteps, slot : Nat]
           /\ Resting \in [pc : KeeperSteps, slot : Nat] /\ Resting.pc = "idle"
BY DEF ChainInv, ChainTyped, KeeperIsAtItsCell, Resting, KeeperSteps

\* The run of the cell at hand.
LEMMA MineTyped ==
    ASSUME ChainInv, keeper.pc # "idle"
    PROVE  /\ Mine(keeper.slot) \in RunType
           /\ Mine(keeper.slot).stand = "none" <=> Mine(keeper.slot).fits = 0
           /\ Mine(keeper.slot).stand = "done" => Mine(keeper.slot).fits = FitsPerRun
           /\ Mine(keeper.slot).fits \in Nat
           /\ runs[<<Latest, keeper.slot>>] = Mine(keeper.slot)
<1>1. <<Latest, keeper.slot>> \in (1 .. 5) \X Slots
  BY DEF ChainInv, ChainTyped, KeeperIsAtItsCell
<1>2. runs[<<Latest, keeper.slot>>] = Mine(keeper.slot)
  BY DEF Mine, Run
<1> QED BY <1>1, <1>2, ChainAssumption DEF ChainInv, ChainTyped, RunsAreWhole, RunType

LEMMA SessionOpens == ASSUME ChainInv, Open PROVE ChainInv'
<1>1. /\ keeper' = [pc |-> "visit", slot |-> Min(Waiting)] /\ Waiting # {}
      /\ UNCHANGED <<chain, runs>>
  BY DEF Open
<1>2. Min(Waiting) \in Slots \ DOMAIN Root.inherited /\ Min(Waiting) \in Nat
  BY <1>1, LeastOf, WaitingAreSlots
<1>3. /\ keeper' \in [pc : KeeperSteps, slot : Nat]
      /\ keeper'.slot \in Slots \ DOMAIN Root.inherited
  BY <1>1, <1>2 DEF KeeperSteps
<1> QED BY <1>1, <1>3, SessionMoves, RootsRest DEF ChainInv

LEMMA RunIsLaunched == ASSUME ChainInv, LaunchRun PROVE ChainInv'
<1>1. keeper.pc = "visit" /\ UNCHANGED runs
  BY DEF LaunchRun
<1>2. \/ keeper' = [keeper EXCEPT !.pc = "replay"] /\ UNCHANGED chain
      \/ keeper' = [keeper EXCEPT !.pc = "train"] /\ UNCHANGED chain
      \/ StopsThere(TRUE)
  BY DEF LaunchRun
<1>3. CASE StopsThere(TRUE)
  BY <1>1, <1>3, SessionEnds, SessionMoves
<1>4. CASE /\ UNCHANGED chain
           /\ \E pc \in {"replay", "train"} : keeper' = [keeper EXCEPT !.pc = pc]
  <2>1. PICK pc \in {"replay", "train"} : keeper' = [keeper EXCEPT !.pc = pc]
    BY <1>4
  <2>2. pc \in KeeperSteps
    BY DEF KeeperSteps
  <2>3. /\ keeper' \in [pc : KeeperSteps, slot : Nat]
        /\ keeper'.slot \in Slots \ DOMAIN Root.inherited
    BY <1>1, <2>1, <2>2, KeeperTyped
  <2> QED BY <1>1, <1>4, <2>3, SessionMoves, RootsRest DEF ChainInv
<1> QED BY <1>2, <1>3, <1>4

LEMMA RunIsCharged == ASSUME ChainInv, Charge PROVE ChainInv'
<1> DEFINE at == <<Latest, keeper.slot>>
           n == Mine(keeper.slot).fits + 1
           m == [Mine(keeper.slot) EXCEPT !.fits = n]
           r == [m EXCEPT !.stand = "partial"]
           first == [runs EXCEPT ![at] = m]
<1>1. /\ keeper.pc \in {"train", "orphan"} /\ Mine(keeper.slot).fits < FitsPerRun
      /\ UNCHANGED <<chain, keeper>>
      /\ runs' = [runs EXCEPT ![at].fits = @ + 1, ![at].stand = "partial"]
  BY DEF Charge
<1>2. keeper.pc # "idle"
  BY <1>1
<1>3. /\ n \in 0 .. FitsPerRun /\ n # 0 /\ Mine(keeper.slot) \in RunType
  BY <1>1, <1>2, MineTyped, ChainAssumption
<1>4. /\ at \in (1 .. 5) \X Slots /\ runs \in [(1 .. 5) \X Slots -> RunType]
      /\ runs[at] = Mine(keeper.slot)
  BY <1>2, MineTyped DEF ChainInv, ChainTyped, KeeperIsAtItsCell
<1>5. runs' = [first EXCEPT ![at].stand = "partial"]
  BY <1>1, <1>4
<1> HIDE DEF n
<1>6. m \in RunType /\ m.fits = n
  BY <1>3 DEF RunType
<1>7. /\ first \in [(1 .. 5) \X Slots -> RunType] /\ first[at] = m
      /\ \A x : [first EXCEPT ![at] = x] = [runs EXCEPT ![at] = x]
  BY <1>4, <1>6
<1>8. runs' = [first EXCEPT ![at] = r]
  BY <1>5, <1>7
<1> HIDE DEF m, first
<1>9. r \in RunType /\ r.fits = n /\ r.stand = "partial"
  BY <1>6 DEF RunType
<1>10. runs' = [runs EXCEPT ![at] = r]
  BY <1>7, <1>8
<1> HIDE DEF r
<1>11. /\ keeper' \in [pc : KeeperSteps, slot : Nat]
       /\ keeper'.slot \in Slots \ DOMAIN Root.inherited
  BY <1>1, <1>2, KeeperTyped
<1>12. SameRoots
  BY <1>1, RootsRest DEF ChainInv
<1> QED BY <1>2, <1>3, <1>9, <1>10, <1>11, <1>12, CellMoves

LEMMA RunIsExported == ASSUME ChainInv, ExportRun PROVE ChainInv'
<1> DEFINE at == <<Latest, keeper.slot>>
           r == [Mine(keeper.slot) EXCEPT !.stand = "done"]
<1>1. /\ keeper.pc \in {"train", "orphan"} /\ Mine(keeper.slot).fits = FitsPerRun
      /\ UNCHANGED chain
      /\ runs' = [runs EXCEPT ![at].stand = "done"]
      /\ keeper' = IF keeper.pc = "orphan" THEN Resting ELSE [keeper EXCEPT !.pc = "replay"]
  BY DEF ExportRun
<1>2. keeper.pc # "idle"
  BY <1>1
<1>3. Mine(keeper.slot) \in RunType /\ runs[at] = Mine(keeper.slot)
  BY <1>2, MineTyped
<1>4. runs' = [runs EXCEPT ![at] = r]
  BY <1>1, <1>3
<1>5. r \in RunType /\ r.stand = "done" /\ r.fits = FitsPerRun /\ r.fits # 0
  BY <1>1, <1>3, ChainAssumption DEF RunType
<1> HIDE DEF r
<1>6. /\ keeper' \in [pc : KeeperSteps, slot : Nat]
      /\ keeper'.pc # "idle" => keeper'.slot \in Slots \ DOMAIN Root.inherited
  BY <1>1, <1>2, KeeperTyped DEF KeeperSteps
<1>7. SameRoots
  BY <1>1, RootsRest DEF ChainInv
<1> QED BY <1>2, <1>4, <1>5, <1>6, <1>7, CellMoves

LEMMA LimitIsHit == ASSUME ChainInv, NEW cause \in Causes, Hit(cause) PROVE ChainInv'
<1> DEFINE at == <<Latest, keeper.slot>>
           short == cause = "total" /\ chain.family \in {"prism", "primordia"}
           lost == CASE short -> Mine(keeper.slot).fits
                     [] cause = "size" -> FitsPerRun - 1
                     [] OTHER -> FitsPerRun
           stand == IF short THEN "exhausted" ELSE "failed"
           mine == Mine(keeper.slot)
           r == [mine EXCEPT !.fits = lost, !.cause = cause, !.stand = stand]
<1>1. /\ keeper.pc \in {"train", "orphan"} /\ mine.fits \in 1 .. (FitsPerRun - 1)
      /\ runs' = [runs EXCEPT ![at] = [@ EXCEPT !.fits = lost, !.cause = cause,
                                                !.stand = stand]]
      /\ IF keeper.pc = "train" THEN StopsThere(TRUE)
         ELSE keeper' = Resting /\ UNCHANGED chain
  BY DEF Hit
<1>2. keeper.pc # "idle"
  BY <1>1
<1>3. mine \in RunType /\ runs[at] = mine
  BY <1>2, MineTyped
<1>4. runs' = [runs EXCEPT ![at] = r]
  BY <1>1, <1>3
<1>5. lost \in 0 .. FitsPerRun /\ lost # 0
  BY <1>1, ChainAssumption
<1>6. stand \in {"exhausted", "failed"}
  OBVIOUS
<1> HIDE DEF lost, stand, mine
<1>7. r \in RunType /\ r.fits = lost /\ r.stand = stand
  <2> DEFINE x == [mine EXCEPT !.fits = lost]
             y == [x EXCEPT !.cause = cause]
  <2>1. x \in RunType /\ x.fits = lost
    BY <1>3, <1>5 DEF RunType
  <2>2. r = [y EXCEPT !.stand = stand]
    OBVIOUS
  <2> HIDE DEF x
  <2>3. y \in RunType /\ y.fits = lost
    BY <2>1 DEF RunType
  <2> HIDE DEF y
  <2> QED BY <1>6, <2>2, <2>3 DEF RunType
<1> HIDE DEF r
<1>8. SameRoots /\ keeper' \in [pc : KeeperSteps, slot : Nat] /\ keeper'.pc = "idle"
  <2>1. CASE keeper.pc = "train"
    BY <1>1, <2>1, SessionEnds
  <2>2. CASE keeper.pc # "train"
    BY <1>1, <2>2, KeeperTyped, RootsRest DEF ChainInv
  <2> QED BY <2>1, <2>2
<1> QED BY <1>2, <1>4, <1>5, <1>6, <1>7, <1>8, CellMoves

\* The receipts of a cell: that it was journaled, and that it was replayed.
LEMMA ReceiptIsGiven ==
    ASSUME ChainInv, keeper.pc # "idle", UNCHANGED chain,
           \/ runs' = [runs EXCEPT ![<<Latest, keeper.slot>>].recorded = TRUE]
           \/ runs' = [runs EXCEPT ![<<Latest, keeper.slot>>].replayed = TRUE],
           keeper' \in [pc : KeeperSteps, slot : Nat],
           keeper'.pc # "idle" => keeper'.slot \in Slots \ DOMAIN Root.inherited
    PROVE  ChainInv'
<1> DEFINE at == <<Latest, keeper.slot>>
           mine == Mine(keeper.slot)
<1>1. /\ mine \in RunType /\ runs[at] = mine
      /\ mine.stand = "none" <=> mine.fits = 0
      /\ mine.stand = "done" => mine.fits = FitsPerRun
  BY MineTyped
<1>2. \/ runs' = [runs EXCEPT ![at] = [mine EXCEPT !.recorded = TRUE]]
      \/ runs' = [runs EXCEPT ![at] = [mine EXCEPT !.replayed = TRUE]]
  BY <1>1
<1> HIDE DEF mine
<1>3. PICK r \in RunType : /\ runs' = [runs EXCEPT ![at] = r]
                           /\ r.stand = mine.stand /\ r.fits = mine.fits
  <2> DEFINE x == [mine EXCEPT !.recorded = TRUE]
             y == [mine EXCEPT !.replayed = TRUE]
  <2>1. /\ x \in RunType /\ x.stand = mine.stand /\ x.fits = mine.fits
        /\ y \in RunType /\ y.stand = mine.stand /\ y.fits = mine.fits
    BY <1>1 DEF RunType
  <2>2. runs' = [runs EXCEPT ![at] = x] \/ runs' = [runs EXCEPT ![at] = y]
    BY <1>2
  <2> HIDE DEF x, y
  <2> QED BY <2>1, <2>2
<1>4. SameRoots
  BY RootsRest DEF ChainInv
<1>5. /\ (r.stand = "none") <=> (r.fits = 0)
      /\ r.stand = "done" => r.fits = FitsPerRun
  BY <1>1, <1>3
<1> QED BY <1>3, <1>4, <1>5, CellMoves

LEMMA CellIsSettled ==
    ASSUME ChainInv, Journal \/ Verify \/ Record
    PROVE  ChainInv'
<1>1. CASE Journal
  <2>1. /\ keeper.pc # "idle" /\ UNCHANGED <<chain, keeper>>
        /\ runs' = [runs EXCEPT ![<<Latest, keeper.slot>>].recorded = TRUE]
    BY <1>1 DEF Journal
  <2>2. /\ keeper' \in [pc : KeeperSteps, slot : Nat]
        /\ keeper'.slot \in Slots \ DOMAIN Root.inherited
    BY <2>1, KeeperTyped
  <2> QED BY <2>1, <2>2, ReceiptIsGiven
<1>2. CASE Verify
  <2>1. /\ keeper.pc # "idle" /\ UNCHANGED chain
        /\ keeper' = [keeper EXCEPT !.pc = "record"]
        /\ runs' = [runs EXCEPT ![<<Latest, keeper.slot>>].replayed = TRUE]
    BY <1>2 DEF Verify
  <2>2. /\ keeper' \in [pc : KeeperSteps, slot : Nat]
        /\ keeper'.slot \in Slots \ DOMAIN Root.inherited
    BY <2>1, KeeperTyped DEF KeeperSteps
  <2> QED BY <2>1, <2>2, ReceiptIsGiven
<1>3. CASE Record
  <2> DEFINE left == Waiting \ {keeper.slot}
  <2>1. /\ keeper.pc # "idle" /\ UNCHANGED chain
        /\ keeper' = Resting \/ (left # {} /\ keeper' = [pc |-> "visit", slot |-> Min(left)])
        /\ runs' = [runs EXCEPT ![<<Latest, keeper.slot>>].recorded = TRUE]
    BY <1>3 DEF Record
  <2>2. left \subseteq Slots \ DOMAIN Root.inherited /\ left \subseteq Nat
    BY WaitingAreSlots
  <2>3. left # {} => Min(left) \in left
    BY <2>2, LeastOf
  <2> HIDE DEF left
  <2>4. /\ keeper' \in [pc : KeeperSteps, slot : Nat]
        /\ keeper'.pc # "idle" => keeper'.slot \in Slots \ DOMAIN Root.inherited
    BY <2>1, <2>2, <2>3, KeeperTyped DEF KeeperSteps
  <2> QED BY <2>1, <2>4, ReceiptIsGiven
<1> QED BY <1>1, <1>2, <1>3

LEMMA SessionIsDisturbed ==
    ASSUME ChainInv,
           VerifyFails \/ Interrupt \/ EngineLost \/ SwitchPause \/ Intrude \/ Revisit
    PROVE  ChainInv'
<1>1. CASE VerifyFails \/ EngineLost
  <2>1. UNCHANGED runs /\ (StopsThere(TRUE) \/ (keeper' = Resting /\ UNCHANGED chain))
    BY <1>1 DEF VerifyFails, EngineLost
  <2>2. CASE StopsThere(TRUE)
    BY <2>1, <2>2, SessionEnds, SessionMoves
  <2>3. CASE keeper' = Resting /\ UNCHANGED chain
    BY <2>1, <2>3, KeeperTyped, SessionMoves, RootsRest DEF ChainInv
  <2> QED BY <2>1, <2>2, <2>3
<1>2. CASE Interrupt
  <2>1. /\ UNCHANGED <<chain, runs>> /\ keeper.pc # "idle"
        /\ keeper' = Resting \/ keeper' = [keeper EXCEPT !.pc = "orphan"]
    BY <1>2 DEF Interrupt
  <2>2. /\ keeper' \in [pc : KeeperSteps, slot : Nat]
        /\ keeper'.pc # "idle" => keeper'.slot \in Slots \ DOMAIN Root.inherited
    BY <2>1, KeeperTyped DEF KeeperSteps
  <2> QED BY <2>1, <2>2, SessionMoves, RootsRest DEF ChainInv
<1>3. CASE SwitchPause \/ Revisit \/ Intrude
  <2>1. UNCHANGED <<runs, keeper>>
    BY <1>3 DEF SwitchPause, Revisit, Intrude
  <2>2. SameRoots
    <3>1. CASE SwitchPause
      <4> DEFINE b == ~chain.paused
      <4>1. chain' = [chain EXCEPT !.paused = b] /\ b \in BOOLEAN
        BY <3>1 DEF SwitchPause
      <4> HIDE DEF b
      <4> QED BY <4>1, FlagIsSet DEF ChainInv
    <3>2. CASE Revisit
      BY <3>2, FlagIsSet DEF ChainInv, Revisit
    <3>3. CASE Intrude
      <4> DEFINE b == chain.roots[Latest].failed \/ (chain.family = "primordia" /\ Latest > 1)
      <4>1. chain' = [chain EXCEPT !.roots[Latest].failed = b] /\ b \in BOOLEAN
        BY <3>3 DEF Intrude
      <4> HIDE DEF b
      <4> QED BY <4>1, FailureIsNoted DEF ChainInv
    <3> QED BY <1>3, <3>1, <3>2, <3>3
  <2>3. /\ keeper' \in [pc : KeeperSteps, slot : Nat]
        /\ keeper'.pc # "idle" => /\ keeper'.slot \in Slots \ DOMAIN Root.inherited
                                  /\ keeper.pc # "idle"
    BY <2>1, KeeperTyped
  <2> QED BY <2>1, <2>2, <2>3, SessionMoves
<1> QED BY <1>1, <1>2, <1>3

LEMMA RootTyped ==
    ASSUME ChainTyped
    PROVE  Root \in RootType
<1> DEFINE n == Len(chain.roots)
<1>1. chain.roots \in Seq(RootType) /\ n \in 1 .. 5 /\ Latest = n
  BY DEF ChainTyped, Latest
<1>2. n \in 1 .. n /\ Root = chain.roots[n]
  <2>1. Root = chain.roots[n]
    BY <1>1 DEF Root
  <2> HIDE DEF n
  <2> QED BY <1>1, <2>1
<1> QED BY <1>1, <1>2

LEMMA InheritanceTyped ==
    ASSUME NEW f \in Inheritances
    PROVE  DOMAIN f \subseteq Slots /\ \A i \in DOMAIN f : f[i] \in 1 .. 5
BY DEF Inheritances

\* What the newest root began, settled and inherited are different cells.
LEMMA CellsOfTheRoot ==
    ASSUME ChainInv
    PROVE  /\ Begun \subseteq Slots /\ Own \subseteq Begun
           /\ DOMAIN Root.inherited \subseteq Slots /\ Begun \cap DOMAIN Root.inherited = {}
           /\ \A i \in Own : runs[<<Latest, i>>].stand = "done" /\ runs[<<Latest, i>>].replayed
           /\ \A i \in Slots : i \in Begun <=> runs[<<Latest, i>>].stand # "none"
           /\ Waiting = {} => /\ Begun = Own
                              /\ \A i \in Slots : i \in Own \/ i \in DOMAIN Root.inherited
<1>1. Root.inherited \in Inheritances
  BY RootTyped DEF ChainInv, RootType
<1>2. DOMAIN Root.inherited \subseteq Slots
  BY <1>1, InheritanceTyped
<1>3. \A i \in Own : runs[<<Latest, i>>].stand = "done" /\ runs[<<Latest, i>>].replayed
  BY DEF Own, Settles, Run
<1>4. Begun \subseteq Slots /\ \A i \in Slots : i \in Begun <=> runs[<<Latest, i>>].stand # "none"
  BY DEF Begun, Mine, Run
<1>5. Own \subseteq Begun
  BY <1>3, <1>4 DEF Own
<1>6. Begun \cap DOMAIN Root.inherited = {}
  BY <1>4 DEF ChainInv, InheritedIsWhole
<1>7. Waiting = {} => \A i \in Slots : i \in Own \/ i \in DOMAIN Root.inherited
  BY DEF Waiting, Own
<1> QED BY <1>2, <1>3, <1>4, <1>5, <1>6, <1>7

LEMMA ReportedIsNotAmended ==
    ASSUME ChainInv, Acceptable
    PROVE  chain.report = <<>>
<1> SUFFICES ASSUME Waiting = {} PROVE FALSE
  BY DEF ChainInv, ReportIsKept
<1>1. Begun = Own /\ Unsettled = {} /\ Cardinality(Unsettled) = 0
  <2>1. Begun = Own
    BY CellsOfTheRoot
  <2>2. Unsettled = {}
    BY <2>1 DEF Unsettled
  <2> QED BY <2>1, <2>2, FS_EmptySet
<1>2. ~StratographAccepts /\ ~PrismAccepts /\ ~PrimordiaAccepts /\ ~BudgetAccepts
  BY <1>1 DEF StratographAccepts, PrismAccepts, PrimordiaAccepts, BudgetAccepts
<1>3. ~ConfirmationAccepts
  <2>1. \A i \in Begun : ~Diagnosed(i)
    BY <1>1 DEF Diagnosed, Own, Settles, Mine
  <2> QED BY <2>1 DEF ConfirmationAccepts
<1>4. chain.family \in {"prism", "primordia", "topograph", "stratograph"}
  BY ChainAssumption DEF ChainInv, ChainTyped
<1>5. Latest = 1 \/ Latest > 1
  BY DEF ChainInv, ChainTyped
<1> QED BY <1>2, <1>3, <1>4, <1>5 DEF Acceptable

\* An amendment inherits the cells settled so far and retains every other run.
LEMMA InheritsAll ==
    ASSUME ChainInv, Latest <= 4
    PROVE  /\ Inherits \in Inheritances
           /\ \A i \in DOMAIN Inherits :
                /\ i \in Slots /\ Inherits[i] \in 1 .. Latest
                /\ i \in Own => Inherits[i] = Latest
                /\ i \notin Own => i \in DOMAIN Root.inherited /\ Inherits[i] = Root.inherited[i]
           /\ \/ Latest = 1 /\ DOMAIN Inherits = {}
              \/ DOMAIN Inherits = Own \cup DOMAIN Root.inherited
<1>1. CASE chain.family = "topograph" /\ Latest = 1
  BY <1>1, EmptyInheritance DEF Inherits
<1>2. CASE ~(chain.family = "topograph" /\ Latest = 1)
  <2>1. Inherits = [i \in Taken |-> IF i \in Own THEN Latest ELSE Root.inherited[i]]
    BY <1>2 DEF Inherits
  <2>2. Taken = Own \cup DOMAIN Root.inherited /\ Taken \subseteq Slots
    BY CellsOfTheRoot DEF Taken
  <2>3. \A i \in DOMAIN Root.inherited : Root.inherited[i] \in 1 .. (Latest - 1)
    BY DEF ChainInv, InheritedIsWhole
  <2>4. Latest \in 1 .. 5
    BY DEF ChainInv, ChainTyped
  <2>5. \A i \in Taken : (IF i \in Own THEN Latest ELSE Root.inherited[i]) \in 1 .. Latest
    BY <2>2, <2>3, <2>4
  <2>6. /\ DOMAIN Inherits = Taken
        /\ \A i \in Taken : Inherits[i] = IF i \in Own THEN Latest ELSE Root.inherited[i]
    BY <2>1
  <2>7. Inherits \in [Taken -> 1 .. 5]
    <3>1. \A i \in Taken : (IF i \in Own THEN Latest ELSE Root.inherited[i]) \in 1 .. 5
      BY <2>4, <2>5
    <3> QED BY <2>1, <3>1
  <2>8. Inherits \in Inheritances
    BY <2>2, <2>7 DEF Inheritances
  <2> QED BY <2>2, <2>5, <2>6, <2>8
<1> QED BY <1>1, <1>2

LEMMA ChainIsAmended == ASSUME ChainInv, Amend PROVE ChainInv'
<1> DEFINE r == FreshRoot(Inherits, Retains)
           rs == Append(chain.roots, r)
           mid == [chain EXCEPT !.roots = rs]
           new == {<<Latest, i>> : i \in Begun \ DOMAIN Inherits}
<1>1. /\ keeper.pc = "idle" /\ Latest <= Len(Diagnoses[chain.family]) /\ Acceptable
      /\ chain' = [chain EXCEPT !.roots = Append(@, r), !.paused = FALSE]
      /\ UNCHANGED <<runs, keeper>>
  BY DEF Amend, Amends
<1>2. chain.report = <<>>
  BY <1>1, ReportedIsNotAmended
<1>3. Latest \in 1 .. 4
  <2>1. chain.family \in {"prism", "primordia", "topograph", "stratograph"}
    BY ChainAssumption DEF ChainInv, ChainTyped
  <2>2. Len(Diagnoses[chain.family]) \in 1 .. 4
    BY <2>1 DEF Diagnoses
  <2>3. Latest \in 1 .. 5
    BY DEF ChainInv, ChainTyped
  <2> DEFINE n == Len(Diagnoses[chain.family])
             l == Latest
  <2>4. n \in 1 .. 4 /\ l \in 1 .. 5 /\ l <= n /\ l = Latest
    BY <1>1, <2>2, <2>3
  <2> HIDE DEF n, l
  <2>5. l \in 1 .. 4
    BY <2>4
  <2> QED BY <2>4, <2>5
<1>4. /\ Root \in RootType /\ Root.retained \in SUBSET Costs
      /\ Root.retained = {CostOf(k) : k \in Lost}
  BY RootTyped DEF ChainInv, RootType, RetainedIsExact
<1>5. \A i \in Slots : Cost(i) = CostOf(<<Latest, i>>) /\ Cost(i) \in Costs
  <2> TAKE i \in Slots
  <2>1. runs[<<Latest, i>>] \in RunType
    BY <1>3 DEF ChainInv, ChainTyped
  <2>2. runs[<<Latest, i>>].fits \in 0 .. FitsPerRun /\ Latest \in 1 .. 5
    BY <1>3, <2>1 DEF RunType
  <2> QED BY <2>2 DEF Cost, CostOf, Costs, Mine, Run
<1>6. Begun \subseteq Slots
  BY CellsOfTheRoot
<1>7. r \in RootType /\ r.inherited = Inherits /\ r.retained = Retains
  <2>1. Retains \in SUBSET Costs
    BY <1>4, <1>5, <1>6 DEF Retains
  <2>2. Inherits \in Inheritances
    BY <1>3, InheritsAll
  <2> QED BY <2>1, <2>2 DEF FreshRoot, RootType
<1> HIDE DEF r
<1>8. /\ chain.roots \in Seq(RootType) /\ Latest = Len(chain.roots)
      /\ chain' = [mid EXCEPT !.paused = FALSE]
  BY <1>1 DEF ChainInv, ChainTyped, Latest
<1>9. rs \in Seq(RootType) /\ Len(rs) = Latest + 1 /\ rs[Latest + 1] = r
  BY <1>3, <1>7, <1>8
<1> HIDE DEF rs
<1>10. /\ mid \in [family : ChainFamilies, roots : Seq(RootType), paused : BOOLEAN,
                   drift : BOOLEAN, report : {<<>>} \cup {<<q>> : q \in FinalReports}]
       /\ mid.roots = rs /\ mid.family = chain.family /\ mid.report = chain.report
  BY <1>9 DEF ChainInv, ChainTyped
<1> HIDE DEF mid
<1>11. /\ chain' \in [family : ChainFamilies, roots : Seq(RootType), paused : BOOLEAN,
                   drift : BOOLEAN, report : {<<>>} \cup {<<q>> : q \in FinalReports}]
       /\ chain'.roots = rs /\ chain'.family = chain.family /\ chain'.report = <<>>
  BY <1>2, <1>8, <1>10
<1>12. Latest' = Latest + 1
  BY <1>9, <1>11 DEF Latest
<1>13. Root' = r
  BY <1>9, <1>11, <1>12 DEF Root
<1>14. ChainTyped'
  BY <1>1, <1>3, <1>11, <1>12 DEF ChainInv, ChainTyped
<1>15. KeeperIsAtItsCell' /\ ReportIsKept'
  BY <1>1, <1>11 DEF KeeperIsAtItsCell, ReportIsKept
<1>16. RunsAreWhole'
  <2>1. \A k \in (1 .. 5) \X Slots : k[1] > Latest + 1 => k[1] > Latest
    BY <1>3
  <2> QED BY <1>1, <1>12, <2>1 DEF ChainInv, RunsAreWhole
<1>17. InheritedIsWhole'
  <2>1. ASSUME NEW i \in DOMAIN Inherits
        PROVE  /\ i \in Slots /\ Inherits[i] \in 1 .. Latest
               /\ runs[<<Inherits[i], i>>].stand = "done"
               /\ runs[<<Inherits[i], i>>].replayed
               /\ runs[<<Latest + 1, i>>].stand = "none"
    <3>1. /\ i \in Slots /\ Inherits[i] \in 1 .. Latest
          /\ i \in Own => Inherits[i] = Latest
          /\ i \notin Own => i \in DOMAIN Root.inherited /\ Inherits[i] = Root.inherited[i]
      BY <1>3, InheritsAll
    <3>2. runs[<<Latest + 1, i>>].stand = "none"
      <4>1. <<Latest + 1, i>> \in (1 .. 5) \X Slots /\ <<Latest + 1, i>>[1] > Latest
        BY <1>3, <3>1
      <4> QED BY <4>1 DEF ChainInv, RunsAreWhole
    <3>3. CASE i \in Own
      BY <3>1, <3>2, <3>3, CellsOfTheRoot
    <3>4. CASE i \notin Own
      BY <3>1, <3>2, <3>4 DEF ChainInv, InheritedIsWhole
    <3> QED BY <3>3, <3>4
  <2>2. Latest' - 1 = Latest
    BY <1>3, <1>12
  <2> QED BY <1>1, <1>7, <1>12, <1>13, <2>1, <2>2 DEF InheritedIsWhole
<1>18. Lost' = Lost \cup new
  <2>1. Lost' = {k \in (1 .. 5) \X Slots :
                   /\ k[1] < Latest + 1 /\ runs[k].stand # "none"
                   /\ ~(k[2] \in DOMAIN Inherits /\ Inherits[k[2]] = k[1])}
    BY <1>1, <1>7, <1>12, <1>13 DEF Lost, IsInherited
  <2>2. ASSUME NEW k \in (1 .. 5) \X Slots, k[1] < Latest, runs[k].stand # "none"
        PROVE  (k[2] \in DOMAIN Inherits /\ Inherits[k[2]] = k[1]) <=> IsInherited(k)
    <3>1. Latest # 1 /\ k[1] # Latest /\ k[2] \in Slots
      BY <1>3, <2>2
    <3>2. DOMAIN Inherits = Own \cup DOMAIN Root.inherited
      BY <1>3, <3>1, InheritsAll
    <3>3. \A i \in DOMAIN Inherits :
            /\ i \in Own => Inherits[i] = Latest
            /\ i \notin Own => Inherits[i] = Root.inherited[i]
      BY <1>3, InheritsAll
    <3>4. \A i \in DOMAIN Root.inherited : i \notin Own
      BY CellsOfTheRoot
    <3> QED BY <3>1, <3>2, <3>3, <3>4 DEF IsInherited
  <2>3. ASSUME NEW i \in Slots
        PROVE  /\ runs[<<Latest, i>>].stand # "none"
               /\ ~(i \in DOMAIN Inherits /\ Inherits[i] = Latest)
               <=> i \in Begun \ DOMAIN Inherits
    <3>1. i \in Begun <=> runs[<<Latest, i>>].stand # "none"
      BY CellsOfTheRoot
    <3>2. i \in Begun /\ i \in DOMAIN Inherits => Inherits[i] = Latest
      BY <1>3, CellsOfTheRoot, InheritsAll
    <3> QED BY <3>1, <3>2
  <2>4. \A k \in (1 .. 5) \X Slots :
          k[1] < Latest + 1 <=> k[1] < Latest \/ (k[1] = Latest /\ k = <<Latest, k[2]>>)
    BY <1>3
  <2>5. \A i \in Slots : <<Latest, i>> \in (1 .. 5) \X Slots
    BY <1>3
  <2>6. Lost' \subseteq Lost \cup new
    BY <2>1, <2>2, <2>3, <2>4 DEF Lost
  <2>7. Lost \cup new \subseteq Lost'
    BY <1>3, <1>6, <2>1, <2>2, <2>3, <2>4, <2>5 DEF Lost
  <2> QED BY <2>6, <2>7
<1>19. RetainedIsExact'
  <2>1. Retains = Root.retained \cup {Cost(i) : i \in Begun \ DOMAIN Inherits}
    BY DEF Retains
  <2>2. {Cost(i) : i \in Begun \ DOMAIN Inherits} = {CostOf(k) : k \in new}
    BY <1>5, <1>6
  <2>3. Retains = {CostOf(k) : k \in Lost \cup new}
    BY <1>4, <2>1, <2>2
  <2>4. \A k : CostOf(k)' = CostOf(k)
    BY <1>1 DEF CostOf
  <2>5. {CostOf(k)' : k \in Lost'} = {CostOf(k) : k \in Lost \cup new}
    BY <1>18, <2>4
  <2> QED BY <1>7, <1>13, <2>3, <2>5 DEF RetainedIsExact
<1> QED BY <1>14, <1>15, <1>16, <1>17, <1>19 DEF ChainInv

LEMMA ChainIsReported == ASSUME ChainInv, Report PROVE ChainInv'
<1> DEFINE origins == [i \in Slots |-> IF i \in Own THEN Latest ELSE Root.inherited[i]]
           o == [origins |-> origins, cost |-> Root.retained]
           report == <<o>>
<1>1. /\ keeper.pc = "idle" /\ Waiting = {} /\ UNCHANGED <<runs, keeper>>
      /\ chain' = [chain EXCEPT !.report = report]
  BY DEF Report, Amends
<1>2. origins \in [Slots -> 1 .. 5]
  <2>1. Latest \in 1 .. 5
    BY DEF ChainInv, ChainTyped
  <2>2. \A i \in Slots : i \in Own \/ i \in DOMAIN Root.inherited
    BY <1>1, CellsOfTheRoot
  <2>3. \A i \in DOMAIN Root.inherited : Root.inherited[i] \in 1 .. 5
    BY RootTyped, InheritanceTyped DEF ChainInv, RootType
  <2> QED BY <2>1, <2>2, <2>3
<1>3. Root.retained \in SUBSET Costs
  BY RootTyped DEF ChainInv, RootType
<1> HIDE DEF origins
<1>4. o \in FinalReports /\ o.origins = origins /\ o.cost = Root.retained
  BY <1>2, <1>3 DEF FinalReports
<1> HIDE DEF o
<1>5. /\ report \in {<<>>} \cup {<<q>> : q \in FinalReports} /\ report[1] = o
  BY <1>4
<1> HIDE DEF report
<1>6. /\ chain' \in [family : ChainFamilies, roots : Seq(RootType), paused : BOOLEAN,
                     drift : BOOLEAN, report : {<<>>} \cup {<<q>> : q \in FinalReports}]
      /\ chain'.roots = chain.roots /\ chain'.family = chain.family
      /\ chain'.report = report
  BY <1>1, <1>5 DEF ChainInv, ChainTyped
<1>7. Latest' = Latest /\ Root' = Root
  BY <1>6 DEF Latest, Root
<1>8. ChainTyped'
  BY <1>1, <1>6, <1>7 DEF ChainInv, ChainTyped
<1>9. KeeperIsAtItsCell'
  BY <1>1 DEF KeeperIsAtItsCell
<1>10. RunsAreWhole' /\ InheritedIsWhole'
  BY <1>1, <1>7 DEF ChainInv, RunsAreWhole, InheritedIsWhole
<1>11. RetainedIsExact'
  <2>1. Lost' = Lost
    BY <1>1, <1>7 DEF Lost, IsInherited
  <2>2. \A k : CostOf(k)' = CostOf(k)
    BY <1>1 DEF CostOf
  <2> QED BY <1>7, <2>1, <2>2 DEF ChainInv, RetainedIsExact
<1>12. ReportIsKept'
  <2>1. Waiting' = Waiting /\ Own' = Own
    BY <1>1, <1>6, <1>7 DEF Waiting, Own, Settles, Run
  <2> QED BY <1>1, <1>4, <1>5, <1>6, <1>7, <2>1 DEF ReportIsKept, origins
<1> QED BY <1>8, <1>9, <1>10, <1>11, <1>12 DEF ChainInv

LEMMA ChainKept == ASSUME ChainInv, [ChainNext]_chainVars PROVE ChainInv'
<1>1. CASE UNCHANGED chainVars
  <2>1. UNCHANGED <<chain, runs, keeper>>
    BY <1>1 DEF chainVars
  <2>2. /\ keeper' \in [pc : KeeperSteps, slot : Nat]
        /\ keeper'.pc # "idle" => /\ keeper'.slot \in Slots \ DOMAIN Root.inherited
                                  /\ keeper.pc # "idle"
    BY <2>1, KeeperTyped
  <2> QED BY <2>1, <2>2, SessionMoves, RootsRest DEF ChainInv
<1>2. CASE ChainNext
  BY <1>2, SessionOpens, RunIsLaunched, RunIsCharged, RunIsExported, LimitIsHit,
     CellIsSettled, SessionIsDisturbed, ChainIsAmended, ChainIsReported DEF ChainNext
<1> QED BY <1>1, <1>2

LEMMA ReportAnswersForAll == ASSUME ChainInv PROVE EveryFitIsReported
<1> SUFFICES ASSUME NEW n \in DOMAIN chain.report
             PROVE
    LET report == chain.report[n]
        reported == {<<report.origins[i], i>> : i \in Slots}
        spent == {k \in DOMAIN runs : runs[k].fits > 0} \ reported
    IN  /\ \A k \in reported : runs[k].stand = "done" /\ runs[k].replayed
                               /\ runs[k].fits = FitsPerRun
        /\ report.cost =
             {[root |-> k[1], slot |-> k[2], charged |-> runs[k].fits] : k \in spent}
  BY DEF EveryFitIsReported
<1> DEFINE origins == chain.report[n].origins
           reported == {<<origins[i], i>> : i \in Slots}
           spent == {k \in DOMAIN runs : runs[k].fits > 0} \ reported
<1>1. n = 1 /\ chain.report # <<>>
  BY DEF ChainInv, ChainTyped
<1>2. /\ Waiting = {} /\ chain.report[n].cost = Root.retained
      /\ origins = [i \in Slots |-> IF i \in Own THEN Latest ELSE Root.inherited[i]]
  BY <1>1 DEF ChainInv, ReportIsKept
<1>3. /\ \A i \in Slots : i \in Own \/ i \in DOMAIN Root.inherited
      /\ \A i \in Own : origins[i] = Latest
      /\ \A i \in DOMAIN Root.inherited : i \in Slots /\ i \notin Own
      /\ \A i \in DOMAIN Root.inherited : origins[i] = Root.inherited[i]
      /\ \A i \in Slots : runs[<<Latest, i>>].stand # "none" => i \in Own
  BY <1>2, CellsOfTheRoot
<1>4. /\ Latest \in 1 .. 5 /\ DOMAIN runs = (1 .. 5) \X Slots
      /\ \A k \in (1 .. 5) \X Slots : runs[k].fits \in Nat
  BY DEF ChainInv, ChainTyped, RunType
<1>5. ASSUME NEW i \in Slots
      PROVE  /\ <<origins[i], i>> \in (1 .. 5) \X Slots
             /\ runs[<<origins[i], i>>].stand = "done"
             /\ runs[<<origins[i], i>>].replayed
  <2>1. CASE i \in Own
    BY <1>3, <1>4, <2>1, CellsOfTheRoot
  <2>2. CASE i \in DOMAIN Root.inherited
    <3> DEFINE g == Root.inherited[i]
               l == Latest
    <3>1. /\ origins[i] = g /\ g \in 1 .. (l - 1) /\ l \in 1 .. 5
          /\ runs[<<g, i>>].stand = "done" /\ runs[<<g, i>>].replayed
      BY <1>3, <1>4, <2>2 DEF ChainInv, InheritedIsWhole
    <3> HIDE DEF g, l
    <3>2. g \in 1 .. 5
      BY <3>1
    <3> QED BY <3>1, <3>2
  <2> QED BY <1>3, <2>1, <2>2
<1>6. \A k \in reported : runs[k].stand = "done" /\ runs[k].replayed
                          /\ runs[k].fits = FitsPerRun
  BY <1>5 DEF ChainInv, RunsAreWhole
<1>7. spent = Lost
  <2>1. \A k \in (1 .. 5) \X Slots : runs[k].fits > 0 <=> runs[k].stand # "none"
    BY <1>4 DEF ChainInv, RunsAreWhole
  <2>2. ASSUME NEW k \in (1 .. 5) \X Slots, runs[k].stand # "none"
        PROVE  k \in reported <=> k[1] = Latest \/ (k[1] < Latest /\ IsInherited(k))
    <3>1. k = <<k[1], k[2]>> /\ k[1] \in 1 .. 5 /\ k[2] \in Slots /\ k[1] <= Latest
      BY <1>4, <2>2 DEF ChainInv, RunsAreWhole
    <3>2. k \in reported <=> origins[k[2]] = k[1]
      BY <3>1
    <3>3. CASE k[1] = Latest
      BY <1>3, <2>2, <3>1, <3>2, <3>3
    <3>4. CASE k[1] # Latest
      <4>1. IsInherited(k) => origins[k[2]] = k[1]
        BY <1>3 DEF IsInherited
      <4>2. origins[k[2]] = k[1] => IsInherited(k)
        BY <1>3, <3>1, <3>4 DEF IsInherited
      <4> QED BY <1>4, <3>1, <3>2, <3>4, <4>1, <4>2
    <3> QED BY <3>3, <3>4
  <2>3. \A k \in (1 .. 5) \X Slots : runs[k].stand # "none" => k[1] <= Latest
    BY <1>4 DEF ChainInv, RunsAreWhole
  <2> HIDE DEF reported
  <2>4. \A k \in (1 .. 5) \X Slots : k[1] = Latest => ~(k[1] < Latest)
    BY <1>4
  <2>5. \A k \in (1 .. 5) \X Slots : k[1] <= Latest => k[1] = Latest \/ k[1] < Latest
    BY <1>4
  <2> QED BY <1>4, <2>1, <2>2, <2>3, <2>4, <2>5 DEF Lost
<1>8. chain.report[n].cost =
        {[root |-> k[1], slot |-> k[2], charged |-> runs[k].fits] : k \in spent}
  BY <1>2, <1>7 DEF ChainInv, RetainedIsExact, CostOf
<1> QED BY <1>6, <1>8

\* EveryFitIsReported for every schedule, family and number of fits: of a chain of
\* amendments each cell is reported from one root that trained it in full, and every
\* other run that was ever charged is retained with exactly its fits.
THEOREM FitsAlwaysReported == ChainSpec => []EveryFitIsReported
<1>1. ChainInit => ChainInv
  BY ChainBegins
<1>2. ChainInv /\ [ChainNext]_chainVars => ChainInv'
  BY ChainKept
<1>3. ChainInv => EveryFitIsReported
  BY ReportAnswersForAll
<1> QED BY <1>1, <1>2, <1>3, PTL DEF ChainSpec

(***************************************************************************)
(* Schedules.                                                              *)
(***************************************************************************)

\* Induction over 1 .. n: what holds of 1, and of m if of m - 1, holds of all.
LEMMA AllAreReached ==
    ASSUME NEW n \in Nat \ {0}, NEW G, 1 \in G,
           \A m \in 2 .. n : m - 1 \in G => m \in G
    PROVE  \A m \in 1 .. n : m \in G
<1> DEFINE Missing == {m \in 1 .. n : m \notin G}
<1>1. Missing \subseteq Nat /\ \A m \in 1 .. n : m \notin Missing => m \in G
  OBVIOUS
<1>2. ASSUME NEW m \in Missing, \A u \in Missing : m <= u PROVE FALSE
  <2>1. m \in 1 .. n /\ m \notin G
    OBVIOUS
  <2>2. m \in 2 .. n /\ m - 1 \in 1 .. n /\ ~(m <= m - 1)
    BY <2>1
  <2>3. m - 1 \notin Missing
    BY <1>2, <2>2
  <2> QED BY <1>1, <2>1, <2>2, <2>3
<1> HIDE DEF Missing
<1>3. Missing = {}
  BY <1>1, <1>2, LeastExists
<1> QED BY <1>1, <1>3

LEMMA FlattenTyped ==
    ASSUME NEW S, NEW n \in Nat \ {0}, NEW seqs \in [1 .. n -> Seq(S)]
    PROVE  FlattenSeq(seqs) \in Seq(S)
<1>1. seqs \in Seq(Seq(S)) /\ Len(seqs) # 0
  OBVIOUS
<1> QED BY <1>1, FlattenHasTheElements DEF HasTheFirst

Contiguous(s) ==
  \A i, j, k \in 1 .. Len(s) :
    i < j /\ j < k /\ s[i].campaign = s[k].campaign => s[j].campaign = s[i].campaign
Apart(a, b) ==
  \A i \in 1 .. Len(a), j \in 1 .. Len(b) : a[i].campaign # b[j].campaign

LEMMA BothAreRead ==
    ASSUME NEW S, NEW a \in Seq(S), NEW b \in Seq(S), NEW i \in 1 .. Len(a \o b)
    PROVE  \/ i \in 1 .. Len(a) /\ (a \o b)[i] = a[i]
           \/ i - Len(a) \in 1 .. Len(b) /\ (a \o b)[i] = b[i - Len(a)]
OBVIOUS

LEMMA ApartBoth ==
    ASSUME NEW S, NEW a \in Seq(S), NEW b \in Seq(S), NEW c, Apart(a, c), Apart(b, c)
    PROVE  Apart(a \o b, c)
<1> DEFINE s == a \o b
<1>1. \A i \in 1 .. Len(s) : \/ i \in 1 .. Len(a) /\ s[i] = a[i]
                             \/ i - Len(a) \in 1 .. Len(b) /\ s[i] = b[i - Len(a)]
  BY BothAreRead
<1> HIDE DEF s
<1>2. Apart(s, c)
  BY <1>1 DEF Apart
<1> QED BY <1>2 DEF s

LEMMA ContiguousBoth ==
    ASSUME NEW S, NEW a \in Seq(S), NEW b \in Seq(S),
           Contiguous(a), Contiguous(b), Apart(a, b)
    PROVE  Contiguous(a \o b)
<1> DEFINE s == a \o b
           k == Len(a)
           l == Len(b)
<1>1. /\ k \in Nat /\ l \in Nat /\ Len(s) = k + l
      /\ \A i \in 1 .. k : s[i] = a[i]
      /\ \A i \in 1 .. l : s[i + k] = b[i]
  OBVIOUS
<1>2. /\ \A x, y, z \in 1 .. k : x < y /\ y < z /\ a[x].campaign = a[z].campaign
                                   => a[y].campaign = a[x].campaign
      /\ \A x, y, z \in 1 .. l : x < y /\ y < z /\ b[x].campaign = b[z].campaign
                                   => b[y].campaign = b[x].campaign
      /\ \A x \in 1 .. k, y \in 1 .. l : a[x].campaign # b[y].campaign
  BY DEF Contiguous, Apart
<1> HIDE DEF s, k, l
<1>3. ASSUME NEW x \in 1 .. (k + l), NEW y \in 1 .. (k + l), NEW z \in 1 .. (k + l),
             x < y, y < z, s[x].campaign = s[z].campaign
      PROVE  s[y].campaign = s[x].campaign
  <2>1. CASE z \in 1 .. k
    <3>1. x \in 1 .. k /\ y \in 1 .. k
      BY <1>1, <1>3, <2>1
    <3> QED BY <1>1, <1>2, <1>3, <2>1, <3>1
  <2>2. CASE x \notin 1 .. k
    <3>1. /\ x - k \in 1 .. l /\ y - k \in 1 .. l /\ z - k \in 1 .. l
          /\ (x - k) + k = x /\ (y - k) + k = y /\ (z - k) + k = z
          /\ x - k < y - k /\ y - k < z - k
      BY <1>1, <1>3, <2>2
    <3>2. s[x] = b[x - k] /\ s[y] = b[y - k] /\ s[z] = b[z - k]
      BY <1>1, <3>1
    <3> QED BY <1>2, <1>3, <3>1, <3>2
  <2>3. CASE x \in 1 .. k /\ z \notin 1 .. k
    <3>1. z - k \in 1 .. l /\ (z - k) + k = z
      BY <1>1, <2>3
    <3>2. s[x] = a[x] /\ s[z] = b[z - k]
      BY <1>1, <2>3, <3>1
    <3> QED BY <1>2, <1>3, <2>3, <3>1, <3>2
  <2> QED BY <2>1, <2>2, <2>3
<1>4. Contiguous(s)
  BY <1>1, <1>3 DEF Contiguous
<1> QED BY <1>4 DEF s

LEMMA ContiguousFlat ==
    ASSUME NEW S, NEW n \in Nat \ {0}, NEW seqs \in [1 .. n -> Seq(S)],
           \A m \in 1 .. n : Contiguous(seqs[m]),
           \A m, o \in 1 .. n : m < o => Apart(seqs[m], seqs[o])
    PROVE  Contiguous(FlattenSeq(seqs))
<1>1. seqs \in Seq(Seq(S)) /\ Len(seqs) # 0 /\ Len(seqs) = n
  OBVIOUS
<1>2. PICK f : /\ f[1] = seqs[1]
               /\ \A i \in 2 .. n : f[i] = f[i - 1] \o seqs[i]
               /\ FlattenSeq(seqs) = f[n]
  BY <1>1, FlattenIsDefined
<1> DEFINE Good(m) == /\ f[m] \in Seq(S) /\ Contiguous(f[m])
                      /\ \A o \in 1 .. n : m < o => Apart(f[m], seqs[o])
           G == {m \in 1 .. n : Good(m)}
<1>3. Good(1)
  BY <1>2
<1>4. ASSUME NEW m \in 2 .. n, Good(m - 1) PROVE Good(m)
  <2>0. /\ m - 1 < m /\ m \in 1 .. n /\ m - 1 \in 1 .. n
        /\ \A o \in 1 .. n : m < o => m - 1 < o
    OBVIOUS
  <2>1. /\ m - 1 < m /\ m \in 1 .. n /\ f[m] = f[m - 1] \o seqs[m]
        /\ \A o \in 1 .. n : m < o => m - 1 < o
    BY <1>2, <2>0
  <2>2. f[m - 1] \in Seq(S) /\ seqs[m] \in Seq(S)
    BY <1>4, <2>1
  <2>3. f[m] \in Seq(S)
    BY <2>1, <2>2
  <2>4. Contiguous(f[m])
    BY <1>4, <2>1, <2>2, ContiguousBoth
  <2>5. ASSUME NEW o \in 1 .. n, m < o PROVE Apart(f[m], seqs[o])
    <3>1. Apart(f[m - 1], seqs[o]) /\ Apart(seqs[m], seqs[o])
      BY <1>4, <2>1, <2>5
    <3> QED BY <2>1, <2>2, <3>1, ApartBoth
  <2> QED BY <2>3, <2>4, <2>5
<1> HIDE DEF Good
<1>5. 1 \in G /\ \A m \in 2 .. n : m - 1 \in G => m \in G
  BY <1>3, <1>4
<1>6. \A m \in 1 .. n : m \in G => Good(m)
  OBVIOUS
<1> HIDE DEF G
<1>7. Good(n)
  <2>1. n \in 1 .. n
    OBVIOUS
  <2>2. \A m \in 1 .. n : m \in G
    BY <1>5, AllAreReached
  <2> QED BY <1>6, <2>1, <2>2
<1> QED BY <1>2, <1>7 DEF Good

StageNames == {"qualification", "screening", "confirmation", "main"}
ArmNames == ToSet(Arms)
SystemNames == {"engine", "contenders"}
CampaignsOf(stage) ==
  ({stage} \X Nat \X ArmNames) \cup ({stage} \X ArmNames) \cup ({stage} \X Nat)
SlotsOf(stage) ==
  [stage : {stage}, seed : Nat, arm : ArmNames, system : SystemNames,
   campaign : CampaignsOf(stage)]

LEMMA ArmsTyped ==
  /\ Arms \in Seq(ArmNames) /\ Len(Arms) \in Nat \ {0} /\ DOMAIN Arms = 1 .. Len(Arms)
BY StudiesAssumption DEF ArmNames

\* The elements of q, from the one after the first k on, and round.
LEMMA RotatedIs ==
    ASSUME NEW A, NEW q \in Seq(A), Len(q) # 0, NEW k \in Nat
    PROVE  /\ Rotated(q, k) \in Seq(A) /\ Len(Rotated(q, k)) = Len(q)
           /\ \A i \in 1 .. Len(q) :
                Rotated(q, k)[i] = q[IF i <= Len(q) - (k % Len(q)) THEN i + (k % Len(q))
                                     ELSE i - (Len(q) - (k % Len(q)))]
<1> DEFINE l == Len(q)
           n == k % l
           a == SubSeq(q, n + 1, l)
           b == SubSeq(q, 1, n)
           r == a \o b
<1>1. l \in Nat \ {0} /\ n \in 0 .. (l - 1)
  <2>1. l \in Nat /\ l > 0
    OBVIOUS
  <2> HIDE DEF l
  <2> QED BY <2>1
<1>2. Rotated(q, k) = r
  BY DEF Rotated
<1> HIDE DEF n
<1>3. /\ a \in Seq(A) /\ Len(a) = l - n /\ \A i \in 1 .. (l - n) : a[i] = q[i + n]
      /\ b \in Seq(A) /\ Len(b) = n /\ \A i \in 1 .. n : b[i] = q[i]
  <2>1. /\ a \in Seq(A) /\ Len(a) = l - n /\ \A i \in 1 .. (l - n) : a[i] = q[i + n]
    BY <1>1
  <2>2. /\ b \in Seq(A) /\ Len(b) = n /\ \A i \in 1 .. n : b[i] = q[i]
    BY <1>1
  <2> QED BY <2>1, <2>2
<1>4. /\ r \in Seq(A) /\ Len(r) = l
      /\ \A i \in 1 .. l : i <= l - n => r[i] = a[i]
      /\ \A i \in 1 .. l : ~(i <= l - n) => r[i] = b[i - (l - n)]
  <2>1. /\ r \in Seq(A) /\ Len(r) = Len(a) + Len(b)
        /\ \A i \in 1 .. (Len(a) + Len(b)) :
             r[i] = IF i <= Len(a) THEN a[i] ELSE b[i - Len(a)]
    <3>1. a \in Seq(A) /\ b \in Seq(A)
      BY <1>3
    <3> HIDE DEF a, b
    <3> QED BY <3>1
  <2>2. Len(a) = l - n /\ Len(b) = n /\ (l - n) + n = l
    BY <1>1, <1>3
  <2> HIDE DEF a, b, l, r
  <2>3. Len(r) = l /\ \A i \in 1 .. l : r[i] = IF i <= l - n THEN a[i] ELSE b[i - (l - n)]
    BY <2>1, <2>2
  <2> QED BY <2>1, <2>3
<1>5. ASSUME NEW i \in 1 .. l
      PROVE  r[i] = q[IF i <= l - n THEN i + n ELSE i - (l - n)]
  <2> HIDE DEF a, b, r, l
  <2>1. CASE i <= l - n
    <3>1. i \in 1 .. (l - n)
      BY <1>1, <2>1
    <3>2. r[i] = a[i] /\ a[i] = q[i + n]
      BY <1>3, <1>4, <2>1, <3>1
    <3> QED BY <2>1, <3>2
  <2>2. CASE ~(i <= l - n)
    <3>1. i - (l - n) \in 1 .. n
      BY <1>1, <2>2
    <3>2. r[i] = b[i - (l - n)] /\ b[i - (l - n)] = q[i - (l - n)]
      BY <1>3, <1>4, <2>2, <3>1
    <3> QED BY <2>2, <3>2
  <2> QED BY <2>1, <2>2
<1> QED BY <1>2, <1>4, <1>5 DEF n

LEMMA RotatedTyped ==
    ASSUME NEW A, NEW q \in Seq(A), Len(q) # 0, NEW k \in Nat
    PROVE  Rotated(q, k) \in Seq(A) /\ Len(Rotated(q, k)) = Len(q)
<1> DEFINE l == Len(q)
           n == k % l
<1>1. l \in Nat \ {0}
  OBVIOUS
<1>2. n \in Int /\ Rotated(q, k) \in Seq(A) /\ Len(Rotated(q, k)) = l
  BY RotatedIs
<1> QED BY <1>2

LEMMA SeedsTyped ==
    ASSUME NEW stage
    PROVE  \E n \in Nat \ {0} : DOMAIN SeedNumbers(stage) = 1 .. n
<1> DEFINE n == IF stage = "main" THEN MainSeeds ELSE 1
<1>1. n \in Nat \ {0} /\ DOMAIN SeedNumbers(stage) = 1 .. n
  BY StudiesAssumption DEF SeedNumbers
<1> QED BY <1>1

\* A block has an arm of each place of Arms.
LEMMA BlocksTyped ==
    ASSUME NEW stage, NEW s \in Nat \ {0}, NEW a \in 1 .. Len(Arms)
    PROVE  /\ Rotated(Arms, s - 1)[a] \in ArmNames
           /\ Reverse(Rotated(Arms, s - 1))[a] \in ArmNames
<1> DEFINE r == Rotated(Arms, s - 1)
<1>1. r \in Seq(ArmNames) /\ Len(r) = Len(Arms) /\ s - 1 \in Nat
  BY ArmsTyped, RotatedIs
<1>2. r[a] \in ArmNames
  BY <1>1
<1>3. Reverse(r)[a] \in ArmNames
  <2>1. Len(r) - a + 1 \in 1 .. Len(r) /\ Reverse(r)[a] = r[Len(r) - a + 1]
    BY <1>1 DEF Reverse
  <2> QED BY <1>1, <2>1
<1> QED BY <1>2, <1>3

LEMMA SlotTyped ==
    ASSUME NEW stage, NEW s \in Nat, NEW a \in ArmNames, NEW y \in SystemNames,
           NEW c \in CampaignsOf(stage)
    PROVE  Slot(stage, s, a, y, c) \in SlotsOf(stage)
BY DEF Slot, SlotsOf

LEMMA CampaignsTyped ==
    ASSUME NEW stage, NEW s \in Nat, NEW a \in ArmNames
    PROVE  /\ <<stage, s, a>> \in CampaignsOf(stage)
           /\ <<stage, a>> \in CampaignsOf(stage)
           /\ <<stage, s>> \in CampaignsOf(stage)
BY DEF CampaignsOf

SystemsOf(s, a) == Rotated(<<"engine", "contenders">>, s + a - 2)

LEMMA SystemsTyped ==
    ASSUME NEW s \in Nat \ {0}, NEW a \in Nat \ {0}
    PROVE  SystemsOf(s, a) \in Seq(SystemNames) /\ Len(SystemsOf(s, a)) = 2
<1> DEFINE q == <<"engine", "contenders">>
           k == s + a - 2
<1>1. q \in Seq(SystemNames) /\ Len(q) = 2 /\ k \in Nat
  BY DEF SystemNames
<1> HIDE DEF q, k
<1>2. Rotated(q, k) \in Seq(SystemNames) /\ Len(Rotated(q, k)) = 2
  BY <1>1, RotatedTyped, SMTT(30)
<1> QED BY <1>2 DEF SystemsOf, q, k

RoundSlots(stage, s) ==
  [stage : {stage}, seed : Nat, arm : ArmNames, system : SystemNames,
   campaign : {stage} \X {s} \X ArmNames]

Couple(stage, s, a) ==
  LET arm == Rotated(Arms, s - 1)[a]
      systems == Rotated(<<"engine", "contenders">>, s + a - 2)
  IN  [y \in DOMAIN systems |-> Slot(stage, s, arm, systems[y], <<stage, s, arm>>)]

LEMMA CoupleTyped ==
    ASSUME NEW stage, NEW s \in Nat \ {0}, NEW a \in 1 .. Len(Arms)
    PROVE  /\ Couple(stage, s, a) \in Seq(RoundSlots(stage, s))
           /\ \A y \in 1 .. Len(Couple(stage, s, a)) :
                Couple(stage, s, a)[y].campaign = <<stage, s, Rotated(Arms, s - 1)[a]>>
<1> DEFINE arm == Rotated(Arms, s - 1)[a]
           systems == SystemsOf(s, a)
           p == [y \in 1 .. 2 |-> Slot(stage, s, arm, systems[y], <<stage, s, arm>>)]
<1>1. arm \in ArmNames
  BY BlocksTyped
<1>2. a \in Nat \ {0} /\ systems \in Seq(SystemNames) /\ DOMAIN systems = 1 .. 2
      /\ \A y \in 1 .. 2 : systems[y] \in SystemNames
  BY ArmsTyped, SystemsTyped
<1>3. Couple(stage, s, a) = p
  BY <1>2 DEF Couple, SystemsOf
<1> HIDE DEF arm, systems
<1>4. ASSUME NEW y \in 1 .. 2
      PROVE  p[y] \in RoundSlots(stage, s) /\ p[y].campaign = <<stage, s, arm>>
  <2>1. systems[y] \in SystemNames /\ s \in Nat
    BY <1>2
  <2>2. p[y] = Slot(stage, s, arm, systems[y], <<stage, s, arm>>)
    OBVIOUS
  <2>3. p[y] \in RoundSlots(stage, s)
    BY <1>1, <2>1, <2>2 DEF Slot, RoundSlots
  <2> QED BY <2>2, <2>3 DEF Slot
<1>5. p \in Seq(RoundSlots(stage, s)) /\ Len(p) = 2
  <2>1. p = [y \in 1 .. 2 |-> p[y]]
    OBVIOUS
  <2> HIDE DEF p
  <2> QED BY <1>4, <2>1
<1> QED BY <1>3, <1>4, <1>5 DEF arm

LEMMA RotatedDiffers ==
    ASSUME NEW A, NEW q \in Seq(A), Len(q) # 0, NEW k \in Nat,
           \A x, y \in 1 .. Len(q) : q[x] = q[y] => x = y,
           NEW i \in 1 .. Len(q), NEW j \in 1 .. Len(q), i < j
    PROVE  Rotated(q, k)[i] # Rotated(q, k)[j]
<1> DEFINE l == Len(q)
           n == k % l
           At(x) == IF x <= l - n THEN x + n ELSE x - (l - n)
<1>1. l \in Nat \ {0} /\ n \in 0 .. (l - 1)
  <2>1. l \in Nat /\ l > 0
    OBVIOUS
  <2> HIDE DEF l
  <2> QED BY <2>1
<1>2. \A x \in 1 .. l : Rotated(q, k)[x] = q[At(x)]
  BY RotatedIs
<1> HIDE DEF n, l
<1>3. \A x \in 1 .. l : At(x) \in 1 .. l
  BY <1>1
<1>4. i \in 1 .. l /\ j \in 1 .. l
  BY DEF l
<1>5. At(i) # At(j)
  BY <1>1, <1>4
<1> HIDE DEF At
<1>6. q[At(i)] # q[At(j)]
  BY <1>3, <1>4, <1>5 DEF l
<1> QED BY <1>2, <1>4, <1>6

RoundOf(stage, s) == FlattenSeq([a \in 1 .. Len(Arms) |-> Couple(stage, s, a)])

LEMMA RoundIsContiguous ==
    ASSUME NEW stage, NEW s \in Nat \ {0}
    PROVE  RoundOf(stage, s) \in Seq(RoundSlots(stage, s)) /\ Contiguous(RoundOf(stage, s))
<1> DEFINE n == Len(Arms)
           S == RoundSlots(stage, s)
           couples == [a \in 1 .. n |-> Couple(stage, s, a)]
           arm(a) == Rotated(Arms, s - 1)[a]
<1>1. n \in Nat \ {0} /\ s - 1 \in Nat
  BY ArmsTyped
<1>2. \A a \in 1 .. n : /\ couples[a] \in Seq(S)
                        /\ \A y \in 1 .. Len(couples[a]) :
                             couples[a][y].campaign = <<stage, s, arm(a)>>
  BY CoupleTyped
<1>3. \A a, b \in 1 .. n : a < b => arm(a) # arm(b)
  BY <1>1, ArmsTyped, StudiesAssumption, RotatedDiffers
<1>4. couples \in [1 .. n -> Seq(S)]
  BY <1>2
<1> HIDE DEF couples, arm, n, S
<1>5. \A a \in 1 .. n : Contiguous(couples[a])
  BY <1>2 DEF Contiguous
<1>6. \A a, b \in 1 .. n : a < b => Apart(couples[a], couples[b])
  BY <1>2, <1>3 DEF Apart
<1>7. FlattenSeq(couples) \in Seq(S) /\ Contiguous(FlattenSeq(couples))
  BY <1>1, <1>4, <1>5, <1>6, FlattenTyped, ContiguousFlat
<1> QED BY <1>7 DEF RoundOf, couples, n, S

LEMMA RoundsAreSlots ==
    ASSUME NEW stage, NEW s \in Nat
    PROVE  RoundSlots(stage, s) \subseteq SlotsOf(stage)
BY DEF RoundSlots, SlotsOf, CampaignsOf

LEMMA BaselineIsContiguous ==
    ASSUME NEW stage
    PROVE  /\ BaselineMatrix(stage) \in Seq(SlotsOf(stage))
           /\ Contiguous(BaselineMatrix(stage))
<1>1. PICK n \in Nat \ {0} : DOMAIN SeedNumbers(stage) = 1 .. n
  BY SeedsTyped
<1> DEFINE rounds == [s \in 1 .. n |-> RoundOf(stage, s)]
<1>2. BaselineMatrix(stage) = FlattenSeq(rounds)
  BY <1>1, ArmsTyped DEF BaselineMatrix, RoundOf, Couple
<1>3. \A s \in 1 .. n : /\ s \in Nat \ {0} /\ rounds[s] \in Seq(RoundSlots(stage, s))
                        /\ Contiguous(rounds[s])
  BY RoundIsContiguous
<1>4. \A s \in 1 .. n : \A i \in 1 .. Len(rounds[s]) :
        rounds[s][i] \in RoundSlots(stage, s)
  BY <1>3
<1>5. rounds = [s \in 1 .. n |-> rounds[s]]
  OBVIOUS
<1> HIDE DEF rounds
<1>6. \A s, t \in 1 .. n : s < t => Apart(rounds[s], rounds[t])
  BY <1>4, SMTT(30) DEF Apart, RoundSlots
<1>7. \A s \in 1 .. n : rounds[s] \in Seq(SlotsOf(stage))
  <2>1. ASSUME NEW s \in 1 .. n PROVE rounds[s] \in Seq(SlotsOf(stage))
    BY <1>3, RoundsAreSlots
  <2> QED BY <2>1
<1>8. rounds \in [1 .. n -> Seq(SlotsOf(stage))]
  BY <1>5, <1>7
<1>9. \A s \in 1 .. n : Contiguous(rounds[s])
  BY <1>3
<1>10. FlattenSeq(rounds) \in Seq(SlotsOf(stage)) /\ Contiguous(FlattenSeq(rounds))
  BY <1>6, <1>8, <1>9, FlattenTyped, ContiguousFlat
<1> QED BY <1>2, <1>10

LEMMA RowsAreASequence ==
    ASSUME NEW S, NEW n \in Nat, NEW rows \in [1 .. n -> S]
    PROVE  rows \in Seq(S)
OBVIOUS

LEMMA ConfidenceTyped ==
    ASSUME NEW stage PROVE ConfidenceSchedule(stage) \in Seq(SlotsOf(stage))
<1>1. PICK n \in Nat \ {0} : DOMAIN SeedNumbers(stage) = 1 .. n
  BY SeedsTyped
<1> DEFINE arm(s, a) == Rotated(Arms, s - 1)[a]
           block(s) == [a \in 1 .. Len(Arms) |->
                          Slot(stage, s, arm(s, a), "engine", <<stage, arm(s, a)>>)]
           blocks == [s \in 1 .. n |-> block(s)]
<1>2. ConfidenceSchedule(stage) = FlattenSeq(blocks)
  BY <1>1, ArmsTyped DEF ConfidenceSchedule
<1>3. ASSUME NEW s \in 1 .. n PROVE block(s) \in Seq(SlotsOf(stage))
  <2>1. ASSUME NEW a \in 1 .. Len(Arms)
        PROVE  Slot(stage, s, arm(s, a), "engine", <<stage, arm(s, a)>>) \in SlotsOf(stage)
    <3>1. s \in Nat \ {0} /\ s \in Nat /\ "engine" \in SystemNames
      BY DEF SystemNames
    <3>2. arm(s, a) \in ArmNames
      BY <3>1, BlocksTyped
    <3> HIDE DEF arm
    <3>3. <<stage, arm(s, a)>> \in CampaignsOf(stage)
      BY <3>1, <3>2, CampaignsTyped
    <3> QED BY <3>1, <3>2, <3>3, SlotTyped
  <2>2. block(s) \in [1 .. Len(Arms) -> SlotsOf(stage)]
    BY <2>1
  <2> HIDE DEF block
  <2> QED BY <2>2, ArmsTyped, RowsAreASequence
<1> HIDE DEF block
<1>4. blocks \in [1 .. n -> Seq(SlotsOf(stage))]
  BY <1>3
<1> HIDE DEF blocks
<1> QED BY <1>2, <1>4, FlattenTyped

LEMMA PrimordiaTyped ==
    ASSUME NEW stage PROVE PrimordiaSchedule(stage) \in Seq(SlotsOf(stage))
<1>1. PICK n \in Nat \ {0} : DOMAIN SeedNumbers(stage) = 1 .. n
  BY SeedsTyped
<1> DEFINE turned(s) == Rotated(Arms, s - 1)
           arm(s, a) == (IF s % 2 = 0 THEN Reverse(turned(s)) ELSE turned(s))[a]
           block(s) == [a \in 1 .. Len(Arms) |->
                          Slot(stage, s, arm(s, a), "engine", <<stage, arm(s, a)>>)]
           blocks == [s \in 1 .. n |-> block(s)]
<1>2. PrimordiaSchedule(stage) = FlattenSeq(blocks)
  BY <1>1, ArmsTyped DEF PrimordiaSchedule
<1>3. ASSUME NEW s \in 1 .. n PROVE block(s) \in Seq(SlotsOf(stage))
  <2>1. ASSUME NEW a \in 1 .. Len(Arms)
        PROVE  Slot(stage, s, arm(s, a), "engine", <<stage, arm(s, a)>>) \in SlotsOf(stage)
    <3>1. s \in Nat \ {0} /\ s \in Nat /\ "engine" \in SystemNames
      BY DEF SystemNames
    <3>2. Reverse(turned(s))[a] \in ArmNames /\ turned(s)[a] \in ArmNames
      BY <3>1, BlocksTyped
    <3>4. arm(s, a) = Reverse(turned(s))[a] \/ arm(s, a) = turned(s)[a]
      OBVIOUS
    <3> HIDE DEF arm
    <3>5. arm(s, a) \in ArmNames
      BY <3>2, <3>4
    <3>3. <<stage, arm(s, a)>> \in CampaignsOf(stage)
      BY <3>1, <3>5, CampaignsTyped
    <3> QED BY <3>1, <3>5, <3>3, SlotTyped
  <2>2. block(s) \in [1 .. Len(Arms) -> SlotsOf(stage)]
    BY <2>1
  <2> HIDE DEF block
  <2> QED BY <2>2, ArmsTyped, RowsAreASequence
<1> HIDE DEF block
<1>4. blocks \in [1 .. n -> Seq(SlotsOf(stage))]
  BY <1>3
<1> HIDE DEF blocks
<1> QED BY <1>2, <1>4, FlattenTyped

LEMMA StratographTyped ==
    ASSUME NEW stage PROVE StratographSlots(stage) \in Seq(SlotsOf(stage))
<1>1. PICK n \in Nat \ {0} : DOMAIN SeedNumbers(stage) = 1 .. n
  BY SeedsTyped
<1> DEFINE arm(s, a) == Rotated(Arms, s - 1)[a]
           block(s) == [a \in 1 .. Len(Arms) |->
                          Slot(stage, s, arm(s, a), "engine", <<stage, s, arm(s, a)>>)]
           blocks == [s \in 1 .. n |-> block(s)]
<1>2. StratographSlots(stage) = FlattenSeq(blocks)
  BY <1>1, ArmsTyped DEF StratographSlots
<1>3. ASSUME NEW s \in 1 .. n PROVE block(s) \in Seq(SlotsOf(stage))
  <2>1. ASSUME NEW a \in 1 .. Len(Arms)
        PROVE  Slot(stage, s, arm(s, a), "engine", <<stage, s, arm(s, a)>>)
                 \in SlotsOf(stage)
    <3>1. s \in Nat \ {0} /\ s \in Nat /\ "engine" \in SystemNames
      BY DEF SystemNames
    <3>2. arm(s, a) \in ArmNames
      BY <3>1, BlocksTyped
    <3> HIDE DEF arm
    <3>3. <<stage, s, arm(s, a)>> \in CampaignsOf(stage)
      BY <3>1, <3>2, CampaignsTyped
    <3> QED BY <3>1, <3>2, <3>3, SlotTyped
  <2>2. block(s) \in [1 .. Len(Arms) -> SlotsOf(stage)]
    BY <2>1
  <2> HIDE DEF block
  <2> QED BY <2>2, ArmsTyped, RowsAreASequence
<1> HIDE DEF block
<1>4. blocks \in [1 .. n -> Seq(SlotsOf(stage))]
  BY <1>3
<1> HIDE DEF blocks
<1> QED BY <1>2, <1>4, FlattenTyped

LEMMA CrossTyped ==
    ASSUME NEW stage PROVE CrossMatrix(stage) \in Seq(SlotsOf(stage))
<1>1. PICK n \in Nat \ {0} : DOMAIN SeedNumbers(stage) = 1 .. n
  BY SeedsTyped
<1> DEFINE system(y) == <<"engine", "contenders">>[y]
           block(s) == [y \in 1 .. 2 |->
                          Slot(stage, s, Arms[1], system(y), <<stage, s>>)]
           blocks == [s \in 1 .. n |-> block(s)]
<1>2. CrossMatrix(stage) = FlattenSeq(blocks)
  BY <1>1 DEF CrossMatrix
<1>3. ASSUME NEW s \in 1 .. n PROVE block(s) \in Seq(SlotsOf(stage))
  <2>0. Arms[1] \in ArmNames
    BY ArmsTyped
  <2>1. ASSUME NEW y \in 1 .. 2
        PROVE  Slot(stage, s, Arms[1], system(y), <<stage, s>>) \in SlotsOf(stage)
    <3>1. s \in Nat /\ system(y) \in SystemNames
      BY DEF SystemNames
    <3> HIDE DEF system
    <3>3. <<stage, s>> \in CampaignsOf(stage)
      BY <3>1 DEF CampaignsOf
    <3> QED BY <2>0, <3>1, <3>3, SlotTyped
  <2>2. block(s) \in [1 .. 2 -> SlotsOf(stage)]
    BY <2>1
  <2> HIDE DEF block
  <2>3. 2 \in Nat
    OBVIOUS
  <2> QED BY <2>2, <2>3, RowsAreASequence
<1> HIDE DEF block
<1>4. blocks \in [1 .. n -> Seq(SlotsOf(stage))]
  BY <1>3
<1> HIDE DEF blocks
<1> QED BY <1>2, <1>4, FlattenTyped

LEMMA TopographTyped ==
    ASSUME NEW stage
    PROVE  /\ TopographMatrix(stage) \in Seq(SlotsOf(stage))
           /\ \A i \in 1 .. Len(TopographMatrix(stage)) :
                TopographMatrix(stage)[i].campaign
                  = <<stage, 1, TopographMatrix(stage)[i].arm>>
<1> DEFINE p == [a \in 1 .. Len(Arms) |->
                   Slot(stage, 1, Arms[a], "engine", <<stage, 1, Arms[a]>>)]
<1>1. TopographMatrix(stage) = p
  BY ArmsTyped DEF TopographMatrix
<1>2. ASSUME NEW a \in 1 .. Len(Arms)
      PROVE  p[a] \in SlotsOf(stage) /\ p[a].campaign = <<stage, 1, p[a].arm>>
  <2>1. Arms[a] \in ArmNames /\ 1 \in Nat /\ "engine" \in SystemNames
    BY ArmsTyped DEF SystemNames
  <2>2. <<stage, 1, Arms[a]>> \in CampaignsOf(stage)
    BY <2>1, CampaignsTyped
  <2>3. p[a] = Slot(stage, 1, Arms[a], "engine", <<stage, 1, Arms[a]>>)
    OBVIOUS
  <2>4. p[a] \in SlotsOf(stage)
    BY <2>1, <2>2, <2>3, SlotTyped
  <2> QED BY <2>3, <2>4 DEF Slot
<1>3. p = [a \in 1 .. Len(Arms) |-> p[a]]
  OBVIOUS
<1> HIDE DEF p
<1>4. p \in Seq(SlotsOf(stage)) /\ Len(p) = Len(Arms)
  BY <1>2, <1>3, ArmsTyped
<1> QED BY <1>1, <1>2, <1>4

LEMMA FlattenTwo ==
    ASSUME NEW S, NEW a \in Seq(S), NEW b \in Seq(S)
    PROVE  FlattenSeq(<<a, b>>) = a \o b
<1> DEFINE seqs == <<a, b>>
<1>1. seqs \in Seq(Seq(S)) /\ Len(seqs) = 2 /\ seqs[1] = a /\ seqs[2] = b
  OBVIOUS
<1> HIDE DEF seqs
<1>2. PICK f : /\ f[1] = seqs[1]
               /\ \A i \in 2 .. Len(seqs) : f[i] = f[i - 1] \o seqs[i]
               /\ FlattenSeq(seqs) = f[Len(seqs)]
  <2>1. seqs \in Seq(Seq(S)) /\ Len(seqs) # 0
    BY <1>1
  <2> QED BY <2>1, FlattenIsDefined
<1>3. f[2] = f[1] \o seqs[2]
  <2>1. 2 \in 2 .. Len(seqs) /\ 2 - 1 = 1
    BY <1>1
  <2> QED BY <1>2, <2>1
<1>4. FlattenSeq(seqs) = a \o b
  BY <1>1, <1>2, <1>3
<1> QED BY <1>4 DEF seqs

LEMMA FlattenThree ==
    ASSUME NEW S, NEW a \in Seq(S), NEW b \in Seq(S), NEW c \in Seq(S)
    PROVE  FlattenSeq(<<a, b, c>>) = FlattenSeq(<<FlattenSeq(<<a, b>>), c>>)
<1> DEFINE seqs == <<a, b, c>>
<1>1. /\ seqs \in Seq(Seq(S)) /\ Len(seqs) = 3
      /\ seqs[1] = a /\ seqs[2] = b /\ seqs[3] = c
  OBVIOUS
<1> HIDE DEF seqs
<1>2. PICK f : /\ f[1] = seqs[1]
               /\ \A i \in 2 .. Len(seqs) : f[i] = f[i - 1] \o seqs[i]
               /\ FlattenSeq(seqs) = f[Len(seqs)]
  <2>1. seqs \in Seq(Seq(S)) /\ Len(seqs) # 0
    BY <1>1
  <2> QED BY <2>1, FlattenIsDefined
<1>3. f[2] = f[1] \o seqs[2] /\ f[3] = f[2] \o seqs[3]
  <2>1. 2 \in 2 .. Len(seqs) /\ 2 - 1 = 1 /\ 3 \in 2 .. Len(seqs) /\ 3 - 1 = 2
    BY <1>1
  <2> QED BY <1>2, <2>1
<1> DEFINE ab == a \o b
<1>4. FlattenSeq(seqs) = ab \o c
  BY <1>1, <1>2, <1>3
<1>5. ab \in Seq(S) /\ FlattenSeq(<<a, b>>) = ab
  <2>1. ab \in Seq(S)
    OBVIOUS
  <2>2. FlattenSeq(<<a, b>>) = a \o b
    BY FlattenTwo, Zenon
  <2> QED BY <2>1, <2>2, Zenon
<1> HIDE DEF ab
<1>6. FlattenSeq(<<ab, c>>) = ab \o c
  BY <1>5, FlattenTwo
<1>7. FlattenSeq(seqs) = FlattenSeq(<<ab, c>>)
  BY <1>4, <1>6, Zenon
<1> QED BY <1>5, <1>7, Zenon DEF seqs

StagesBefore(stage) ==
  CASE stage = "confirmation" -> {"qualification", "screening"}
    [] stage \in {"screening", "main"} -> {"qualification"}
    [] OTHER -> {}

\* What the sessions rely on in a schedule.
IsPlanned(d, p) ==
  /\ p \in Seq(UNION {SlotsOf(stage) : stage \in StageNames})
  /\ \A i \in 1 .. Len(p) : p[i] \in SlotsOf(p[i].stage)
  /\ \A i, j \in 1 .. Len(p) :
       i < j => p[i].stage \in StagesBefore(p[j].stage) \cup {p[j].stage}
  /\ \A i \in 1 .. Len(p) :
       IF d = "topograph" THEN /\ p[i].stage # "main"
                               /\ p[i].campaign = <<p[i].stage, 1, p[i].arm>>
       ELSE p[i].stage \in {"qualification", "main"}
  /\ d = "baseline" => Contiguous(p)

LEMMA PlannedInTwo ==
    ASSUME NEW d, d # "topograph",
           NEW a \in Seq(SlotsOf("qualification")), NEW b \in Seq(SlotsOf("main")),
           d = "baseline" => Contiguous(a) /\ Contiguous(b)
    PROVE  IsPlanned(d, a \o b)
<1> DEFINE S == UNION {SlotsOf(stage) : stage \in StageNames}
           p == a \o b
<1>1. a \in Seq(S) /\ b \in Seq(S)
  <2>1. SlotsOf("qualification") \subseteq S /\ SlotsOf("main") \subseteq S
    BY DEF StageNames
  <2> HIDE DEF S
  <2> QED BY <2>1
<1>2. /\ \A i \in 1 .. Len(a) : a[i] \in SlotsOf("qualification")
      /\ \A i \in 1 .. Len(b) : b[i] \in SlotsOf("main")
  OBVIOUS
<1> HIDE DEF S
<1>3. /\ p \in Seq(S)
      /\ \A i \in 1 .. Len(p) : \/ i \in 1 .. Len(a) /\ p[i] = a[i]
                                \/ i - Len(a) \in 1 .. Len(b) /\ p[i] = b[i - Len(a)]
      /\ Len(a) \in Nat
  BY <1>1
<1>4. Apart(a, b)
  BY <1>2 DEF Apart, SlotsOf, CampaignsOf
<1>5. d = "baseline" => Contiguous(p)
  BY <1>1, <1>4, ContiguousBoth
<1> HIDE DEF p
<1>6. \A i \in 1 .. Len(p) :
        \/ i <= Len(a) /\ p[i] \in SlotsOf("qualification")
        \/ i > Len(a) /\ p[i] \in SlotsOf("main")
  BY <1>2, <1>3
<1>7. \A i \in 1 .. Len(p) :
        \/ i <= Len(a) /\ p[i].stage = "qualification" /\ p[i] \in SlotsOf(p[i].stage)
        \/ i > Len(a) /\ p[i].stage = "main" /\ p[i] \in SlotsOf(p[i].stage)
  BY <1>6 DEF SlotsOf
<1>8. StagesBefore("main") = {"qualification"}
  BY DEF StagesBefore
<1>9. \A i, j \in 1 .. Len(p) :
        i < j => p[i].stage \in StagesBefore(p[j].stage) \cup {p[j].stage}
  BY <1>3, <1>7, <1>8
<1>10. IsPlanned(d, p)
  BY <1>3, <1>5, <1>7, <1>9 DEF IsPlanned, S
<1> QED BY <1>10 DEF p

LEMMA PlannedInThree ==
    ASSUME NEW a \in Seq(SlotsOf("qualification")), NEW b \in Seq(SlotsOf("screening")),
           NEW c \in Seq(SlotsOf("confirmation")),
           \A i \in 1 .. Len(a) : a[i].campaign = <<"qualification", 1, a[i].arm>>,
           \A i \in 1 .. Len(b) : b[i].campaign = <<"screening", 1, b[i].arm>>,
           \A i \in 1 .. Len(c) : c[i].campaign = <<"confirmation", 1, c[i].arm>>
    PROVE  IsPlanned("topograph", (a \o b) \o c)
<1> DEFINE S == UNION {SlotsOf(stage) : stage \in StageNames}
           ab == a \o b
           p == ab \o c
           Fits(s, stage) == /\ s \in SlotsOf(stage) /\ s.stage = stage
                             /\ s.campaign = <<stage, 1, s.arm>>
<1>1. a \in Seq(S) /\ b \in Seq(S) /\ c \in Seq(S)
  <2>1. /\ SlotsOf("qualification") \subseteq S /\ SlotsOf("screening") \subseteq S
        /\ SlotsOf("confirmation") \subseteq S
    BY DEF StageNames
  <2> HIDE DEF S
  <2> QED BY <2>1
<1>2. /\ \A i \in 1 .. Len(a) : Fits(a[i], "qualification")
      /\ \A i \in 1 .. Len(b) : Fits(b[i], "screening")
      /\ \A i \in 1 .. Len(c) : Fits(c[i], "confirmation")
  <2>1. /\ \A i \in 1 .. Len(a) : a[i] \in SlotsOf("qualification")
        /\ \A i \in 1 .. Len(b) : b[i] \in SlotsOf("screening")
        /\ \A i \in 1 .. Len(c) : c[i] \in SlotsOf("confirmation")
    OBVIOUS
  <2> QED BY <2>1 DEF SlotsOf
<1> HIDE DEF S, Fits
<1>3. /\ ab \in Seq(S) /\ Len(ab) = Len(a) + Len(b)
      /\ \A i \in 1 .. Len(ab) : \/ i \in 1 .. Len(a) /\ ab[i] = a[i]
                                 \/ i - Len(a) \in 1 .. Len(b) /\ ab[i] = b[i - Len(a)]
      /\ Len(a) \in Nat /\ Len(b) \in Nat
  BY <1>1
<1> HIDE DEF ab
<1>4. ASSUME NEW i \in 1 .. Len(ab)
      PROVE  \/ i <= Len(a) /\ Fits(ab[i], "qualification")
             \/ i > Len(a) /\ Fits(ab[i], "screening")
  <2>1. CASE i \in 1 .. Len(a) /\ ab[i] = a[i]
    BY <1>2, <2>1
  <2>2. CASE i - Len(a) \in 1 .. Len(b) /\ ab[i] = b[i - Len(a)]
    <3>1. i > Len(a)
      BY <1>3, <2>2
    <3> QED BY <1>2, <2>2, <3>1
  <2> QED BY <1>3, <2>1, <2>2
<1>5. /\ p \in Seq(S)
      /\ \A i \in 1 .. Len(p) : \/ i \in 1 .. Len(ab) /\ p[i] = ab[i]
                                \/ i - Len(ab) \in 1 .. Len(c) /\ p[i] = c[i - Len(ab)]
  BY <1>1, <1>3
<1> HIDE DEF p
<1>6. \A i \in 1 .. Len(p) :
        \/ i <= Len(a) /\ Fits(p[i], "qualification")
        \/ Len(a) < i /\ i <= Len(ab) /\ Fits(p[i], "screening")
        \/ i > Len(ab) /\ Fits(p[i], "confirmation")
  BY <1>2, <1>3, <1>4, <1>5
<1>7. \A i \in 1 .. Len(p) : Fits(p[i], p[i].stage) /\ p[i].stage # "main"
  BY <1>6 DEF Fits
<1>8. /\ StagesBefore("confirmation") = {"qualification", "screening"}
      /\ StagesBefore("screening") = {"qualification"}
  BY DEF StagesBefore
<1>9. \A i \in 1 .. Len(p) :
        \/ i <= Len(a) /\ p[i].stage = "qualification"
        \/ Len(a) < i /\ i <= Len(ab) /\ p[i].stage = "screening"
        \/ i > Len(ab) /\ p[i].stage = "confirmation"
  BY <1>6 DEF Fits
<1>10. ASSUME NEW i \in 1 .. Len(p), NEW j \in 1 .. Len(p), i < j
       PROVE  p[i].stage \in StagesBefore(p[j].stage) \cup {p[j].stage}
  <2>1. i \in Int /\ j \in Int /\ Len(a) \in Int /\ Len(ab) \in Int /\ Len(a) <= Len(ab)
    BY <1>3
  <2>2. CASE p[j].stage = "qualification"
    <3>1. j <= Len(a)
      BY <1>9, <2>2
    <3>2. p[i].stage = "qualification"
      BY <1>9, <1>10, <2>1, <3>1, SMTT(30)
    <3> QED BY <2>2, <3>2
  <2>3. CASE p[j].stage = "screening"
    <3>1. j <= Len(ab)
      BY <1>9, <2>3
    <3>2. p[i].stage \in {"qualification", "screening"}
      BY <1>9, <1>10, <2>1, <3>1
    <3> QED BY <1>8, <2>3, <3>2
  <2>4. CASE p[j].stage = "confirmation"
    <3>1. p[i].stage \in {"qualification", "screening", "confirmation"}
      BY <1>9
    <3> QED BY <1>8, <2>4, <3>1
  <2> QED BY <1>9, <2>2, <2>3, <2>4
<1>11. IsPlanned("topograph", p)
  BY <1>5, <1>7, <1>10 DEF IsPlanned, S, Fits
<1> QED BY <1>11 DEF p, ab

LEMMA PlansAreKept == \A d \in Drivers : IsPlanned(d, Schedule[d])
<1> SUFFICES ASSUME NEW d \in Drivers PROVE IsPlanned(d, Schedule[d])
  OBVIOUS
<1> DEFINE parts == [k \in DOMAIN Stages(d) |-> StageOf(d, Stages(d)[k])]
           S == UNION {SlotsOf(stage) : stage \in StageNames}
<1>1. Schedule[d] = FlattenSeq(parts)
  BY DEF Schedule
<1>2. CASE d # "topograph"
  <2> DEFINE a == StageOf(d, "qualification")
             b == StageOf(d, "main")
  <2>1. parts = <<a, b>>
    BY <1>2 DEF Stages
  <2>2. /\ \A stage : StageOf(d, stage) \in Seq(SlotsOf(stage))
        /\ d = "baseline" => \A stage : Contiguous(StageOf(d, stage))
    BY <1>2, StudiesAssumption, BaselineIsContiguous, ConfidenceTyped, PrimordiaTyped,
       StratographTyped, CrossTyped DEF StageOf
  <2>3. a \in Seq(SlotsOf("qualification")) /\ b \in Seq(SlotsOf("main"))
    BY <2>2
  <2>4. a \in Seq(S) /\ b \in Seq(S)
    <3>1. SlotsOf("qualification") \subseteq S /\ SlotsOf("main") \subseteq S
      BY DEF StageNames
    <3> HIDE DEF S, a, b
    <3> QED BY <2>3, <3>1
  <2>5. d = "baseline" => Contiguous(a) /\ Contiguous(b)
    BY <2>2
  <2> HIDE DEF a, b, parts, S
  <2>6. FlattenSeq(parts) = a \o b
    BY <2>1, <2>4, FlattenTwo
  <2> QED BY <1>1, <1>2, <2>3, <2>5, <2>6, PlannedInTwo
<1>3. CASE d = "topograph"
  <2> DEFINE a == TopographMatrix("qualification")
             b == TopographMatrix("screening")
             c == TopographMatrix("confirmation")
  <2>1. parts = <<a, b, c>>
    <3>1. \A stage : StageOf(d, stage) = TopographMatrix(stage)
      BY <1>3 DEF StageOf
    <3>2. Stages(d) = <<"qualification", "screening", "confirmation">>
      BY <1>3 DEF Stages
    <3> QED BY <3>1, <3>2
  <2>2. /\ a \in Seq(SlotsOf("qualification")) /\ b \in Seq(SlotsOf("screening"))
        /\ c \in Seq(SlotsOf("confirmation"))
        /\ \A i \in 1 .. Len(a) : a[i].campaign = <<"qualification", 1, a[i].arm>>
        /\ \A i \in 1 .. Len(b) : b[i].campaign = <<"screening", 1, b[i].arm>>
        /\ \A i \in 1 .. Len(c) : c[i].campaign = <<"confirmation", 1, c[i].arm>>
    BY TopographTyped
  <2>3. a \in Seq(S) /\ b \in Seq(S) /\ c \in Seq(S)
    <3>1. /\ SlotsOf("qualification") \subseteq S /\ SlotsOf("screening") \subseteq S
          /\ SlotsOf("confirmation") \subseteq S
      BY DEF StageNames
    <3> HIDE DEF S, a, b, c
    <3> QED BY <2>2, <3>1
  <2> HIDE DEF a, b, c, parts, S
  <2>4. FlattenSeq(parts) = (a \o b) \o c
    <3> DEFINE ab == a \o b
    <3>1. ab \in Seq(S) /\ FlattenSeq(<<a, b>>) = ab
      <4>1. ab \in Seq(S)
        BY <2>3
      <4>2. FlattenSeq(<<a, b>>) = a \o b
        BY <2>3, FlattenTwo, Zenon
      <4> QED BY <4>1, <4>2, Zenon
    <3> HIDE DEF ab
    <3>2. FlattenSeq(<<ab, c>>) = ab \o c
      BY <2>3, <3>1, FlattenTwo
    <3>3. FlattenSeq(<<a, b, c>>) = FlattenSeq(<<ab, c>>)
      <4>1. FlattenSeq(<<a, b, c>>) = FlattenSeq(<<FlattenSeq(<<a, b>>), c>>)
        BY <2>3, FlattenThree
      <4> QED BY <3>1, <4>1, Zenon
    <3> QED BY <2>1, <3>2, <3>3, Zenon DEF ab
  <2> QED BY <1>1, <1>3, <2>2, <2>4, PlannedInThree
<1> QED BY <1>2, <1>3

(***************************************************************************)
(* Sessions of a study.                                                    *)
(***************************************************************************)

Walking == {"visit", "train", "receipt", "replay"}
StudyTyped ==
  /\ DOMAIN study = {"driver", "prepared", "nominee", "paused", "stopped", "concluded"}
  /\ study.driver \in Drivers /\ study.prepared \subseteq ToSet(Stages(study.driver))
  /\ "confirmation" \in study.prepared => study.nominee # NoneYet

SlotRow == [fits : Nat, export : {Unexported, Bad} \cup Scores, receipt : BOOLEAN,
            replayed : BOOLEAN]
SlotsTyped == slots \in [DOMAIN Plan -> SlotRow]

SessionTyped ==
  session \in [pc : Walking \cup {"idle", "orphan"}, path : SUBSET DOMAIN Plan,
               target : {0} \cup DOMAIN Plan, launched : BOOLEAN, limited : BOOLEAN,
               gated : BOOLEAN, stage : {NoneYet} \cup StageNames]

\* A receipt or a replay is of a complete export.
ReceiptsAreEarned ==
  \A i \in DOMAIN Plan : slots[i].receipt \/ slots[i].replayed => Finished(i)

\* What a fit of a slot finds before it.
Ready(i) ==
  \A j \in 1 .. (i - 1) :
    IsDeclared(j) => Finished(j) /\ (Plan[j].campaign # Plan[i].campaign => Verified(j))
FitsWereReady ==
  \A i \in DOMAIN Plan : slots[i].fits > 0 =>
    /\ Ready(i)
    /\ Plan[i].stage = "confirmation" => study.nominee # NoneYet

\* A session was let in by the gates before the stage it walks through.
GatesWereOpen ==
  session.pc \in Walking =>
    /\ session.gated => Whole("qualification")
    /\ IF study.driver \in {"baseline", "topograph"}
         THEN /\ session.stage \in study.prepared
              /\ \A s \in StagesBefore(session.stage) : Whole(s)
         ELSE \/ session.stage = NoneYet
              \/ study.driver = "primordia" /\ session.stage \in {"qualification", "main"}

\* It has passed the slots that are no longer ahead of it.
PassedSlots == Visits(session.stage) \ session.path
AtFront(h) == h \in session.path /\ \A k \in session.path : h <= k
PassedAreDone ==
  session.pc \in Walking =>
    /\ session.path \subseteq Visits(session.stage)
    /\ \A j \in PassedSlots, h \in session.path :
         /\ j < h /\ Finished(j)
         /\ AtFront(h) /\ (study.driver # "baseline" \/ Plan[j].campaign # Plan[h].campaign)
              => Verified(j)

\* What it is at.
TargetIsReady ==
  \A t \in {0} \cup DOMAIN Plan : session.target = t =>
    /\ session.pc \in {"train", "receipt", "replay", "orphan"} => t \in DOMAIN Plan
    /\ session.pc \in {"train", "orphan"} =>
         Ready(t) /\ (Plan[t].stage = "confirmation" => study.nominee # NoneYet)
    /\ session.pc \in {"receipt", "replay"} => Finished(t)
    /\ session.pc \in {"train", "receipt", "replay"} /\ study.driver # "baseline"
         => AtFront(t)

StudyInv ==
  /\ StudyTyped /\ SlotsTyped /\ SessionTyped /\ ReceiptsAreEarned /\ FitsWereReady
  /\ GatesWereOpen /\ PassedAreDone /\ TargetIsReady

LEMMA PlanIsPlanned ==
    ASSUME StudyTyped
    PROVE  /\ IsPlanned(study.driver, Plan) /\ Plan = Schedule[study.driver]
           /\ Len(Plan) \in Nat /\ DOMAIN Plan = 1 .. Len(Plan)
<1>1. Plan = Schedule[study.driver] /\ IsPlanned(study.driver, Plan)
  BY PlansAreKept DEF StudyTyped, Plan
<1>2. Plan \in Seq(UNION {SlotsOf(stage) : stage \in StageNames})
  BY <1>1 DEF IsPlanned
<1> HIDE DEF Plan
<1> QED BY <1>1, <1>2

\* Slots of a campaign are of a stage, and of an arm in a confirmation.
LEMMA CampaignsAreOfAStage ==
    ASSUME StudyTyped, NEW i \in DOMAIN Plan, NEW j \in DOMAIN Plan,
           Plan[i].campaign = Plan[j].campaign
    PROVE  /\ Plan[i].stage = Plan[j].stage
           /\ IsDeclared(i) <=> IsDeclared(j)
<1>1. IsPlanned(study.driver, Plan) /\ DOMAIN Plan = 1 .. Len(Plan)
  BY PlanIsPlanned
<1>2. Plan[i] \in SlotsOf(Plan[i].stage) /\ Plan[j] \in SlotsOf(Plan[j].stage)
  BY <1>1 DEF IsPlanned
<1>3. Plan[i].campaign[1] = Plan[i].stage /\ Plan[j].campaign[1] = Plan[j].stage
  BY <1>2 DEF SlotsOf, CampaignsOf
<1>4. Plan[i].stage = "confirmation" => Plan[i].arm = Plan[j].arm
  <2>1. SUFFICES ASSUME Plan[i].stage = "confirmation" PROVE Plan[i].arm = Plan[j].arm
    OBVIOUS
  <2>2. study.driver = "topograph"
    BY <1>1, <2>1 DEF IsPlanned
  <2>3. /\ Plan[i].campaign = <<Plan[i].stage, 1, Plan[i].arm>>
        /\ Plan[j].campaign = <<Plan[j].stage, 1, Plan[j].arm>>
    BY <1>1, <2>2 DEF IsPlanned
  <2>4. Plan[i].campaign[3] = Plan[i].arm /\ Plan[j].campaign[3] = Plan[j].arm
    <3>1. \A c, s, a : c = <<s, 1, a>> => c[3] = a
      OBVIOUS
    <3> QED BY <2>3, <3>1, Zenon
  <2>5. Plan[i].campaign[3] = Plan[j].campaign[3]
    OBVIOUS
  <2> QED BY <2>4, <2>5, Zenon
<1> QED BY <1>3, <1>4 DEF IsDeclared

LEMMA DeclaredWithoutConfirmation ==
    ASSUME NEW j \in DOMAIN Plan, Plan[j].stage # "confirmation"
    PROVE  IsDeclared(j) /\ j \in Declared(Plan[j].stage)
BY DEF IsDeclared, Declared, In

LEMMA WholeMeans ==
    ASSUME NEW s \in StageNames, s # "confirmation", Whole(s)
    PROVE  \A j \in DOMAIN Plan : Plan[j].stage = s => Verified(j)
BY DEF Whole, Declared, In, IsDeclared

LEMMA LeastIsFirst ==
    ASSUME NEW I, I \subseteq Nat, I # {}
    PROVE  Least(I) \in I /\ \A j \in I : Least(I) <= j
BY LeastExists DEF Least

LEMMA HereIsTheFront ==
    ASSUME StudyTyped, SessionTyped, session.path # {}
    PROVE  AtFront(Here) /\ Here \in DOMAIN Plan
<1>1. session.path \subseteq DOMAIN Plan /\ DOMAIN Plan \subseteq Nat
  BY PlanIsPlanned DEF SessionTyped
<1> QED BY <1>1, LeastIsFirst DEF Here, AtFront

LEMMA StudyBegins == ASSUME StudyInit PROVE StudyInv
<1>1. PICK d \in Drivers :
        /\ study = [driver |-> d, prepared |-> {}, nominee |-> NoneYet,
                    paused |-> FALSE, stopped |-> FALSE, concluded |-> FALSE]
        /\ slots = [i \in DOMAIN Schedule[d] |-> Unbegun]
        /\ session = Quiet
  BY DEF StudyInit
<1>2. StudyTyped /\ Plan = Schedule[d]
  BY <1>1 DEF StudyTyped, Plan
<1>3. SlotsTyped /\ \A i \in DOMAIN Plan : slots[i] = Unbegun
  BY <1>1, <1>2 DEF SlotsTyped, SlotRow, Unbegun
<1>4. SessionTyped
  BY <1>1 DEF SessionTyped, Quiet
<1>5. ReceiptsAreEarned /\ FitsWereReady
  BY <1>3 DEF ReceiptsAreEarned, FitsWereReady, Unbegun
<1>6. GatesWereOpen /\ PassedAreDone /\ TargetIsReady
  BY <1>1 DEF GatesWereOpen, PassedAreDone, TargetIsReady, Quiet, Walking
<1> QED BY <1>2, <1>3, <1>4, <1>5, <1>6 DEF StudyInv

SameStudy ==
  /\ DOMAIN study' = DOMAIN study /\ study'.driver = study.driver
  /\ study'.nominee = study.nominee /\ study'.prepared = study.prepared
SlotsGrow ==
  /\ slots' \in [DOMAIN Plan -> SlotRow]
  /\ \A i \in DOMAIN Plan :
       /\ slots[i].export \notin {Unexported, Bad} => slots'[i].export \notin {Unexported, Bad}
       /\ slots[i].replayed => slots'[i].replayed

LEMMA SlotsAreNotLost ==
    ASSUME StudyInv, SameStudy, SlotsGrow
    PROVE  /\ Plan' = Plan /\ StudyTyped' /\ SlotsTyped'
           /\ \A i \in DOMAIN Plan : /\ Finished(i) => Finished(i)'
                                     /\ Verified(i) => Verified(i)'
                                     /\ Ready(i) => Ready(i)'
           /\ \A s : (Visits(s))' = Visits(s) /\ (Whole(s) => (Whole(s))')
<1>1. Plan' = Plan
  BY DEF SameStudy, Plan
<1>2. StudyTyped'
  BY DEF StudyInv, StudyTyped, SameStudy
<1>3. SlotsTyped'
  BY <1>1 DEF SlotsTyped, SlotsGrow
<1>4. \A i \in DOMAIN Plan : /\ Finished(i) => Finished(i)'
                             /\ Verified(i) => Verified(i)'
                             /\ IsDeclared(i)' <=> IsDeclared(i)
  BY <1>1 DEF SlotsGrow, SameStudy, Finished, Verified, Replayable, IsDeclared
<1>5. DOMAIN Plan = 1 .. Len(Plan) /\ Len(Plan) \in Nat
  BY PlanIsPlanned DEF StudyInv
<1>6. ASSUME NEW i \in DOMAIN Plan, Ready(i) PROVE Ready(i)'
  <2>1. \A j \in 1 .. (i - 1) : j \in DOMAIN Plan
    BY <1>5
  <2> QED BY <1>1, <1>4, <1>6, <2>1 DEF Ready
<1>7. ASSUME NEW s PROVE (Declared(s))' = Declared(s)
  BY <1>1, <1>4 DEF Declared, In
<1>8. ASSUME NEW s PROVE (Visits(s))' = Visits(s)
  BY <1>1, <1>7 DEF Visits
<1>9. ASSUME NEW s, Whole(s) PROVE (Whole(s))'
  <2>1. Declared(s) \subseteq DOMAIN Plan
    BY DEF Declared, In
  <2> QED BY <1>4, <1>7, <1>9, <2>1 DEF Whole
<1> QED BY <1>1, <1>2, <1>3, <1>4, <1>6, <1>8, <1>9

LEMMA SlotsRest ==
    ASSUME StudyInv, SameStudy, slots' = slots
    PROVE  SlotsGrow /\ ReceiptsAreEarned' /\ FitsWereReady'
<1>1. SlotsGrow
  BY DEF SlotsGrow, StudyInv, SlotsTyped
<1>2. /\ Plan' = Plan
      /\ \A i \in DOMAIN Plan : (Finished(i) => Finished(i)') /\ (Ready(i) => Ready(i)')
  BY <1>1, SlotsAreNotLost
<1>3. ReceiptsAreEarned'
  BY <1>2 DEF StudyInv, ReceiptsAreEarned
<1>4. FitsWereReady'
  BY <1>2 DEF StudyInv, FitsWereReady, SameStudy
<1> QED BY <1>1, <1>3, <1>4

LEMMA SessionIsOver ==
    ASSUME StudyInv, SameStudy, SlotsGrow, ReceiptsAreEarned', FitsWereReady',
           session' = Quiet
    PROVE  StudyInv'
<1>1. Plan' = Plan /\ StudyTyped' /\ SlotsTyped'
  BY SlotsAreNotLost
<1>2. SessionTyped'
  BY <1>1 DEF SessionTyped, Quiet
<1>3. GatesWereOpen' /\ PassedAreDone' /\ TargetIsReady'
  BY DEF GatesWereOpen, PassedAreDone, TargetIsReady, Quiet, Walking
<1> QED BY <1>1, <1>2, <1>3 DEF StudyInv

LEMMA WalkRests ==
    ASSUME StudyInv, SameStudy, SlotsGrow, session.pc \in Walking,
           session'.path = session.path, session'.stage = session.stage,
           session'.gated => session.gated \/ Whole("qualification")
    PROVE  GatesWereOpen' /\ PassedAreDone'
<1>1. /\ Plan' = Plan
      /\ \A i \in DOMAIN Plan : /\ Finished(i) => Finished(i)'
                                /\ Verified(i) => Verified(i)'
      /\ \A s : (Visits(s))' = Visits(s) /\ (Whole(s) => (Whole(s))')
  BY SlotsAreNotLost
<1>2. /\ session.gated => Whole("qualification")
      /\ IF study.driver \in {"baseline", "topograph"}
           THEN /\ session.stage \in study.prepared
                /\ \A s \in StagesBefore(session.stage) : Whole(s)
           ELSE \/ session.stage = NoneYet
                \/ /\ study.driver = "primordia"
                   /\ session.stage \in {"qualification", "main"}
  BY DEF StudyInv, GatesWereOpen
<1>3. /\ session'.gated => (Whole("qualification"))'
      /\ IF study'.driver \in {"baseline", "topograph"}
           THEN /\ session'.stage \in study'.prepared
                /\ \A s \in StagesBefore(session'.stage) : (Whole(s))'
           ELSE \/ session'.stage = NoneYet
                \/ /\ study'.driver = "primordia"
                   /\ session'.stage \in {"qualification", "main"}
  BY <1>1, <1>2 DEF SameStudy
<1>4. GatesWereOpen'
  BY <1>3 DEF GatesWereOpen
<1>5. (Visits(session.stage))' = Visits(session.stage)
  BY <1>1 DEF Visits, Declared, In, IsDeclared, SameStudy
<1>6. PassedSlots' = PassedSlots /\ PassedSlots \subseteq DOMAIN Plan
  BY <1>5 DEF PassedSlots, Visits, Declared, In
<1>7. \A h : (AtFront(h))' <=> AtFront(h)
  BY DEF AtFront
<1>8. PassedAreDone'
  BY <1>1, <1>5, <1>6, <1>7 DEF StudyInv, PassedAreDone, SameStudy, SessionTyped
<1> QED BY <1>4, <1>8

LEMMA TargetRests ==
    ASSUME StudyInv, SameStudy, SlotsGrow, session' = session
    PROVE  TargetIsReady'
<1>1. /\ Plan' = Plan
      /\ \A i \in DOMAIN Plan : (Finished(i) => Finished(i)') /\ (Ready(i) => Ready(i)')
  BY SlotsAreNotLost
<1>2. \A h : (AtFront(h))' <=> AtFront(h)
  BY DEF AtFront
<1>3. ASSUME NEW t \in {0} \cup DOMAIN Plan, session.target = t
      PROVE  /\ session.pc \in {"train", "receipt", "replay", "orphan"} => t \in DOMAIN Plan
             /\ session.pc \in {"train", "orphan"} =>
                  Ready(t)' /\ (Plan[t].stage = "confirmation" => study'.nominee # NoneYet)
             /\ session.pc \in {"receipt", "replay"} => Finished(t)'
             /\ session.pc \in {"train", "receipt", "replay"} /\ study.driver # "baseline"
                  => AtFront(t)
  BY <1>1, <1>3 DEF StudyInv, TargetIsReady, SameStudy
<1> QED BY <1>1, <1>2, <1>3 DEF TargetIsReady, SameStudy

\* A session that goes on after its books have changed.
LEMMA StudyGoesOn ==
    ASSUME StudyInv, SameStudy, SlotsGrow, ReceiptsAreEarned', FitsWereReady',
           session' = session
    PROVE  StudyInv'
<1>1. Plan' = Plan /\ StudyTyped' /\ SlotsTyped'
  BY SlotsAreNotLost
<1>2. SessionTyped'
  BY <1>1 DEF StudyInv, SessionTyped
<1>3. TargetIsReady'
  BY TargetRests
<1>4. GatesWereOpen' /\ PassedAreDone'
  <2>1. CASE session.pc \in Walking
    BY <2>1, WalkRests
  <2>2. CASE session.pc \notin Walking
    BY <2>2 DEF GatesWereOpen, PassedAreDone
  <2> QED BY <2>1, <2>2
<1> QED BY <1>1, <1>2, <1>3, <1>4 DEF StudyInv

LEMMA StudyIsPlanned ==
    ASSUME StudyInv, session.pc = "idle", slots' = slots, session' = session,
           study'.driver = study.driver, StudyTyped',
           study'.nominee = study.nominee \/ study.nominee = NoneYet
    PROVE  StudyInv'
<1>1. Plan' = Plan /\ SlotsTyped' /\ SessionTyped'
  BY DEF Plan, StudyInv, SlotsTyped, SessionTyped
<1>2. \A i \in DOMAIN Plan : Finished(i)' = Finished(i) /\ Verified(i)' = Verified(i)
  BY <1>1 DEF Finished, Verified, Replayable
<1>3. ReceiptsAreEarned'
  BY <1>1, <1>2 DEF StudyInv, ReceiptsAreEarned
<1>4. GatesWereOpen' /\ PassedAreDone' /\ TargetIsReady'
  BY DEF GatesWereOpen, PassedAreDone, TargetIsReady, Walking
<1>5. FitsWereReady'
  <2>1. SUFFICES ASSUME NEW i \in DOMAIN Plan, slots[i].fits > 0
                 PROVE  /\ Ready(i)'
                        /\ Plan[i].stage = "confirmation" => study'.nominee # NoneYet
    BY <1>1 DEF FitsWereReady
  <2>2. Ready(i) /\ (Plan[i].stage = "confirmation" => study.nominee # NoneYet)
    BY <2>1 DEF StudyInv, FitsWereReady
  <2>3. IsPlanned(study.driver, Plan) /\ DOMAIN Plan = 1 .. Len(Plan) /\ Len(Plan) \in Nat
    BY PlanIsPlanned DEF StudyInv
  <2>4. ASSUME NEW j \in 1 .. (i - 1) PROVE j \in DOMAIN Plan /\ (IsDeclared(j)' => IsDeclared(j))
    <3>1. j \in DOMAIN Plan /\ i \in 1 .. Len(Plan) /\ j \in 1 .. Len(Plan) /\ j < i
      BY <2>3
    <3>2. CASE study'.nominee = study.nominee
      BY <1>1, <3>1, <3>2 DEF IsDeclared
    <3>3. CASE study.nominee = NoneYet
      <4>1. Plan[i].stage # "confirmation"
        BY <2>2, <3>3
      <4>2. Plan[j].stage \in StagesBefore(Plan[i].stage) \cup {Plan[i].stage}
        BY <2>3, <3>1 DEF IsPlanned
      <4>3. Plan[j].stage # "confirmation"
        BY <4>1, <4>2 DEF StagesBefore
      <4> QED BY <3>1, <4>3 DEF IsDeclared
    <3> QED BY <3>2, <3>3
  <2>5. Ready(i)'
    BY <1>1, <1>2, <2>2, <2>4 DEF Ready
  <2> QED BY <2>2, <2>5
<1> QED BY <1>1, <1>3, <1>4, <1>5 DEF StudyInv

LEMMA StudyIsPrepared ==
    ASSUME StudyInv,
           \/ PrepareTopograph \/ PrepareBoth \/ PrepareConfirmation
           \/ \E stage \in ToSet(Stages(study.driver)) : PrepareBaseline(stage)
    PROVE  StudyInv'
<1>1. /\ session.pc = "idle" /\ slots' = slots /\ session' = session
      /\ study'.driver = study.driver /\ study'.nominee = study.nominee
      /\ DOMAIN study' = DOMAIN study
  BY DEF PrepareTopograph, PrepareBoth, PrepareConfirmation, PrepareBaseline, StudyInv,
         StudyTyped
<1>2. /\ study'.prepared \subseteq ToSet(Stages(study.driver))
      /\ "confirmation" \in study'.prepared => study.nominee # NoneYet
  <2>0. /\ DOMAIN study = {"driver", "prepared", "nominee", "paused", "stopped", "concluded"}
        /\ study.prepared \subseteq ToSet(Stages(study.driver))
        /\ "confirmation" \in study.prepared => study.nominee # NoneYet
    BY DEF StudyInv, StudyTyped
  <2>1. CASE PrepareTopograph
    <3>1. study'.prepared = {"qualification", "screening"} /\ study.driver = "topograph"
      BY <2>0, <2>1 DEF PrepareTopograph
    <3>2. ToSet(Stages(study.driver)) = {"qualification", "screening", "confirmation"}
      BY <3>1 DEF Stages, ToSet
    <3> QED BY <3>1, <3>2
  <2>2. CASE PrepareBoth
    <3>1. /\ study'.prepared = ToSet(Stages(study.driver))
          /\ study.driver # "topograph"
      BY <2>0, <2>2 DEF PrepareBoth
    <3>2. ToSet(Stages(study.driver)) = {"qualification", "main"}
      BY <3>1 DEF Stages, ToSet
    <3> QED BY <3>1, <3>2
  <2>3. CASE PrepareConfirmation
    <3>1. /\ study'.prepared = study.prepared \cup {"confirmation"}
          /\ study.driver = "topograph" /\ study.nominee # NoneYet
      BY <2>0, <2>3 DEF PrepareConfirmation, Nominated
    <3>2. ToSet(Stages(study.driver)) = {"qualification", "screening", "confirmation"}
      BY <3>1 DEF Stages, ToSet
    <3> QED BY <2>0, <3>1, <3>2
  <2>4. CASE \E stage \in ToSet(Stages(study.driver)) : PrepareBaseline(stage)
    <3>1. PICK stage \in ToSet(Stages(study.driver)) : PrepareBaseline(stage)
      BY <2>4
    <3>2. /\ study'.prepared = study.prepared \cup {stage} /\ stage # "confirmation"
      BY <2>0, <3>1 DEF PrepareBaseline
    <3> QED BY <2>0, <3>2
  <2> QED BY <2>1, <2>2, <2>3, <2>4
<1>3. StudyTyped'
  BY <1>1, <1>2 DEF StudyInv, StudyTyped
<1> QED BY <1>1, <1>3, StudyIsPlanned

LEMMA StudyIsNominated == ASSUME StudyInv, Nominate PROVE StudyInv'
<1>1. /\ session.pc = "idle" /\ slots' = slots /\ session' = session
      /\ study'.driver = study.driver /\ study.nominee = NoneYet
      /\ study'.prepared = study.prepared /\ DOMAIN study' = DOMAIN study
  BY DEF Nominate, StudyInv, StudyTyped
<1>2. StudyTyped'
  BY <1>1 DEF StudyInv, StudyTyped
<1> QED BY <1>1, <1>2, StudyIsPlanned

LEMMA StudyKeepsItsPlan ==
    ASSUME StudyInv,
           \/ study' = study
           \/ \E b \in {"paused", "stopped", "concluded"} : \E v :
                study' = [study EXCEPT ![b] = v]
    PROVE  SameStudy
BY DEF SameStudy, StudyInv, StudyTyped

LEMMA SessionBegins ==
    ASSUME StudyInv, NEW stage \in {NoneYet} \cup ToSet(Stages(study.driver)), Begin(stage)
    PROVE  StudyInv'
<1>1. PICK limited \in BOOLEAN :
        session' = [Quiet EXCEPT !.pc = "visit", !.path = Visits(stage),
                                 !.limited = limited, !.stage = stage]
  BY DEF Begin
<1>2. SameStudy /\ SlotsGrow /\ ReceiptsAreEarned' /\ FitsWereReady'
  BY StudyKeepsItsPlan, SlotsRest DEF Begin
<1>3. /\ Plan' = Plan /\ StudyTyped' /\ SlotsTyped'
      /\ \A s : (Visits(s))' = Visits(s) /\ (Whole(s) => (Whole(s))')
  BY <1>2, SlotsAreNotLost
<1>4. ToSet(Stages(study.driver)) \subseteq StageNames
  BY DEF Stages, ToSet, StageNames
<1>5. /\ session'.pc = "visit" /\ session'.path = Visits(stage) /\ session'.stage = stage
      /\ session'.gated = FALSE /\ session'.target = 0 /\ session'.limited = limited
      /\ session'.launched = FALSE
      /\ session' = [pc |-> "visit", path |-> Visits(stage), target |-> 0,
                     launched |-> FALSE, limited |-> limited, gated |-> FALSE,
                     stage |-> stage]
  BY <1>1 DEF Quiet
<1>6. Visits(stage) \subseteq DOMAIN Plan
  BY DEF Visits, Declared, In
<1>7. SessionTyped'
  BY <1>3, <1>4, <1>5, <1>6 DEF SessionTyped, Walking
<1>8. IF study.driver \in {"baseline", "topograph"}
        THEN stage \in study.prepared /\ \A s \in StagesBefore(stage) : Whole(s)
        ELSE \/ stage = NoneYet
             \/ study.driver = "primordia" /\ stage \in {"qualification", "main"}
  <2>0. study.prepared \subseteq ToSet(Stages(study.driver))
    BY DEF StudyInv, StudyTyped
  <2>1. CASE study.driver = "baseline"
    <3>1. stage \in {"qualification", "main"} /\ stage \in study.prepared
      BY <2>0, <2>1 DEF Begin, Stages, ToSet
    <3>2. stage = "main" => Whole("qualification")
      BY <2>1 DEF Begin, Admitted
    <3> QED BY <2>1, <3>1, <3>2 DEF StagesBefore
  <2>2. CASE study.driver = "topograph"
    <3>1. /\ stage \in {"qualification", "screening", "confirmation"}
          /\ stage \in study.prepared
      BY <2>0, <2>2 DEF Begin, Stages, ToSet
    <3>2. \A s \in Before(stage) : Whole(s)
      BY <2>2 DEF Begin, Admitted
    <3> QED BY <2>2, <3>1, <3>2 DEF StagesBefore, Before
  <2>3. CASE study.driver \notin {"baseline", "topograph"}
    <3>1. stage = NoneYet \/ (study.driver = "primordia" /\ stage \in study.prepared)
      BY <2>3 DEF Begin
    <3>2. stage \in study.prepared => stage \in {"qualification", "main"}
      BY <2>0, <2>3 DEF Stages, ToSet
    <3> QED BY <2>3, <3>1, <3>2
  <2> QED BY <2>1, <2>2, <2>3
<1>9. GatesWereOpen'
  BY <1>2, <1>3, <1>5, <1>8 DEF GatesWereOpen, SameStudy
<1>10. (Visits(session.stage))' = Visits(stage)
  BY <1>2, <1>3, <1>5 DEF Visits, Declared, In, IsDeclared, SameStudy
<1>11. PassedAreDone'
  BY <1>5, <1>10 DEF PassedAreDone, PassedSlots
<1>12. TargetIsReady'
  BY <1>5 DEF TargetIsReady
<1> QED BY <1>2, <1>3, <1>7, <1>9, <1>11, <1>12 DEF StudyInv

LEMMA SessionTurns ==
    ASSUME StudyInv, SameStudy, SlotsGrow, ReceiptsAreEarned', FitsWereReady',
           session.pc \in Walking, SessionTyped',
           session'.path = session.path, session'.stage = session.stage,
           session'.gated => session.gated \/ Whole("qualification"),
           TargetIsReady'
    PROVE  StudyInv'
<1>1. StudyTyped' /\ SlotsTyped'
  BY SlotsAreNotLost
<1>2. GatesWereOpen' /\ PassedAreDone'
  BY WalkRests
<1> QED BY <1>1, <1>2 DEF StudyInv

LEMMA GateIsPassed == ASSUME StudyInv, Gate PROVE StudyInv'
<1>1. SameStudy /\ SlotsGrow /\ ReceiptsAreEarned' /\ FitsWereReady' /\ Plan' = Plan
  BY StudyKeepsItsPlan, SlotsRest, SlotsAreNotLost DEF Gate
<1>2. CASE session' = Quiet
  BY <1>1, <1>2, SessionIsOver
<1>3. CASE Whole("qualification") /\ session' = [session EXCEPT !.gated = TRUE]
  <2>1. session.pc = "visit"
    BY DEF Gate, Visiting
  <2>2. /\ SessionTyped' /\ session'.path = session.path
        /\ session'.stage = session.stage /\ session'.pc = "visit"
    BY <1>1, <1>3, <2>1 DEF StudyInv, SessionTyped
  <2>3. TargetIsReady'
    BY <2>2 DEF TargetIsReady
  <2> QED BY <1>1, <1>3, <2>1, <2>2, <2>3, SessionTurns DEF Walking
<1> QED BY <1>2, <1>3 DEF Gate, Ends

LEMMA TheFrontIsOne ==
    ASSUME SessionTyped, StudyTyped, NEW g, NEW h, AtFront(g), AtFront(h)
    PROVE  g = h
<1>1. session.path \subseteq DOMAIN Plan /\ DOMAIN Plan \subseteq Int
  BY PlanIsPlanned DEF SessionTyped
<1>2. g \in Int /\ h \in Int /\ g <= h /\ h <= g
  BY <1>1 DEF AtFront
<1> QED BY <1>2

\* Slots of the stage a session walks through that are before Here were passed.
LEMMA EarlierArePassed ==
    ASSUME StudyInv, session.pc \in Walking, session.path # {},
           NEW j \in Visits(session.stage), j < Here
    PROVE  /\ j \in PassedSlots /\ Finished(j)
           /\ study.driver # "baseline" \/ Plan[j].campaign # Plan[Here].campaign
                => Verified(j)
<1>1. AtFront(Here) /\ Here \in DOMAIN Plan
  BY HereIsTheFront DEF StudyInv
<1>2. Visits(session.stage) \subseteq DOMAIN Plan /\ DOMAIN Plan \subseteq Int
  BY PlanIsPlanned DEF Visits, Declared, In, StudyInv
<1>3. j \in Int /\ Here \in Int
  BY <1>1, <1>2
<1>4. j \notin session.path
  <2>1. ASSUME j \in session.path PROVE FALSE
    <3>1. Here <= j
      BY <1>1, <2>1 DEF AtFront
    <3> QED BY <1>3, <3>1
  <2> QED BY <2>1
<1>5. j \in PassedSlots
  BY <1>4 DEF PassedSlots
<1> QED BY <1>1, <1>5 DEF StudyInv, PassedAreDone, AtFront

\* The slot a session comes to may train.
LEMMA HereIsReady ==
    ASSUME StudyInv, session.pc \in Walking, session.path # {}, ~AtGate
    PROVE  /\ Ready(Here) /\ Here \in DOMAIN Plan /\ AtFront(Here)
           /\ IsDeclared(Here)
           /\ Plan[Here].stage = "confirmation" => study.nominee # NoneYet
           /\ \A j \in 1 .. (Here - 1) : IsDeclared(j) =>
                Finished(j) /\ (study.driver # "baseline" => Verified(j))
<1> DEFINE s == session.stage
<1>1. AtFront(Here) /\ Here \in DOMAIN Plan
  BY HereIsTheFront DEF StudyInv
<1>2. Here \in Visits(s)
  BY <1>1 DEF StudyInv, PassedAreDone, AtFront
<1>3. IsPlanned(study.driver, Plan) /\ DOMAIN Plan = 1 .. Len(Plan) /\ Len(Plan) \in Nat
  BY PlanIsPlanned DEF StudyInv
<1>4. IF study.driver \in {"baseline", "topograph"}
        THEN /\ s \in study.prepared
             /\ \A b \in StagesBefore(s) : Whole(b)
        ELSE \/ s = NoneYet
             \/ study.driver = "primordia" /\ s \in {"qualification", "main"}
  BY DEF StudyInv, GatesWereOpen
<1>5. /\ study.prepared \subseteq ToSet(Stages(study.driver))
      /\ "confirmation" \in study.prepared => study.nominee # NoneYet
  BY DEF StudyInv, StudyTyped
<1>6. study.driver \in {"baseline", "topograph"} => s \in StageNames /\ s # NoneYet
  BY <1>4, <1>5 DEF Stages, ToSet, StageNames, NoneYet
<1>7. s # NoneYet => Plan[Here].stage = s /\ IsDeclared(Here)
  BY <1>2 DEF Visits, Declared, In
<1>8. s = NoneYet => Plan[Here].stage \in {"qualification", "main"} /\ IsDeclared(Here)
  <2>1. SUFFICES ASSUME s = NoneYet
                 PROVE  Plan[Here].stage \in {"qualification", "main"} /\ IsDeclared(Here)
    OBVIOUS
  <2>2. study.driver # "topograph"
    BY <1>6, <2>1
  <2>3. Plan[Here].stage \in {"qualification", "main"}
    BY <1>1, <1>3, <2>2 DEF IsPlanned
  <2> QED BY <2>3 DEF IsDeclared
<1>9. Plan[Here].stage = "confirmation" => study.nominee # NoneYet
  <2>1. SUFFICES ASSUME Plan[Here].stage = "confirmation" PROVE study.nominee # NoneYet
    OBVIOUS
  <2>2. s = "confirmation"
    BY <1>7, <1>8, <2>1
  <2>3. study.driver \in {"baseline", "topograph"}
    BY <1>4, <2>2 DEF NoneYet
  <2> QED BY <1>4, <1>5, <2>2, <2>3
<1>10. ASSUME NEW j \in 1 .. (Here - 1), IsDeclared(j)
       PROVE  /\ Finished(j)
              /\ study.driver # "baseline" \/ Plan[j].campaign # Plan[Here].campaign
                   => Verified(j)
  <2>1. j \in DOMAIN Plan /\ j < Here
    BY <1>1, <1>3
  <2>2. CASE j \in Visits(s)
    BY <2>1, <2>2, EarlierArePassed
  <2>3. CASE j \notin Visits(s)
    <3>1. s # NoneYet /\ Plan[j].stage # s
      BY <1>10, <2>1, <2>3 DEF Visits, Declared, In
    <3>2. Plan[j].stage \in StagesBefore(s)
      <4>1. j \in 1 .. Len(Plan) /\ Here \in 1 .. Len(Plan)
        BY <1>1, <1>3, <2>1
      <4> QED BY <1>3, <1>7, <2>1, <3>1, <4>1 DEF IsPlanned
    <3>3. Whole(Plan[j].stage)
      <4>1. CASE study.driver \in {"baseline", "topograph"}
        BY <1>4, <3>2, <4>1
      <4>2. CASE study.driver \notin {"baseline", "topograph"}
        <5>1. study.driver = "primordia" /\ s \in {"qualification", "main"}
          BY <1>4, <3>1, <4>2
        <5>2. s = "main" /\ Plan[j].stage = "qualification"
          BY <3>2, <5>1 DEF StagesBefore
        <5>3. session.gated
          BY <1>7, <3>1, <5>1, <5>2 DEF AtGate
        <5> QED BY <5>2, <5>3 DEF StudyInv, GatesWereOpen
      <4> QED BY <4>1, <4>2
    <3>4. j \in Declared(Plan[j].stage)
      BY <1>10, <2>1 DEF Declared, In
    <3>5. Verified(j)
      BY <3>3, <3>4 DEF Whole
    <3> QED BY <3>5 DEF Verified
  <2> QED BY <2>2, <2>3
<1>11. Ready(Here)
  BY <1>10 DEF Ready
<1> QED BY <1>1, <1>7, <1>8, <1>9, <1>10, <1>11

\* What is left of a campaign of the baseline study is ahead.
LEMMA PostponedIsAhead ==
    ASSUME StudyInv, session.pc \in Walking, session.path # {},
           study.driver = "baseline", Finished(Here),
           NEW m \in OfCampaign(Here), ~Finished(m)
    PROVE  m \in session.path /\ Here < m
<1>1. AtFront(Here) /\ Here \in DOMAIN Plan
  BY HereIsTheFront DEF StudyInv
<1>2. Here \in Visits(session.stage)
  BY <1>1 DEF StudyInv, PassedAreDone, AtFront
<1>3. session.stage \in {"qualification", "main"}
  BY DEF StudyInv, GatesWereOpen, StudyTyped, Stages, ToSet
<1>4. m \in DOMAIN Plan /\ Plan[m].campaign = Plan[Here].campaign
  BY DEF OfCampaign
<1>5. m \in Visits(session.stage)
  <2>1. Here \in Declared(session.stage)
    BY <1>2, <1>3 DEF Visits, NoneYet
  <2>2. Plan[m].stage = Plan[Here].stage /\ IsDeclared(m)
    BY <1>1, <1>4, <2>1, CampaignsAreOfAStage DEF StudyInv, Declared
  <2>3. m \in Declared(session.stage)
    BY <1>4, <2>1, <2>2 DEF Declared, In
  <2> QED BY <1>3, <2>3 DEF Visits, NoneYet
<1>6. m \in Int /\ Here \in Int /\ m # Here
  BY <1>1, <1>4, PlanIsPlanned DEF StudyInv
<1>7. ~(m < Here)
  BY <1>5, EarlierArePassed
<1>8. m \in session.path
  <2>1. ASSUME m \notin session.path PROVE FALSE
    <3>1. m \in PassedSlots
      BY <1>5, <2>1 DEF PassedSlots
    <3> QED BY <1>1, <3>1 DEF StudyInv, PassedAreDone, AtFront
  <2> QED BY <2>1
<1> QED BY <1>6, <1>7, <1>8

\* A session that leaves Here behind it.
LEMMA WalkMovesOn ==
    ASSUME StudyInv, SameStudy, SlotsGrow, session.pc \in Walking, session.path # {},
           NEW here, here = Here,
           session'.path = session.path \ {here}, session'.stage = session.stage,
           session'.gated = session.gated,
           Finished(here)',
           study.driver # "baseline" => Verified(here)',
           study.driver = "baseline" =>
             \/ \A j \in OfCampaign(here) : Verified(j)
             \/ Finished(here) /\ \E m \in OfCampaign(here) : ~Finished(m)
    PROVE  GatesWereOpen' /\ PassedAreDone'
<1>1. /\ Plan' = Plan
      /\ \A i \in DOMAIN Plan : /\ Finished(i) => Finished(i)'
                                /\ Verified(i) => Verified(i)'
      /\ \A s : (Visits(s))' = Visits(s) /\ (Whole(s) => (Whole(s))')
  BY SlotsAreNotLost
<1>2. AtFront(here) /\ here \in DOMAIN Plan /\ here \in session.path
  BY HereIsTheFront DEF StudyInv, AtFront
<1>3. GatesWereOpen'
  BY <1>1 DEF StudyInv, GatesWereOpen, SameStudy
<1>4. (Visits(session.stage))' = Visits(session.stage)
  BY <1>1 DEF Visits, Declared, In, IsDeclared, SameStudy
<1>5. /\ PassedSlots' = PassedSlots \cup {here}
      /\ session.path \subseteq Visits(session.stage)
  BY <1>2, <1>4 DEF PassedSlots, StudyInv, PassedAreDone
<1>6. PassedSlots \subseteq DOMAIN Plan /\ session.path \subseteq DOMAIN Plan
      /\ DOMAIN Plan \subseteq Int
  BY PlanIsPlanned DEF PassedSlots, Visits, Declared, In, StudyInv, SessionTyped
<1>7. Finished(here)' /\ (study.driver # "baseline" => Verified(here)')
  OBVIOUS
<1>8. \A j \in PassedSlots : /\ Finished(j)
                             /\ study.driver # "baseline" \/ Plan[j].campaign # Plan[here].campaign
                                  => Verified(j)
  BY <1>2 DEF StudyInv, PassedAreDone
<1>9. study.driver = "baseline" =>
        \/ \A j \in OfCampaign(here) : Verified(j)
        \/ \E m \in OfCampaign(here) : m \in session.path /\ here < m
  BY PostponedIsAhead
<1>10. ASSUME NEW j \in PassedSlots \cup {here}, NEW h \in session.path \ {here}
       PROVE  j < h /\ Finished(j)'
  <2>1. here <= h /\ here \in Int /\ h \in Int
    BY <1>2, <1>6 DEF AtFront
  <2>2. CASE j = here
    BY <1>7, <1>10, <2>1, <2>2
  <2>3. CASE j \in PassedSlots
    BY <1>1, <1>6, <1>8, <1>10, <2>3 DEF StudyInv, PassedAreDone
  <2> QED BY <2>2, <2>3
<1>11. ASSUME NEW j \in PassedSlots \cup {here}, NEW h \in session.path \ {here},
              \A k \in session.path \ {here} : h <= k,
              study.driver # "baseline" \/ Plan[j].campaign # Plan[h].campaign
       PROVE  Verified(j)'
  <2>1. CASE study.driver # "baseline"
    BY <1>1, <1>6, <1>7, <1>8, <2>1
  <2>2. CASE study.driver = "baseline" /\ \A k \in OfCampaign(here) : Verified(k)
    <3>1. j \in DOMAIN Plan
      BY <1>2, <1>6
    <3>2. CASE Plan[j].campaign = Plan[here].campaign
      BY <1>1, <2>2, <3>1, <3>2 DEF OfCampaign
    <3>3. CASE Plan[j].campaign # Plan[here].campaign
      BY <1>1, <1>8, <3>1, <3>3
    <3> QED BY <3>2, <3>3
  <2>3. CASE /\ study.driver = "baseline"
             /\ \E m \in OfCampaign(here) : m \in session.path /\ here < m
    <3>1. PICK m \in OfCampaign(here) : m \in session.path /\ here < m
      BY <2>3
    <3>2. /\ h <= m /\ here < h /\ h \in Int /\ m \in Int /\ here \in Int
          /\ Plan[m].campaign = Plan[here].campaign
      <4>1. here <= h /\ here # h
        BY <1>2, <1>11 DEF AtFront
      <4>2. m \in session.path \ {here} /\ m \in Int /\ h \in Int /\ here \in Int
        BY <1>2, <1>6, <3>1
      <4>3. h <= m
        BY <1>11, <4>2
      <4>4. Plan[m].campaign = Plan[here].campaign
        BY <3>1 DEF OfCampaign
      <4> QED BY <4>1, <4>2, <4>3, <4>4
    <3>3. Plan[h].campaign = Plan[here].campaign
      <4>1. CASE h = m
        BY <3>2, <4>1
      <4>2. CASE h < m
        <5>1. Contiguous(Plan) /\ DOMAIN Plan = 1 .. Len(Plan)
          BY <2>3, PlanIsPlanned DEF StudyInv, IsPlanned
        <5>2. here \in 1 .. Len(Plan) /\ h \in 1 .. Len(Plan) /\ m \in 1 .. Len(Plan)
          BY <1>2, <1>6, <3>1, <5>1
        <5> QED BY <3>2, <4>2, <5>1, <5>2 DEF Contiguous
      <4> QED BY <3>2, <4>1, <4>2
    <3>4. j \in PassedSlots /\ Plan[j].campaign # Plan[here].campaign
      BY <1>11, <2>3, <3>3
    <3> QED BY <1>1, <1>6, <1>8, <3>4
  <2> QED BY <1>9, <2>1, <2>2, <2>3
<1>12. session'.path = session.path \ {here}
  OBVIOUS
<1>13. session'.path \subseteq (Visits(session.stage))'
  BY <1>4, <1>5, <1>12
<1>14. \A h : (AtFront(h))' <=> h \in session.path \ {here}
                                /\ \A k \in session.path \ {here} : h <= k
  BY <1>12 DEF AtFront
<1>15. PassedAreDone'
  BY <1>1, <1>5, <1>10, <1>11, <1>12, <1>13, <1>14 DEF PassedAreDone, SameStudy
<1> QED BY <1>3, <1>15

LEMMA WalkGoesOn ==
    ASSUME StudyInv, SameStudy, SlotsGrow, ReceiptsAreEarned', FitsWereReady',
           session.pc \in Walking, session.path # {}, NEW here, here = Here,
           \/ session' = [session EXCEPT !.pc = "visit", !.path = @ \ {here}]
           \/ session' = [session EXCEPT !.pc = "visit", !.path = @ \ {here},
                                         !.launched = TRUE],
           Finished(here)',
           study.driver # "baseline" => Verified(here)',
           study.driver = "baseline" =>
             \/ \A j \in OfCampaign(here) : Verified(j)
             \/ Finished(here) /\ \E m \in OfCampaign(here) : ~Finished(m)
    PROVE  StudyInv'
<1>1. StudyTyped' /\ SlotsTyped' /\ Plan' = Plan
  BY SlotsAreNotLost
<1>2. /\ SessionTyped' /\ session'.pc = "visit" /\ session'.path = session.path \ {here}
      /\ session'.stage = session.stage /\ session'.gated = session.gated
  <2>1. session.path \ {here} \subseteq DOMAIN Plan
    BY DEF StudyInv, SessionTyped
  <2>2. CASE session' = [session EXCEPT !.pc = "visit", !.path = @ \ {here}]
    BY <1>1, <2>1, <2>2 DEF StudyInv, SessionTyped, Walking
  <2>3. CASE session' = [session EXCEPT !.pc = "visit", !.path = @ \ {here},
                                        !.launched = TRUE]
    BY <1>1, <2>1, <2>3 DEF StudyInv, SessionTyped, Walking
  <2> QED BY <2>2, <2>3
<1>3. GatesWereOpen' /\ PassedAreDone'
  BY <1>2, WalkMovesOn
<1>4. TargetIsReady'
  BY <1>2 DEF TargetIsReady
<1> QED BY <1>1, <1>2, <1>3, <1>4 DEF StudyInv

\* No fit is added: the fits that are there still found what they had to.
LEMMA FitsStay ==
    ASSUME StudyInv, SameStudy, SlotsGrow,
           \A i \in DOMAIN Plan : slots'[i].fits = slots[i].fits
    PROVE  FitsWereReady'
<1>1. Plan' = Plan /\ \A i \in DOMAIN Plan : Ready(i) => Ready(i)'
  BY SlotsAreNotLost
<1> QED BY <1>1 DEF StudyInv, FitsWereReady, SameStudy

LEMMA ReceiptsStay ==
    ASSUME StudyInv, SameStudy, SlotsGrow,
           \A i \in DOMAIN Plan : slots'[i].receipt \/ slots'[i].replayed =>
             slots[i].receipt \/ slots[i].replayed \/ Finished(i)
    PROVE  ReceiptsAreEarned'
<1>1. Plan' = Plan /\ \A i \in DOMAIN Plan : Finished(i) => Finished(i)'
  BY SlotsAreNotLost
<1> QED BY <1>1 DEF StudyInv, ReceiptsAreEarned

LEMMA SlotIsSkipped == ASSUME StudyInv, Skip PROVE StudyInv'
<1>0. PICK here : here = Here
  OBVIOUS
<1>1. SameStudy /\ SlotsGrow /\ ReceiptsAreEarned' /\ FitsWereReady'
  BY StudyKeepsItsPlan, SlotsRest DEF Skip
<1>2. session.pc \in Walking /\ session.path # {}
  BY DEF Skip, Visiting, Walking
<1>3. session' = [session EXCEPT !.pc = "visit", !.path = @ \ {here}]
  BY <1>0 DEF Skip, Onward
<1>4. here \in DOMAIN Plan
  BY <1>0, <1>2, HereIsTheFront DEF StudyInv
<1>5. \A i \in DOMAIN Plan : /\ Finished(i) => Finished(i)'
                             /\ Verified(i) => Verified(i)'
  BY <1>1, SlotsAreNotLost
<1>6. CASE SettledSlots(here) /\ (study.driver = "baseline" => ToReplay(here) = {})
  <2>1. Verified(here)
    <3>1. slots[here].receipt => Finished(here)
      BY <1>4 DEF StudyInv, ReceiptsAreEarned
    <3> QED BY <1>6, <3>1 DEF SettledSlots, Verified
  <2>2. study.driver = "baseline" => \A j \in OfCampaign(here) : Verified(j)
    BY <1>6 DEF ToReplay
  <2>3. Finished(here)' /\ Verified(here)'
    BY <1>4, <1>5, <2>1 DEF Verified
  <2> QED BY <1>0, <1>1, <1>2, <1>3, <2>2, <2>3, WalkGoesOn
<1>7. CASE Finished(here) /\ Postponed(here)
  <2>1. /\ study.driver = "baseline" /\ \E m \in OfCampaign(here) : ~Finished(m)
        /\ Finished(here)'
    BY <1>4, <1>5, <1>7 DEF Postponed
  <2> QED BY <1>0, <1>1, <1>2, <1>3, <1>7, <2>1, WalkGoesOn
<1> QED BY <1>0, <1>6, <1>7 DEF Skip

LEMMA SessionsEnd ==
    ASSUME StudyInv, Pause \/ Refuse \/ Conclude \/ Return \/ ReplayFails \/ EngineDies
    PROVE  StudyInv'
<1>1. slots' = slots /\ session' = Quiet
  BY DEF Pause, Refuse, Conclude, Return, ReplayFails, EngineDies, Fails, Ends
<1>2. SameStudy
  BY DEF Pause, Refuse, Conclude, Return, ReplayFails, EngineDies, Fails, SameStudy,
         StudyInv, StudyTyped
<1>3. SlotsGrow /\ ReceiptsAreEarned' /\ FitsWereReady'
  BY <1>1, <1>2, SlotsRest
<1> QED BY <1>1, <1>2, <1>3, SessionIsOver

LEMMA SessionIsKilled == ASSUME StudyInv, SessionDies PROVE StudyInv'
<1>1. slots' = slots /\ SameStudy
  BY StudyKeepsItsPlan DEF SessionDies
<1>2. SlotsGrow /\ ReceiptsAreEarned' /\ FitsWereReady'
  BY <1>1, SlotsRest
<1>3. CASE session' = Quiet
  BY <1>1, <1>2, <1>3, SessionIsOver
<1>4. CASE session.pc = "train"
           /\ session' = [Quiet EXCEPT !.pc = "orphan", !.target = session.target]
  <2>1. /\ Plan' = Plan /\ StudyTyped' /\ SlotsTyped'
        /\ \A i \in DOMAIN Plan : Ready(i) => Ready(i)'
    BY <1>1, <1>2, SlotsAreNotLost
  <2>2. SessionTyped'
    BY <1>4, <2>1 DEF StudyInv, SessionTyped, Quiet
  <2>3. session'.pc = "orphan" /\ session'.target = session.target
    BY <1>4 DEF Quiet
  <2>4. GatesWereOpen' /\ PassedAreDone'
    BY <2>3 DEF GatesWereOpen, PassedAreDone, Walking
  <2>5. ASSUME NEW t \in {0} \cup DOMAIN Plan, session.target = t
        PROVE  /\ t \in DOMAIN Plan /\ Ready(t)'
               /\ Plan[t].stage = "confirmation" => study'.nominee # NoneYet
    <3>1. /\ t \in DOMAIN Plan /\ Ready(t)
          /\ Plan[t].stage = "confirmation" => study.nominee # NoneYet
      BY <1>4, <2>5 DEF StudyInv, TargetIsReady
    <3> QED BY <1>1, <2>1, <3>1 DEF SameStudy
  <2>6. TargetIsReady'
    BY <2>1, <2>3, <2>5 DEF TargetIsReady
  <2> QED BY <1>2, <2>1, <2>2, <2>4, <2>6 DEF StudyInv
<1> QED BY <1>3, <1>4 DEF SessionDies

LEMMA PauseIsToggled == ASSUME StudyInv, TogglePause PROVE StudyInv'
<1>1. slots' = slots /\ session' = session
  BY DEF TogglePause
<1>2. SameStudy
  BY DEF TogglePause, SameStudy, StudyInv, StudyTyped
<1>3. SlotsGrow /\ ReceiptsAreEarned' /\ FitsWereReady'
  BY <1>1, <1>2, SlotsRest
<1> QED BY <1>1, <1>2, <1>3, StudyGoesOn

\* A walk that turns to a slot: what it is at is then as TargetIsReady asks.
LEMMA SessionGoesTo ==
    ASSUME StudyInv, SameStudy, SlotsGrow, ReceiptsAreEarned', FitsWereReady',
           session.pc \in Walking, NEW pc \in {"train", "receipt", "replay"},
           NEW t \in DOMAIN Plan, NEW launched \in BOOLEAN,
           session' = [session EXCEPT !.pc = pc, !.target = t, !.launched = launched],
           pc = "train" => Ready(t) /\ (Plan[t].stage = "confirmation"
                                          => study.nominee # NoneYet),
           pc # "train" => Finished(t)',
           study.driver # "baseline" => AtFront(t)
    PROVE  StudyInv'
<1>1. Plan' = Plan /\ \A i \in DOMAIN Plan : Ready(i) => Ready(i)'
  BY SlotsAreNotLost
<1>2. /\ SessionTyped' /\ session'.path = session.path
      /\ session'.stage = session.stage /\ session'.gated = session.gated
      /\ session'.pc = pc /\ session'.target = t
  BY <1>1 DEF StudyInv, SessionTyped, Walking
<1>3. AtFront(t)' <=> AtFront(t)
  BY <1>2 DEF AtFront
<1>4. TargetIsReady'
  BY <1>1, <1>2, <1>3 DEF TargetIsReady, SameStudy
<1> QED BY <1>2, <1>4, SessionTurns

LEMMA SessionStops ==
    ASSUME StudyInv, SameStudy, SlotsGrow, ReceiptsAreEarned', FitsWereReady',
           session.pc \in Walking, session' = [session EXCEPT !.pc = "visit"]
    PROVE  StudyInv'
<1>1. Plan' = Plan
  BY SlotsAreNotLost
<1>2. /\ SessionTyped' /\ session'.path = session.path
      /\ session'.stage = session.stage /\ session'.gated = session.gated
      /\ session'.pc = "visit"
  BY <1>1 DEF StudyInv, SessionTyped, Walking
<1>3. TargetIsReady'
  BY <1>2 DEF TargetIsReady
<1> QED BY <1>2, <1>3, SessionTurns

LEMMA SlotIsAdopted == ASSUME StudyInv, Adopt PROVE StudyInv'
<1>0. PICK here : here = Here
  OBVIOUS
<1>1. /\ study' = study /\ slots' = [slots EXCEPT ![here].receipt = TRUE]
      /\ session' = [session EXCEPT !.pc = "replay", !.target = here]
      /\ Finished(here) /\ session.pc \in Walking /\ session.path # {}
  BY <1>0 DEF Adopt, Goto, Visiting, Walking
<1>2. SameStudy
  BY <1>1, StudyKeepsItsPlan
<1>3. here \in DOMAIN Plan /\ AtFront(here)
  BY <1>0, <1>1, HereIsTheFront DEF StudyInv
<1>4. SlotsGrow
  BY <1>1, <1>3 DEF SlotsGrow, SlotRow, StudyInv, SlotsTyped
<1>5. ReceiptsAreEarned' /\ FitsWereReady'
  <2>1. \A i \in DOMAIN Plan :
          /\ slots'[i].fits = slots[i].fits
          /\ slots'[i].receipt \/ slots'[i].replayed =>
               slots[i].receipt \/ slots[i].replayed \/ Finished(i)
    BY <1>1, <1>3 DEF StudyInv, SlotsTyped, SlotRow
  <2> QED BY <1>2, <1>4, <2>1, FitsStay, ReceiptsStay
<1>6. Finished(here)'
  BY <1>1, <1>2, <1>3, <1>4, SlotsAreNotLost
<1>7. /\ session' = [session EXCEPT !.pc = "replay", !.target = here,
                                    !.launched = session.launched]
      /\ session.launched \in BOOLEAN
  BY <1>1 DEF StudyInv, SessionTyped
<1> QED BY <1>1, <1>2, <1>3, <1>4, <1>5, <1>6, <1>7, SessionGoesTo

\* The first slot of a campaign without a complete export may train.
LEMMA FirstOpenIsReady ==
    ASSUME StudyInv, session.pc \in Walking, session.path # {}, ~AtGate,
           NEW here, here = Here, NEW open,
           open = {j \in OfCampaign(here) : ~Finished(j)}, open # {},
           study.driver # "baseline" => ~Finished(here),
           NEW t, t = Least(open)
    PROVE  /\ t \in DOMAIN Plan /\ Ready(t)
           /\ Plan[t].stage = "confirmation" => study.nominee # NoneYet
           /\ study.driver # "baseline" => AtFront(t)
           /\ \A j \in OfCampaign(here) : j < t => Finished(j)
<1>1. /\ Ready(here) /\ here \in DOMAIN Plan /\ AtFront(here) /\ IsDeclared(here)
      /\ Plan[here].stage = "confirmation" => study.nominee # NoneYet
  BY HereIsReady
<1>2. /\ IsPlanned(study.driver, Plan)
      /\ DOMAIN Plan = 1 .. Len(Plan) /\ Len(Plan) \in Nat
  BY PlanIsPlanned DEF StudyInv
<1>3. open \subseteq DOMAIN Plan /\ DOMAIN Plan \subseteq Nat
  BY <1>2 DEF OfCampaign
<1>4. t \in open /\ \A j \in open : t <= j
  BY <1>3, LeastIsFirst
<1>5. /\ t \in DOMAIN Plan /\ Plan[t].campaign = Plan[here].campaign /\ ~Finished(t)
      /\ t \in 1 .. Len(Plan) /\ here \in 1 .. Len(Plan)
  BY <1>1, <1>2, <1>4 DEF OfCampaign
<1>6. Plan[t].stage = Plan[here].stage /\ IsDeclared(t)
  BY <1>1, <1>5, CampaignsAreOfAStage DEF StudyInv
<1>7. here <= t
  <2>1. ASSUME t < here PROVE FALSE
    <3>1. t \in 1 .. (here - 1)
      BY <1>5, <2>1
    <3> QED BY <1>1, <1>5, <1>6, <3>1 DEF Ready
  <2> QED BY <1>5, <2>1
<1>8. \A j \in OfCampaign(here) : j < t => Finished(j)
  <2>1. SUFFICES ASSUME NEW j \in OfCampaign(here), j < t, ~Finished(j) PROVE FALSE
    OBVIOUS
  <2>2. j \in open
    BY <2>1
  <2>3. j \in Nat /\ t \in Nat /\ t <= j
    BY <1>3, <1>4, <2>2
  <2> QED BY <2>1, <2>3
<1>9. study.driver # "baseline" => t = here
  <2>1. SUFFICES ASSUME study.driver # "baseline" PROVE t = here
    OBVIOUS
  <2>2. here \in open
    BY <1>1, <2>1 DEF OfCampaign
  <2>3. t <= here /\ t \in Nat /\ here \in Nat
    BY <1>3, <1>4, <2>2
  <2> QED BY <1>7, <2>3
<1>10. Ready(t)
  <2>1. SUFFICES ASSUME NEW j \in 1 .. (t - 1), IsDeclared(j)
                 PROVE  Finished(j) /\ (Plan[j].campaign # Plan[t].campaign => Verified(j))
    BY DEF Ready
  <2>2. j \in 1 .. Len(Plan) /\ j \in DOMAIN Plan /\ j < t
    BY <1>2, <1>5
  <2>3. CASE j < here
    <3>1. j \in 1 .. (here - 1)
      BY <1>5, <2>2, <2>3
    <3> QED BY <1>1, <1>5, <2>1, <3>1 DEF Ready
  <2>4. CASE here <= j
    <3>1. study.driver = "baseline"
      BY <1>5, <1>9, <2>2, <2>4
    <3>2. Plan[j].campaign = Plan[here].campaign
      <4>1. Contiguous(Plan)
        BY <1>2, <3>1 DEF IsPlanned
      <4>2. CASE here = j
        BY <4>2
      <4>3. CASE here < j
        BY <1>5, <2>2, <4>1, <4>3 DEF Contiguous
      <4> QED BY <1>5, <2>2, <2>4, <4>2, <4>3
    <3>3. Finished(j)
      BY <1>8, <2>2, <3>2 DEF OfCampaign
    <3> QED BY <1>5, <3>2, <3>3
  <2> QED BY <1>5, <2>2, <2>3, <2>4
<1> QED BY <1>1, <1>5, <1>6, <1>8, <1>9, <1>10

LEMMA SlotIsDispatched == ASSUME StudyInv, Dispatch PROVE StudyInv'
<1>0. PICK here : here = Here
  OBVIOUS
<1>1. /\ study' = study /\ session.pc = "visit" /\ session.pc \in Walking
      /\ session.path # {} /\ ~AtGate
  BY DEF Dispatch, Visiting, Walking
<1>2. SameStudy /\ session.launched \in BOOLEAN
  BY <1>1, StudyKeepsItsPlan DEF StudyInv, SessionTyped
<1>3. /\ Ready(here) /\ here \in DOMAIN Plan /\ AtFront(here)
      /\ Plan[here].stage = "confirmation" => study.nominee # NoneYet
  BY <1>0, <1>1, HereIsReady
<1>4. ASSUME NEW t \in DOMAIN Plan, Goto("train", t)
      PROVE  session' = [session EXCEPT !.pc = "train", !.target = t,
                                        !.launched = session.launched]
  BY <1>4 DEF Goto, StudyInv, SessionTyped
<1>5. CASE ~ByCampaign /\ slots' = slots /\ Goto("train", here)
  <2>1. SlotsGrow /\ ReceiptsAreEarned' /\ FitsWereReady'
    BY <1>2, <1>5, SlotsRest
  <2> QED BY <1>1, <1>2, <1>3, <1>4, <1>5, <2>1, SessionGoesTo
<1>6. CASE /\ RunCampaign(here)
           /\ study.driver # "baseline" => ~Finished(here)
  <2>1. PICK open : open = {j \in OfCampaign(here) : ~Finished(j)}
    OBVIOUS
  <2>2. PICK t : t = Least(open)
    OBVIOUS
  <2>3. PICK adopted : adopted = {j \in OfCampaign(here) : open # {} => j < t}
    OBVIOUS
  <2>4. /\ slots' = [j \in DOMAIN slots |->
                       IF j \in adopted THEN [slots[j] EXCEPT !.receipt = TRUE]
                       ELSE slots[j]]
        /\ IF open # {} THEN Goto("train", t) ELSE session' = session
    BY <1>6, <2>1, <2>2, <2>3 DEF RunCampaign
  <2>5. open # {} => /\ t \in DOMAIN Plan /\ Ready(t)
                     /\ Plan[t].stage = "confirmation" => study.nominee # NoneYet
                     /\ study.driver # "baseline" => AtFront(t)
                     /\ \A j \in OfCampaign(here) : j < t => Finished(j)
    BY <1>0, <1>1, <1>6, <2>1, <2>2, FirstOpenIsReady
  <2>6. adopted \subseteq DOMAIN Plan /\ \A j \in adopted : Finished(j)
    BY <2>1, <2>3, <2>5 DEF OfCampaign
  <2>7. slots \in [DOMAIN Plan -> SlotRow]
    BY DEF StudyInv, SlotsTyped
  <2>8. \A i \in DOMAIN Plan :
          /\ slots'[i].fits = slots[i].fits /\ slots'[i].export = slots[i].export
          /\ slots'[i].replayed = slots[i].replayed
          /\ slots'[i] \in SlotRow
          /\ slots'[i].receipt => slots[i].receipt \/ Finished(i)
    BY <2>4, <2>6, <2>7 DEF SlotRow
  <2>9. DOMAIN slots' = DOMAIN Plan /\ slots' = [i \in DOMAIN Plan |-> slots'[i]]
    BY <2>4, <2>7
  <2>10. slots' \in [DOMAIN Plan -> SlotRow]
    BY <2>8, <2>9
  <2>11. SlotsGrow
    BY <2>8, <2>10 DEF SlotsGrow
  <2>12. ReceiptsAreEarned' /\ FitsWereReady'
    BY <1>2, <2>8, <2>11, FitsStay, ReceiptsStay
  <2>13. CASE open = {}
    BY <1>2, <2>4, <2>11, <2>12, <2>13, StudyGoesOn
  <2>14. CASE open # {}
    BY <1>1, <1>2, <1>4, <2>4, <2>5, <2>11, <2>12, <2>14, SessionGoesTo
  <2> QED BY <2>13, <2>14
<1>7. study.driver # "baseline" /\ ByCampaign /\ ~(~ByCampaign)
        /\ (~Finished(Here) \/ (~slots[Here].receipt
                                /\ study.driver \in {"baseline", "confidence"}))
        /\ ((study.driver = "confidence" /\ Adopts) => ~Finished(Here))
        => ~Finished(here)
  BY <1>0 DEF Adopts
<1> QED BY <1>0, <1>5, <1>6, <1>7 DEF Dispatch

LEMMA SlotIsTrained == ASSUME StudyInv, Train PROVE StudyInv'
<1>0. PICK t : t = session.target
  OBVIOUS
<1>1. /\ session.pc \in {"train", "orphan"} /\ study' = study
      /\ slots' = [slots EXCEPT ![t].fits = slots[t].fits + 1]
      /\ \/ session' = session
         \/ session' = Quiet
         \/ session.pc = "train" /\ session' = [session EXCEPT !.pc = "visit"]
  BY <1>0 DEF Train
<1>2. SameStudy
  BY <1>1, StudyKeepsItsPlan
<1>3. /\ t \in DOMAIN Plan /\ Ready(t)
      /\ Plan[t].stage = "confirmation" => study.nominee # NoneYet
  <2>1. t \in {0} \cup DOMAIN Plan
    BY <1>0 DEF StudyInv, SessionTyped
  <2> QED BY <1>0, <1>1, <2>1 DEF StudyInv, TargetIsReady
<1>4. SlotsGrow /\ slots \in [DOMAIN Plan -> SlotRow]
  BY <1>1, <1>3 DEF SlotsGrow, SlotRow, StudyInv, SlotsTyped
<1>5. \A i \in DOMAIN Plan :
        /\ i # t => slots'[i].fits = slots[i].fits
        /\ slots'[i].receipt = slots[i].receipt
        /\ slots'[i].replayed = slots[i].replayed
  BY <1>1, <1>3, <1>4 DEF SlotRow
<1>6. ReceiptsAreEarned'
  BY <1>2, <1>4, <1>5, ReceiptsStay
<1>7. /\ Plan' = Plan
      /\ \A i \in DOMAIN Plan : Ready(i) => Ready(i)'
  BY <1>2, <1>4, SlotsAreNotLost
<1>8. FitsWereReady'
  <2>1. ASSUME NEW i \in DOMAIN Plan, slots'[i].fits > 0
        PROVE  Ready(i)' /\ (Plan[i].stage = "confirmation" => study'.nominee # NoneYet)
    <3>1. Ready(i) /\ (Plan[i].stage = "confirmation" => study.nominee # NoneYet)
      BY <1>3, <1>5, <2>1 DEF StudyInv, FitsWereReady
    <3> QED BY <1>1, <1>7, <3>1
  <2> QED BY <1>7, <2>1 DEF FitsWereReady
<1>9. CASE session' = session
  BY <1>2, <1>4, <1>6, <1>8, <1>9, StudyGoesOn
<1>10. CASE session' = Quiet
  BY <1>2, <1>4, <1>6, <1>8, <1>10, SessionIsOver
<1>11. CASE session.pc = "train" /\ session' = [session EXCEPT !.pc = "visit"]
  BY <1>2, <1>4, <1>6, <1>8, <1>11, SessionStops DEF Walking
<1> QED BY <1>1, <1>9, <1>10, <1>11

LEMMA SlotIsExported ==
    ASSUME StudyInv, NEW score \in Grades \cup {Bad}, ExportReceipt(score)
    PROVE  StudyInv'
<1>0. PICK t : t = session.target
  OBVIOUS
<1>1. /\ session.pc \in {"train", "orphan"} /\ slots[t].export = Unexported
      /\ slots' = [slots EXCEPT ![t].export = score]
      /\ \/ session' = Quiet
         \/ /\ session.pc = "train" /\ score # Bad
            /\ session' = [session EXCEPT !.pc = "receipt", !.target = t]
  BY <1>0 DEF ExportReceipt, Ends, Fails, Goto
<1>2. SameStudy
  BY DEF ExportReceipt, Fails, SameStudy, StudyInv, StudyTyped
<1>3. t \in DOMAIN Plan /\ (session.pc = "train" /\ study.driver # "baseline" => AtFront(t))
  <2>1. t \in {0} \cup DOMAIN Plan
    BY <1>0 DEF StudyInv, SessionTyped
  <2> QED BY <1>0, <1>1, <2>1 DEF StudyInv, TargetIsReady
<1>4. score \in {Unexported, Bad} \cup Scores /\ score # Unexported
  <2>1. Scores \subseteq Nat \ {Unexported, Bad} /\ Scores # {}
    BY StudiesAssumption
  <2>2. Least(Scores) \in Scores
    BY <2>1, LeastIsFirst
  <2>3. Grades \subseteq Scores
    BY <2>2 DEF Grades
  <2> QED BY <2>1, <2>3 DEF Unexported, Bad
<1>5. slots \in [DOMAIN Plan -> SlotRow]
  BY DEF StudyInv, SlotsTyped
<1>6. SlotsGrow
  BY <1>1, <1>3, <1>4, <1>5 DEF SlotsGrow, SlotRow
<1>7. \A i \in DOMAIN Plan : /\ slots'[i].fits = slots[i].fits
                             /\ slots'[i].receipt = slots[i].receipt
                             /\ slots'[i].replayed = slots[i].replayed
  BY <1>1, <1>3, <1>5 DEF SlotRow
<1>8. ReceiptsAreEarned' /\ FitsWereReady'
  BY <1>2, <1>6, <1>7, FitsStay, ReceiptsStay
<1>9. CASE session' = Quiet
  BY <1>2, <1>6, <1>8, <1>9, SessionIsOver
<1>10. CASE /\ session.pc = "train" /\ score # Bad
            /\ session' = [session EXCEPT !.pc = "receipt", !.target = t]
  <2>1. Finished(t)'
    BY <1>1, <1>3, <1>4, <1>5, <1>10 DEF Finished, SlotRow
  <2>2. /\ session.launched \in BOOLEAN
        /\ session' = [session EXCEPT !.pc = "receipt", !.target = t,
                                      !.launched = session.launched]
    BY <1>10 DEF StudyInv, SessionTyped
  <2>3. session.pc \in Walking
    BY <1>10 DEF Walking
  <2> QED BY <1>2, <1>3, <1>6, <1>8, <1>10, <2>1, <2>2, <2>3, SessionGoesTo
<1> QED BY <1>1, <1>9, <1>10

\* What a session has a receipt or a replay at hand for is complete.
LEMMA TargetIsFinished ==
    ASSUME StudyInv, session.pc \in {"receipt", "replay"},
           NEW t, t = session.target
    PROVE  /\ t \in DOMAIN Plan /\ Finished(t)
           /\ study.driver # "baseline" => session.path # {} /\ t = Here
<1>1. t \in {0} \cup DOMAIN Plan
  BY DEF StudyInv, SessionTyped
<1>2. /\ t \in DOMAIN Plan /\ Finished(t)
      /\ study.driver # "baseline" => AtFront(t)
  BY <1>1 DEF StudyInv, TargetIsReady
<1>3. study.driver # "baseline" => session.path # {}
  BY <1>2 DEF AtFront
<1>4. study.driver # "baseline" => AtFront(Here)
  BY <1>3, HereIsTheFront DEF StudyInv
<1> QED BY <1>2, <1>3, <1>4, TheFrontIsOne DEF StudyInv

LEMMA SlotIsReceipted == ASSUME StudyInv, Receipt PROVE StudyInv'
<1>0. PICK t : t = session.target
  OBVIOUS
<1>1. /\ session.pc = "receipt" /\ study' = study /\ session.pc \in Walking
      /\ slots' = [slots EXCEPT ![t].receipt = (study.driver # "stratograph")]
  BY <1>0 DEF Receipt, Walking
<1>2. SameStudy
  BY <1>1, StudyKeepsItsPlan
<1>3. /\ t \in DOMAIN Plan /\ Finished(t)
      /\ study.driver # "baseline" => session.path # {} /\ t = Here
  BY <1>0, <1>1, TargetIsFinished
<1>4. slots \in [DOMAIN Plan -> SlotRow]
  BY DEF StudyInv, SlotsTyped
<1> DEFINE b == (study.driver # "stratograph")
<1>5. b \in BOOLEAN /\ slots' = [slots EXCEPT ![t].receipt = b]
  BY <1>1
<1> HIDE DEF b
<1>6. \A i \in DOMAIN Plan :
        /\ slots'[i].fits = slots[i].fits
        /\ slots'[i].receipt \/ slots'[i].replayed =>
             slots[i].receipt \/ slots[i].replayed \/ Finished(i)
  BY <1>3, <1>4, <1>5 DEF SlotRow
<1>7. SlotsGrow
  BY <1>3, <1>4, <1>5 DEF SlotsGrow, SlotRow
<1>8. ReceiptsAreEarned' /\ FitsWereReady'
  BY <1>2, <1>6, <1>7, FitsStay, ReceiptsStay
<1>9. CASE study.driver = "baseline"
  <2>1. session' = [session EXCEPT !.pc = "visit"]
    BY <1>9 DEF Receipt
  <2> QED BY <1>1, <1>2, <1>7, <1>8, <2>1, SessionStops
<1>10. CASE study.driver # "baseline"
  <2>1. session' = [session EXCEPT !.pc = "replay", !.target = t, !.launched = TRUE]
    BY <1>3, <1>10 DEF Receipt
  <2>2. AtFront(t)
    BY <1>3, <1>10, HereIsTheFront DEF StudyInv
  <2>3. Finished(t)'
    BY <1>2, <1>3, <1>7, SlotsAreNotLost
  <2> QED BY <1>1, <1>2, <1>3, <1>7, <1>8, <2>1, <2>2, <2>3, SessionGoesTo
<1> QED BY <1>9, <1>10

LEMMA ReplayIsTakenUp == ASSUME StudyInv, TakeUp PROVE StudyInv'
<1>0. PICK here : here = Here
  OBVIOUS
<1>1. PICK t : t = Least(ToReplay(here))
  OBVIOUS
<1>2. /\ study' = study /\ slots' = slots /\ session.pc \in Walking
      /\ session.path # {} /\ Finished(here) /\ ToReplay(here) # {}
      /\ study.driver = "baseline" => ~Postponed(here)
      /\ session' = [session EXCEPT !.pc = "replay", !.target = t]
  BY <1>0, <1>1 DEF TakeUp, Visiting, Walking, Goto, Adopts
<1>3. SameStudy
  BY <1>2, StudyKeepsItsPlan
<1>4. SlotsGrow /\ ReceiptsAreEarned' /\ FitsWereReady'
  BY <1>2, <1>3, SlotsRest
<1>5. here \in DOMAIN Plan /\ AtFront(here)
  BY <1>0, <1>2, HereIsTheFront DEF StudyInv
<1>6. ToReplay(here) \subseteq DOMAIN Plan /\ DOMAIN Plan \subseteq Nat
  BY <1>5, PlanIsPlanned DEF ToReplay, OfCampaign, StudyInv
<1>7. t \in ToReplay(here) /\ t \in DOMAIN Plan
  BY <1>1, <1>2, <1>6, LeastIsFirst
<1>8. Finished(t) /\ (study.driver # "baseline" => AtFront(t))
  <2>1. CASE study.driver = "baseline"
    BY <1>2, <1>7, <2>1 DEF ToReplay, Postponed
  <2>2. CASE study.driver # "baseline"
    BY <1>2, <1>5, <1>7, <2>2 DEF ToReplay
  <2> QED BY <2>1, <2>2
<1>9. Finished(t)'
  BY <1>3, <1>4, <1>7, <1>8, SlotsAreNotLost
<1>10. /\ session.launched \in BOOLEAN
       /\ session' = [session EXCEPT !.pc = "replay", !.target = t,
                                     !.launched = session.launched]
  BY <1>2 DEF StudyInv, SessionTyped
<1> QED BY <1>2, <1>3, <1>4, <1>7, <1>8, <1>9, <1>10, SessionGoesTo

LEMMA SlotIsReplayed == ASSUME StudyInv, Replay PROVE StudyInv'
<1>0. PICK t : t = session.target
  OBVIOUS
<1> DEFINE b == slots[t].receipt \/ study.driver = "stratograph"
<1>1. /\ session.pc = "replay" /\ study' = study /\ session.pc \in Walking
      /\ slots' = [slots EXCEPT ![t].replayed = TRUE, ![t].receipt = b]
  BY <1>0 DEF Replay, Walking
<1>2. SameStudy /\ b \in BOOLEAN
  BY <1>1, StudyKeepsItsPlan
<1> HIDE DEF b
<1>3. /\ t \in DOMAIN Plan /\ Finished(t)
      /\ study.driver # "baseline" => session.path # {} /\ t = Here
  BY <1>0, <1>1, TargetIsFinished
<1>4. slots \in [DOMAIN Plan -> SlotRow]
  BY DEF StudyInv, SlotsTyped
<1>5. \A i \in DOMAIN Plan :
        /\ slots'[i].fits = slots[i].fits
        /\ slots'[i].receipt \/ slots'[i].replayed =>
             slots[i].receipt \/ slots[i].replayed \/ Finished(i)
  BY <1>1, <1>2, <1>3, <1>4 DEF SlotRow
<1>6. SlotsGrow /\ slots'[t].replayed
  BY <1>1, <1>2, <1>3, <1>4 DEF SlotsGrow, SlotRow
<1>7. ReceiptsAreEarned' /\ FitsWereReady'
  BY <1>2, <1>5, <1>6, FitsStay, ReceiptsStay
<1>8. CASE study.driver = "baseline"
  <2>1. session' = [session EXCEPT !.pc = "visit"]
    BY <1>8, SMTT(30) DEF Replay
  <2> QED BY <1>1, <1>2, <1>6, <1>7, <2>1, SessionStops
<1>9. CASE study.driver # "baseline"
  <2>1. \/ session' = [session EXCEPT !.pc = "visit", !.path = @ \ {t}]
        \/ session' = [session EXCEPT !.pc = "visit", !.path = @ \ {t},
                                      !.launched = TRUE]
    BY <1>3, <1>9 DEF Replay, Onward
  <2>2. Finished(t)'
    BY <1>2, <1>3, <1>6, SlotsAreNotLost
  <2>3. Verified(t)'
    BY <1>6, <2>2 DEF Verified
  <2> QED BY <1>1, <1>2, <1>3, <1>6, <1>7, <1>9, <2>1, <2>2, <2>3, WalkGoesOn
<1> QED BY <1>8, <1>9

LEMMA StudyKept == ASSUME StudyInv, [StudyNext]_studyVars PROVE StudyInv'
<1>1. CASE UNCHANGED studyVars
  <2>1. study' = study /\ slots' = slots /\ session' = session
    BY <1>1 DEF studyVars
  <2>2. SameStudy
    BY <2>1, StudyKeepsItsPlan
  <2> QED BY <2>1, <2>2, SlotsRest, StudyGoesOn
<1>2. CASE StudyNext
  <2>1. CASE PrepareTopograph \/ PrepareBoth \/ PrepareConfirmation
             \/ \E stage \in ToSet(Stages(study.driver)) : PrepareBaseline(stage)
    BY <2>1, StudyIsPrepared
  <2>2. CASE Nominate
    BY <2>2, StudyIsNominated
  <2>3. CASE \E stage \in {NoneYet} \union ToSet(Stages(study.driver)) : Begin(stage)
    BY <2>3, SessionBegins
  <2>4. CASE Gate \/ Skip \/ Adopt \/ Dispatch \/ Train
    BY <2>4, GateIsPassed, SlotIsSkipped, SlotIsAdopted, SlotIsDispatched, SlotIsTrained
  <2>5. CASE Pause \/ Refuse \/ Conclude \/ Return \/ ReplayFails \/ EngineDies
    BY <2>5, SessionsEnd
  <2>6. CASE \E score \in Grades \union {Bad} : ExportReceipt(score)
    BY <2>6, SlotIsExported
  <2>7. CASE Receipt \/ TakeUp \/ Replay
    BY <2>7, SlotIsReceipted, ReplayIsTakenUp, SlotIsReplayed
  <2>8. CASE TogglePause \/ SessionDies
    BY <2>8, PauseIsToggled, SessionIsKilled
  <2> QED BY <1>2, <2>1, <2>2, <2>3, <2>4, <2>5, <2>6, <2>7, <2>8 DEF StudyNext
<1> QED BY <1>1, <1>2

LEMMA HeldSchedule == ASSUME StudyInv PROVE ScheduleKept
<1>1. DOMAIN slots = DOMAIN Plan
  BY DEF StudyInv, SlotsTyped
<1>2. \A i \in DOMAIN Plan : slots[i].fits > 0 => Ready(i)
  BY DEF StudyInv, FitsWereReady
<1> QED BY <1>1, <1>2 DEF ScheduleKept, Ready

\* However sessions, engines and receipts are lost, no slot of a study trains
\* before its turn in the frozen schedule (run of each study driver: the walk
\* over the schedule, adopt_scheduled, run_campaign, the gates of the stages).
THEOREM ScheduleAlwaysKept == StudySpec => []ScheduleKept
<1>1. StudyInit => StudyInv
  BY StudyBegins
<1>2. StudyInv /\ [StudyNext]_studyVars => StudyInv'
  BY StudyKept
<1>3. StudyInv => ScheduleKept
  BY HeldSchedule
<1> QED BY <1>1, <1>2, <1>3, PTL DEF StudySpec

=============================================================================
