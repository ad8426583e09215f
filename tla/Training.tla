------------------------------ MODULE Training ------------------------------
(* The fits of the four engines. A fit trains epoch after epoch, keeps the    *)
(* best state validation has seen and returns that state, not the last one.   *)
(* Prism may also average its weights and hand its optimizer on to a fit that *)
(* starts from the same weights. States of the model are stamps: the fit and  *)
(* the updates they come from; losses are ranks, 1e-8 apart or equal.         *)
EXTENDS Naturals, Sequences, SequencesExt

CONSTANTS
  Epochs,     \* the allowance of a fit
  Batches,    \* minibatches of an epoch
  Patience,
  Ranks,      \* losses and selection losses, small is good
  Engines,    \* of: prism, topograph, stratograph, primordia
  MaxTrainings     \* bound: fits of one lineage

ASSUME FitAssumption ==
  /\ Epochs \in Nat \ {0} /\ Batches \in Nat /\ Patience \in Nat
  /\ Ranks \subseteq Nat /\ \E r \in Ranks : \A s \in Ranks : s <= r
  /\ Engines \subseteq {"prism", "topograph", "stratograph", "primordia"}

VARIABLES
  task,    \* the engine, its policy and the number of the fit
  current,    \* what the optimizer holds: weights, buffers, moments, step
  stored,    \* the checkpoint kept, with its losses
  curve,     \* the start of the fit and what each epoch's validation chose
  stale,   \* epochs since the checkpoint
  fitting,   \* where the fit is: ready, train, validate, score, done
           \* or failed
  handed   \* <<>> or <<the optimizer state for the next fit>>

fitVars == <<task, current, stored, curve, stale, fitting, handed>>

Worst == 1 + CHOOSE r \in Ranks : \A s \in Ranks : s <= r

\* TrainConfig as each run.py builds it. initial: the state before training is
\* a candidate; full: no early stop; least: epochs before a stop.
TrainConfig ==
  [initial : BOOLEAN, full : BOOLEAN, least : {1, 2}, average : BOOLEAN,
   resume : BOOLEAN, aligned : BOOLEAN]
PlainPolicies == {p \in TrainConfig : ~p.average /\ ~p.resume /\ ~p.aligned}
PrismPolicies == {p \in TrainConfig : ~p.full}
TopographPolicies == {p \in PlainPolicies : p.least = 1}
StratographPolicies == {p \in PlainPolicies : p.least = 1 /\ ~p.full}
PrimordiaPolicies == {p \in PlainPolicies : ~p.full}
PoliciesOf(engine) ==
  CASE engine = "prism" -> PrismPolicies
    [] engine = "topograph" -> TopographPolicies
    [] engine = "stratograph" -> StratographPolicies
    [] engine = "primordia" -> PrimordiaPolicies

NoLog == [start |-> <<>>, curve |-> <<>>]
Stamp(updates) == <<task.fit, updates>>
FreshFit == [weights |-> <<1, 0>>, buffers |-> <<1, 0>>, moments |-> <<>>, step |-> 0]

FitInit ==
  /\ \E e \in Engines : \E p \in PoliciesOf(e) :
       task = [engine |-> e, policy |-> p, fit |-> 1]
  /\ current = FreshFit /\ curve = NoLog /\ stale = 0 /\ fitting = "ready" /\ handed = <<>>
  /\ stored = [state |-> FreshFit, loss |-> Worst, choice |-> Worst, epoch |-> 0,
             source |-> "raw"]

Fail == fitting' = "failed" /\ UNCHANGED <<task, current, stored, curve, stale, handed>>

\* Nonfinite losses, gradients or weights and a deadline end the fit with
\* nothing returned. Stratograph first recomputes overflowed gradients exactly.
Breaks == fitting \in {"ready", "train", "validate"} /\ Fail

-----------------------------------------------------------------------------
\* What a validation may find of a state: its loss and the loss that selects,
\* which is another one for Prism's aligned classification.
Findings ==
  IF task.policy.aligned THEN {[loss |-> v, choice |-> c] : v, c \in Ranks}
  ELSE {[loss |-> v, choice |-> v] : v \in Ranks}

\* Moments that are not of these weights are refused before anything is fitted.
Bound == handed # <<>> => handed[1].weights = current.weights

\* The optimizer restarts unless it was handed on; an initial validation makes
\* the starting state the first checkpoint, else the first epoch is one.
StartFit(found) ==
  /\ fitting = "ready" /\ Bound
  /\ current' = IF task.policy.resume /\ handed # <<>>
             THEN [current EXCEPT !.moments = handed[1].moments, !.step = handed[1].step]
             ELSE [current EXCEPT !.moments = <<>>, !.step = 0]
  /\ stored' = [state |-> current', epoch |-> 0, source |-> "raw",
              loss |-> IF task.policy.initial THEN found.loss ELSE Worst,
              choice |-> IF task.policy.initial THEN found.choice ELSE Worst]
  /\ curve' = [start |-> <<current', found>>, curve |-> <<>>]
  /\ stale' = 0 /\ fitting' = "train" /\ handed' = <<>>
  /\ UNCHANGED task

\* An epoch of updates: new weights, moments, statistics of the normalisation.
Updates == (Len(curve.curve) + 1) * Batches
TrainEpoch ==
  /\ fitting = "train"
  /\ current' = [weights |-> Stamp(Updates), buffers |-> Stamp(Updates),
              moments |-> Stamp(Updates), step |-> current.step + Batches]
  /\ fitting' = "validate"
  /\ UNCHANGED <<task, stored, curve, stale, handed>>

\* The raw and the averaged weights compete, the raw ones first among equals.
Ahead(a, b) ==
  \/ a.choice < b.choice
  \/ task.policy.aligned /\ a.choice = b.choice /\ a.loss < b.loss
Selected(raw, average) ==
  IF task.policy.average /\ Ahead(average, raw)
  THEN [found |-> average, source |-> "average"] ELSE [found |-> raw, source |-> "raw"]

\* The checkpoint of an epoch. Moments are kept for raw weights only; averaged
\* weights have none that match.
Kept(chosen) ==
  IF chosen.source = "raw" THEN current
  ELSE [current EXCEPT !.weights = Append(@, "average"), !.moments = stored.state.moments]

\* Each engine's rule for the end of patience.
PrismStops(s, epochs) == s >= Patience /\ epochs >= task.policy.least
TopographStops(s) == s >= Patience /\ ~task.policy.full
StratographStops(s) == s >= Patience
PrimordiaStops(s, epochs) == s >= Patience /\ epochs >= task.policy.least
StopsNow(s, epochs) ==
  CASE task.engine = "prism" -> PrismStops(s, epochs)
    [] task.engine = "topograph" -> TopographStops(s)
    [] task.engine = "stratograph" -> StratographStops(s)
    [] task.engine = "primordia" -> PrimordiaStops(s, epochs)

Validate(raw, average) ==
  /\ fitting = "validate"
  /\ LET chosen == Selected(raw, average)
         better == Ahead(chosen.found, stored)
         s == IF better THEN 0 ELSE stale + 1
         epochs == Len(curve.curve) + 1
     IN /\ curve' = [curve EXCEPT !.curve = Append(@, chosen)]
        /\ stored' = IF better
                   THEN [state |-> Kept(chosen), loss |-> chosen.found.loss,
                         choice |-> chosen.found.choice, epoch |-> epochs,
                         source |-> chosen.source]
                   ELSE stored
        /\ stale' = s
        /\ fitting' = IF epochs = Epochs \/ (~better /\ StopsNow(s, epochs))
                    THEN "score" ELSE "train"
  /\ UNCHANGED <<task, current, handed>>

\* Mutant: of what is restored when the fit ends, the statistics are left out.
LastStatistics == [stored.state EXCEPT !.buffers = current.buffers]
BestRestored == stored.state

\* The best state is restored, scored and handed on; the optimizer goes with it
\* when the policy continues it and its moments are of these weights.
Score ==
  /\ fitting = "score"
  /\ current' = BestRestored /\ fitting' = "done"
  /\ handed' = IF task.policy.resume /\ stored.source = "raw"
               THEN <<[weights |-> stored.state.weights, moments |-> stored.state.moments,
                       step |-> stored.state.step]>>
               ELSE <<>>
  /\ UNCHANGED <<task, stored, curve, stale>>

\* A fit that inherits everything: the same weights, statistics and optimizer.
Inherit ==
  /\ fitting = "done" /\ task.policy.resume /\ task.fit < MaxTrainings
  /\ task' = [task EXCEPT !.fit = @ + 1] /\ fitting' = "ready"
  /\ UNCHANGED <<current, stored, curve, stale, handed>>

FitNext ==
  \/ Breaks \/ TrainEpoch \/ Score \/ Inherit
  \/ \E found \in Findings : StartFit(found)
  \/ \E raw, average \in Findings :
       (~task.policy.average => average = raw) /\ Validate(raw, average)

FitSpec == FitInit /\ [][FitNext]_fitVars

-----------------------------------------------------------------------------
\* A finished fit is its best epoch, whole: no epoch it may return was better
\* and no earlier one as good; weights and normalisation statistics are both of
\* that epoch; an optimizer handed on is of just those weights and counts their
\* updates; and a fit that ended early had lost its patience after that epoch.
BestEpochIsReturned ==
  fitting = "done" =>
    LET found(e) == IF e = 0 THEN curve.start[2] ELSE curve.curve[e].found
        pool == {e \in 0..Len(curve.curve) : e > 0 \/ task.policy.initial}
        at == stored.epoch
        start == curve.start[1]
        stamp == IF at = 0 THEN start.weights ELSE Stamp(at * Batches)
    IN /\ at \in pool
       /\ \A e \in pool :
            ~Ahead(found(e), stored) /\ (e < at => Ahead(stored, found(e)))
       /\ current.weights = IF at > 0 /\ curve.curve[at].source = "average"
                         THEN Append(stamp, "average") ELSE stamp
       /\ current.buffers = IF at = 0 THEN start.buffers ELSE stamp
       /\ handed # <<>> =>
            /\ handed[1].weights = current.weights
            /\ handed[1].moments = IF at = 0 THEN start.moments ELSE stamp
            /\ handed[1].step = start.step + at * Batches
       /\ Len(curve.curve) < Epochs =>
            /\ Len(curve.curve) >= task.policy.least /\ ~task.policy.full
            /\ Len(curve.curve) - at >= Patience
=============================================================================
