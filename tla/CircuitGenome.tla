---------------------------- MODULE CircuitGenome ----------------------------
(***************************************************************************)
(* The circuits of Primordia (evonn_primordia/genome.py, research.py): a   *)
(* sequence of primitives, each consuming some of the earlier states.      *)
(* State 0 is the input projection and state k the output of primitive k;  *)
(* the last state is the output of the circuit.                            *)
(*                                                                         *)
(* Every edit has its result validated, and a ValueError would end the     *)
(* run.  Operators are cut down to what validation asks of them (identity  *)
(* or not), the learned temporal and spatial modes to one, special, and    *)
(* widths, activations, merges and rates are left out.                     *)
(***************************************************************************)
EXTENDS Naturals, FiniteSets, Sequences, SequencesExt

CONSTANTS
  MaxDepth,     \* primitives of a circuit of the broad search
  LegacyDepth   \* and of the legacy search (caps)

ASSUME CircuitAssumption == /\ MaxDepth \in 1 .. 32
                            /\ LegacyDepth \in 1 .. 4

VARIABLES
  course,       \* the search, its policy, and the kind of task it is on
  circuit,      \* the genome edits are made of
  misbuilt      \* an edit built a circuit its own validation refuses

circuitVars == <<course, circuit, misbuilt>>

Courses == [policy : {"legacy", "v2", "expressive", "pinned"},
            task : {"special", "plain"}]
\* admits_v3: tokens for the temporal policies, images for the spatial ones.
AdmitsV3 == course.policy \in {"expressive", "pinned"} /\ course.task = "special"

Depth(g) == Len(g.wires)
InSeries(n) == [k \in 1 .. n |-> {k - 1}]

\* The states from which the output can be reached, the last one looked at first.
WithInputs(states, wires, k) == IF k \in states THEN states \cup wires[k] ELSE states
Feeding(wires) ==
  LET n == Len(wires)
      fed[j \in 0 .. n] ==
        IF j = 0 THEN {n} ELSE WithInputs(fed[j - 1], wires, n - j + 1)
  IN  fed[n]

\* validate_structure, and the compiler's check of the learned modes.
Compiles(g) ==
  /\ Depth(g) \in 1 .. 32
  /\ Len(g.idle) = Depth(g)
  /\ g.version < 3 => ~g.special
  /\ g.version = 1 => /\ Depth(g) <= 4
                      /\ g.wires = InSeries(Depth(g))
                      /\ \A k \in 1 .. Depth(g) : ~g.idle[k]
  /\ \A k \in 1 .. Depth(g) : g.wires[k] # {} /\ g.wires[k] \subseteq 0 .. k - 1
  /\ Feeding(g.wires) = 0 .. Depth(g)
  /\ g.special => course.task = "special"

----------------------------------------------------------------------------

\* seed_genome, fresh_genome and fresh_research: a chain of live primitives.
FreshCircuits ==
  {[version |-> IF course.policy = "legacy" THEN 1 ELSE IF AdmitsV3 THEN 3 ELSE 2,
    special |-> s, wires |-> InSeries(n), idle |-> [k \in 1 .. n |-> FALSE]] :
     n \in 1 .. IF course.policy = "legacy" THEN 1 ELSE MaxDepth,
     s \in IF ~AdmitsV3 THEN {FALSE}
           ELSE IF course.policy = "pinned" THEN {TRUE} ELSE BOOLEAN}

CircuitInit ==
  /\ course \in Courses
  /\ circuit \in FreshCircuits
  /\ misbuilt = FALSE

\* _pin_family: a policy that names a family keeps every circuit in it.
Pinned(g) == IF AdmitsV3 /\ course.policy = "pinned"
             THEN [g EXCEPT !.special = TRUE] ELSE g

\* What no longer reaches the output is fed to the last primitive.
Repaired(wires) ==
  [wires EXCEPT ![Len(wires)] = @ \cup ((0 .. Len(wires) - 1) \ Feeding(wires))]

Build(g) ==
  /\ misbuilt' = ~Compiles(g)
  /\ circuit' = IF Compiles(g) THEN g ELSE circuit
  /\ UNCHANGED course

\* The end of mutate_broad: every edit leaves through the repair.
Broaden(wires, idle) ==
  /\ course.policy # "legacy"
  /\ Build(Pinned([circuit EXCEPT !.version = IF @ < 2 THEN 2 ELSE @,
                                  !.wires = Repaired(wires), !.idle = idle]))

\* An identity primitive after the output.
Grow ==
  /\ Depth(circuit) < MaxDepth
  /\ Broaden(Append(circuit.wires, {Depth(circuit)}), Append(circuit.idle, TRUE))

\* The last primitives once more, reading their own copies and, for what
\* they read of the old block's input, the old output.
Repeat ==
  \E n \in 1 .. Depth(circuit) :
    LET start == Depth(circuit) - n
        shifted(refs) == {IF r >= start THEN r + n ELSE r : r \in refs}
        block == SubSeq(circuit.wires, start + 1, Depth(circuit))
    IN  /\ n <= MaxDepth - Depth(circuit)
        /\ Broaden(circuit.wires \o [k \in 1 .. n |-> shifted(block[k])],
                   circuit.idle \o SubSeq(circuit.idle, start + 1, Depth(circuit)))

Prune ==
  /\ Depth(circuit) > 1
  /\ Broaden(Front(circuit.wires), Front(circuit.idle))

RewireOne ==
  \E k \in 2 .. Depth(circuit) : \E refs \in (SUBSET (0 .. k - 1)) \ {{}} :
    Broaden([circuit.wires EXCEPT ![k] = refs], circuit.idle)

\* operator; recombine puts a primitive of another circuit in its place.
Exchange ==
  \E k \in 1 .. Depth(circuit), kind \in BOOLEAN :
    Broaden(circuit.wires, [circuit.idle EXCEPT ![k] = kind])

\* temporal sets a fixed mode over tokens; a spatial mode stays.
Temporal ==
  /\ course.policy # "legacy"
  /\ \E s \in {FALSE, circuit.special} :
       Build(Pinned([circuit EXCEPT !.special = s,
                                    !.wires = Repaired(circuit.wires)]))

\* mutate_research: a representation of its own, in version 3.
Represent ==
  /\ AdmitsV3
  /\ \E s \in BOOLEAN : Build(Pinned([circuit EXCEPT !.version = 3, !.special = s]))

\* The legacy search appends, drops and truncates only.
Legacy ==
  /\ course.policy = "legacy"
  /\ \E n \in {Depth(circuit) - 1, Depth(circuit), Depth(circuit) + 1} :
       LET kept == IF n > LegacyDepth THEN LegacyDepth ELSE n
       IN  /\ n \in 1 .. 4
           /\ Build([circuit EXCEPT !.wires = InSeries(kept),
                                    !.idle = [k \in 1 .. kept |-> FALSE]])

Restart == /\ course.policy # "legacy"
           /\ circuit' \in FreshCircuits
           /\ UNCHANGED <<course, misbuilt>>

CircuitNext == \/ Grow \/ Repeat \/ Prune \/ RewireOne \/ Exchange
               \/ Temporal \/ Represent \/ Legacy \/ Restart

CircuitSpec == CircuitInit /\ [][CircuitNext]_circuitVars

----------------------------------------------------------------------------

\* However often a circuit is grown, repeated, pruned, rewired and changed,
\* the edited circuit is one the validation and the compiler accept: every
\* primitive still reaches the output, no state is read before it is there,
\* and a learned mode is only given to a version and a task that can have it
\* (genome.py validate_structure, compiler.py).  Its refusal would be a
\* ValueError that ends the run.
CircuitsStayExecutable == ~misbuilt
=============================================================================
