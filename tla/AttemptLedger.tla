--------------------------- MODULE AttemptLedger ---------------------------
(***************************************************************************)
(* What an engine run promises, whatever processes die and are resumed:    *)
(* the run is a ledger that grows by one attempt at a time, each planned   *)
(* attempt is trained at most once, and an attempt enters the ledger       *)
(* charged exactly for the training that was begun for it.                 *)
(***************************************************************************)
EXTENDS Naturals, Sequences

CONSTANTS
    Total,      \* the evaluation budget of the run
    Results     \* outcomes an attempt may have; each carries its charge

Steps == 1..Total

VARIABLES
    ledger,     \* the committed attempts' outcomes, in order
    fits        \* how often training was begun for each step

vars == <<ledger, fits>>

Init ==
    /\ ledger = <<>>
    /\ fits = [s \in Steps |-> 0]

\* Only the attempt that follows the ledger may be trained, and only once.
BeginFit ==
    /\ Len(ledger) < Total
    /\ fits[Len(ledger) + 1] = 0
    /\ fits' = [fits EXCEPT ![Len(ledger) + 1] = 1]
    /\ UNCHANGED ledger

\* The attempt is committed at the charge its training made it incur.
Commit ==
    /\ Len(ledger) < Total
    /\ \E r \in Results :
         /\ r.charged = fits[Len(ledger) + 1]
         /\ ledger' = Append(ledger, r)
    /\ UNCHANGED fits

Next == BeginFit \/ Commit

Spec == Init /\ [][Next]_vars
=============================================================================
