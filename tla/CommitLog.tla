----------------------------- MODULE CommitLog -----------------------------
(***************************************************************************)
(* What crash-consistent publication promises: a log of states with one    *)
(* commit point per state.  A crash may take back commits nobody was told  *)
(* of, and never one that was acknowledged.                                *)
(***************************************************************************)
EXTENDS Naturals, Sequences

CONSTANTS
    Values,     \* states an entry may stand for
    Length      \* bound on the log

VARIABLES
    log,        \* the committed entries, in order
    acked       \* the log when its writer was last told of a commit

vars == <<log, acked>>

Init == log = <<>> /\ acked = <<>>

Commit ==
    /\ Len(log) < Length
    /\ \E v \in Values : log' = Append(log, v)
    /\ UNCHANGED acked

Acknowledge ==
    /\ acked' = log
    /\ UNCHANGED log

Lose ==
    /\ \E n \in Len(acked)..Len(log) : log' = SubSeq(log, 1, n)
    /\ UNCHANGED acked

Next == Commit \/ Acknowledge \/ Lose

Spec == Init /\ [][Next]_vars
=============================================================================
