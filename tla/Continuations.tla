--------------------------- MODULE Continuations ---------------------------
(* The amendments of Compare. A study that stopped on a diagnosed limit is    *)
(* never repaired in place: a fresh root inherits its verified cells, retains *)
(* the failed run as cost, and starts that cell again under the amended       *)
(* limit. Amendments follow one another; the last one reports for them all.   *)
EXTENDS Naturals, Sequences, FiniteSets, FiniteSetsExt, Functions

CONSTANTS
  ChainFamilies,    \* of: prism, primordia, topograph, stratograph
  Slots,       \* cells of the schedule, 1..n in its order
  FitsPerRun,
  MaxBreaks    \* bound: failures, deaths and intrusions of a behaviour

ASSUME ChainAssumption ==
  /\ Slots \subseteq Nat /\ FitsPerRun \in Nat \ {0}
  /\ ChainFamilies \subseteq {"prism", "primordia", "topograph", "stratograph"}

VARIABLES
  chain,   \* the roots: the study, then its amendments, and the final report
  runs,    \* per root and slot: fits charged, how the run stands, its receipts
  keeper,  \* the session on the newest root and its engine
  breaks   \* what the environment still may do

chainVars == <<chain, runs, keeper, breaks>>

Nothing == "nothing"

\* The failure each amendment of a family is for, in their order: cumulative
\* time (total), time of a fit (fit), size of a candidate, nonfinite gradients.
Diagnoses ==
  [prism |-> <<"total", "fit", "size">>, primordia |-> <<"total">>,
   topograph |-> <<"size", "total">>,
   stratograph |-> <<"total", "total", "nonfinite", "fit">>]
Causes == {"total", "fit", "size", "nonfinite", "other"}

Latest == Len(chain.roots)
Root == chain.roots[Latest]
Run(g, i) == runs[<<g, i>>]
Mine(i) == Run(Latest, i)
NoRun == [fits |-> 0, stand |-> "none", cause |-> Nothing,
          recorded |-> FALSE, replayed |-> FALSE]
FreshRoot(inherited, retained) ==
  [inherited |-> inherited, retained |-> retained, failed |-> FALSE]
Resting == [pc |-> "idle", slot |-> 0]

ChainInit ==
  /\ \E f \in ChainFamilies :
       chain = [family |-> f, roots |-> <<FreshRoot(<<>>, {})>>, paused |-> FALSE,
                drift |-> FALSE, report |-> <<>>]
  /\ runs = [k \in (1..5) \X Slots |-> NoRun]
  /\ keeper = Resting
  /\ breaks = MaxBreaks

-----------------------------------------------------------------------------
(* A session on the newest root *)

\* A cell that the report and the next amendment may take: an export with its
\* replay, and for all but Primordia the journal entry or status receipt.
Settles(g, i) ==
  /\ Run(g, i).stand = "done" /\ Run(g, i).replayed
  /\ chain.family # "primordia" => Run(g, i).recorded
Waiting == {i \in Slots : i \notin DOMAIN Root.inherited /\ ~Settles(Latest, i)}

\* Failures that a root remembers: every session after them is refused.
Remembers == chain.family = "stratograph"
             \/ (chain.family \in {"prism", "primordia"} /\ Latest > 1)
StopsThere(failed) ==
  /\ keeper' = Resting
  /\ chain' = [chain EXCEPT !.roots[Latest].failed = @ \/ (failed /\ Remembers)]

Amends == keeper.pc = "idle" /\ ~chain.drift

\* run, from preflight to the first cell that is not settled.
Open ==
  /\ Amends /\ ~Root.failed /\ ~chain.paused /\ Waiting # {}
  /\ keeper' = [pc |-> "visit", slot |-> Min(Waiting)]
  /\ UNCHANGED <<chain, runs, breaks>>

\* dispatch: a cell is started, or resumed; an amended run of Prism never is.
LaunchRun ==
  /\ keeper.pc = "visit"
  /\ LET run == Mine(keeper.slot)
     IN  CASE run.stand = "done" ->
                keeper' = [keeper EXCEPT !.pc = "replay"] /\ UNCHANGED chain
           [] \/ run.stand = "none"
              \/ run.stand = "partial" /\ ~(chain.family = "prism" /\ Latest > 1) ->
                keeper' = [keeper EXCEPT !.pc = "train"] /\ UNCHANGED chain
           [] OTHER -> StopsThere(TRUE)
  /\ UNCHANGED <<runs, breaks>>

Charge ==
  /\ keeper.pc \in {"train", "orphan"} /\ Mine(keeper.slot).fits < FitsPerRun
  /\ runs' = [runs EXCEPT ![<<Latest, keeper.slot>>].fits = @ + 1,
                          ![<<Latest, keeper.slot>>].stand = "partial"]
  /\ UNCHANGED <<chain, keeper, breaks>>

ExportRun ==
  /\ keeper.pc \in {"train", "orphan"} /\ Mine(keeper.slot).fits = FitsPerRun
  /\ runs' = [runs EXCEPT ![<<Latest, keeper.slot>>].stand = "done"]
  /\ keeper' = IF keeper.pc = "orphan" THEN Resting
               ELSE [keeper EXCEPT !.pc = "replay"]
  /\ UNCHANGED <<chain, breaks>>

\* The engine meets a limit. Cumulative time leaves a run of Prism or Primordia
\* short; other failures spend what is left of the budget on failed attempts,
\* of which an oversized candidate is the one not charged.
Hit(cause) ==
  /\ keeper.pc \in {"train", "orphan"} /\ breaks > 0
  /\ Mine(keeper.slot).fits \in 1..(FitsPerRun - 1)
  /\ breaks' = breaks - 1
  /\ LET short == cause = "total" /\ chain.family \in {"prism", "primordia"}
         lost == CASE short -> Mine(keeper.slot).fits
                   [] cause = "size" -> FitsPerRun - 1
                   [] OTHER -> FitsPerRun
     IN  runs' = [runs EXCEPT ![<<Latest, keeper.slot>>] =
                    [@ EXCEPT !.fits = lost, !.cause = cause,
                              !.stand = IF short THEN "exhausted" ELSE "failed"]]
  /\ IF keeper.pc = "train" THEN StopsThere(TRUE) ELSE (keeper' = Resting /\ UNCHANGED chain)

\* The winner's replay, then the receipt; Prism's parent study and Topograph
\* journal the completion before the replay. Then on to the next cell.
Journal ==
  /\ keeper.pc = "replay" /\ ~Mine(keeper.slot).recorded
  /\ chain.family = "topograph" \/ (chain.family = "prism" /\ Latest = 1)
  /\ runs' = [runs EXCEPT ![<<Latest, keeper.slot>>].recorded = TRUE]
  /\ UNCHANGED <<chain, keeper, breaks>>

Verify ==
  /\ keeper.pc = "replay"
  /\ chain.family = "topograph" \/ (chain.family = "prism" /\ Latest = 1)
       => Mine(keeper.slot).recorded
  /\ runs' = [runs EXCEPT ![<<Latest, keeper.slot>>].replayed = TRUE]
  /\ keeper' = [keeper EXCEPT !.pc = "record"]
  /\ UNCHANGED <<chain, breaks>>

Record ==
  /\ keeper.pc = "record"
  /\ runs' = [runs EXCEPT ![<<Latest, keeper.slot>>].recorded = TRUE]
  /\ LET left == Waiting \ {keeper.slot}
     IN  keeper' = IF left = {} \/ chain.paused THEN Resting
                   ELSE [pc |-> "visit", slot |-> Min(left)]
  /\ UNCHANGED <<chain, breaks>>

VerifyFails ==
  /\ keeper.pc = "replay" /\ breaks > 0 /\ breaks' = breaks - 1
  /\ StopsThere(TRUE)
  /\ UNCHANGED runs

Interrupt ==
  /\ keeper.pc \notin {"idle", "orphan"} /\ breaks > 0 /\ breaks' = breaks - 1
  /\ keeper' = IF keeper.pc = "train" THEN [keeper EXCEPT !.pc = "orphan"] ELSE Resting
  /\ UNCHANGED <<chain, runs>>

EngineLost ==
  /\ keeper.pc \in {"train", "orphan"} /\ breaks > 0 /\ breaks' = breaks - 1
  /\ IF keeper.pc = "train" THEN StopsThere(TRUE) ELSE (keeper' = Resting /\ UNCHANGED chain)
  /\ UNCHANGED runs

\* pause, and resume.
SwitchPause ==
  /\ breaks > 0 \/ chain.paused
  /\ chain' = [chain EXCEPT !.paused = ~@]
  /\ breaks' = IF chain.paused THEN breaks ELSE breaks - 1
  /\ UNCHANGED <<runs, keeper>>

\* A second session does not get the lease. Primordia's command writes a
\* failure for that as for anything.
Intrude ==
  /\ keeper.pc # "idle" /\ breaks > 0 /\ breaks' = breaks - 1
  /\ chain' = [chain EXCEPT !.roots[Latest].failed =
                 @ \/ (chain.family = "primordia" /\ Latest > 1)]
  /\ UNCHANGED <<runs, keeper>>

\* A session on an amended root: it is refused where failures are remembered.
\* Elsewhere it meets the failed run again, and rewrites documents that the
\* amendment bound: the status of a Topograph root, the state of an exhausted run.
Revisit ==
  /\ keeper.pc = "idle" /\ Latest > 1 /\ breaks > 0 /\ breaks' = breaks - 1
  /\ \/ chain.family = "topograph" /\ Latest = 3
     \/ chain.family \in {"prism", "primordia"} /\ Latest = 2
  /\ chain' = [chain EXCEPT !.drift = TRUE]
  /\ UNCHANGED <<runs, keeper>>

-----------------------------------------------------------------------------
(* prepare: the next amendment *)

Cost(i) == [root |-> Latest, slot |-> i, charged |-> Mine(i).fits]
Begun == {i \in Slots : Mine(i).stand # "none"}
Own == {i \in Slots : Settles(Latest, i)}
Taken == Own \union DOMAIN Root.inherited
Unsettled == Begun \ Own
Diagnosis == Diagnoses[chain.family][Latest]
Diagnosed(i) == Mine(i).cause = Diagnosis /\ Mine(i).stand \in {"exhausted", "failed"}

\* What the prepare of each family accepts: retained failures that all have the
\* diagnosis; one incomplete cell that has it; or a study none of whose cells
\* ended otherwise.
StratographAccepts ==
  Root.failed /\ Unsettled # {} /\ \A i \in Unsettled : Diagnosed(i)
PrismAccepts ==
  /\ Latest > 1 => Root.failed
  /\ Latest = 2 => Own = {}
  /\ Cardinality(Unsettled) = 1 /\ \A i \in Unsettled : Diagnosed(i)
PrimordiaAccepts ==
  Cardinality(Unsettled) = 1 /\ \A i \in Unsettled : Diagnosed(i)
ConfirmationAccepts ==
  /\ \E i \in Begun : Diagnosed(i)
  /\ \A i \in Begun : Diagnosed(i) \/ Mine(i).stand = "done"
BudgetAccepts ==
  Unsettled # {} /\ \A i \in Unsettled : Diagnosed(i)

Acceptable ==
  CASE chain.family = "stratograph" -> StratographAccepts
    [] chain.family = "prism" -> PrismAccepts
    [] chain.family = "primordia" -> PrimordiaAccepts
    [] chain.family = "topograph" /\ Latest = 1 -> ConfirmationAccepts
    [] chain.family = "topograph" /\ Latest > 1 -> BudgetAccepts

\* The repair of Topograph's confirmation starts every cell again; the others
\* inherit what is settled, each cell from the root that trained it.
Inherits ==
  IF chain.family = "topograph" /\ Latest = 1 THEN <<>>
  ELSE [i \in Taken |-> IF i \in Own THEN Latest ELSE Root.inherited[i]]

\* Mutant: the manifest is written from the failures of this root alone.
RetainsOwn == {Cost(i) : i \in Begun \ DOMAIN Inherits}
Retains == Root.retained \union {Cost(i) : i \in Begun \ DOMAIN Inherits}

Amend ==
  /\ Amends /\ Latest <= Len(Diagnoses[chain.family])
  /\ Acceptable
  /\ chain' = [chain EXCEPT !.roots = Append(@, FreshRoot(Inherits, Retains)),
                            !.paused = FALSE]
  /\ UNCHANGED <<runs, keeper, breaks>>

\* analyze and report: complete when every slot is, inherited or trained here.
Report ==
  /\ Amends /\ Waiting = {}
  /\ chain' = [chain EXCEPT !.report =
                 <<[origins |-> [i \in Slots |-> IF i \in Own THEN Latest
                                                 ELSE Root.inherited[i]],
                    cost |-> Root.retained]>>]
  /\ UNCHANGED <<runs, keeper, breaks>>

ChainNext ==
  \/ Open \/ LaunchRun \/ Charge \/ ExportRun \/ (\E cause \in Causes : Hit(cause))
  \/ Journal \/ Verify \/ Record \/ VerifyFails \/ Interrupt \/ EngineLost
  \/ SwitchPause \/ Intrude \/ Revisit \/ Amend \/ Report

ChainSpec == ChainInit /\ [][ChainNext]_chainVars

-----------------------------------------------------------------------------
\* A final report answers for the whole chain: each cell from one root that
\* trained it in full and replayed it, and every other run that was ever charged
\* a fit, in whatever root, retained as cost with exactly those fits.
EveryFitIsReported ==
  \A n \in DOMAIN chain.report :
    LET report == chain.report[n]
        reported == {<<report.origins[i], i>> : i \in Slots}
        spent == {k \in DOMAIN runs : runs[k].fits > 0} \ reported
    IN  /\ \A k \in reported : runs[k].stand = "done" /\ runs[k].replayed
                               /\ runs[k].fits = FitsPerRun
        /\ report.cost =
             {[root |-> k[1], slot |-> k[2], charged |-> runs[k].fits] : k \in spent}
=============================================================================
