----------------------------- MODULE Workspace -----------------------------
(* A workspace of Compare. A fair matrix opens a case, runs its engine, files *)
(* what it exported and at its end rebuilds the views and the append-only     *)
(* trend from the cases on disk. The whole is under one lock, and may be      *)
(* killed at any step.                                                        *)
EXTENDS Naturals, Sequences, FiniteSets, SequencesExt

CONSTANTS
  Seeds,
  MaxCases,   \* bound: cases a workspace ever opens
  MaxCaseHarm     \* bound: kills, failed runs and lost exports together

VARIABLES
  cases,      \* in the order they were opened
  matrix,     \* the process that holds the lock
  trend,      \* the append-only trend: rows by case, whether its tail is torn
  dashboard,  \* the cases the views show
  harm        \* what may still be killed, fail or be lost

workspaceVars == <<cases, matrix, trend, dashboard, harm>>

CaseIdle == [op |-> "idle"]
NoTrend == [rows |-> <<>>, torn |-> FALSE]

WorkspaceInit ==
  /\ cases = <<>> /\ matrix = CaseIdle /\ trend = NoTrend /\ dashboard = {}
  /\ harm = MaxCaseHarm

\* load_cases: the reports present. A directory without its case.json stops it.
Present == {c \in DOMAIN cases : cases[c].kept}
Loadable == \A c \in Present : cases[c].filed
CaseBundles == {c \in Present : cases[c].export = "verified"}

\* evaluate_case has no blocker for a case whose export is still verified.
Unblocked(c) == cases[c].export = "verified"

\* The repeatability a view of the case states among the cases loaded.
Repeatability(c, loaded) ==
  IF Cardinality({cases[d].seed : d \in loaded}) > 1 THEN "repeated" ELSE "single"

\* The rows of a case are of its acceptance alone: repeatability is added
\* to the acceptance of the view after the rows are made.
\* Mutant: the rows take it from the view.
RowFromView(c, loaded) == [case |-> c, repeatability |-> Repeatability(c, loaded)]
Row(c, loaded) == [case |-> c, repeatability |-> "single"]

FairMatrix ==
  /\ matrix = CaseIdle
  /\ \E todo \in {<<s>> : s \in Seeds} \cup {<<s, t>> : s, t \in Seeds} :
       /\ Len(cases) + Len(todo) <= MaxCases
       /\ matrix' = [op |-> "open", todo |-> todo]
  /\ UNCHANGED <<cases, trend, dashboard, harm>>

OpenCase ==
  /\ matrix.op = "open"
  /\ cases' = Append(cases, [seed |-> Head(matrix.todo), filed |-> FALSE,
                             export |-> "none", kept |-> TRUE])
  /\ matrix' = [op |-> "run", todo |-> Tail(matrix.todo)]
  /\ UNCHANGED <<trend, dashboard, harm>>

\* The engine's CLI: an export that verifies, or a failure kept as a reason.
RunSystem(outcome) ==
  /\ matrix.op = "run"
  /\ outcome = "failed" => harm > 0
  /\ cases' = [cases EXCEPT ![Len(cases)].export = outcome]
  /\ matrix' = [matrix EXCEPT !.op = "file"]
  /\ harm' = IF outcome = "failed" THEN harm - 1 ELSE harm
  /\ UNCHANGED <<trend, dashboard>>

\* The cases as one snapshot, oldest first.
Rebuilding ==
  LET Older(c, d) == c < d
  IN [op |-> "rebuild", left |-> SetToSortSeq(Present, Older), shown |-> Present, sound |-> CaseBundles]

FileCase ==
  /\ matrix.op = "file"
  /\ cases' = [cases EXCEPT ![Len(cases)].filed = TRUE]
  /\ matrix' = IF matrix.todo = <<>> THEN [op |-> "load"]
               ELSE [matrix EXCEPT !.op = "open"]
  /\ UNCHANGED <<trend, dashboard, harm>>

\* The end of a matrix, and workspace_report and workspace_audit, which run
\* nothing, load the cases and rebuild from them.
Load ==
  /\ matrix.op \in {"idle", "load"}
  /\ matrix' = IF Loadable THEN Rebuilding ELSE CaseIdle
  /\ UNCHANGED <<cases, trend, dashboard, harm>>

\* _append_rows, for an unblocked case: known rows must be the same, new ones
\* are appended, a torn tail refuses the rebuild.
AppendRows ==
  /\ matrix.op = "rebuild" /\ matrix.left # <<>>
  /\ LET c == Head(matrix.left)
         row == Row(c, matrix.sound)
         done == [matrix EXCEPT !.left = Tail(@)]
         known == c \in DOMAIN trend.rows
     IN \/ c \notin matrix.sound /\ matrix' = done /\ UNCHANGED trend
        \/ /\ c \in matrix.sound
           /\ trend.torn \/ (known /\ trend.rows[c] # row)
           /\ matrix' = CaseIdle /\ UNCHANGED trend
        \/ /\ c \in matrix.sound /\ ~trend.torn
           /\ known => trend.rows[c] = row
           /\ matrix' = done
           /\ trend' = [trend EXCEPT !.rows = [x \in DOMAIN @ \cup {c} |->
                                                 IF x = c THEN row ELSE @[x]]]
  /\ UNCHANGED <<cases, dashboard, harm>>

PublishViews ==
  /\ matrix.op = "rebuild" /\ matrix.left = <<>>
  /\ dashboard' = matrix.shown /\ matrix' = CaseIdle
  /\ UNCHANGED <<cases, trend, harm>>

\* A kill frees the lock. Only an append to a trend that exists can be torn.
MatrixDies ==
  /\ matrix # CaseIdle /\ harm > 0
  /\ matrix' = CaseIdle /\ harm' = harm - 1
  /\ \/ UNCHANGED trend
     \/ /\ matrix.op = "rebuild" /\ matrix.left # <<>>
        /\ DOMAIN trend.rows # {} /\ Head(matrix.left) \notin DOMAIN trend.rows
        /\ trend' = [trend EXCEPT !.torn = TRUE]
  /\ UNCHANGED <<cases, dashboard>>

\* reset_workspace renames the whole workspace to a sibling.
Reset ==
  /\ matrix = CaseIdle /\ Present # {}
  /\ cases' = [c \in DOMAIN cases |-> [cases[c] EXCEPT !.kept = FALSE]]
  /\ trend' = NoTrend /\ dashboard' = {}
  /\ UNCHANGED <<matrix, harm>>

\* An export is damaged or removed under the workspace.
LoseBundle(c) ==
  /\ harm > 0 /\ c \in CaseBundles
  /\ cases' = [cases EXCEPT ![c].export = "lost"] /\ harm' = harm - 1
  /\ UNCHANGED <<matrix, trend, dashboard>>

-----------------------------------------------------------------------------
WorkspaceNext ==
  \/ FairMatrix \/ OpenCase \/ FileCase \/ Load \/ AppendRows \/ PublishViews
  \/ MatrixDies \/ Reset
  \/ \E outcome \in {"verified", "failed"} : RunSystem(outcome)
  \/ \E c \in DOMAIN cases : LoseBundle(c)

WorkspaceSpec == WorkspaceInit /\ [][WorkspaceNext]_workspaceVars

\* Trend rows are never disputed: what a rebuild computes for a case it once
\* recorded is the row it appended, however many seeds, failures and killed
\* rebuilds came after.
TrendsReproduce ==
  \A c \in DOMAIN trend.rows : c \in CaseBundles => trend.rows[c] = Row(c, CaseBundles)
=============================================================================
