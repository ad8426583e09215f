----------------------------- MODULE Oversight -----------------------------
(***************************************************************************)
(* The hourly check of the training guardian (training_healthcheck.py). It *)
(* reads, without the guardian's lock, what the guardian noted since the   *)
(* last check: a note is stamped, replaces status.json and is then         *)
(* appended to history.jsonl.  Either process may be killed at any step.   *)
(*                                                                         *)
(* A note is a problem or not; time is a count of instants at which a      *)
(* stamp or a check may fall.  The service, the age of the status and the  *)
(* PAUSE file are one further issue a check may find.                      *)
(***************************************************************************)
EXTENDS Naturals, Sequences, FiniteSets, SequencesExt

CONSTANTS
  Hour,       \* what a first check looks back
  LastInstant,\* bound on time
  MaxNotes,   \* bound on notes
  MaxLapses   \* bound on kills and on reads that raise

ASSUME OversightAssumption == Hour \in Nat /\ LastInstant \in Nat

VARIABLES
  instant,
  note,     \* of the guardian: none, stamped or half (status.json is replaced)
  notes,    \* what the guardian noted, in the order of history.jsonl
  status,   \* status.json of the guardian: whether it is a problem
  check,    \* the check that runs
  lastCheck,\* status.json of the check: <<>> or <<the last one>>
  lapses

oversightVars == <<instant, note, notes, status, check, lastCheck, lapses>>

NoNote == [step |-> "none", at |-> 0, problem |-> FALSE]
NoCheck == [step |-> "off", at |-> 0, since |-> 0, read |-> 0, issues |-> {},
            current |-> FALSE, signature |-> <<>>, shown |-> FALSE]

OversightInit ==
  /\ instant = Hour
  /\ note = NoNote /\ notes = <<>> /\ status = FALSE
  /\ check = NoCheck /\ lastCheck = <<>>
  /\ lapses = 0

TimeGoesOn ==
  /\ instant < LastInstant
  /\ instant' = instant + 1
  /\ UNCHANGED <<note, notes, status, check, lastCheck, lapses>>

----------------------------------------------------------------------------
(* the guardian's note *)

StampNote(problem) ==
  /\ note = NoNote /\ Len(notes) < MaxNotes
  /\ note' = [step |-> "stamped", at |-> instant, problem |-> problem]
  /\ UNCHANGED <<instant, notes, status, check, lastCheck, lapses>>
ReplaceStatus ==
  /\ note.step = "stamped"
  /\ note' = [note EXCEPT !.step = "half"] /\ status' = note.problem
  /\ UNCHANGED <<instant, notes, check, lastCheck, lapses>>
\* missed: its instant is behind the last check; seen: the checks it is in.
AppendNote ==
  /\ note.step = "half"
  /\ notes' = Append(notes, [at |-> note.at, problem |-> note.problem, seen |-> 0,
                             missed |-> lastCheck # <<>> /\ note.at <= lastCheck[1].at])
  /\ note' = NoNote
  /\ UNCHANGED <<instant, status, check, lastCheck, lapses>>
GuardianDies ==
  /\ note # NoNote /\ lapses < MaxLapses
  /\ note' = NoNote /\ lapses' = lapses + 1
  /\ UNCHANGED <<instant, notes, status, check, lastCheck>>

----------------------------------------------------------------------------
(* the check: tick *)

BeginCheck ==
  /\ check.step = "off"
  /\ check' = [NoCheck EXCEPT !.step = "begun", !.at = instant,
                 !.since = IF lastCheck = <<>> THEN instant - Hour ELSE lastCheck[1].at]
  /\ UNCHANGED <<instant, note, notes, status, lastCheck, lapses>>
\* assess: status.json first, then the history.
ReadStatus ==
  /\ check.step = "begun"
  /\ check' = [check EXCEPT !.step = "status", !.current = status]
  /\ UNCHANGED <<instant, note, notes, status, lastCheck, lapses>>
Window == {k \in DOMAIN notes : check.since < notes[k].at /\ notes[k].at <= check.at}
Assess(other) ==
  /\ check.step = "status"
  /\ LET issues == {k \in Window : notes[k].problem} IN
     check' = [check EXCEPT !.step = "read", !.read = Len(notes), !.issues = issues,
                            !.signature = <<issues # {}, check.current, other>>]
  /\ UNCHANGED <<instant, note, notes, status, lastCheck, lapses>>
\* Whatever raises, a line that is half written included, is the only issue; the
\* check goes on and its window is passed.
AssessRaises ==
  /\ check.step \in {"begun", "status"} /\ lapses < MaxLapses
  /\ check' = [check EXCEPT !.step = "read", !.signature = <<FALSE, FALSE, TRUE>>]
  /\ lapses' = lapses + 1
  /\ UNCHANGED <<instant, note, notes, status, lastCheck>>

\* Issues are shown unless they are those last shown, less than an hour ago.
Alerts ==
  /\ TRUE \in ToSet(check.signature)
  /\ lastCheck # <<>> => \/ check.signature # lastCheck[1].signature
                         \/ check.at - lastCheck[1].alertAt >= Hour
Notify(submitted) ==
  /\ check.step = "read" /\ Alerts
  /\ check' = [check EXCEPT !.step = "notified", !.shown = submitted]
  /\ UNCHANGED <<instant, note, notes, status, lastCheck, lapses>>

Recorded(k) ==
  IF k \in check.issues THEN [notes[k] EXCEPT !.seen = @ + 1]
  ELSE IF k \in Window /\ k > check.read THEN [notes[k] EXCEPT !.missed = TRUE]
  ELSE notes[k]
\* Mutant of WriteCheck: the next check looks back to the end of this one.
WriteLate ==
  /\ check.step = "notified" \/ (check.step = "read" /\ ~Alerts)
  /\ lastCheck' = <<[at |-> instant, origin |-> check.since, alertAt |-> 0,
                signature |-> <<>>]>>
  /\ notes' = [k \in DOMAIN notes |-> Recorded(k)]
  /\ check' = NoCheck
  /\ UNCHANGED <<instant, note, status, lapses>>
WriteCheck ==
  /\ check.step = "notified" \/ (check.step = "read" /\ ~Alerts)
  /\ LET before == IF lastCheck # <<>> THEN lastCheck[1]
                   ELSE [origin |-> check.since, alertAt |-> 0, signature |-> <<>>]
     IN  lastCheck' = <<[at |-> check.at, origin |-> before.origin,
                    alertAt |-> IF check.shown THEN check.at ELSE before.alertAt,
                    signature |-> IF check.shown THEN check.signature
                                  ELSE before.signature]>>
  /\ notes' = [k \in DOMAIN notes |-> Recorded(k)]
  /\ check' = [NoCheck EXCEPT !.step = "written"]
  /\ UNCHANGED <<instant, note, status, lapses>>
\* Its own history has a line more, unless the check is killed before.
AppendCheck ==
  /\ check.step = "written"
  /\ check' = NoCheck
  /\ UNCHANGED <<instant, note, notes, status, lastCheck, lapses>>
CheckDies ==
  /\ check # NoCheck /\ lapses < MaxLapses
  /\ check' = NoCheck /\ lapses' = lapses + 1
  /\ UNCHANGED <<instant, note, notes, status, lastCheck>>

OversightNext ==
  \/ TimeGoesOn \/ \E problem \in BOOLEAN : StampNote(problem)
  \/ ReplaceStatus \/ AppendNote \/ GuardianDies
  \/ BeginCheck \/ ReadStatus \/ \E other \in BOOLEAN : Assess(other)
  \/ AssessRaises \/ \E submitted \in BOOLEAN : Notify(submitted)
  \/ WriteCheck \/ AppendCheck \/ CheckDies

OversightSpec == OversightInit /\ [][OversightNext]_oversightVars

----------------------------------------------------------------------------

\* "Capture even failures repaired between hourly checks, without repeating old
\* history" (training_healthcheck.py:35): a problem is recorded by one check,
\* the first that covers it, whoever is killed meanwhile; but not one whose note
\* was in flight as that check read the history, or that it failed to read.
ProblemsAreReported ==
  \A k \in DOMAIN notes : notes[k].problem =>
    /\ notes[k].seen <= 1
    /\ lastCheck # <<>> =>
         \/ notes[k].at <= lastCheck[1].origin \/ notes[k].at > lastCheck[1].at
         \/ notes[k].missed \/ notes[k].seen = 1
=============================================================================
