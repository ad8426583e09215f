--------------------------- MODULE EvidenceProofs ---------------------------
(***************************************************************************)
(* What is written by one process and believed by another: the hourly      *)
(* check's ledger (Oversight), the registry of receipts (Registry), the    *)
(* final names of payloads (Publication), the views of a workspace         *)
(* (Workspace), the charges of invocations (InvocationClock), the          *)
(* benchmark catalog (Catalog) and the cache of language-model data        *)
(* (LmCache).  Each has an inductive invariant of its own and implies the  *)
(* property that the runs check.                                           *)
(***************************************************************************)
EXTENDS Registry, Oversight, Publication, Workspace, InvocationClock, Catalog,
        LmCache, FiniteSetTheorems, SequenceTheorems, TLAPS

LEMMA EmptySequence == ASSUME NEW S PROVE <<>> \in Seq(S)
  OBVIOUS

(***************************************************************************)
(* The hourly check.  A check covers what was noted after the last one and *)
(* up to its own beginning; what it found there it found in the part of    *)
(* the history it read.                                                    *)
(***************************************************************************)

Notes == [at : Nat, problem : BOOLEAN, seen : Nat, missed : BOOLEAN]
Checks == [step : {"off", "begun", "status", "read", "notified", "written"},
           at : Nat, since : Nat, read : Nat, issues : SUBSET Nat,
           current : BOOLEAN, signature : Seq(BOOLEAN), shown : BOOLEAN]
LastChecks == [at : Nat, origin : Nat, alertAt : Nat, signature : Seq(BOOLEAN)]

\* Where the oversight's state is, and that nothing of it lies in the future.
OversightTyped ==
  /\ instant \in Nat /\ instant >= Hour
  /\ note \in [step : {"none", "stamped", "half"}, at : Nat, problem : BOOLEAN]
  /\ note.at <= instant
  /\ notes \in Seq(Notes) /\ status \in BOOLEAN
  /\ check \in Checks /\ check.at <= instant
  /\ lastCheck = <<>> \/ \E l \in LastChecks : lastCheck = <<l>>
  /\ lastCheck # <<>> => lastCheck[1].at <= instant

\* A running check begins where the last one ended.
Checking == check.step \in {"begun", "status", "read", "notified"}
WindowsMeet ==
  Checking /\ lastCheck # <<>> =>
    check.since = lastCheck[1].at /\ check.since <= check.at

\* Its issues are the problems of its window in the part it read, which is
\* nothing before it reads and when that fails.
IssuesAreRead ==
  /\ check.step \in {"begun", "status"} => check.read = 0 /\ check.issues = {}
  /\ check.step \in {"read", "notified"} =>
       /\ check.read <= Len(notes)
       /\ check.issues = {k \in 1..check.read :
            notes[k].problem /\ check.since < notes[k].at /\ notes[k].at <= check.at}

\* No check has seen what is stamped after the last one.
UnseenSince ==
  \A k \in DOMAIN notes :
    lastCheck = <<>> \/ notes[k].at > lastCheck[1].at => notes[k].seen = 0

OversightInv ==
  OversightTyped /\ WindowsMeet /\ IssuesAreRead /\ UnseenSince /\ ProblemsAreReported

LEMMA OversightBegins == ASSUME OversightInit PROVE OversightInv
<1> USE DEF OversightInit
<1>1. notes = <<>> /\ lastCheck = <<>> /\ instant = Hour
  OBVIOUS
<1>2. check.step = "off" /\ check.at = 0 /\ check \in Checks
  BY EmptySequence DEF NoCheck, Checks
<1>3. note \in [step : {"none", "stamped", "half"}, at : Nat, problem : BOOLEAN]
  BY DEF NoNote
<1>4. OversightTyped
  <2>1. note.at = 0 /\ status \in BOOLEAN /\ notes \in Seq(Notes)
    BY <1>1, EmptySequence DEF NoNote
  <2> QED BY <1>1, <1>2, <1>3, <2>1, OversightAssumption DEF OversightTyped
<1>5. WindowsMeet /\ IssuesAreRead
  BY <1>1, <1>2 DEF WindowsMeet, IssuesAreRead, Checking
<1>6. DOMAIN notes = {}
  BY <1>1
<1> QED BY <1>4, <1>5, <1>6 DEF OversightInv, UnseenSince, ProblemsAreReported

\* Steps that leave the history and the last check alone keep what they say.
LEMMA HistoryRests ==
    ASSUME OversightInv, UNCHANGED <<notes, lastCheck>>
    PROVE  UnseenSince' /\ ProblemsAreReported'
  BY DEF OversightInv, UnseenSince, ProblemsAreReported

LEMMA GuardianNotes ==
    ASSUME OversightInv,
           \/ TimeGoesOn \/ ReplaceStatus \/ GuardianDies
           \/ \E problem \in BOOLEAN : StampNote(problem)
    PROVE  OversightInv'
<1>1. UnseenSince' /\ ProblemsAreReported'
  BY HistoryRests DEF TimeGoesOn, ReplaceStatus, GuardianDies, StampNote
<1>2. OversightTyped'
  <2>1. CASE TimeGoesOn
    <3>1. instant' = instant + 1 /\ instant \in Nat
      BY <2>1 DEF TimeGoesOn, OversightInv, OversightTyped
    <3>2. lastCheck # <<>> => lastCheck[1].at \in Nat
      BY DEF OversightInv, OversightTyped, LastChecks
    <3>3. note.at \in Nat /\ check.at \in Nat
      BY DEF OversightInv, OversightTyped, Checks
    <3> QED BY <2>1, <3>1, <3>2, <3>3, OversightAssumption
            DEF TimeGoesOn, OversightInv, OversightTyped
  <2>2. CASE ReplaceStatus \/ GuardianDies
    <3>1. note \in [step : {"none", "stamped", "half"}, at : Nat, problem : BOOLEAN]
      BY DEF OversightInv, OversightTyped
    <3>2. /\ note' \in [step : {"none", "stamped", "half"}, at : Nat, problem : BOOLEAN]
          /\ note'.at \in {0, note.at} /\ status' \in BOOLEAN
      <4>1. CASE ReplaceStatus
        <5>1. note' = [note EXCEPT !.step = "half"] /\ status' = note.problem
          BY <4>1 DEF ReplaceStatus
        <5> QED BY <3>1, <5>1
      <4>2. CASE GuardianDies
        BY <4>2 DEF GuardianDies, NoNote, OversightInv, OversightTyped
      <4> QED BY <2>2, <4>1, <4>2
    <3> QED BY <2>2, <3>1, <3>2, OversightAssumption
            DEF OversightInv, OversightTyped, ReplaceStatus, GuardianDies
  <2>3. ASSUME NEW problem \in BOOLEAN, StampNote(problem) PROVE OversightTyped'
    BY <2>3 DEF OversightInv, OversightTyped, StampNote
  <2> QED BY <2>1, <2>2, <2>3
<1>3. WindowsMeet' /\ IssuesAreRead'
  BY DEF OversightInv, WindowsMeet, IssuesAreRead, Checking, TimeGoesOn,
         ReplaceStatus, GuardianDies, StampNote
<1> QED BY <1>1, <1>2, <1>3 DEF OversightInv

LEMMA NoteAppended == ASSUME OversightInv, AppendNote PROVE OversightInv'
<1> DEFINE e == [at |-> note.at, problem |-> note.problem, seen |-> 0,
                 missed |-> lastCheck # <<>> /\ note.at <= lastCheck[1].at]
<1>1. e \in Notes
  BY DEF OversightInv, OversightTyped, Notes
<1>2. /\ e.at = note.at /\ e.problem = note.problem /\ e.seen = 0
      /\ e.missed = (lastCheck # <<>> /\ note.at <= lastCheck[1].at)
  OBVIOUS
<1>3. notes' = Append(notes, e) /\ note' = NoNote
  BY DEF AppendNote
<1> HIDE DEF e
<1>4. /\ notes' \in Seq(Notes) /\ Len(notes') = Len(notes) + 1
      /\ notes'[Len(notes) + 1] = e
      /\ \A k \in 1..Len(notes) : notes'[k] = notes[k]
      /\ DOMAIN notes = 1..Len(notes) /\ DOMAIN notes' = 1..Len(notes')
      /\ Len(notes) \in Nat
  BY <1>1, <1>3 DEF OversightInv, OversightTyped
<1>5. OversightTyped'
  BY <1>3, <1>4 DEF OversightInv, OversightTyped, AppendNote, NoNote
<1>6. WindowsMeet'
  BY DEF OversightInv, WindowsMeet, Checking, AppendNote
<1>7. IssuesAreRead'
  <2> DEFINE Found(h) == {k \in 1..check.read :
                  h[k].problem /\ check.since < h[k].at /\ h[k].at <= check.at}
  <2>3. /\ check' = check
        /\ check.step \in {"begun", "status"} => check.read = 0 /\ check.issues = {}
    BY DEF OversightInv, IssuesAreRead, AppendNote
  <2>4. ASSUME check.step \in {"read", "notified"}
        PROVE  check.read <= Len(notes') /\ check.issues = Found(notes')
    <3>1. /\ check.read <= Len(notes) /\ check.read \in Nat
          /\ check.issues = {k \in 1..check.read :
               notes[k].problem /\ check.since < notes[k].at /\ notes[k].at <= check.at}
      BY <2>4 DEF OversightInv, OversightTyped, Checks, IssuesAreRead
    <3>2. \A k \in 1..check.read : notes'[k] = notes[k]
      BY <1>4, <3>1
    <3> QED BY <1>4, <3>1, <3>2
  <2> QED BY <2>3, <2>4 DEF IssuesAreRead
<1>8. UnseenSince'
  BY <1>2, <1>4 DEF OversightInv, UnseenSince, AppendNote
<1>9. ProblemsAreReported'
  <2> SUFFICES ASSUME NEW k \in DOMAIN notes', notes'[k].problem
               PROVE  /\ notes'[k].seen <= 1
                      /\ lastCheck # <<>> =>
                           \/ notes'[k].at <= lastCheck[1].origin
                           \/ notes'[k].at > lastCheck[1].at
                           \/ notes'[k].missed \/ notes'[k].seen = 1
    BY DEF ProblemsAreReported, AppendNote
  <2>1. CASE k \in 1..Len(notes)
    BY <2>1, <1>4 DEF OversightInv, ProblemsAreReported
  <2>2. CASE k = Len(notes) + 1
    <3>1. notes'[k] = e /\ note.at \in Nat
      BY <2>2, <1>4 DEF OversightInv, OversightTyped
    <3>2. lastCheck # <<>> => lastCheck[1].at \in Nat
      BY DEF OversightInv, OversightTyped, LastChecks
    <3>3. CASE lastCheck # <<>> /\ note.at <= lastCheck[1].at
      <4>1. e.missed = TRUE BY <1>2, <3>3
      <4> QED BY <3>1, <4>1, <1>2
    <3>4. CASE ~(lastCheck # <<>> /\ note.at <= lastCheck[1].at)
      BY <3>1, <3>2, <3>4, <1>2
    <3> QED BY <3>3, <3>4
  <2> QED BY <1>4, <2>1, <2>2
<1> QED BY <1>5, <1>6, <1>7, <1>8, <1>9 DEF OversightInv

LEMMA CheckBegins == ASSUME OversightInv, BeginCheck PROVE OversightInv'
<1>1. UnseenSince' /\ ProblemsAreReported'
  BY HistoryRests DEF BeginCheck
<1>2. lastCheck # <<>> => lastCheck[1].at \in Nat /\ lastCheck[1].at <= instant
  BY DEF OversightInv, OversightTyped, LastChecks
<1> DEFINE since == IF lastCheck = <<>> THEN instant - Hour ELSE lastCheck[1].at
<1>3. since \in Nat /\ (lastCheck # <<>> => since = lastCheck[1].at)
  BY <1>2, OversightAssumption DEF OversightInv, OversightTyped
<1> HIDE DEF since
<1>4. check' = [NoCheck EXCEPT !.step = "begun", !.at = instant, !.since = since]
  BY DEF BeginCheck, since
<1>5. NoCheck \in Checks
  BY EmptySequence DEF NoCheck, Checks
<1>6. /\ check'.step = "begun" /\ check'.at = instant /\ check'.since = since
      /\ check'.read = 0 /\ check'.issues = {}
  BY <1>4 DEF NoCheck
<1>10. check' \in Checks
  BY <1>3, <1>4, <1>5 DEF OversightInv, OversightTyped, Checks
<1>7. OversightTyped'
  BY <1>10, <1>6 DEF OversightInv, OversightTyped, BeginCheck
<1>8. WindowsMeet'
  BY <1>2, <1>3, <1>6 DEF WindowsMeet, BeginCheck
<1>9. IssuesAreRead'
  BY <1>6 DEF IssuesAreRead
<1> QED BY <1>1, <1>7, <1>8, <1>9 DEF OversightInv

\* A check that goes on keeps its window; it may begin to know its issues.
LEMMA CheckGoesOn ==
    ASSUME OversightInv, Checking, UNCHANGED <<instant, note, notes, status, lastCheck>>,
           check' \in Checks, check'.at = check.at, check'.since = check.since,
           IssuesAreRead'
    PROVE  OversightInv'
<1>1. UnseenSince' /\ ProblemsAreReported'
  BY HistoryRests
<1>2. OversightTyped'
  BY DEF OversightInv, OversightTyped
<1>3. WindowsMeet'
  BY DEF OversightInv, WindowsMeet, Checking
<1> QED BY <1>1, <1>2, <1>3 DEF OversightInv

LEMMA StatusRead == ASSUME OversightInv, ReadStatus PROVE OversightInv'
<1>1. /\ check' \in Checks /\ check'.at = check.at /\ check'.since = check.since
      /\ check'.step = "status" /\ check'.read = check.read
      /\ check'.issues = check.issues
  BY DEF OversightInv, OversightTyped, ReadStatus, Checks
<1>2. Checking
  BY DEF Checking, ReadStatus
<1>3. IssuesAreRead'
  BY <1>1 DEF OversightInv, IssuesAreRead, ReadStatus
<1> QED BY <1>1, <1>2, <1>3, CheckGoesOn DEF ReadStatus

LEMMA HistoryRead ==
    ASSUME OversightInv, NEW other \in BOOLEAN, Assess(other)
    PROVE  OversightInv'
<1> DEFINE issues == {k \in Window : notes[k].problem}
           found == <<issues # {}, check.current, other>>
<1>1. notes \in Seq(Notes) /\ check \in Checks
  BY DEF OversightInv, OversightTyped
<1>2. Len(notes) \in Nat /\ DOMAIN notes = 1..Len(notes)
  BY <1>1
<1>3. issues = {k \in 1..Len(notes) :
         notes[k].problem /\ check.since < notes[k].at /\ notes[k].at <= check.at}
  BY <1>2 DEF Window
<1>4. issues \in SUBSET Nat
  BY <1>2, <1>3
<1>5. found \in Seq(BOOLEAN)
  <2>1. check.current \in BOOLEAN
    BY <1>1 DEF Checks
  <2> QED BY <2>1
<1> HIDE DEF issues, found
<1>6. check' = [check EXCEPT !.step = "read", !.read = Len(notes), !.issues = issues,
                             !.signature = found]
  BY DEF Assess, issues, found
<1>7. check' \in Checks
  BY <1>1, <1>2, <1>4, <1>5, <1>6 DEF Checks
<1>8. /\ check'.at = check.at /\ check'.since = check.since /\ check'.step = "read"
      /\ check'.read = Len(notes) /\ check'.issues = issues
  BY <1>1, <1>6 DEF Checks
<1>9. IssuesAreRead'
  BY <1>2, <1>3, <1>8 DEF IssuesAreRead, Assess
<1>10. Checking
  BY DEF Checking, Assess
<1> QED BY <1>7, <1>8, <1>9, <1>10, CheckGoesOn DEF Assess

LEMMA ReadingRaises == ASSUME OversightInv, AssessRaises PROVE OversightInv'
<1> DEFINE found == <<FALSE, FALSE, TRUE>>
<1>1. found \in Seq(BOOLEAN)
  OBVIOUS
<1> HIDE DEF found
<1>2. check' = [check EXCEPT !.step = "read", !.signature = found]
  BY DEF AssessRaises, found
<1>3. check \in Checks
  BY DEF OversightInv, OversightTyped
<1>4. check' \in Checks
  BY <1>1, <1>2, <1>3 DEF Checks
<1>5. /\ check'.at = check.at /\ check'.since = check.since /\ check'.step = "read"
      /\ check'.read = check.read /\ check'.issues = check.issues
  BY <1>2, <1>3 DEF Checks
<1>6. check.read = 0 /\ check.issues = {}
  BY DEF OversightInv, IssuesAreRead, AssessRaises
<1>7. Len(notes) \in Nat
  BY DEF OversightInv, OversightTyped
<1>8. IssuesAreRead'
  <2>1. notes' = notes
    BY DEF AssessRaises
  <2>2. check'.read <= Len(notes') /\ 1..check'.read = {}
    BY <1>5, <1>6, <1>7, <2>1
  <2> QED BY <1>5, <1>6, <2>2 DEF IssuesAreRead
<1>9. Checking
  BY DEF Checking, AssessRaises
<1> QED BY <1>4, <1>5, <1>8, <1>9, CheckGoesOn DEF AssessRaises

LEMMA IssuesShown ==
    ASSUME OversightInv, NEW submitted \in BOOLEAN, Notify(submitted)
    PROVE  OversightInv'
<1>1. check' = [check EXCEPT !.step = "notified", !.shown = submitted]
  BY DEF Notify
<1>2. check \in Checks
  BY DEF OversightInv, OversightTyped
<1>3. check' \in Checks
  BY <1>1, <1>2 DEF Checks
<1>4. /\ check'.at = check.at /\ check'.since = check.since
      /\ check'.step = "notified"
      /\ check'.read = check.read /\ check'.issues = check.issues
  BY <1>1, <1>2 DEF Checks
<1>5. IssuesAreRead'
  BY <1>4 DEF OversightInv, IssuesAreRead, Notify
<1>6. Checking
  BY DEF Checking, Notify
<1> QED BY <1>3, <1>4, <1>5, <1>6, CheckGoesOn DEF Notify

\* The end of a check, killed or complete, leaves nothing of its own.
LEMMA CheckEnds ==
    ASSUME OversightInv, AppendCheck \/ CheckDies
    PROVE  OversightInv'
<1>1. UnseenSince' /\ ProblemsAreReported'
  BY HistoryRests DEF AppendCheck, CheckDies
<1>2. check' = NoCheck
  BY DEF AppendCheck, CheckDies
<1>3. check'.step = "off" /\ check'.at = 0 /\ check' \in Checks
  BY <1>2, EmptySequence DEF NoCheck, Checks
<1>4. OversightTyped'
  BY <1>3, OversightAssumption
  DEF OversightInv, OversightTyped, AppendCheck, CheckDies
<1>5. WindowsMeet' /\ IssuesAreRead'
  BY <1>3 DEF WindowsMeet, IssuesAreRead, Checking
<1> QED BY <1>1, <1>4, <1>5 DEF OversightInv

\* What a check that is written does to one note.
LEMMA NoteRecorded ==
    ASSUME OversightInv, check.step \in {"read", "notified"}, NEW k \in DOMAIN notes
    PROVE  /\ Recorded(k) \in Notes
           /\ Recorded(k).at = notes[k].at /\ Recorded(k).problem = notes[k].problem
           /\ k \in check.issues => Recorded(k).seen = notes[k].seen + 1
           /\ k \notin check.issues => Recorded(k).seen = notes[k].seen
           /\ notes[k].missed => Recorded(k).missed
           /\ k \in Window /\ k > check.read => Recorded(k).missed
<1>1. notes[k] \in Notes /\ check.read \in Nat
  BY DEF OversightInv, OversightTyped, Checks
<1>2. k \in Window /\ k > check.read => k \notin check.issues
  BY <1>1 DEF OversightInv, IssuesAreRead
<1>3. CASE k \in check.issues
  BY <1>1, <1>2, <1>3 DEF Recorded, Notes
<1>4. CASE k \notin check.issues /\ k \in Window /\ k > check.read
  BY <1>1, <1>4 DEF Recorded, Notes
<1>5. CASE k \notin check.issues /\ ~(k \in Window /\ k > check.read)
  BY <1>1, <1>5 DEF Recorded, Notes
<1> QED BY <1>3, <1>4, <1>5

LEMMA CheckWritten == ASSUME OversightInv, WriteCheck PROVE OversightInv'
<1>1. check.step \in {"read", "notified"} /\ Checking
  BY DEF WriteCheck, Checking
<1>2. check \in Checks /\ notes \in Seq(Notes) /\ instant \in Nat
  BY DEF OversightInv, OversightTyped
<1>3. check.at \in Nat /\ check.since \in Nat /\ check.read \in Nat
  BY <1>2 DEF Checks
<1> DEFINE before == IF lastCheck # <<>> THEN lastCheck[1]
                     ELSE [origin |-> check.since, alertAt |-> 0, signature |-> <<>>]
           alertAt == IF check.shown THEN check.at ELSE before.alertAt
           signature == IF check.shown THEN check.signature ELSE before.signature
           l == [at |-> check.at, origin |-> before.origin, alertAt |-> alertAt,
                 signature |-> signature]
<1>4. /\ lastCheck # <<>> => lastCheck[1] \in LastChecks /\ before = lastCheck[1]
      /\ lastCheck = <<>> => before.origin = check.since
  BY DEF OversightInv, OversightTyped
<1>5. before.origin \in Nat /\ before.alertAt \in Nat /\ before.signature \in Seq(BOOLEAN)
  <2>1. CASE lastCheck = <<>> BY <2>1, <1>3, EmptySequence
  <2>2. CASE lastCheck # <<>> BY <2>2, <1>4 DEF LastChecks
  <2> QED BY <2>1, <2>2
<1>6. lastCheck' = <<l>>
  BY DEF WriteCheck
<1> HIDE DEF before
<1>7. alertAt \in Nat /\ signature \in Seq(BOOLEAN)
  BY <1>2, <1>3, <1>5 DEF Checks
<1> HIDE DEF alertAt, signature
<1>8. l \in LastChecks /\ l.at = check.at /\ l.origin = before.origin
  BY <1>3, <1>5, <1>7 DEF LastChecks
<1> HIDE DEF l
<1>9. /\ lastCheck' # <<>> /\ lastCheck'[1] = l /\ lastCheck'[1].at = check.at
      /\ lastCheck'[1].origin = before.origin
  BY <1>6, <1>8
<1>10. /\ notes' = [k \in DOMAIN notes |-> Recorded(k)]
       /\ DOMAIN notes = 1..Len(notes) /\ Len(notes) \in Nat
  BY <1>2 DEF WriteCheck
<1>11. \A k \in 1..Len(notes) : Recorded(k) \in Notes
  BY <1>1, <1>10, NoteRecorded
<1>12. notes' \in Seq(Notes) /\ DOMAIN notes' = DOMAIN notes
  BY <1>10, <1>11
<1>13. \A k \in DOMAIN notes : notes'[k] = Recorded(k)
  BY <1>10
<1>14. /\ check'.step = "written" /\ check'.at = 0 /\ check' \in Checks
  BY EmptySequence DEF WriteCheck, NoCheck, Checks
<1>15. OversightTyped'
  <2>1. check.at <= instant /\ instant >= Hour
    BY DEF OversightInv, OversightTyped
  <2> QED BY <1>2, <1>6, <1>8, <1>9, <1>12, <1>14, <2>1
          DEF OversightInv, OversightTyped, WriteCheck
<1>16. WindowsMeet' /\ IssuesAreRead'
  BY <1>14 DEF WindowsMeet, IssuesAreRead, Checking
<1>17. lastCheck # <<>> => /\ lastCheck[1].at = check.since
                           /\ check.since <= check.at
  BY <1>1 DEF OversightInv, WindowsMeet
<1>18. check.issues = {k \in 1..check.read :
         notes[k].problem /\ check.since < notes[k].at /\ notes[k].at <= check.at}
  BY <1>1 DEF OversightInv, IssuesAreRead
<1>19. \A k \in DOMAIN notes : notes[k].at \in Nat /\ notes[k].seen \in Nat
  <2> SUFFICES ASSUME NEW k \in DOMAIN notes PROVE notes[k] \in Notes
    BY DEF Notes
  <2> QED BY <1>2, <1>10
<1>20. \A k \in check.issues : k \in DOMAIN notes => notes[k].seen = 0
  BY <1>3, <1>17, <1>18, <1>19 DEF OversightInv, UnseenSince
<1>21. UnseenSince'
  <2> SUFFICES ASSUME NEW k \in DOMAIN notes, notes'[k].at > check.at
               PROVE  notes'[k].seen = 0
    BY <1>9, <1>12 DEF UnseenSince
  <2>1. notes[k].at > check.at /\ k \notin check.issues
    BY <1>1, <1>3, <1>13, <1>18, <1>19, NoteRecorded
  <2>2. notes'[k].seen = notes[k].seen
    BY <1>1, <1>13, <2>1, NoteRecorded
  <2>3. lastCheck = <<>> \/ notes[k].at > lastCheck[1].at
    BY <1>3, <1>17, <1>19, <2>1
  <2> QED BY <2>2, <2>3 DEF OversightInv, UnseenSince
<1>22. ProblemsAreReported'
  <2> SUFFICES ASSUME NEW k \in DOMAIN notes, notes'[k].problem
               PROVE  /\ notes'[k].seen <= 1
                      /\ \/ notes'[k].at <= before.origin
                         \/ notes'[k].at > check.at
                         \/ notes'[k].missed \/ notes'[k].seen = 1
    BY <1>9, <1>12 DEF ProblemsAreReported
  <2>1. /\ notes'[k].at = notes[k].at /\ notes[k].problem
        /\ notes[k].missed => notes'[k].missed
        /\ k \in Window /\ k > check.read => notes'[k].missed
        /\ k \in check.issues => notes'[k].seen = notes[k].seen + 1
        /\ k \notin check.issues => notes'[k].seen = notes[k].seen
    BY <1>1, <1>13, NoteRecorded
  <2>2. /\ notes[k].seen <= 1
        /\ lastCheck # <<>> =>
             \/ notes[k].at <= lastCheck[1].origin \/ notes[k].at > lastCheck[1].at
             \/ notes[k].missed \/ notes[k].seen = 1
    BY <2>1 DEF OversightInv, ProblemsAreReported
  <2>3. CASE k \in check.issues
    BY <1>19, <1>20, <2>1, <2>3
  <2>4. CASE k \notin check.issues
    <3>1. CASE notes[k].at > check.at
      BY <2>1, <2>2, <2>4, <3>1
    <3>2. CASE check.since < notes[k].at /\ notes[k].at <= check.at
      <4>1. k \in Window /\ k \in 1..Len(notes)
        BY <1>10, <3>2 DEF Window
      <4>2. k > check.read
        BY <1>3, <1>18, <2>1, <2>4, <3>2, <4>1
      <4> QED BY <2>1, <2>2, <2>4, <4>1, <4>2
    <3>3. CASE notes[k].at <= check.since
      <4>1. CASE lastCheck = <<>>
        BY <1>4, <2>1, <2>2, <2>4, <3>3, <4>1
      <4>2. CASE lastCheck # <<>>
        <5>1. before.origin = lastCheck[1].origin /\ lastCheck[1].at = check.since
          BY <1>4, <1>17, <4>2
        <5>2. ~(notes[k].at > lastCheck[1].at)
          BY <1>3, <1>19, <3>3, <5>1
        <5> QED BY <2>1, <2>2, <2>4, <4>2, <5>1, <5>2
      <4> QED BY <4>1, <4>2
    <3> QED BY <1>3, <1>19, <3>1, <3>2, <3>3
  <2> QED BY <2>3, <2>4
<1> QED BY <1>15, <1>16, <1>21, <1>22 DEF OversightInv

LEMMA OversightKept ==
    ASSUME OversightInv, [OversightNext]_oversightVars PROVE OversightInv'
<1>1. CASE OversightNext
  BY <1>1, GuardianNotes, NoteAppended, CheckBegins, StatusRead, HistoryRead,
     ReadingRaises, IssuesShown, CheckWritten, CheckEnds DEF OversightNext
<1>2. CASE UNCHANGED oversightVars
  BY <1>2 DEF oversightVars, OversightInv, OversightTyped, WindowsMeet,
     IssuesAreRead, UnseenSince, ProblemsAreReported, Checking
<1> QED BY <1>1, <1>2

\* ProblemsAreReported in every state: whatever process is killed when, a
\* problem the guardian noted is recorded by one check, the first that covers
\* it, unless its note was in flight as that check read (training_healthcheck.py).
THEOREM ProblemsAlwaysReported == OversightSpec => []ProblemsAreReported
<1>1. OversightInv => ProblemsAreReported
  BY DEF OversightInv
<1> QED BY <1>1, OversightBegins, OversightKept, PTL DEF OversightSpec
(***************************************************************************)
(* The registry.  A row that says its artifacts are copied is entered only *)
(* where they are, and a snapshot brings them before it brings the row.    *)
(***************************************************************************)

Via == {"workspace", "export"}
Rows == [kind : {"run"}, record : Records, via : Via, copied : BOOLEAN,
         sources : SUBSET Records, audited : BOOLEAN, dashboard : BOOLEAN,
         status : {"candidate", "exploratory"}]
Supersessions == [kind : {"supersede"}, old : Records, new : Records]
Entries == Rows \cup Supersessions
Parcels == [index : Seq(Entries), copies : SUBSET Records, sources : SUBSET Records]
Promotions ==
  {p \in [op : {"promote"}, via : Via, todo : Seq(Records), copy : BOOLEAN,
          sources : SUBSET Records, dashboard : BOOLEAN] : p.todo # <<>>}
Idles == {ClerkIdle}
Clerks == Idles \cup Promotions \cup [op : {"manifest"}, next : Idles \cup Promotions]
          \cup [op : {"snapshot", "index"}, parcel : Parcels]

RegistryTyped ==
  /\ exports \in [Cases -> {"none", "verified", "lost", "archived"}]
  /\ reports \in [load : BOOLEAN, shown : BOOLEAN]
  /\ index \in [Hosts -> Seq(Entries)]
  /\ torn \subseteq Hosts
  /\ manifest \in [Hosts -> Seq(Seq(Entries))]
  /\ copies \in [Hosts -> SUBSET Records]
  /\ roots \in [Hosts -> {<<>>} \cup (Seq(Entries) \X SUBSET Records)]
  /\ clerk \in [Hosts -> Clerks]
  /\ parcel = <<>> \/ parcel \in Parcels
  /\ losses \in Nat

\* What a row says of itself, and that its artifacts are among those kept.
RowHolds(e, kept) ==
  /\ e.status = StatusOf(e.via, e.sources, e.audited)
  /\ e.copied => e.record \in kept
EventsHold(events, kept) ==
  \A i \in DOMAIN events : events[i].kind = "run" => RowHolds(events[i], kept)

\* The same of the pack, and of the snapshot that a host is receiving: the
\* index is the last file of it.
Receiving == clerk["mirror"].op \in {"snapshot", "index"}
RowsHold ==
  /\ \A h \in Hosts : EventsHold(index[h], copies[h])
  /\ parcel # <<>> => EventsHold(parcel.index, parcel.copies)
  /\ Receiving => EventsHold(Snapshot.index, Snapshot.copies)
  /\ clerk["mirror"].op = "index" => Snapshot.copies \subseteq copies["mirror"]

RegistryInv == RegistryTyped /\ RowsHold

LEMMA RegistryBegins == ASSUME RegistryInit PROVE RegistryInv
<1>1. RegistryTyped
  BY EmptySequence, RegistryAssumption
  DEF RegistryInit, RegistryTyped, Clerks, Idles
<1>2. RowsHold
  BY DEF RegistryInit, RowsHold, EventsHold, Receiving, ClerkIdle, Hosts
<1> QED BY <1>1, <1>2 DEF RegistryInv

\* The entry of a run is one of its rows.
LEMMA EntryIsARow ==
    ASSUME NEW events, NEW r \in RunsOf(events)
    PROVE  \E i \in DOMAIN events : /\ Entry(events, r) = events[i]
                                    /\ events[i].kind = "run" /\ events[i].record = r
BY DEF Entry, RunsOf

\* What is kept only grows.
LEMMA HoldsWithMore ==
    ASSUME NEW events, NEW kept, NEW more, kept \subseteq more,
           EventsHold(events, kept)
    PROVE  EventsHold(events, more)
BY DEF EventsHold, RowHolds

LEMMA RowsRest ==
    ASSUME RegistryInv, UNCHANGED <<index, parcel>>,
           \A h \in Hosts : copies[h] \subseteq copies'[h],
           \/ clerk'["mirror"] = clerk["mirror"]
           \/ clerk'["mirror"].op \notin {"snapshot", "index"}
    PROVE  RowsHold'
<1>1. \A h \in Hosts : EventsHold(index'[h], copies'[h])
  <2> TAKE h \in Hosts
  <2>1. EventsHold(index[h], copies[h])
    BY DEF RegistryInv, RowsHold
  <2> QED BY <2>1, HoldsWithMore
<1>2. parcel' # <<>> => EventsHold(parcel'.index, parcel'.copies)
  BY DEF RegistryInv, RowsHold
<1>3. CASE clerk'["mirror"] = clerk["mirror"]
  <2>1. Receiving' => EventsHold(Snapshot'.index, Snapshot'.copies)
    BY <1>3 DEF RegistryInv, RowsHold, Receiving, Snapshot
  <2>2. clerk'["mirror"].op = "index" => Snapshot'.copies \subseteq copies'["mirror"]
    BY <1>3 DEF RegistryInv, RowsHold, Snapshot, Hosts
  <2> QED BY <1>1, <1>2, <2>1, <2>2 DEF RowsHold
<1>4. CASE clerk'["mirror"].op \notin {"snapshot", "index"}
  BY <1>1, <1>2, <1>4 DEF RowsHold, Receiving
<1> QED BY <1>3, <1>4

LEMMA WorkspaceGoesOn ==
    ASSUME RegistryInv,
           \/ RebuildViews \/ MatrixKilled \/ ResetWorkspace
           \/ \E c \in Cases : FileExport(c) \/ LoseExport(c)
    PROVE  RegistryInv'
<1>1. RowsHold'
  <2>1. UNCHANGED <<index, parcel, copies, clerk>>
    BY DEF RebuildViews, MatrixKilled, ResetWorkspace, FileExport, LoseExport
  <2> QED BY <2>1, RowsRest
<1>2. UNCHANGED <<index, torn, manifest, copies, roots, clerk, parcel>>
  BY DEF RebuildViews, MatrixKilled, ResetWorkspace, FileExport, LoseExport
<1>3. exports' \in [Cases -> {"none", "verified", "lost", "archived"}]
  BY DEF RebuildViews, MatrixKilled, ResetWorkspace, FileExport, LoseExport,
         RegistryInv, RegistryTyped
<1>4. reports' \in [load : BOOLEAN, shown : BOOLEAN] /\ losses' \in Nat
  <2>1. reports \in [load : BOOLEAN, shown : BOOLEAN] /\ losses \in Nat
    BY DEF RegistryInv, RegistryTyped
  <2>2. CASE RebuildViews
    BY <2>1, <2>2 DEF RebuildViews
  <2>5. CASE MatrixKilled
    <3>1. reports' = [reports EXCEPT !.load = FALSE]
      BY <2>5 DEF MatrixKilled
    <3>2. reports' \in [load : BOOLEAN, shown : BOOLEAN]
      BY <2>1, <3>1
    <3>3. losses' \in Nat
      BY <2>1, <2>5 DEF MatrixKilled
    <3> QED BY <3>2, <3>3
  <2>3. CASE ResetWorkspace
    BY <2>1, <2>3 DEF ResetWorkspace
  <2>4. CASE \E c \in Cases : FileExport(c) \/ LoseExport(c)
    BY <2>1, <2>4 DEF FileExport, LoseExport
  <2> QED BY <2>2, <2>3, <2>4, <2>5
<1> QED BY <1>1, <1>2, <1>3, <1>4 DEF RegistryInv, RegistryTyped

LEMMA IdleIsAClerk == ClerkIdle \in Clerks /\ ClerkIdle.op = "idle"
BY DEF Clerks, Idles, ClerkIdle

\* The cases of a workspace as a sequence: each of them, and not none.
LEMMA BundlesInOrder ==
    ASSUME RegistryTyped, Bundles # {}
    PROVE  SetToSeq(Bundles) \in Seq(Records) /\ SetToSeq(Bundles) # <<>>
<1>1. Bundles \subseteq Cases /\ Bundles \subseteq Records
  BY DEF Bundles, Records
<1>2. IsFiniteSet(Bundles)
  BY <1>1, RegistryAssumption, FS_Subset
<1> DEFINE n == Cardinality(Bundles)
<1>3. n \in Nat /\ n # 0 /\ ExistsBijection(1..n, Bundles)
  BY <1>2, FS_CardinalityType, FS_EmptySet
<1> HIDE DEF n
<1>4. \E f \in [1..n -> Bundles] : IsInjective(f)
  <2>1. PICK f \in Bijection(1..n, Bundles) : TRUE
    BY <1>3 DEF ExistsBijection
  <2>2. f \in [1..n -> Bundles] /\ \A a, b \in 1..n : f[a] = f[b] => a = b
    BY <2>1 DEF Bijection, Injection, IsInjective
  <2> QED BY <2>2 DEF IsInjective
<1>5. SetToSeq(Bundles) \in [1..n -> Bundles]
  BY <1>4 DEF SetToSeq, n
<1>6. SetToSeq(Bundles) \in [1..n -> Records]
  BY <1>1, <1>5
<1>7. DOMAIN SetToSeq(Bundles) # {}
  BY <1>3, <1>6, SMTT(30)
<1> QED BY <1>3, <1>6, <1>7

LEMMA PromotionBegins ==
    ASSUME RegistryInv, NEW h \in Hosts, NEW via \in Via, NEW r \in Records,
           NEW copy \in Copying, BeginPromote(h, via, r, copy)
    PROVE  RegistryInv'
<1>1. copy \in BOOLEAN
  BY RegistryAssumption
<1>2. \E p \in Promotions : clerk' = [clerk EXCEPT ![h] = p]
  <2>1. CASE /\ via = "workspace" /\ Bundles # {}
             /\ clerk' = [clerk EXCEPT ![h] =
                  [op |-> "promote", via |-> via, todo |-> SetToSeq(Bundles),
                   copy |-> copy, sources |-> Bundles, dashboard |-> reports.shown]]
    <3>1. /\ SetToSeq(Bundles) \in Seq(Records) /\ SetToSeq(Bundles) # <<>>
          /\ Bundles \subseteq Records /\ reports.shown \in BOOLEAN
      BY <2>1, BundlesInOrder DEF RegistryInv, RegistryTyped, Bundles, Records
    <3> QED BY <1>1, <2>1, <3>1 DEF Promotions
  <2>2. CASE clerk' = [clerk EXCEPT ![h] =
               [op |-> "promote", via |-> via, todo |-> <<r>>, copy |-> copy,
                sources |-> {r}, dashboard |-> FALSE]]
    <3>1. <<r>> \in Seq(Records) /\ <<r>> # <<>>
      OBVIOUS
    <3> QED BY <1>1, <2>2, <3>1 DEF Promotions
  <2> QED BY <2>1, <2>2 DEF BeginPromote
<1>3. PICK p \in Promotions : clerk' = [clerk EXCEPT ![h] = p]
  BY <1>2
<1>4. p \in Clerks /\ p.op = "promote"
  BY DEF Promotions, Clerks
<1>5. UNCHANGED <<exports, reports, index, torn, manifest, copies, roots, parcel, losses>>
  BY DEF BeginPromote, sourceVars
<1>6. RegistryTyped'
  BY <1>3, <1>4, <1>5 DEF RegistryInv, RegistryTyped
<1>7. \/ clerk'["mirror"] = clerk["mirror"]
      \/ clerk'["mirror"].op \notin {"snapshot", "index"}
  BY <1>3, <1>4 DEF RegistryInv, RegistryTyped, Hosts
<1>8. RowsHold'
  BY <1>5, <1>7, RowsRest
<1> QED BY <1>6, <1>8 DEF RegistryInv

LEMMA PromotionTyped ==
    ASSUME RegistryTyped, NEW h \in Hosts, Promoting(h)
    PROVE  clerk[h] \in Promotions /\ Now(h) \in Records
<1>1. clerk[h] \in Promotions
  <2>1. clerk[h] \in Clerks /\ clerk[h].op = "promote"
    BY DEF RegistryTyped, Promoting
  <2>2. clerk[h] \notin Idles
    BY <2>1 DEF Idles, ClerkIdle
  <2>3. clerk[h] \notin [op : {"manifest"}, next : Idles \cup Promotions]
    BY <2>1
  <2>4. clerk[h] \notin [op : {"snapshot", "index"}, parcel : Parcels]
    BY <2>1
  <2> QED BY <2>1, <2>2, <2>3, <2>4 DEF Clerks
<1>2. clerk[h].todo \in Seq(Records) /\ clerk[h].todo # <<>>
  BY <1>1 DEF Promotions
<1> QED BY <1>1, <1>2 DEF Now

LEMMA AdvancedTyped ==
    ASSUME RegistryTyped, NEW h \in Hosts, Promoting(h)
    PROVE  Advanced(h) \in Idles \cup Promotions
<1>1. CASE Len(clerk[h].todo) = 1
  BY <1>1 DEF Advanced, Idles
<1>2. CASE Len(clerk[h].todo) # 1
  <2>1. clerk[h] \in Promotions
    BY PromotionTyped
  <2>2. clerk[h].todo \in Seq(Records) /\ clerk[h].todo # <<>>
    BY <2>1 DEF Promotions
  <2> DEFINE rest == Tail(clerk[h].todo)
  <2>3. rest \in Seq(Records) /\ rest # <<>>
    <3>1. /\ Len(clerk[h].todo) \in Nat /\ Len(clerk[h].todo) # 0
          /\ rest \in Seq(Records) /\ Len(rest) = Len(clerk[h].todo) - 1
      BY <2>2
    <3>2. Len(rest) # 0 BY <1>2, <3>1
    <3>3. Len(<<>>) = 0 OBVIOUS
    <3> QED BY <3>1, <3>2, <3>3
  <2>4. Advanced(h) = [clerk[h] EXCEPT !.todo = rest]
    BY <1>2 DEF Advanced
  <2> HIDE DEF rest
  <2>5. Advanced(h) \in Promotions
    BY <2>1, <2>3, <2>4 DEF Promotions
  <2> QED BY <2>5
<1> QED BY <1>1, <1>2

\* Steps of a clerk that goes on promoting, or stops, and enters nothing.
LEMMA ClerkGoesOn ==
    ASSUME RegistryInv, NEW h \in Hosts, NEW p \in Idles \cup Promotions,
           clerk' = [clerk EXCEPT ![h] = p],
           UNCHANGED <<exports, reports, index, copies, roots, parcel>>,
           torn' \subseteq Hosts, manifest' \in [Hosts -> Seq(Seq(Entries))],
           losses' \in Nat
    PROVE  RegistryInv'
<1>1. p \in Clerks /\ p.op \in {"idle", "promote"}
  BY DEF Idles, ClerkIdle, Promotions, Clerks
<1>2. RegistryTyped'
  BY <1>1 DEF RegistryInv, RegistryTyped
<1>3. \/ clerk'["mirror"] = clerk["mirror"]
      \/ clerk'["mirror"].op \notin {"snapshot", "index"}
  BY <1>1 DEF RegistryInv, RegistryTyped, Hosts
<1>4. RowsHold'
  BY <1>3, RowsRest
<1> QED BY <1>2, <1>4 DEF RegistryInv

LEMMA KnownSkipped ==
    ASSUME RegistryInv, NEW h \in Hosts, PromoteKnown(h)
    PROVE  RegistryInv'
<1>1. Advanced(h) \in Idles \cup Promotions
  BY AdvancedTyped DEF PromoteKnown, RegistryInv
<1>2. \E p \in Idles \cup Promotions : clerk' = [clerk EXCEPT ![h] = p]
  BY <1>1 DEF PromoteKnown, Idles
<1>3. /\ UNCHANGED <<exports, reports, index, copies, roots, parcel>>
      /\ torn' = torn /\ manifest' = manifest /\ losses' = losses
  BY DEF PromoteKnown, sourceVars
<1>4. /\ torn \subseteq Hosts /\ losses \in Nat
      /\ manifest \in [Hosts -> Seq(Seq(Entries))]
  BY DEF RegistryInv, RegistryTyped
<1> QED BY <1>2, <1>3, <1>4, ClerkGoesOn

LEMMA ClerkKilled ==
    ASSUME RegistryInv, NEW h \in Hosts, ClerkDies(h)
    PROVE  RegistryInv'
<1>1. /\ UNCHANGED <<exports, reports, index, copies, roots, parcel>>
      /\ torn' \in {torn, torn \cup {h}} /\ manifest' = manifest
      /\ losses' = losses - 1 /\ losses > 0
      /\ clerk' = [clerk EXCEPT ![h] = ClerkIdle]
  BY DEF ClerkDies, sourceVars
<1>2. /\ torn \subseteq Hosts /\ losses \in Nat
      /\ manifest \in [Hosts -> Seq(Seq(Entries))]
  BY DEF RegistryInv, RegistryTyped
<1>3. torn' \subseteq Hosts /\ losses' \in Nat
  BY <1>1, <1>2
<1> QED BY <1>1, <1>2, <1>3, ClerkGoesOn DEF Idles

LEMMA ManifestRenewed ==
    ASSUME RegistryInv, NEW h \in Hosts, WriteManifest(h) \/ RegistryReport(h)
    PROVE  RegistryInv'
<1>1. /\ UNCHANGED <<exports, reports, index, copies, roots, parcel>>
      /\ torn' = torn /\ losses' = losses
      /\ manifest' = [manifest EXCEPT ![h] = <<index[h]>>]
  BY DEF WriteManifest, RegistryReport, sourceVars
<1>2. /\ torn \subseteq Hosts /\ losses \in Nat
      /\ manifest \in [Hosts -> Seq(Seq(Entries))] /\ index[h] \in Seq(Entries)
      /\ clerk \in [Hosts -> Clerks]
  BY DEF RegistryInv, RegistryTyped
<1>3. manifest' \in [Hosts -> Seq(Seq(Entries))]
  <2>1. <<index[h]>> \in Seq(Seq(Entries))
    BY <1>2
  <2> QED BY <1>1, <1>2, <2>1
<1>4. \E p \in Idles \cup Promotions : clerk' = [clerk EXCEPT ![h] = p]
  <2>1. CASE WriteManifest(h)
    <3>1. clerk[h] \in Clerks /\ clerk[h].op = "manifest"
      BY <1>2, <2>1 DEF WriteManifest
    <3>2. clerk[h] \notin Idles
      BY <3>1 DEF Idles, ClerkIdle
    <3>3. clerk[h] \notin Promotions
      BY <3>1 DEF Promotions
    <3>4. clerk[h] \notin [op : {"snapshot", "index"}, parcel : Parcels]
      BY <3>1
    <3>5. clerk[h] \in [op : {"manifest"}, next : Idles \cup Promotions]
      BY <3>1, <3>2, <3>3, <3>4 DEF Clerks
    <3>6. clerk[h].next \in Idles \cup Promotions
      BY <3>5
    <3> QED BY <2>1, <3>6 DEF WriteManifest
  <2>2. CASE RegistryReport(h)
    <3>1. clerk' = [clerk EXCEPT ![h] = ClerkIdle]
      BY <1>2, <2>2 DEF RegistryReport
    <3> QED BY <3>1 DEF Idles
  <2> QED BY <2>1, <2>2
<1> QED BY <1>1, <1>2, <1>3, <1>4, ClerkGoesOn

LEMMA ArtifactsCopied ==
    ASSUME RegistryInv, NEW h \in Hosts, CopyArtifacts(h)
    PROVE  RegistryInv'
<1>1. UNCHANGED <<exports, reports, index, torn, manifest, roots, parcel, losses>>
  BY DEF CopyArtifacts, sourceVars
<1>2. copies \in [Hosts -> SUBSET Records] /\ clerk \in [Hosts -> Clerks]
  BY DEF RegistryInv, RegistryTyped
<1>3. CASE ~Original(h, Now(h))
  <2>1. clerk' = [clerk EXCEPT ![h] = ClerkIdle] /\ copies' = copies
    BY <1>3 DEF CopyArtifacts
  <2>2. /\ torn \subseteq Hosts /\ losses \in Nat
        /\ manifest \in [Hosts -> Seq(Seq(Entries))]
    BY DEF RegistryInv, RegistryTyped
  <2> QED BY <1>1, <2>1, <2>2, ClerkGoesOn DEF Idles
<1>4. CASE Original(h, Now(h))
  <2>1. copies' = [copies EXCEPT ![h] = @ \cup {Now(h)}] /\ clerk' = clerk
    BY <1>4 DEF CopyArtifacts
  <2>2. Now(h) \in Records
    BY PromotionTyped DEF CopyArtifacts, RegistryInv
  <2>3. /\ copies' \in [Hosts -> SUBSET Records]
        /\ \A g \in Hosts : copies[g] \subseteq copies'[g]
    BY <1>2, <2>1, <2>2
  <2>4. RegistryTyped'
    BY <1>1, <2>1, <2>3 DEF RegistryInv, RegistryTyped
  <2>5. RowsHold'
    BY <1>1, <2>1, <2>3, RowsRest
  <2> QED BY <2>4, <2>5 DEF RegistryInv
<1> QED BY <1>3, <1>4

\* The row of a promotion is typed and holds what it says.
LEMMA EventTyped ==
    ASSUME RegistryInv, NEW h \in Hosts, Ready(h)
    PROVE  Event(h) \in Rows /\ RowHolds(Event(h), copies[h])
<1>1. clerk[h] \in Promotions /\ Now(h) \in Records
  BY PromotionTyped DEF Ready, RegistryInv
<1> DEFINE shown == clerk[h].via = "workspace" /\ reports.shown
           kept == StatusOf(clerk[h].via, clerk[h].sources, clerk[h].dashboard)
<1>2. /\ clerk[h].via \in Via /\ clerk[h].copy \in BOOLEAN
      /\ clerk[h].sources \in SUBSET Records /\ clerk[h].dashboard \in BOOLEAN
  BY <1>1 DEF Promotions
<1>3. shown \in BOOLEAN /\ kept \in {"candidate", "exploratory"}
  BY DEF StatusOf
<1>4. Event(h) = [kind |-> "run", record |-> Now(h), via |-> clerk[h].via,
                  copied |-> clerk[h].copy, sources |-> clerk[h].sources,
                  audited |-> clerk[h].dashboard, dashboard |-> shown,
                  status |-> kept]
  BY DEF Event, Entered
<1> HIDE DEF shown
<1>5. /\ Event(h).status = kept /\ Event(h).via = clerk[h].via
      /\ Event(h).sources = clerk[h].sources /\ Event(h).audited = clerk[h].dashboard
      /\ Event(h).copied = clerk[h].copy /\ Event(h).record = Now(h)
  BY <1>4
<1>6. clerk[h].copy => Now(h) \in copies[h]
  BY DEF Ready
<1>7. RowHolds(Event(h), copies[h])
  BY <1>5, <1>6 DEF RowHolds
<1> HIDE DEF kept
<1>8. Event(h) \in Rows
  BY <1>1, <1>2, <1>3, <1>4 DEF Rows
<1> QED BY <1>7, <1>8

\* An index that grows by an entry which holds.
LEMMA IndexGrows ==
    ASSUME RegistryInv, NEW h \in Hosts, NEW e \in Entries, NEW p \in Clerks,
           e.kind = "run" => RowHolds(e, copies[h]),
           p.op = "manifest",
           index' = [index EXCEPT ![h] = Append(@, e)],
           clerk' = [clerk EXCEPT ![h] = p],
           UNCHANGED <<exports, reports, torn, manifest, copies, roots, parcel, losses>>
    PROVE  RegistryInv'
<1>1. index \in [Hosts -> Seq(Entries)] /\ clerk \in [Hosts -> Clerks]
  BY DEF RegistryInv, RegistryTyped
<1> DEFINE s == Append(index[h], e)
<1>2. /\ s \in Seq(Entries) /\ Len(s) = Len(index[h]) + 1 /\ Len(index[h]) \in Nat
      /\ s[Len(index[h]) + 1] = e
      /\ \A i \in 1..Len(index[h]) : s[i] = index[h][i]
  BY <1>1
<1>3. index' = [index EXCEPT ![h] = s]
  OBVIOUS
<1> HIDE DEF s
<1>4. RegistryTyped'
  BY <1>1, <1>2, <1>3 DEF RegistryInv, RegistryTyped
<1>5. \A g \in Hosts : EventsHold(index'[g], copies'[g])
  <2> TAKE g \in Hosts
  <2>1. EventsHold(index[g], copies[g])
    BY DEF RegistryInv, RowsHold
  <2>2. CASE g # h
    BY <1>1, <1>3, <2>1, <2>2
  <2>3. CASE g = h
    <3>1. index'[g] = s /\ DOMAIN s = 1..(Len(index[h]) + 1)
          /\ DOMAIN index[h] = 1..Len(index[h])
      BY <1>1, <1>2, <1>3, <2>3
    <3>2. \A i \in DOMAIN s : s[i].kind = "run" => RowHolds(s[i], copies[h])
      <4> TAKE i \in DOMAIN s
      <4>1. CASE i \in 1..Len(index[h])
        BY <1>2, <2>1, <2>3, <3>1, <4>1 DEF EventsHold
      <4>2. CASE i = Len(index[h]) + 1
        BY <1>2, <4>2
      <4> QED BY <1>2, <3>1, <4>1, <4>2
    <3> QED BY <2>3, <3>1, <3>2 DEF EventsHold
  <2> QED BY <2>2, <2>3
<1>6. \/ clerk'["mirror"] = clerk["mirror"]
      \/ clerk'["mirror"].op \notin {"snapshot", "index"}
  BY <1>1 DEF Hosts
<1>7. RowsHold'
  <2>1. CASE clerk'["mirror"] = clerk["mirror"]
    BY <1>5, <2>1 DEF RegistryInv, RowsHold, Receiving, Snapshot
  <2>2. CASE clerk'["mirror"].op \notin {"snapshot", "index"}
    BY <1>5, <2>2 DEF RegistryInv, RowsHold, Receiving
  <2> QED BY <1>6, <2>1, <2>2
<1> QED BY <1>4, <1>7 DEF RegistryInv

LEMMA EventAppended ==
    ASSUME RegistryInv, NEW h \in Hosts, AppendEvent(h)
    PROVE  RegistryInv'
<1>1. Ready(h) /\ Promoting(h)
  BY DEF AppendEvent, Ready
<1>2. CASE Original(h, Now(h)) /\ Len(index[h]) < MaxEvents
  <2> DEFINE p == [op |-> "manifest", next |-> Advanced(h)]
  <2>1. p \in Clerks /\ p.op = "manifest"
    BY <1>1, AdvancedTyped DEF RegistryInv, Clerks
  <2>2. clerk' = [clerk EXCEPT ![h] = p]
    BY <1>2 DEF AppendEvent
  <2> HIDE DEF p
  <2>3. index' = [index EXCEPT ![h] = Append(@, Event(h))]
    BY <1>2 DEF AppendEvent
  <2>4. UNCHANGED <<exports, reports, torn, manifest, copies, roots, parcel, losses>>
    BY DEF AppendEvent, sourceVars
  <2>5. Event(h) \in Entries /\ RowHolds(Event(h), copies[h])
    BY <1>1, EventTyped DEF Entries
  <2> QED BY <2>1, <2>2, <2>3, <2>4, <2>5, IndexGrows
<1>3. CASE ~(Original(h, Now(h)) /\ Len(index[h]) < MaxEvents)
  <2>1. clerk' = [clerk EXCEPT ![h] = ClerkIdle]
    BY <1>3 DEF AppendEvent
  <2>2. /\ UNCHANGED <<exports, reports, index, copies, roots, parcel>>
        /\ torn' = torn /\ manifest' = manifest /\ losses' = losses
    BY <1>3 DEF AppendEvent, sourceVars
  <2>3. /\ torn \subseteq Hosts /\ losses \in Nat
        /\ manifest \in [Hosts -> Seq(Seq(Entries))]
    BY DEF RegistryInv, RegistryTyped
  <2> QED BY <2>1, <2>2, <2>3, ClerkGoesOn DEF Idles
<1> QED BY <1>2, <1>3

LEMMA RunsTyped ==
    ASSUME RegistryTyped, NEW events \in Seq(Entries), NEW r \in RunsOf(events)
    PROVE  r \in Records /\ Entry(events, r) \in Rows
<1>1. PICK i \in DOMAIN events : /\ Entry(events, r) = events[i]
                                 /\ events[i].kind = "run" /\ events[i].record = r
  BY EntryIsARow
<1>2. events[i] \in Entries
  BY <1>1
<1>3. events[i] \in Rows
  BY <1>1, <1>2 DEF Entries, Supersessions
<1> QED BY <1>1, <1>3 DEF Rows

LEMMA RunSuperseded ==
    ASSUME RegistryInv, NEW h \in Hosts, NEW old \in RunsOf(index[h]),
           NEW new \in RunsOf(index[h]), Supersede(h, old, new)
    PROVE  RegistryInv'
<1> DEFINE e == [kind |-> "supersede", old |-> old, new |-> new]
           p == [op |-> "manifest", next |-> ClerkIdle]
<1>1. old \in Records /\ new \in Records
  BY RunsTyped DEF RegistryInv, RegistryTyped
<1>2. e \in Entries /\ e.kind # "run"
  BY <1>1 DEF Entries, Supersessions
<1>3. p \in Clerks /\ p.op = "manifest"
  BY DEF Clerks, Idles
<1>4. index' = [index EXCEPT ![h] = Append(@, e)] /\ clerk' = [clerk EXCEPT ![h] = p]
  BY DEF Supersede
<1> HIDE DEF e, p
<1>5. UNCHANGED <<exports, reports, torn, manifest, copies, roots, parcel, losses>>
  BY DEF Supersede, sourceVars
<1> QED BY <1>2, <1>3, <1>4, <1>5, IndexGrows

LEMMA Packed == ASSUME RegistryInv, Pack PROVE RegistryInv'
<1> DEFINE found == UNION {Entry(index["lab"], r).sources : r \in RunsOf(index["lab"])}
           p == [index |-> index["lab"], copies |-> copies["lab"], sources |-> found]
<1>1. /\ "lab" \in Hosts /\ index["lab"] \in Seq(Entries)
      /\ copies["lab"] \in SUBSET Records
  BY DEF RegistryInv, RegistryTyped, Hosts
<1>2. found \in SUBSET Records
  <2>1. \A r \in RunsOf(index["lab"]) : Entry(index["lab"], r).sources \in SUBSET Records
    BY <1>1, RunsTyped DEF RegistryInv, Rows
  <2> QED BY <2>1
<1>3. parcel' = p
  BY DEF Pack
<1> HIDE DEF found
<1>4. /\ p \in Parcels /\ p.index = index["lab"] /\ p.copies = copies["lab"]
  BY <1>1, <1>2 DEF Parcels
<1> HIDE DEF p
<1>5. UNCHANGED <<exports, reports, index, torn, manifest, copies, roots, clerk, losses>>
  BY DEF Pack, sourceVars
<1>6. RegistryTyped'
  BY <1>3, <1>4, <1>5 DEF RegistryInv, RegistryTyped
<1>7. EventsHold(parcel'.index, parcel'.copies)
  BY <1>1, <1>3, <1>4 DEF RegistryInv, RowsHold
<1>8. RowsHold'
  BY <1>5, <1>7 DEF RegistryInv, RowsHold, Receiving, Snapshot
<1> QED BY <1>6, <1>8 DEF RegistryInv

LEMMA SnapshotBegins == ASSUME RegistryInv, BeginSnapshot PROVE RegistryInv'
<1>1. /\ parcel \in Parcels /\ EventsHold(parcel.index, parcel.copies)
      /\ clerk \in [Hosts -> Clerks] /\ copies \in [Hosts -> SUBSET Records]
      /\ "mirror" \in Hosts
  BY DEF BeginSnapshot, RegistryInv, RegistryTyped, RowsHold, Hosts
<1>2. UNCHANGED <<exports, reports, index, torn, manifest, roots, parcel, losses>>
  BY DEF BeginSnapshot, sourceVars
<1> DEFINE p == [op |-> "snapshot", parcel |-> parcel]
<1>3. CASE clerk' = [clerk EXCEPT !["mirror"] = p] /\ copies' = copies
  <2>1. p \in Clerks /\ p.op = "snapshot" /\ p.parcel = parcel
    BY <1>1 DEF Clerks
  <2> HIDE DEF p
  <2>2. clerk'["mirror"] = p
    BY <1>1, <1>3
  <2>3. RegistryTyped'
    BY <1>2, <1>3, <2>1 DEF RegistryInv, RegistryTyped
  <2>4. RowsHold'
    BY <1>1, <1>2, <1>3, <2>1, <2>2 DEF RegistryInv, RowsHold, Receiving, Snapshot
  <2> QED BY <2>3, <2>4 DEF RegistryInv
<1>4. CASE /\ copies' = [copies EXCEPT !["mirror"] = @ \cup parcel.copies]
           /\ clerk' = clerk
  <2>1. parcel.copies \in SUBSET Records
    BY <1>1 DEF Parcels
  <2>2. /\ copies' \in [Hosts -> SUBSET Records]
        /\ \A h \in Hosts : copies[h] \subseteq copies'[h]
    BY <1>1, <1>4, <2>1
  <2>3. RegistryTyped'
    BY <1>2, <1>4, <2>2 DEF RegistryInv, RegistryTyped
  <2>4. RowsHold'
    BY <1>2, <1>4, <2>2, RowsRest
  <2> QED BY <2>3, <2>4 DEF RegistryInv
<1> QED BY <1>3, <1>4 DEF BeginSnapshot

LEMMA ReceiverTyped ==
    ASSUME RegistryTyped, Receiving
    PROVE  /\ clerk["mirror"] \in [op : {"snapshot", "index"}, parcel : Parcels]
           /\ Snapshot \in Parcels
<1>1. clerk["mirror"] \in Clerks /\ clerk["mirror"].op \in {"snapshot", "index"}
  BY DEF RegistryTyped, Receiving, Hosts
<1>2. clerk["mirror"] \notin Idles
  BY <1>1 DEF Idles, ClerkIdle
<1>3. clerk["mirror"] \notin Promotions
  BY <1>1 DEF Promotions
<1>4. clerk["mirror"] \notin [op : {"manifest"}, next : Idles \cup Promotions]
  BY <1>1
<1>5. clerk["mirror"] \in [op : {"snapshot", "index"}, parcel : Parcels]
  BY <1>1, <1>2, <1>3, <1>4 DEF Clerks
<1> QED BY <1>5 DEF Snapshot

LEMMA SnapshotCopied == ASSUME RegistryInv, CopyNext PROVE RegistryInv'
<1>1. Snapshot \in Parcels
  BY ReceiverTyped DEF RegistryInv, Receiving, CopyNext
<1>2. PICK r \in Missing : copies' = [copies EXCEPT !["mirror"] = @ \cup {r}]
  BY DEF CopyNext
<1>3. r \in Records
  BY <1>1, <1>2 DEF Missing, Parcels
<1>4. UNCHANGED <<exports, reports, index, torn, manifest, roots, clerk, parcel, losses>>
  BY DEF CopyNext, sourceVars
<1>5. copies \in [Hosts -> SUBSET Records]
  BY DEF RegistryInv, RegistryTyped
<1>6. /\ copies' \in [Hosts -> SUBSET Records]
      /\ \A h \in Hosts : copies[h] \subseteq copies'[h]
  BY <1>2, <1>3, <1>5
<1>7. RegistryTyped'
  BY <1>4, <1>6 DEF RegistryInv, RegistryTyped
<1>8. RowsHold'
  BY <1>4, <1>6, RowsRest
<1> QED BY <1>7, <1>8 DEF RegistryInv

LEMMA SnapshotDeclared == ASSUME RegistryInv, ManifestNext PROVE RegistryInv'
<1>1. Receiving /\ "mirror" \in Hosts
  BY DEF ManifestNext, Receiving, Hosts
<1>2. /\ Snapshot \in Parcels /\ Snapshot.index \in Seq(Entries)
      /\ clerk["mirror"] \in [op : {"snapshot", "index"}, parcel : Parcels]
  BY <1>1, ReceiverTyped DEF RegistryInv, Parcels
<1>3. /\ manifest \in [Hosts -> Seq(Seq(Entries))] /\ clerk \in [Hosts -> Clerks]
      /\ torn \subseteq Hosts /\ losses \in Nat
  BY DEF RegistryInv, RegistryTyped
<1>4. CASE manifest["mirror"] \notin {<<>>, <<Snapshot.index>>}
  <2>1. /\ UNCHANGED <<exports, reports, index, copies, roots, parcel>>
        /\ torn' = torn /\ manifest' = manifest /\ losses' = losses
        /\ clerk' = [clerk EXCEPT !["mirror"] = ClerkIdle]
    BY <1>4 DEF ManifestNext, sourceVars
  <2> QED BY <1>1, <1>3, <2>1, ClerkGoesOn DEF Idles
<1>5. CASE manifest["mirror"] \in {<<>>, <<Snapshot.index>>}
  <2> DEFINE p == [clerk["mirror"] EXCEPT !.op = "index"]
  <2>1. /\ UNCHANGED <<exports, reports, index, torn, copies, roots, parcel, losses>>
        /\ manifest' = [manifest EXCEPT !["mirror"] = <<Snapshot.index>>]
        /\ clerk' = [clerk EXCEPT !["mirror"] = p]
    BY <1>5 DEF ManifestNext, sourceVars
  <2>2. p \in Clerks /\ p.op = "index" /\ p.parcel = clerk["mirror"].parcel
    BY <1>2 DEF Clerks
  <2> HIDE DEF p
  <2>3. clerk'["mirror"] = p
    BY <1>1, <1>3, <2>1
  <2>4. <<Snapshot.index>> \in Seq(Seq(Entries))
    BY <1>2
  <2>5. RegistryTyped'
    BY <1>3, <2>1, <2>2, <2>4 DEF RegistryInv, RegistryTyped
  <2>6. Snapshot' = Snapshot
    BY <2>2, <2>3 DEF Snapshot
  <2>7. Snapshot.copies \subseteq copies["mirror"]
    BY DEF ManifestNext, Missing
  <2>8. EventsHold(Snapshot.index, Snapshot.copies)
    BY <1>1 DEF RegistryInv, RowsHold
  <2>9. RowsHold'
    BY <2>1, <2>6, <2>7, <2>8 DEF RegistryInv, RowsHold
  <2> QED BY <2>5, <2>9 DEF RegistryInv
<1> QED BY <1>4, <1>5

LEMMA SnapshotEntered == ASSUME RegistryInv, IndexNext PROVE RegistryInv'
<1>1. Receiving /\ "mirror" \in Hosts
  BY DEF IndexNext, Receiving, Hosts
<1>2. Snapshot \in Parcels /\ Snapshot.index \in Seq(Entries)
  BY <1>1, ReceiverTyped DEF RegistryInv, Parcels
<1>3. /\ UNCHANGED <<exports, reports, torn, manifest, copies, roots, parcel, losses>>
      /\ index' = [index EXCEPT !["mirror"] = Snapshot.index]
      /\ clerk' = [clerk EXCEPT !["mirror"] = ClerkIdle]
  BY DEF IndexNext, sourceVars
<1>4. index \in [Hosts -> Seq(Entries)] /\ clerk \in [Hosts -> Clerks]
  BY DEF RegistryInv, RegistryTyped
<1>5. RegistryTyped'
  BY <1>2, <1>3, <1>4, IdleIsAClerk DEF RegistryInv, RegistryTyped
<1>6. EventsHold(Snapshot.index, copies["mirror"])
  BY <1>1, HoldsWithMore DEF RegistryInv, RowsHold, IndexNext
<1>7. \A h \in Hosts : EventsHold(index'[h], copies'[h])
  BY <1>3, <1>4, <1>6 DEF RegistryInv, RowsHold
<1>8. clerk'["mirror"].op = "idle"
  BY <1>1, <1>3, <1>4, IdleIsAClerk
<1>9. RowsHold'
  BY <1>3, <1>7, <1>8 DEF RegistryInv, RowsHold, Receiving
<1> QED BY <1>5, <1>9 DEF RegistryInv

LEMMA RootsBound == ASSUME RegistryInv, Hydrate PROVE RegistryInv'
<1>1. parcel \in Parcels
  BY DEF Hydrate, RegistryInv, RegistryTyped
<1>2. <<parcel.index, parcel.sources>> \in Seq(Entries) \X SUBSET Records
  BY <1>1 DEF Parcels
<1>3. /\ UNCHANGED <<exports, reports, index, torn, manifest, copies, clerk, parcel, losses>>
      /\ roots' = [roots EXCEPT !["mirror"] = <<parcel.index, parcel.sources>>]
  BY DEF Hydrate, sourceVars
<1>4. RegistryTyped'
  BY <1>2, <1>3 DEF RegistryInv, RegistryTyped
<1>5. RowsHold'
  BY <1>3, RowsRest
<1> QED BY <1>4, <1>5 DEF RegistryInv

LEMMA RegistryKeeps ==
    ASSUME RegistryInv, [RegistryNext]_registryVars PROVE RegistryInv'
<1>1. CASE RegistryNext
  <2>1. CASE \/ RebuildViews \/ MatrixKilled \/ ResetWorkspace
             \/ \E c \in Cases : FileExport(c) \/ LoseExport(c)
    BY <2>1, WorkspaceGoesOn
  <2>2. ASSUME NEW h \in Hosts, NEW copy \in Copying,
               \/ BeginPromote(h, "workspace", Local, copy)
               \/ \E r \in Records : BeginPromote(h, "export", r, copy)
        PROVE  RegistryInv'
    <3>1. Local \in Records /\ "workspace" \in Via /\ "export" \in Via
      BY DEF Records, Via
    <3> QED BY <2>2, <3>1, PromotionBegins
  <2>3. ASSUME NEW h \in Hosts, NEW old \in RunsOf(index[h]),
               NEW new \in RunsOf(index[h]), Supersede(h, old, new)
        PROVE  RegistryInv'
    BY <2>3, RunSuperseded
  <2>4. ASSUME NEW h \in Hosts,
               \/ PromoteKnown(h) \/ CopyArtifacts(h) \/ AppendEvent(h)
               \/ WriteManifest(h) \/ RegistryReport(h) \/ ClerkDies(h)
        PROVE  RegistryInv'
    BY <2>4, KnownSkipped, ArtifactsCopied, EventAppended, ManifestRenewed, ClerkKilled
  <2>5. CASE Pack \/ BeginSnapshot \/ CopyNext \/ ManifestNext \/ IndexNext \/ Hydrate
    BY <2>5, Packed, SnapshotBegins, SnapshotCopied, SnapshotDeclared,
       SnapshotEntered, RootsBound
  <2> QED BY <1>1, <2>1, <2>2, <2>3, <2>4, <2>5 DEF RegistryNext
<1>2. CASE UNCHANGED registryVars
  <2>1. UNCHANGED <<exports, reports, index, torn, manifest, copies, roots, clerk,
                    parcel, losses>>
    BY <1>2 DEF registryVars, sourceVars
  <2>2. RegistryTyped'
    BY <2>1 DEF RegistryInv, RegistryTyped
  <2>3. RowsHold'
    BY <2>1, RowsRest
  <2> QED BY <2>2, <2>3 DEF RegistryInv
<1> QED BY <1>1, <1>2

LEMMA HeldRowsStand == ASSUME RegistryInv PROVE ReceiptsStand
<1> SUFFICES ASSUME NEW h \in Hosts, h \notin torn, manifest[h] = <<index[h]>>,
                    Relocated(h) => roots[h][1] = index[h],
                    \A r \in RunsOf(index[h]) :
                      LET e == Entry(index[h], r)
                      IN  Sourced(h, e) /\ e.audited = e.dashboard
             PROVE  Validates(h, TRUE)
  BY DEF ReceiptsStand
<1>1. \A r \in RunsOf(index[h]) : /\ RowHolds(Entry(index[h], r), copies[h])
                                  /\ Entry(index[h], r).record = r
  <2> TAKE r \in RunsOf(index[h])
  <2>1. PICK i \in DOMAIN index[h] :
           /\ Entry(index[h], r) = index[h][i]
           /\ index[h][i].kind = "run" /\ index[h][i].record = r
    BY EntryIsARow
  <2> QED BY <2>1 DEF RegistryInv, RowsHold, EventsHold
<1>2. Copied(h)
  BY <1>1 DEF Copied, RowHolds
<1>3. \A r \in RunsOf(index[h]) : RowStands(h, Entry(index[h], r))
  BY <1>1 DEF RowStands, RowHolds
<1> QED BY <1>2, <1>3 DEF Validates

\* The registry's records, locks and parcels are always what its operations
\* take them for.
THEOREM RegistryTypeCorrectness == RegistrySpec => []RegistryTyped
<1>1. RegistryInv => RegistryTyped
  BY DEF RegistryInv
<1> QED BY <1>1, RegistryBegins, RegistryKeeps, PTL DEF RegistrySpec

\* ReceiptsStand in every state, on the host that promoted the runs and on the
\* one that hydrated them (compare: evidence.py, transport.py).
THEOREM ReceiptsAlwaysStand == RegistrySpec => []ReceiptsStand
BY RegistryBegins, RegistryKeeps, HeldRowsStand, PTL DEF RegistrySpec
(***************************************************************************)
(* Publication.  Whatever has the final name was whole and safe when it    *)
(* got it, so that a loss of power takes the name back or nothing at all.  *)
(***************************************************************************)

Phases == {"idle", "write", "half", "synced", "bound", "done", "refused",
           "failed", "unsure", "loaded", "mismatch"}
Publishings == [step : Phases, try : Nat, pieces : Nat, safe : Nat]
Names == [by : Publishers \cup {0}, pieces : Nat, safe : Nat]

PublicationTyped ==
  /\ payload \in Kinds /\ outages \in Nat
  /\ bound = <<>> \/ \E n \in Names : bound = <<n>>
  /\ durable = <<>> \/ \E n \in Names : durable = <<n>>
  /\ publishing \in [Publishers -> Publishings]

\* A name is bound to something whole that is safe; only a report is durable
\* as another one than it is.
Whole(name) == name # <<>> => name[1].pieces = Pieces /\ name[1].safe = Pieces
NamesHold ==
  /\ Whole(bound) /\ Whole(durable)
  /\ payload # "report" /\ durable # <<>> => durable = bound

\* What a publisher may rely on at each step.
PublisherHolds(p, r) ==
  /\ r.step = "synced" => r.pieces = Pieces /\ r.safe = Pieces
  /\ r.step \in {"bound", "done", "refused"} => bound # <<>>
  /\ r.step \in {"bound", "done"} /\ payload # "report" => bound[1].by \in {p, 0}
  /\ r.step = "done" =>
       durable # <<>> /\ (payload # "report" => bound = durable)
  /\ r.step # "mismatch"

PublicationInv ==
  /\ PublicationTyped /\ NamesHold
  /\ \A p \in Publishers : PublisherHolds(p, publishing[p])

LEMMA PublicationBegins == ASSUME PublicationInit PROVE PublicationInv
BY DEF PublicationInit, PublicationInv, PublicationTyped, NamesHold, Whole,
       PublisherHolds, Idle0, Publishings, Phases

\* One publisher moves and the names stay.
LEMMA PublisherMoves ==
    ASSUME PublicationInv, NEW p \in Publishers, NEW r \in Publishings,
           PublisherHolds(p, r), publishing' = [publishing EXCEPT ![p] = r],
           UNCHANGED <<payload, bound, durable, outages>>
    PROVE  PublicationInv'
<1>1. PublicationTyped' /\ NamesHold'
  BY DEF PublicationInv, PublicationTyped, NamesHold
<1>2. \A q \in Publishers : PublisherHolds(q, publishing[q])'
  <2> TAKE q \in Publishers
  <2>1. publishing'[q] = IF q = p THEN r ELSE publishing[q]
    BY DEF PublicationInv, PublicationTyped
  <2>2. PublisherHolds(q, publishing[q])
    BY DEF PublicationInv
  <2>3. CASE q = p
    BY <2>1, <2>3 DEF PublisherHolds
  <2>4. CASE q # p
    BY <2>1, <2>2, <2>4 DEF PublisherHolds
  <2> QED BY <2>3, <2>4
<1> QED BY <1>1, <1>2 DEF PublicationInv

\* The same for a move that changes only the step.
LEMMA StepTaken ==
    ASSUME PublicationInv, NEW p \in Publishers, NEW step \in Phases,
           PublisherHolds(p, [publishing[p] EXCEPT !.step = step]), Takes(p, step),
           UNCHANGED <<payload, bound, durable, outages>>
    PROVE  PublicationInv'
<1> DEFINE r == [publishing[p] EXCEPT !.step = step]
<1>1. publishing[p] \in Publishings
  BY DEF PublicationInv, PublicationTyped
<1>2. r \in Publishings
  BY <1>1 DEF Publishings
<1>3. publishing' = [publishing EXCEPT ![p] = r]
  BY DEF Takes
<1> QED BY <1>2, <1>3, PublisherMoves

LEMMA PublisherBegins ==
    ASSUME PublicationInv, NEW p \in Publishers,
           BeginFile(p) \/ BeginExport(p) \/ BeginBundle(p) \/ BeginSource(p)
    PROVE  PublicationInv'
<1>1. publishing[p] \in Publishings
  BY DEF PublicationInv, PublicationTyped
<1>2. UNCHANGED <<payload, bound, durable, outages>>
  BY DEF BeginFile, BeginExport, BeginBundle, BeginSource
<1>3. CASE Takes(p, "write")
  <2>1. PublisherHolds(p, [publishing[p] EXCEPT !.step = "write"])
    BY <1>1 DEF PublisherHolds, Publishings
  <2> QED BY <1>2, <1>3, <2>1, StepTaken DEF Phases
<1>4. CASE Takes(p, "refused") /\ bound # <<>>
  <2>1. PublisherHolds(p, [publishing[p] EXCEPT !.step = "refused"])
    BY <1>1, <1>4 DEF PublisherHolds, Publishings
  <2> QED BY <1>2, <1>4, <2>1, StepTaken DEF Phases
<1> QED BY <1>3, <1>4 DEF BeginFile, BeginExport, BeginBundle, BeginSource

LEMMA PieceStaged ==
    ASSUME PublicationInv, NEW p \in Publishers,
           WritePiece(p) \/ WriteDocument(p) \/ AddArtifact(p)
    PROVE  PublicationInv'
<1>1. publishing[p] \in Publishings
  BY DEF PublicationInv, PublicationTyped
<1>2. UNCHANGED <<payload, bound, durable, outages>>
  BY DEF WritePiece, WriteDocument, AddArtifact
<1> DEFINE r == [publishing[p] EXCEPT !.pieces = @ + 1]
<1>3. publishing' = [publishing EXCEPT ![p] = r] /\ publishing[p].step \in {"write", "half"}
  BY DEF WritePiece, WriteDocument, AddArtifact, On
<1>4. r \in Publishings /\ r.step = publishing[p].step
  BY <1>1 DEF Publishings
<1>5. PublisherHolds(p, r)
  BY <1>3, <1>4 DEF PublisherHolds
<1> QED BY <1>2, <1>3, <1>4, <1>5, PublisherMoves

LEMMA StagingSynced ==
    ASSUME PublicationInv, NEW p \in Publishers,
           SyncFile(p) \/ SyncExport(p) \/ SyncBundle(p)
    PROVE  PublicationInv'
<1>1. publishing[p] \in Publishings
  BY DEF PublicationInv, PublicationTyped
<1>2. UNCHANGED <<payload, bound, durable, outages>>
  BY DEF SyncFile, SyncExport, SyncBundle
<1> DEFINE R(step) == [publishing[p] EXCEPT !.step = step, !.safe = publishing[p].pieces]
<1>3. \/ publishing' = [publishing EXCEPT ![p] = R("synced")] /\ publishing[p].pieces = Pieces
      \/ publishing' = [publishing EXCEPT ![p] = R("half")]
  BY DEF SyncFile, SyncExport, SyncBundle
<1>4. \A step \in {"synced", "half"} :
         /\ R(step) \in Publishings /\ R(step).step = step
         /\ R(step).pieces = publishing[p].pieces /\ R(step).safe = publishing[p].pieces
  BY <1>1 DEF Publishings, Phases
<1> HIDE DEF R
<1>5. CASE /\ publishing' = [publishing EXCEPT ![p] = R("synced")]
           /\ publishing[p].pieces = Pieces
  <2>1. PublisherHolds(p, R("synced"))
    BY <1>4, <1>5 DEF PublisherHolds
  <2> QED BY <1>2, <1>4, <1>5, <2>1, PublisherMoves
<1>6. CASE publishing' = [publishing EXCEPT ![p] = R("half")]
  <2>1. PublisherHolds(p, R("half"))
    BY <1>4 DEF PublisherHolds
  <2> QED BY <1>2, <1>4, <1>6, <2>1, PublisherMoves
<1> QED BY <1>3, <1>5, <1>6

\* The name is bound, where it was free or to a report.
LEMMA NameBound ==
    ASSUME PublicationInv, NEW p \in Publishers, On(p, "synced"),
           payload = "report" \/ bound = <<>>,
           Takes(p, "bound"), bound' = <<Written(p)>>,
           UNCHANGED <<payload, durable, outages>>
    PROVE  PublicationInv'
<1>1. publishing[p] \in Publishings /\ publishing \in [Publishers -> Publishings]
  BY DEF PublicationInv, PublicationTyped
<1>2. publishing[p].pieces = Pieces /\ publishing[p].safe = Pieces
  BY DEF PublicationInv, PublisherHolds, On
<1> DEFINE n == Written(p)
           r == [publishing[p] EXCEPT !.step = "bound"]
<1>3. n \in Names /\ n.pieces = Pieces /\ n.safe = Pieces /\ n.by \in {p, 0}
  BY <1>1, <1>2 DEF Written, Names, Publishings
<1>4. publishing' = [publishing EXCEPT ![p] = r] /\ bound' = <<n>>
  BY DEF Takes
<1>5. r \in Publishings /\ r.step = "bound"
  BY <1>1 DEF Publishings, Phases
<1> HIDE DEF n, r
<1>6. bound' # <<>> /\ bound'[1] = n
  BY <1>4
<1>7. PublicationTyped'
  BY <1>3, <1>4, <1>5 DEF PublicationInv, PublicationTyped
<1>8. payload # "report" => durable = <<>>
  BY DEF PublicationInv, NamesHold
<1>9. NamesHold'
  BY <1>3, <1>6, <1>8 DEF PublicationInv, NamesHold, Whole
<1>10. \A q \in Publishers : PublisherHolds(q, publishing[q])'
  <2> TAKE q \in Publishers
  <2>1. PublisherHolds(q, publishing[q])
    BY DEF PublicationInv
  <2>2. CASE q = p
    <3>1. publishing'[q] = r
      BY <1>1, <1>4, <2>2
    <3> QED BY <1>3, <1>5, <1>6, <2>2, <3>1 DEF PublisherHolds
  <2>3. CASE q # p
    <3>1. publishing'[q] = publishing[q]
      BY <1>1, <1>4, <2>3
    <3> QED BY <1>6, <1>8, <2>1, <3>1 DEF PublisherHolds
  <2> QED BY <2>2, <2>3
<1> QED BY <1>7, <1>9, <1>10 DEF PublicationInv

LEMMA NameClaimed ==
    ASSUME PublicationInv, NEW p \in Publishers,
           BindFile(p) \/ BindDirectory(p) \/ BindReport(p)
    PROVE  PublicationInv'
<1>1. CASE bound # <<>> /\ payload # "report"
  <2>1. Takes(p, "refused") /\ UNCHANGED <<payload, bound, durable, outages>>
    BY <1>1 DEF BindFile, BindDirectory, BindReport
  <2>2. publishing[p] \in Publishings
    BY DEF PublicationInv, PublicationTyped
  <2>3. PublisherHolds(p, [publishing[p] EXCEPT !.step = "refused"])
    BY <1>1, <2>2 DEF PublisherHolds, Publishings
  <2> QED BY <2>1, <2>3, StepTaken DEF Phases
<1>2. CASE bound = <<>> \/ payload = "report"
  BY <1>2, NameBound DEF BindFile, BindDirectory, BindReport
<1> QED BY <1>1, <1>2

LEMMA NameSettled ==
    ASSUME PublicationInv, NEW p \in Publishers, Settle(p)
    PROVE  PublicationInv'
<1>1. publishing[p] \in Publishings /\ publishing \in [Publishers -> Publishings]
  BY DEF PublicationInv, PublicationTyped
<1> DEFINE r == [publishing[p] EXCEPT !.step = "done"]
<1>2. /\ publishing' = [publishing EXCEPT ![p] = r] /\ durable' = bound
      /\ UNCHANGED <<payload, bound, outages>> /\ publishing[p].step = "bound"
  BY DEF Settle, Takes, On
<1>3. r \in Publishings /\ r.step = "done"
  BY <1>1 DEF Publishings, Phases
<1> HIDE DEF r
<1>4. bound # <<>>
  BY <1>2 DEF PublicationInv, PublisherHolds
<1>5. PublicationTyped'
  BY <1>2, <1>3 DEF PublicationInv, PublicationTyped
<1>6. NamesHold'
  BY <1>2 DEF PublicationInv, NamesHold
<1>7. \A q \in Publishers : PublisherHolds(q, publishing[q])'
  <2> TAKE q \in Publishers
  <2>1. PublisherHolds(q, publishing[q])
    BY DEF PublicationInv
  <2>2. CASE q = p
    <3>1. publishing'[q] = r
      BY <1>1, <1>2, <2>2
    <3> QED BY <1>2, <1>3, <1>4, <2>1, <2>2, <3>1 DEF PublisherHolds
  <2>3. CASE q # p
    <3>1. publishing'[q] = publishing[q]
      BY <1>1, <1>2, <2>3
    <3> QED BY <1>2, <1>4, <2>1, <3>1 DEF PublisherHolds
  <2> QED BY <2>2, <2>3
<1> QED BY <1>5, <1>6, <1>7 DEF PublicationInv

LEMMA PayloadLoaded ==
    ASSUME PublicationInv, NEW p \in Publishers, ReadVerified(p)
    PROVE  PublicationInv'
<1>1. publishing[p] \in Publishings
  BY DEF PublicationInv, PublicationTyped
<1>2. bound # <<>> /\ bound[1].pieces = Pieces
  BY DEF ReadVerified, PublicationInv, PublisherHolds, NamesHold, Whole
<1>3. Takes(p, "loaded") /\ UNCHANGED <<payload, bound, durable, outages>>
  BY <1>2 DEF ReadVerified
<1>4. PublisherHolds(p, [publishing[p] EXCEPT !.step = "loaded"])
  BY <1>1 DEF PublisherHolds, Publishings
<1> QED BY <1>3, <1>4, StepTaken DEF Phases

\* A publisher that starts again, or gave up, has no claim.
LEMMA PublisherReset ==
    ASSUME PublicationInv, NEW p \in Publishers, PublisherFails(p) \/ TryAgain(p)
    PROVE  PublicationInv'
<1>1. publishing[p] \in Publishings
  BY DEF PublicationInv, PublicationTyped
<1>2. UNCHANGED <<payload, bound, durable, outages>>
  BY DEF PublisherFails, TryAgain
<1>3. \E r \in Publishings : /\ r.step \in {"idle", "failed", "unsure"}
                             /\ publishing' = [publishing EXCEPT ![p] = r]
  <2>1. CASE PublisherFails(p)
    <3> DEFINE step == IF On(p, "bound") THEN "unsure" ELSE "failed"
               r == [Idle0 EXCEPT !.step = step, !.try = publishing[p].try]
    <3>1. publishing' = [publishing EXCEPT ![p] = r]
      BY <2>1 DEF PublisherFails
    <3>2. step \in {"idle", "failed", "unsure"} /\ publishing[p].try \in Nat
      BY <1>1 DEF Publishings
    <3> HIDE DEF step
    <3>3. r \in Publishings /\ r.step = step
      BY <3>2 DEF Idle0, Publishings, Phases
    <3> QED BY <3>1, <3>2, <3>3
  <2>2. CASE TryAgain(p)
    <3> DEFINE r == [Idle0 EXCEPT !.try = publishing[p].try + 1]
    <3>1. publishing' = [publishing EXCEPT ![p] = r] /\ publishing[p].try + 1 \in Nat
      BY <1>1, <2>2 DEF TryAgain, Publishings
    <3>2. r \in Publishings /\ r.step = "idle"
      BY <3>1 DEF Idle0, Publishings, Phases
    <3> QED BY <3>1, <3>2
  <2> QED BY <2>1, <2>2
<1>4. PICK r \in Publishings : /\ r.step \in {"idle", "failed", "unsure"}
                              /\ publishing' = [publishing EXCEPT ![p] = r]
  BY <1>3
<1>5. PublisherHolds(p, r)
  BY <1>4 DEF PublisherHolds
<1> QED BY <1>2, <1>4, <1>5, PublisherMoves

\* Of what is whole and safe all remains.
LEMMA SafeRemains ==
    ASSUME NEW n \in Names, n.pieces = Pieces, n.safe = Pieces
    PROVE  Remains(n) = {n}
<1>1. n.safe .. n.pieces = {Pieces}
  BY PublicationAssumption
<1>2. [n EXCEPT !.pieces = Pieces] = n
  BY DEF Names
<1> QED BY <1>1, <1>2 DEF Remains

LEMMA PowerLost == ASSUME PublicationInv, PowerLoss PROVE PublicationInv'
<1>8. durable' = bound' /\ payload' = payload /\ outages' \in Nat
  <2>1. outages \in Nat /\ outages' = outages + 1
    BY DEF PowerLoss, PublicationInv, PublicationTyped
  <2>2. durable' = bound' /\ payload' = payload
    BY DEF PowerLoss
  <2> QED BY <2>1, <2>2
<1>1. bound' \in {bound, durable}
  <2>1. PICK name \in {bound, durable} :
           IF name = <<>> THEN bound' = <<>>
                          ELSE \E n \in Remains(name[1]) : bound' = <<n>>
    BY DEF PowerLoss
  <2>2. CASE name = <<>>
    BY <2>1, <2>2
  <2>3. CASE name # <<>>
    <3>1. PICK m \in Names : name = <<m>>
      BY <2>3 DEF PublicationInv, PublicationTyped
    <3>2. m.pieces = Pieces /\ m.safe = Pieces
      BY <2>3, <3>1 DEF PublicationInv, NamesHold, Whole
    <3>3. bound' = name
      BY <2>1, <2>3, <3>1, <3>2, SafeRemains
    <3> QED BY <3>3
  <2> QED BY <2>2, <2>3
<1> DEFINE Again(p) == [Idle0 EXCEPT !.step = "failed", !.try = publishing[p].try]
<1>2. \A p \in Publishers :
         publishing'[p] = IF Working(p) \/ On(p, "refused") \/ (Cached /\ On(p, "done"))
                          THEN Again(p) ELSE publishing[p]
  BY DEF PowerLoss
<1>3. \A p \in Publishers : Again(p) \in Publishings /\ Again(p).step = "failed"
  BY DEF PublicationInv, PublicationTyped, Idle0, Publishings, Phases
<1> HIDE DEF Again
<1>4. publishing' = [p \in Publishers |-> publishing'[p]]
  BY DEF PowerLoss
<1>5. \A p \in Publishers : publishing'[p] \in Publishings
  BY <1>2, <1>3 DEF PublicationInv, PublicationTyped
<1>6. PublicationTyped' /\ NamesHold'
  BY <1>1, <1>4, <1>5, <1>8 DEF PublicationInv, PublicationTyped, NamesHold
<1>7. \A p \in Publishers : PublisherHolds(p, publishing[p])'
  <2> TAKE p \in Publishers
  <2>1. PublisherHolds(p, publishing[p])
    BY DEF PublicationInv
  <2>2. CASE publishing'[p] = Again(p)
    BY <1>3, <2>2 DEF PublisherHolds
  <2>3. CASE publishing'[p] = publishing[p] /\ ~Working(p) /\ ~On(p, "refused")
    BY <1>1, <1>8, <2>1, <2>3 DEF PublisherHolds, Working, On
  <2> QED BY <1>2, <2>2, <2>3
<1> QED BY <1>6, <1>7 DEF PublicationInv

LEMMA PublicationKeeps ==
    ASSUME PublicationInv, [PublicationNext]_publicationVars
    PROVE  PublicationInv'
<1>1. CASE PublicationNext
  BY <1>1, PowerLost, PublisherBegins, PieceStaged, StagingSynced, NameClaimed,
     NameSettled, PayloadLoaded, PublisherReset DEF PublicationNext
<1>2. CASE UNCHANGED publicationVars
  BY <1>2 DEF publicationVars, PublicationInv, PublicationTyped, NamesHold, Whole,
              PublisherHolds
<1> QED BY <1>1, <1>2

LEMMA HeldNamesStand == ASSUME PublicationInv PROVE EvidenceStands
BY DEF PublicationInv, NamesHold, Whole, PublisherHolds, EvidenceStands, On

\* EvidenceStands in every state: what has a final name is whole, and what a
\* caller was told is published stays its own, whoever fails, is killed or
\* loses power when (evonn_shared: artifact_io.py, _run_io.py).
THEOREM EvidenceAlwaysStands == PublicationSpec => []EvidenceStands
BY PublicationBegins, PublicationKeeps, HeldNamesStand, PTL DEF PublicationSpec

(***************************************************************************)
(* The trend of a workspace.  What kills a matrix between two rows, or in  *)
(* the middle of one, leaves a trend that every later rebuild reproduces.  *)
(***************************************************************************)

(* A trend is a record of rows and of a tail, and each of its rows is the   *)
(* one every rebuild computes for the case: whatever was loaded with it.    *)
TrendTyped == DOMAIN trend = {"rows", "torn"}
RowsAreOfTheirCase ==
  \A c \in DOMAIN trend.rows : \A loaded : trend.rows[c] = Row(c, loaded)
TrendInv == TrendTyped /\ RowsAreOfTheirCase

LEMMA TrendBegins == WorkspaceInit => TrendInv
BY DEF WorkspaceInit, TrendInv, TrendTyped, RowsAreOfTheirCase, NoTrend

LEMMA TrendKeepsItsRows ==
    ASSUME TrendInv, trend' = trend
    PROVE  TrendInv'
BY DEF TrendInv, TrendTyped, RowsAreOfTheirCase, Row

LEMMA AppendedRowsAreOfTheirCase ==
    ASSUME TrendInv, AppendRows
    PROVE  TrendInv'
<1> DEFINE case == Head(matrix.left)
           row == Row(case, matrix.sound)
           rows == [x \in DOMAIN trend.rows \cup {case} |->
                      IF x = case THEN row ELSE trend.rows[x]]
<1>1. CASE UNCHANGED trend
  BY <1>1, TrendKeepsItsRows
<1>2. CASE trend' = [trend EXCEPT !.rows = rows]
  <2>1. trend'.rows = rows /\ DOMAIN trend' = {"rows", "torn"}
    BY <1>2 DEF TrendInv, TrendTyped
  <2>2. ASSUME NEW c \in DOMAIN rows, NEW loaded
        PROVE  rows[c] = Row(c, loaded)
    BY <2>2 DEF TrendInv, RowsAreOfTheirCase, Row
  <2> HIDE DEF rows
  <2> QED BY <2>1, <2>2 DEF TrendInv, TrendTyped, RowsAreOfTheirCase, Row
<1> QED BY <1>1, <1>2 DEF AppendRows

LEMMA TrendStep ==
    ASSUME TrendInv, [WorkspaceNext]_workspaceVars
    PROVE  TrendInv'
<1>1. CASE AppendRows
  BY <1>1, AppendedRowsAreOfTheirCase
<1>2. CASE Reset
  BY <1>2 DEF Reset, NoTrend, TrendInv, TrendTyped, RowsAreOfTheirCase
<1>3. CASE MatrixDies
  <2>1. CASE UNCHANGED trend
    BY <2>1, TrendKeepsItsRows
  <2>2. CASE trend' = [trend EXCEPT !.torn = TRUE]
    <3>1. trend'.rows = trend.rows /\ DOMAIN trend' = {"rows", "torn"}
      BY <2>2 DEF TrendInv, TrendTyped
    <3> QED BY <3>1 DEF TrendInv, TrendTyped, RowsAreOfTheirCase, Row
  <2> QED BY <1>3, <2>1, <2>2 DEF MatrixDies
<1>4. CASE trend' = trend
  BY <1>4, TrendKeepsItsRows
<1>5. \/ AppendRows \/ Reset \/ MatrixDies \/ trend' = trend
  BY DEF WorkspaceNext, workspaceVars, FairMatrix, OpenCase, FileCase, Load,
         PublishViews, RunSystem, LoseBundle
<1> QED BY <1>1, <1>2, <1>3, <1>4, <1>5

\* What a rebuild computes for a case with a row in the trend is that row, in
\* every workspace: a rebuild is never refused for a row that differs
\* (_append_rows).
THEOREM TrendsAlwaysReproduce == WorkspaceSpec => []TrendsReproduce
<1>1. TrendInv => TrendsReproduce
  BY DEF TrendInv, RowsAreOfTheirCase, TrendsReproduce
<1> QED BY TrendBegins, TrendStep, <1>1, PTL DEF WorkspaceSpec

(***************************************************************************)
(* The time ledger, for every budget and any number of invocations,        *)
(* crashes and clock readings: it stays readable and, on a clock that is   *)
(* not set back, never renews the budget.                                  *)
(***************************************************************************)

\* What a sequence becomes at its end when it grows by one.
LEMMA Appended ==
    ASSUME NEW S, NEW s \in Seq(S), NEW e \in S
    PROVE  /\ Append(s, e) \in Seq(S)
           /\ Len(s) \in Nat /\ Len(Append(s, e)) = Len(s) + 1
           /\ Append(s, e)[Len(s) + 1] = e
           /\ \A i \in DOMAIN s : Append(s, e)[i] = s[i]
           /\ DOMAIN Append(s, e) = DOMAIN s \union {Len(s) + 1}
           /\ DOMAIN s = 1..Len(s)
PROOF
<1>1. /\ Len(s) \in Nat /\ DOMAIN s = 1..Len(s)
      /\ Append(s, e) \in Seq(S) /\ Len(Append(s, e)) = Len(s) + 1
      /\ \A i \in 1..Len(s) : Append(s, e)[i] = s[i]
      /\ Append(s, e)[Len(s) + 1] = e
  BY LenProperties, AppendProperties
<1>2. DOMAIN Append(s, e) = 1..(Len(s) + 1)
  BY <1>1, LenProperties
<1> QED
  BY <1>1, <1>2

\* The last record of either kind, when there is one.
LEMMA LastRecords ==
    ASSUME TypeOK
    PROVE  /\ Len(starts) \in Nat /\ Len(ends) \in Nat
           /\ DOMAIN starts = 1..Len(starts) /\ DOMAIN ends = 1..Len(ends)
           /\ starts # <<>> <=> Len(starts) > 0
           /\ ends # <<>> <=> Len(ends) > 0
           /\ \A i \in DOMAIN starts : starts[i].base \in Nat /\ starts[i].wall \in Nat
           /\ \A i \in DOMAIN ends : ends[i].elapsed \in Nat /\ ends[i].wall \in Nat
           /\ Unclosed => LastStart.base \in Nat /\ LastStart.wall \in Nat
           /\ Elapsed \in Nat /\ LastWall \in Nat
PROOF
<1>1. /\ Len(starts) \in Nat /\ Len(ends) \in Nat
      /\ DOMAIN starts = 1..Len(starts) /\ DOMAIN ends = 1..Len(ends)
      /\ starts # <<>> <=> Len(starts) > 0
      /\ ends # <<>> <=> Len(ends) > 0
  BY LenProperties, EmptySeq DEF TypeOK
<1>2. /\ \A i \in DOMAIN starts : starts[i].base \in Nat /\ starts[i].wall \in Nat
      /\ \A i \in DOMAIN ends : ends[i].elapsed \in Nat /\ ends[i].wall \in Nat
  <2>1. /\ \A i \in DOMAIN starts : starts[i] \in StartRecords
        /\ \A i \in DOMAIN ends : ends[i] \in EndRecords
    BY <1>1, ElementOfSeq DEF TypeOK
  <2> QED
    BY <2>1 DEF StartRecords, EndRecords
<1>3. Unclosed => Len(starts) \in DOMAIN starts
  BY <1>1 DEF Unclosed
<1>4. ends # <<>> => Len(ends) \in DOMAIN ends
  BY <1>1
<1> QED
  BY <1>1, <1>2, <1>3, <1>4 DEF LastStart, Elapsed, LastWall

\* What the constructor charges for its own set-up is never negative.
LEMMA ChargeIsNat ==
    ASSUME TypeOK, accounted # None
    PROVE  SetupCharge \in Nat /\ Larger(accounted, Elapsed) \in Nat
PROOF
  BY LastRecords, ClockAssumption DEF TypeOK, SetupCharge, Larger

\* Every end closes a start, and at most the last start is not closed.
LEMMA Lengths ==
    ASSUME Shape
    PROVE  IF Unclosed THEN Len(starts) = Len(ends) + 1
                       ELSE Len(starts) = Len(ends)
PROOF
<1> DEFINE m == Len(starts)
<1> DEFINE n == Len(ends)
<1>1. m \in Nat /\ n \in Nat
  BY LastRecords DEF Shape
<1>2. n \in {m, m - 1}
  BY DEF Shape, Linked, RecordsAccepted
<1>3. Unclosed <=> n < m
  BY DEF Unclosed
<1> HIDE DEF m, n
<1>4. IF Unclosed THEN m = n + 1 ELSE m = n
  BY <1>1, <1>2, <1>3
<1> QED
  BY <1>4 DEF m, n

----------------------------------------------------------------------------
\* A new end record after an unclosed start.
LEMMA CloseLinks ==
    ASSUME Shape, Unclosed, NEW e \in EndRecords,
           e.elapsed >= LastStart.base, e.wall >= LastStart.wall,
           ends' = Append(ends, e), UNCHANGED starts
    PROVE  /\ RecordsAccepted' /\ ~Unclosed' /\ ends' \in Seq(EndRecords)
           /\ ends' # <<>> /\ Elapsed' = e.elapsed /\ LastWall' = e.wall
PROOF
<1>1. /\ ends' \in Seq(EndRecords) /\ Len(ends') = Len(ends) + 1
      /\ ends'[Len(ends) + 1] = e
      /\ \A i \in DOMAIN ends : ends'[i] = ends[i]
      /\ DOMAIN ends' = DOMAIN ends \union {Len(ends) + 1}
  BY Appended DEF Shape, TypeOK
<1>2. /\ Len(starts) \in Nat /\ Len(ends) \in Nat
      /\ DOMAIN starts = 1..Len(starts) /\ DOMAIN ends = 1..Len(ends)
  BY LastRecords DEF Shape
<1>3. Len(starts) = Len(ends) + 1
  BY Lengths
<1>4. ~Unclosed' /\ ends' # <<>>
  BY <1>1, <1>2, <1>3, EmptySeq DEF Unclosed
<1>5. RecordsAccepted'
  <2>1. \A i \in DOMAIN starts : i > 1 => i - 1 \in DOMAIN ends
    BY <1>2, <1>3
  <2>2. \A i \in DOMAIN starts : i > 1 =>
          /\ starts[i].base >= ends'[i - 1].elapsed
          /\ starts[i].wall >= ends'[i - 1].wall
    BY <2>1, <1>1 DEF Shape, Linked, RecordsAccepted
  <2>3. \A i \in DOMAIN ends' :
          /\ ends'[i].elapsed >= starts[i].base
          /\ ends'[i].wall >= starts[i].wall
    BY <1>1, <1>3 DEF Shape, Linked, RecordsAccepted, LastStart
  <2> QED
    BY <1>1, <1>2, <1>3, <2>2, <2>3 DEF RecordsAccepted
<1> QED
  BY <1>1, <1>4, <1>5 DEF Elapsed, LastWall

\* A new start record after a closed invocation.
LEMMA StartLinks ==
    ASSUME Shape, ~Unclosed, NEW b \in Nat, b >= Elapsed, wall >= LastWall,
           starts' = Append(starts, [base |-> b, wall |-> wall]), UNCHANGED ends
    PROVE  /\ RecordsAccepted' /\ Unclosed' /\ starts' \in Seq(StartRecords)
           /\ LastStart' = [base |-> b, wall |-> wall]
PROOF
<1> DEFINE r == [base |-> b, wall |-> wall]
<1>1. r \in StartRecords /\ r.base = b /\ r.wall = wall
  BY DEF Shape, TypeOK, StartRecords
<1> HIDE DEF r
<1>2. /\ starts' \in Seq(StartRecords) /\ Len(starts') = Len(starts) + 1
      /\ starts'[Len(starts) + 1] = r
      /\ \A i \in DOMAIN starts : starts'[i] = starts[i]
      /\ DOMAIN starts' = DOMAIN starts \union {Len(starts) + 1}
  BY <1>1, Appended DEF Shape, TypeOK, r
<1>3. /\ Len(starts) \in Nat /\ Len(ends) \in Nat
      /\ DOMAIN starts = 1..Len(starts) /\ DOMAIN ends = 1..Len(ends)
      /\ ends # <<>> <=> Len(ends) > 0
  BY LastRecords DEF Shape
<1>4. Len(starts) = Len(ends)
  BY Lengths
<1>5. Unclosed' /\ LastStart' = r
  BY <1>2, <1>3, <1>4 DEF Unclosed, LastStart
<1>6. RecordsAccepted'
  <2>1. \A i \in DOMAIN starts' : i > 1 =>
          /\ starts'[i].base >= ends[i - 1].elapsed
          /\ starts'[i].wall >= ends[i - 1].wall
    <3>1. CASE Len(ends) = 0
      BY <1>2, <1>3, <1>4, <3>1
    <3>2. CASE Len(ends) > 0
      BY <1>1, <1>2, <1>3, <1>4, <3>2
         DEF Shape, Linked, RecordsAccepted, Elapsed, LastWall
    <3> QED
      BY <1>3, <3>1, <3>2
  <2>2. \A i \in DOMAIN ends :
          /\ ends[i].elapsed >= starts'[i].base
          /\ ends[i].wall >= starts'[i].wall
    BY <1>2, <1>3, <1>4 DEF Shape, Linked, RecordsAccepted
  <2>3. Len(ends) = Len(starts') - 1
    BY <1>2, <1>3, <1>4
  <2> QED
    BY <2>1, <2>2, <2>3 DEF RecordsAccepted
<1> QED
  BY <1>2, <1>5, <1>6 DEF r

\* Steps that write no record leave what the records say as it is.
LEMMA FrameRecords ==
    ASSUME UNCHANGED records
    PROVE  /\ UNCHANGED <<starts, ends>>
           /\ RecordsAccepted' <=> RecordsAccepted
           /\ Unclosed' <=> Unclosed
           /\ LastStart' = LastStart
           /\ Elapsed' = Elapsed /\ LastWall' = LastWall
PROOF
  BY DEF records, RecordsAccepted, Unclosed, LastStart, Elapsed, LastWall

----------------------------------------------------------------------------
(***************************************************************************)
(* The ledger stays readable, whatever the clock does.                     *)
(***************************************************************************)
LEMMA ShapeInit ==
    ASSUME Init
    PROVE  Shape
PROOF
<1>1. Len(starts) = 0 /\ Len(ends) = 0 /\ DOMAIN starts = {} /\ DOMAIN ends = {}
  BY DEF Init
<1>2. TypeOK
  <2>1. starts \in Seq(StartRecords) /\ ends \in Seq(EndRecords)
    BY EmptySeq DEF Init
  <2> QED
    BY <2>1 DEF Init, TypeOK
<1>3. RecordsAccepted
  BY <1>1 DEF RecordsAccepted
<1>4. Linked
  BY <1>3 DEF Init, Linked
<1> QED
  BY <1>2, <1>4 DEF Shape

LEMMA SealShape ==
    ASSUME Shape, Seal
    PROVE  Shape'
PROOF
<1>1. CASE wall < LastStart.wall
  <2>1. Leave /\ UNCHANGED <<clock, files, trained>>
    BY <1>1 DEF Seal
  <2>2. TypeOK'
    BY <2>1 DEF Leave, Shape, TypeOK, files, records, clock
  <2>3. Linked'
    BY <2>1, FrameRecords DEF Leave, Shape, Linked, files
  <2> QED
    BY <2>2, <2>3 DEF Shape
<1>2. CASE ~(wall < LastStart.wall)
  <2> DEFINE e == [elapsed |-> LastStart.base + (wall - LastStart.wall),
                   wall |-> wall]
  <2>1. Unclosed /\ LastStart.base \in Nat /\ LastStart.wall \in Nat /\ wall \in Nat
    BY LastRecords DEF Seal, Shape, TypeOK
  <2>2. /\ e \in EndRecords
        /\ e.elapsed >= LastStart.base /\ e.wall >= LastStart.wall
    BY <1>2, <2>1 DEF EndRecords
  <2>3. /\ ends' = Append(ends, e)
        /\ UNCHANGED <<starts, clock, accounted, observed, fresh, setup, base,
                       ran, began, trained>>
        /\ phase' = "sealed" /\ accounted # None
    BY <1>2 DEF Seal
  <2> HIDE DEF e
  <2>4. RecordsAccepted' /\ ~Unclosed' /\ ends' \in Seq(EndRecords)
    BY <2>1, <2>2, <2>3, CloseLinks
  <2> QED
    BY <2>3, <2>4 DEF Shape, TypeOK, Linked, clock
<1> QED
  BY <1>1, <1>2

LEMMA StartShape ==
    ASSUME Shape, Start
    PROVE  Shape'
PROOF
<1>1. CASE wall < LastWall
  <2>1. Leave /\ UNCHANGED <<clock, files, trained>>
    BY <1>1 DEF Start
  <2>2. TypeOK'
    BY <2>1 DEF Leave, Shape, TypeOK, files, records, clock
  <2>3. Linked'
    BY <2>1, FrameRecords DEF Leave, Shape, Linked, files
  <2> QED
    BY <2>2, <2>3 DEF Shape
<1>2. CASE ~(wall < LastWall)
  <2> DEFINE b == Larger(accounted, Elapsed) + SetupCharge
  <2>1. b \in Nat /\ b >= Elapsed
    BY ChargeIsNat, LastRecords, ClockAssumption
       DEF Start, Shape, TypeOK, Larger
  <2>2. ~Unclosed /\ wall >= LastWall
    BY <1>2, LastRecords DEF Start, Shape, TypeOK
  <2>3. /\ starts' = Append(starts, [base |-> b, wall |-> wall])
        /\ base' = b /\ ran' = 0 /\ phase' = "running" /\ accounted # None
        /\ UNCHANGED <<clock, ends, accounted, observed, fresh, setup, began,
                       trained>>
    BY <1>2 DEF Start
  <2> HIDE DEF b
  <2>4. /\ RecordsAccepted' /\ Unclosed' /\ starts' \in Seq(StartRecords)
        /\ LastStart' = [base |-> b, wall |-> wall]
    BY <2>1, <2>2, <2>3, StartLinks
  <2> QED
    BY <2>1, <2>3, <2>4 DEF Shape, TypeOK, Linked, clock
<1> QED
  BY <1>1, <1>2

LEMMA FinishShape ==
    ASSUME Shape, Finish
    PROVE  Shape'
PROOF
<1>1. CASE wall < LastStart.wall
  BY <1>1, FrameRecords
     DEF Finish, Leave, Shape, TypeOK, Linked, clock, records
<1>2. CASE ~(wall < LastStart.wall)
  <2> DEFINE e == [elapsed |-> base + ran, wall |-> wall]
  <2>1. Unclosed /\ base = LastStart.base
    BY DEF Finish, Shape, Linked
  <2>2. /\ e \in EndRecords
        /\ e.elapsed >= LastStart.base /\ e.wall >= LastStart.wall
    BY <1>2, <2>1, LastRecords, SMTT(30) DEF Shape, TypeOK, EndRecords
  <2>3. /\ ends' = Append(ends, e) /\ Leave
        /\ UNCHANGED <<starts, clock, accounted, observed, trained>>
    BY <1>2 DEF Finish
  <2> HIDE DEF e
  <2>4. RecordsAccepted' /\ ~Unclosed' /\ ends' \in Seq(EndRecords) /\ ends' # <<>>
    BY <2>1, <2>2, <2>3, CloseLinks
  <2>5. accounted # None
    BY <2>1, LastRecords DEF Shape, Linked, Unclosed
  <2> QED
    BY <2>3, <2>4, <2>5 DEF Shape, TypeOK, Linked, Leave, clock
<1> QED
  BY <1>1, <1>2

LEMMA ShapeInvariance ==
    ASSUME Shape, [Next]_vars
    PROVE  Shape'
PROOF
<1> USE DEF Shape
<1>1. CASE Launch
  BY <1>1, FrameRecords DEF Launch, TypeOK, Linked, files, clock
<1>2. CASE PublishInitial
  BY <1>2, FrameRecords, ClockAssumption
     DEF PublishInitial, TypeOK, Linked, process, clock
<1>3. CASE Observe
  BY <1>3, FrameRecords DEF Observe, TypeOK, Linked, process, clock
<1>4. CASE Commit
  BY <1>4, FrameRecords DEF Commit, TypeOK, Linked, process, clock
<1>5. CASE EndLoop
  BY <1>5, FrameRecords DEF EndLoop, TypeOK, Linked, files, clock
<1>6. CASE Crash
  BY <1>6, FrameRecords DEF Crash, Leave, TypeOK, Linked, files, clock
<1>7. CASE Tick
  <2>1. TypeOK'
    BY <1>7 DEF Tick, TypeOK, files, records
  <2>2. Linked'
    BY <1>7, FrameRecords DEF Tick, Linked, files
  <2> QED
    BY <2>1, <2>2
<1>8. CASE StepBack
  <2>1. TypeOK'
    BY <1>8 DEF StepBack, TypeOK, files, records, process
  <2>2. Linked'
    BY <1>8, FrameRecords DEF StepBack, Linked, files, process
  <2> QED
    BY <2>1, <2>2
<1>9. CASE UNCHANGED vars
  <2>1. TypeOK'
    BY <1>9 DEF vars, TypeOK, files, records, process, clock
  <2>2. Linked'
    BY <1>9, FrameRecords DEF vars, Linked, files, process
  <2> QED
    BY <2>1, <2>2
<1> QED
  BY <1>1, <1>2, <1>3, <1>4, <1>5, <1>6, <1>7, <1>8, <1>9,
     SealShape, StartShape, FinishShape DEF Next

LEMMA LedgerShape == Spec => []Shape
PROOF
<1>1. Init => Shape
  BY ShapeInit
<1>2. Shape /\ [Next]_vars => Shape'
  BY ShapeInvariance
<1> QED
  BY <1>1, <1>2, PTL DEF Spec

\* Records, clocks and charges are always of their type.
THEOREM TypeCorrectness == Spec => []TypeOK
PROOF
<1>1. Shape => TypeOK
  BY DEF Shape
<1> QED
  BY <1>1, LedgerShape, PTL

\* Whichever invocations die, and however the wall clock is set, the next
\* constructor accepts the records it finds.
THEOREM RecordsStayAccepted == Spec => []RecordsAccepted
PROOF
<1>1. Shape => RecordsAccepted
  BY DEF Shape, Linked
<1> QED
  BY <1>1, LedgerShape, PTL

----------------------------------------------------------------------------
(***************************************************************************)
(* On a clock that is not set back the budget is never renewed.            *)
(***************************************************************************)
LEMMA CoveredInvariance ==
    ASSUME Shape, setBack' = 0, Covered, [Next]_vars
    PROVE  Covered'
PROOF
<1>0. /\ wall \in Nat /\ trained \in Nat /\ setBack \in Nat
      /\ base \in Nat /\ ran \in Nat
      /\ Unclosed => LastStart.base \in Nat /\ LastStart.wall \in Nat
      /\ Elapsed \in Nat /\ LastWall \in Nat
  BY LastRecords DEF Shape, TypeOK
<1>1. CASE Launch
  BY <1>1, FrameRecords DEF Launch, Covered, files, clock
<1>2. CASE PublishInitial
  BY <1>2, FrameRecords, ClockAssumption
     DEF PublishInitial, Covered, process, clock, Shape, TypeOK
<1>3. CASE Observe
  BY <1>3, FrameRecords DEF Observe, Covered, process, clock
<1>4. CASE Commit
  BY <1>4, FrameRecords
     DEF Commit, Covered, process, clock, Shape, Linked
<1>5. CASE EndLoop
  BY <1>5, FrameRecords DEF EndLoop, Covered, files, clock
<1>6. CASE Crash
  BY <1>6, FrameRecords DEF Crash, Leave, Covered, files, clock
<1>7. CASE Tick
  <2>1. PICK awake \in {0, 1} :
          /\ ran' = IF phase \in {"running", "stopping"} THEN ran + awake ELSE ran
          /\ trained' = IF MayTrain THEN trained + awake ELSE trained
    BY <1>7 DEF Tick
  <2>2. /\ wall' = wall + 1 /\ UNCHANGED <<phase, base, accounted>>
        /\ UNCHANGED records
    BY <1>7 DEF Tick, files
  <2>3. MayTrain => phase = "running" /\ Unclosed /\ base = LastStart.base
                    /\ accounted # None
    <3>1. MayTrain => phase = "running" /\ Unclosed /\ base = LastStart.base
      BY DEF MayTrain, Shape, Linked
    <3>2. Unclosed => accounted # None
      BY LastRecords DEF Shape, Linked, Unclosed
    <3> QED
      BY <3>1, <3>2
  <2>4. Unclosed' <=> Unclosed
    BY <2>2, FrameRecords
  <2>5. accounted' = None => trained' = 0
    BY <2>1, <2>2, <2>3 DEF Covered
  <2>6. ~Unclosed' => trained' <= Elapsed' /\ LastWall' <= wall'
    BY <1>0, <2>1, <2>2, <2>3, <2>4, FrameRecords DEF Covered
  <2>7. phase' \in {"running", "stopping"} =>
          /\ ran' <= wall' - LastStart'.wall
          /\ trained' <= base' + ran'
    <3>1. phase \in {"running", "stopping"} => Unclosed
      BY DEF Shape, Linked
    <3> QED
      BY <1>0, <2>1, <2>2, <3>1, FrameRecords DEF Covered, MayTrain
  <2>8. Unclosed' => /\ LastStart'.wall <= wall'
                     /\ trained' <= LastStart'.base + (wall' - LastStart'.wall)
    <3>1. CASE MayTrain
      BY <1>0, <2>1, <2>2, <2>3, <2>4, <2>7, <3>1, FrameRecords DEF Covered
    <3>2. CASE ~MayTrain
      BY <1>0, <2>1, <2>2, <2>4, <3>2, FrameRecords DEF Covered
    <3> QED
      BY <3>1, <3>2
  <2> QED
    BY <2>5, <2>6, <2>7, <2>8 DEF Covered
<1>8. CASE StepBack
  BY <1>0, <1>8 DEF StepBack
<1>9. CASE UNCHANGED vars
  BY <1>9, FrameRecords DEF vars, Covered, files, process, clock
<1>10. CASE Seal
  <2> DEFINE e == [elapsed |-> LastStart.base + (wall - LastStart.wall),
                   wall |-> wall]
  <2>1. Unclosed /\ LastStart.wall <= wall
        /\ trained <= LastStart.base + (wall - LastStart.wall)
    BY <1>10 DEF Seal, Covered
  <2>2. /\ e \in EndRecords
        /\ e.elapsed >= LastStart.base /\ e.wall >= LastStart.wall
    BY <1>0, <2>1 DEF EndRecords
  <2>3. /\ ends' = Append(ends, e) /\ phase' = "sealed" /\ accounted # None
        /\ UNCHANGED <<starts, wall, accounted, trained>>
    BY <1>0, <1>10, <2>1 DEF Seal, clock
  <2>4. e.elapsed = LastStart.base + (wall - LastStart.wall) /\ e.wall = wall
    OBVIOUS
  <2> HIDE DEF e
  <2>5. ~Unclosed' /\ Elapsed' = e.elapsed /\ LastWall' = e.wall
    BY <2>1, <2>2, <2>3, CloseLinks
  <2> QED
    BY <1>0, <2>1, <2>3, <2>4, <2>5 DEF Covered
<1>11. CASE Start
  <2>1. ~(wall < LastWall) /\ ~Unclosed
    BY <1>0, <1>11 DEF Start, Covered
  <2> DEFINE b == Larger(accounted, Elapsed) + SetupCharge
  <2>2. b \in Nat /\ b >= Elapsed
    BY <1>11, ChargeIsNat, LastRecords, ClockAssumption
       DEF Start, Shape, TypeOK, Larger
  <2>3. /\ starts' = Append(starts, [base |-> b, wall |-> wall])
        /\ base' = b /\ ran' = 0 /\ accounted # None
        /\ UNCHANGED <<ends, wall, accounted, trained>>
    BY <1>11, <2>1 DEF Start, clock
  <2> HIDE DEF b
  <2>4. Unclosed' /\ LastStart' = [base |-> b, wall |-> wall]
    BY <1>0, <2>1, <2>2, <2>3, StartLinks
  <2>5. LastStart'.base = b /\ LastStart'.wall = wall
    BY <2>4
  <2>6. trained <= b
    BY <1>0, <2>1, <2>2 DEF Covered
  <2> QED
    BY <1>0, <2>2, <2>3, <2>4, <2>5, <2>6 DEF Covered
<1>12. CASE Finish
  <2> DEFINE e == [elapsed |-> base + ran, wall |-> wall]
  <2>1. Unclosed /\ base = LastStart.base /\ phase = "stopping"
    BY <1>12 DEF Finish, Shape, Linked
  <2>2. ~(wall < LastStart.wall) /\ trained <= base + ran
    BY <1>0, <2>1 DEF Covered
  <2>3. /\ e \in EndRecords
        /\ e.elapsed >= LastStart.base /\ e.wall >= LastStart.wall
    BY <1>0, <2>1, <2>2 DEF EndRecords
  <2>4. /\ ends' = Append(ends, e) /\ phase' = "down"
        /\ UNCHANGED <<starts, wall, accounted, trained>>
    BY <1>12, <2>2 DEF Finish, Leave, clock
  <2>5. e.elapsed = base + ran /\ e.wall = wall
    OBVIOUS
  <2> HIDE DEF e
  <2>6. ~Unclosed' /\ Elapsed' = e.elapsed /\ LastWall' = e.wall
    BY <2>1, <2>3, <2>4, CloseLinks
  <2> QED
    BY <1>0, <2>2, <2>4, <2>5, <2>6 DEF Covered
<1> QED
  BY <1>1, <1>2, <1>3, <1>4, <1>5, <1>6, <1>7, <1>8, <1>9, <1>10, <1>11, <1>12
     DEF Next

\* The loop stops at the budget, whichever invocation reaches it.
LEMMA BudgetStep ==
    ASSUME Shape, Covered, BudgetNeverRenewed, [Next]_vars
    PROVE  BudgetNeverRenewed'
PROOF
<1>1. CASE Tick
  <2>1. /\ trained \in Nat /\ base \in Nat /\ ran \in Nat /\ Timeout \in Nat
        /\ trained' \in {trained, trained + 1}
        /\ trained' # trained => MayTrain
    BY <1>1, ClockAssumption DEF Shape, TypeOK, Tick
  <2>2. MayTrain => trained <= base + ran /\ base + ran < Timeout
    BY DEF Covered, MayTrain
  <2> QED
    BY <2>1, <2>2 DEF BudgetNeverRenewed
<1>2. CASE ~Tick
  <2>1. trained' = trained
    BY <1>2 DEF Next, Launch, PublishInitial, Seal, Start, Observe, Commit,
                EndLoop, Finish, Crash, StepBack, vars
  <2> QED
    BY <2>1 DEF BudgetNeverRenewed
<1> QED
  BY <1>1, <1>2

\* The clock is not set back unless by an action of its own.
LEMMA SetBackGrows ==
    ASSUME Shape, [Next]_vars, setBack' = 0
    PROVE  setBack = 0
PROOF
<1>1. setBack' \in {setBack, setBack + 1} /\ setBack \in Nat
  BY DEF Next, Launch, PublishInitial, Seal, Start, Observe, Commit, EndLoop,
         Finish, Crash, Tick, StepBack, vars, clock, Shape, TypeOK
<1> QED
  BY <1>1

\* As long as the wall clock is not set back, no sequence of crashes, recoveries
\* and pauses lets a run train longer than its time budget.
THEOREM BudgetIsNeverRenewed == Spec => []BudgetKeptByClock
PROOF
<1>1. Init => IInv
  <2>1. Init => Shape
    BY ShapeInit
  <2>2. Init => Covered /\ BudgetNeverRenewed
    BY ClockAssumption DEF Init, Covered, BudgetNeverRenewed, Unclosed, Elapsed,
                           LastWall
  <2> QED
    BY <2>1, <2>2 DEF IInv
<1>2. IInv /\ [Next]_vars => IInv'
  BY ShapeInvariance, CoveredInvariance, BudgetStep, SetBackGrows DEF IInv
<1>3. IInv => BudgetKeptByClock
  BY DEF IInv, BudgetKeptByClock
<1> QED
  BY <1>1, <1>2, <1>3, PTL DEF Spec

(***************************************************************************)
(* The catalog.  Every whole file belongs to a revision, whatever the      *)
(* order of the edits; so does everything the loader has read, and the     *)
(* registry is one file: what agrees with it is of its revision.           *)
(***************************************************************************)

\* What a place may hold on the way from one revision to another.
Holdings(place) == {Absent, Empty} \cup {r[place] : r \in Revisions}
DirectoryTyped ==
  /\ aim \in Revisions
  /\ data = [place \in Places |-> data[place]]
  /\ \A place \in Places : data[place] \in Holdings(place)

\* A file that was read, as some revision holds it.
Read(f) ==
  /\ f = [place |-> f.place, text |-> f.text]
  /\ f.place \in Places /\ Parses(f.place, f.text)
  /\ \E r \in Revisions : r[f.place] = f.text
Tree(stage) == IF stage = "frozen" THEN {0} ELSE Extensions
LoaderTyped ==
  /\ loader = [call |-> loader.call, wanted |-> loader.wanted, step |-> loader.step,
               stage |-> loader.stage, root |-> loader.root, todo |-> loader.todo,
               names |-> loader.names, found |-> loader.found, frozen |-> loader.frozen,
               further |-> loader.further, pack |-> loader.pack]
  /\ loader.stage \in {"packs", "frozen", "further"}
  /\ loader.root.catalog \subseteq Extensions /\ loader.root.packs \subseteq Extensions
  /\ loader.todo \subseteq Tree(loader.stage)
  /\ loader.step = "read" => \A k \in loader.todo, name \in loader.names :
       Leads(k, loader.todo) => <<Directory(loader.stage), k, name>> \in Places
  /\ \A f \in loader.found : /\ Read(f)
                             /\ f.place[1] = Directory(loader.stage)
                             /\ f.place[2] \in Tree(loader.stage)

\* The frozen definitions, once they are settled.
OneRevision ==
  loader.stage = "further" \/ (loader.step = "answered" /\ loader.call # "path")
    => \E r \in Revisions : loader.frozen = r[Canonical].entries

\* The pack, once it is chosen; only such a call has one.
PackChosen(text) ==
  \E r \in Revisions, k \in {0} \cup Extensions :
    /\ r[<<"packs", k, loader.wanted>>] = text
    /\ Parses(<<"packs", k, loader.wanted>>, text)
ForPack == loader.call \in {"pack", "path"}
PackIsARevisions ==
  /\ loader.step = "select" \/ loader.stage = "packs" => ForPack
  /\ ForPack => loader.wanted \in Packs
  /\ ForPack /\ \/ loader.step = "answered"
                \/ loader.step \in {"open", "read"} /\ loader.stage # "packs"
       => \E text : loader.pack = <<text>> /\ PackChosen(text)

\* What the extensions define is known when the call is answered, and no sooner.
Answered ==
  /\ loader.step # "answered" => loader.further = <<>>
  /\ \A b \in DOMAIN loader.further : \E r \in Revisions, k \in Extensions :
       r[<<"catalog", k, b>>] = [id |-> b, body |-> loader.further[b]]
  /\ loader.step = "answered" =>
       /\ loader.call = "get" => loader.wanted \in DOMAIN Merged(loader)
       /\ loader.call = "pack" =>
            loader.pack[1].benchmarks \subseteq DOMAIN Merged(loader)

CatalogInv ==
  DirectoryTyped /\ LoaderTyped /\ OneRevision /\ PackIsARevisions /\ Answered

\* A file of a place is a text of that place.
LEMMA TextsOfPlaces ==
  ASSUME NEW r \in Revisions, NEW place \in Places, r[place] # Absent
  PROVE  /\ place[1] = "packs" => r[place] \in BenchmarkPacks
         /\ place[1] = "catalog" /\ place # Canonical => r[place] \in BenchmarkSpecs
PROOF
<1>1. r[place] \in Texts(place)
  BY CatalogAssumption
<1>2. Canonical[1] = "catalog"
  BY DEF Canonical
<1> QED
  BY <1>1, <1>2 DEF Texts

\* The parts of a place.
LEMMA PartsOfPlaces ==
  ASSUME NEW place \in Places
  PROVE  /\ place = <<place[1], place[2], place[3]>>
         /\ place[1] \in {"catalog", "packs"}
         /\ place[2] \in {0} \cup Extensions
         /\ place # Canonical => place[3] # 0
PROOF
  BY CatalogAssumption DEF Places, Canonical

LEMMA ReadNow ==
  ASSUME DirectoryTyped, NEW place \in Places, Parses(place, data[place])
  PROVE  \E r \in Revisions : r[place] = data[place]
PROOF
  BY DEF DirectoryTyped, Holdings, Parses

LEMMA CatalogBegins == CatalogInit => CatalogInv
PROOF
<1> SUFFICES ASSUME CatalogInit PROVE CatalogInv
  OBVIOUS
<1>1. DirectoryTyped
  <2>1. /\ data \in [Places -> {Absent} \cup UNION {Texts(p) : p \in Places}]
        /\ \A place \in Places : data[place] \in {r[place] : r \in Revisions}
    BY CatalogAssumption DEF CatalogInit
  <2> QED
    BY <2>1 DEF CatalogInit, DirectoryTyped, Holdings
<1>2. LoaderTyped
  BY DEF CatalogInit, LoaderTyped, NoLoad
<1>3. OneRevision /\ PackIsARevisions /\ Answered
  BY DEF CatalogInit, OneRevision, PackIsARevisions, ForPack, Answered, NoLoad
<1> QED
  BY <1>1, <1>2, <1>3 DEF CatalogInv

\* A call that is refused keeps what it knows.
LEMMA RefusalsAreSafe ==
  ASSUME CatalogInv, loader.step # "answered", Goes(Refused(loader))
  PROVE  CatalogInv'
PROOF
<1>1. /\ data' = data /\ aim' = aim
      /\ loader' = [loader EXCEPT !.step = "refused"]
  BY DEF Goes, Refused
<1>2. DirectoryTyped'
  BY <1>1 DEF CatalogInv, DirectoryTyped, Holdings
<1>3. LoaderTyped'
  BY <1>1 DEF CatalogInv, LoaderTyped, Read, Parses
<1>4. OneRevision' /\ PackIsARevisions' /\ Answered'
  BY <1>1 DEF CatalogInv, LoaderTyped, OneRevision, PackIsARevisions, ForPack, Answered
<1> QED
  BY <1>2, <1>3, <1>4 DEF CatalogInv

\* What a pack is chosen with: a file of that name that some revision has.
LEMMA ChoicesAreSafe ==
  ASSUME CatalogInv, NEW text, ForPack, loader.step # "answered",
         PackChosen(text), Goes(ChoosePack(text))
  PROVE  CatalogInv'
PROOF
<1>0. loader.wanted \in Packs /\ loader.further = <<>>
  BY DEF CatalogInv, PackIsARevisions, Answered
<1>1. DirectoryTyped'
  BY DEF CatalogInv, Goes, DirectoryTyped, Holdings
<1>2. CASE loader.call = "path"
  <2>1. loader' = [loader EXCEPT !.pack = <<text>>, !.step = "answered"]
    BY <1>2 DEF Goes, ChoosePack, CatalogInv, LoaderTyped
  <2>2. LoaderTyped'
    BY <2>1 DEF CatalogInv, LoaderTyped, Read, Parses
  <2>3. OneRevision'
    BY <1>2, <2>1 DEF CatalogInv, LoaderTyped, OneRevision
  <2>4. PackIsARevisions'
    BY <1>0, <2>1 DEF CatalogInv, LoaderTyped, PackIsARevisions, PackChosen, ForPack, Parses
  <2>5. Answered'
    BY <1>0, <1>2, <2>1 DEF CatalogInv, LoaderTyped, Answered
  <2> QED
    BY <1>1, <2>2, <2>3, <2>4, <2>5 DEF CatalogInv
<1>3. CASE loader.call # "path"
  <2>1. loader' = [loader EXCEPT !.pack = <<text>>, !.step = "open",
                     !.stage = "frozen", !.todo = {0}, !.found = {}]
    BY <1>3 DEF Goes, ChoosePack, Enter, CatalogInv, LoaderTyped
  <2>2. LoaderTyped'
    BY <2>1 DEF CatalogInv, LoaderTyped, Tree
  <2>3. OneRevision'
    BY <2>1 DEF CatalogInv, LoaderTyped, OneRevision
  <2>4. PackIsARevisions'
    <3>1. /\ loader'.pack = <<text>> /\ loader'.wanted = loader.wanted
          /\ loader'.call = loader.call
          /\ loader'.step = "open" /\ loader'.stage = "frozen"
      BY <2>1 DEF CatalogInv, LoaderTyped
    <3>2. PackChosen(text)'
      BY <3>1 DEF PackChosen, Parses
    <3> QED
      BY <1>0, <3>1, <3>2 DEF PackIsARevisions, ForPack
  <2>5. Answered'
    BY <1>0, <2>1 DEF CatalogInv, LoaderTyped, Answered
  <2> QED
    BY <1>1, <2>2, <2>3, <2>4, <2>5 DEF CatalogInv
<1> QED
  BY <1>2, <1>3

LEMMA EditsAreSafe ==
  ASSUME CatalogInv,
         (\E r \in Revisions : AimAt(r)) \/ (\E place \in Places : Edit(place))
         \/ UNCHANGED catalogVars
  PROVE  CatalogInv'
PROOF
<1>1. loader' = loader
  BY DEF AimAt, Edit, catalogVars
<1>2. LoaderTyped' /\ OneRevision' /\ PackIsARevisions' /\ Answered'
  <2>1. LoaderTyped'
    BY <1>1 DEF CatalogInv, LoaderTyped, Read, Parses
  <2>2. OneRevision'
    BY <1>1 DEF CatalogInv, OneRevision
  <2>3. PackIsARevisions'
    BY <1>1 DEF CatalogInv, PackIsARevisions, PackChosen, ForPack, Parses
  <2>4. Answered'
    BY <1>1 DEF CatalogInv, Answered, Merged
  <2> QED
    BY <2>1, <2>2, <2>3, <2>4
<1>3. DirectoryTyped'
  <2>1. CASE \E place \in Places : Edit(place)
    <3>1. PICK place \in Places : Edit(place)
      BY <2>1
    <3>2. PICK text \in {Absent, Empty, aim[place]} :
            data' = [data EXCEPT ![place] = text]
      BY <3>1 DEF Edit
    <3>3. aim \in Revisions /\ aim' = aim
      BY <3>1 DEF Edit, CatalogInv, DirectoryTyped
    <3>4. text \in Holdings(place)
      BY <3>2, <3>3 DEF Holdings
    <3>5. /\ data' = [p \in Places |-> data'[p]]
          /\ \A p \in Places : data'[p] = IF p = place THEN text ELSE data[p]
      BY <3>2 DEF CatalogInv, DirectoryTyped
    <3> QED
      BY <3>3, <3>4, <3>5 DEF CatalogInv, DirectoryTyped, Holdings
  <2>2. CASE \E r \in Revisions : AimAt(r)
    BY <2>2 DEF AimAt, CatalogInv, DirectoryTyped, Holdings
  <2>3. CASE UNCHANGED catalogVars
    BY <2>3 DEF catalogVars, CatalogInv, DirectoryTyped, Holdings
  <2> QED
    BY <2>1, <2>2, <2>3
<1> QED
  BY <1>2, <1>3 DEF CatalogInv

LEMMA BeginningsAreSafe ==
  ASSUME CatalogInv, NEW call \in {"get", "list", "pack", "path"}, NEW wanted,
         BeginLoad(call, wanted)
  PROVE  CatalogInv'
PROOF
<1> DEFINE root == [catalog |-> Extended("catalog"), packs |-> Extended("packs")]
<1>1. DirectoryTyped'
  BY DEF CatalogInv, BeginLoad, Goes, DirectoryTyped, Holdings
<1>2. root.catalog \subseteq Extensions /\ root.packs \subseteq Extensions
  BY DEF Extended
<1>3. CASE call \in {"pack", "path"}
  <2>1. loader' = [NoLoad EXCEPT !.call = call, !.wanted = wanted, !.root = root,
                                 !.step = "select"]
        /\ wanted \in Packs
    BY <1>3 DEF BeginLoad, Goes, NoLoad
  <2> HIDE DEF root
  <2>2. /\ LoaderTyped' /\ OneRevision'
    BY <1>2, <2>1 DEF NoLoad, LoaderTyped, OneRevision
  <2>3. PackIsARevisions'
    <3>1. loader'.step = "select" /\ loader'.wanted \in Packs
          /\ loader'.stage = "frozen" /\ loader'.call \in {"pack", "path"}
      BY <1>3, <2>1 DEF NoLoad
    <3> QED
      BY <3>1 DEF PackIsARevisions, ForPack
  <2>4. Answered'
    BY <2>1 DEF NoLoad, Answered
  <2> QED
    BY <1>1, <2>2, <2>3, <2>4 DEF CatalogInv
<1>4. CASE call \in {"get", "list"}
  <2>1. loader' = [NoLoad EXCEPT !.call = call, !.wanted = wanted, !.root = root,
                     !.step = "open", !.stage = "frozen", !.todo = {0}, !.found = {}]
    BY <1>4 DEF BeginLoad, Goes, NoLoad, Enter
  <2> HIDE DEF root
  <2>2. LoaderTyped' /\ OneRevision'
    BY <1>2, <2>1 DEF NoLoad, LoaderTyped, OneRevision, Tree
  <2>3. PackIsARevisions' /\ Answered'
    BY <1>4, <2>1 DEF NoLoad, PackIsARevisions, ForPack, Answered
  <2> QED
    BY <1>1, <2>2, <2>3 DEF CatalogInv
<1> QED
  BY <1>3, <1>4

LEMMA SelectionsAreSafe ==
  ASSUME CatalogInv, SelectPack
  PROVE  CatalogInv'
PROOF
<1> DEFINE place == <<"packs", 0, loader.wanted>>
<1>1. ForPack /\ loader.step = "select" /\ loader.wanted \in Packs
  BY DEF SelectPack, CatalogInv, PackIsARevisions
<1>2. CASE Parses(place, data[place]) /\ Goes(ChoosePack(data[place]))
  <2>1. place \in Places
    BY <1>1 DEF Places
  <2>2. PackChosen(data[place])
    BY <1>2, <2>1, ReadNow DEF PackChosen, CatalogInv
  <2> QED
    BY <1>1, <1>2, <2>2, ChoicesAreSafe
<1>3. CASE Goes(Enter("packs", loader.root.packs, loader))
  <2>1. loader' = [loader EXCEPT !.step = "open", !.stage = "packs",
                                 !.todo = loader.root.packs, !.found = {}]
    BY <1>3 DEF Goes, Enter
  <2>2. LoaderTyped' /\ OneRevision'
    BY <2>1 DEF CatalogInv, LoaderTyped, OneRevision, Tree
  <2>3. PackIsARevisions' /\ Answered'
    BY <1>1, <2>1 DEF CatalogInv, LoaderTyped, PackIsARevisions, ForPack, Answered
  <2>4. DirectoryTyped'
    BY <1>3 DEF CatalogInv, Goes, DirectoryTyped, Holdings
  <2> QED
    BY <2>2, <2>3, <2>4 DEF CatalogInv
<1> QED
  BY <1>1, <1>2, <1>3, RefusalsAreSafe DEF SelectPack

\* While directories are read nothing is settled.
LEMMA ReadingSettlesNothing ==
  ASSUME CatalogInv, loader.step \in {"open", "read"}, loader'.step \in {"open", "read"},
         loader'.call = loader.call, loader'.wanted = loader.wanted,
         loader'.stage = loader.stage, loader'.pack = loader.pack,
         loader'.frozen = loader.frozen, loader'.further = loader.further
  PROVE  OneRevision' /\ PackIsARevisions' /\ Answered'
PROOF
<1>1. OneRevision'
  BY DEF CatalogInv, OneRevision
<1>2. PackIsARevisions'
  <2>1. ForPack' = ForPack /\ \A text : PackChosen(text)' = PackChosen(text)
    BY DEF ForPack, PackChosen, Parses
  <2> QED
    BY <2>1 DEF CatalogInv, PackIsARevisions
<1>3. Answered'
  BY DEF CatalogInv, Answered
<1> QED
  BY <1>1, <1>2, <1>3

LEMMA ReadingsAreSafe ==
  ASSUME CatalogInv, ListDirectory \/ ReadFile \/ CloseDirectory
  PROVE  CatalogInv'
PROOF
<1>1. DirectoryTyped' /\ data' = data
  BY DEF CatalogInv, ListDirectory, ReadFile, CloseDirectory, Goes, DirectoryTyped, Holdings
<1>9. loader.step # "answered"
  BY DEF ListDirectory, ReadFile, CloseDirectory
<1>2. CASE CloseDirectory
  <2>1. PICK k \in loader.todo :
          loader' = [loader EXCEPT !.step = "open", !.todo = loader.todo \ {k}]
    BY <1>2 DEF CloseDirectory, Goes
  <2>2. LoaderTyped'
    BY <2>1 DEF CatalogInv, LoaderTyped, Read, Parses
  <2>3. OneRevision' /\ PackIsARevisions' /\ Answered'
    <3>1. /\ loader.step \in {"open", "read"} /\ loader'.step = "open"
          /\ loader'.call = loader.call /\ loader'.wanted = loader.wanted
          /\ loader'.stage = loader.stage /\ loader'.pack = loader.pack
          /\ loader'.frozen = loader.frozen /\ loader'.further = loader.further
      BY <1>2, <2>1 DEF CloseDirectory, CatalogInv, LoaderTyped
    <3> QED
      BY <3>1, ReadingSettlesNothing
  <2> QED
    BY <1>1, <2>2, <2>3 DEF CatalogInv
<1>3. CASE ListDirectory
  <2>0. PICK k \in loader.todo :
          /\ Leads(k, loader.todo)
          /\ Goes(IF loader.stage = "frozen" /\ 0 \notin Listing(Directory(loader.stage), k)
                    THEN Refused(loader)
                  ELSE [loader EXCEPT !.step = "read",
                                      !.names = Listing(Directory(loader.stage), k)])
    BY <1>3 DEF ListDirectory
  <2> DEFINE names == Listing(Directory(loader.stage), k)
  <2>1. CASE loader' = [loader EXCEPT !.step = "read", !.names = names]
    <3>1. \A name \in names : <<Directory(loader.stage), k, name>> \in Places
      BY PartsOfPlaces DEF Listing
    <3>2. \A j \in loader.todo : Leads(j, loader.todo) => j = k
      BY <2>0, CatalogAssumption DEF Leads, CatalogInv, LoaderTyped, Tree
    <3> HIDE DEF names
    <3>3. LoaderTyped'
      BY <2>1, <3>1, <3>2 DEF CatalogInv, LoaderTyped, Read, Parses
    <3>4. OneRevision' /\ PackIsARevisions' /\ Answered'
      <4>1. /\ loader.step \in {"open", "read"} /\ loader'.step = "read"
            /\ loader'.call = loader.call /\ loader'.wanted = loader.wanted
            /\ loader'.stage = loader.stage /\ loader'.pack = loader.pack
            /\ loader'.frozen = loader.frozen /\ loader'.further = loader.further
        BY <1>3, <2>1 DEF ListDirectory, CatalogInv, LoaderTyped
      <4> QED
        BY <4>1, ReadingSettlesNothing
    <3> QED
      BY <1>1, <3>3, <3>4 DEF CatalogInv
  <2> QED
    BY <1>9, <2>0, <2>1, RefusalsAreSafe DEF Goes
<1>4. CASE ReadFile
  <2>0. PICK k \in loader.todo, name \in loader.names :
          /\ Leads(k, loader.todo)
          /\ LET place == <<Directory(loader.stage), k, name>>
                 text == data[place]
             IN  Goes(IF Parses(place, text)
                        /\ (loader.stage = "frozen" /\ name # 0 => text.id = name)
                     THEN [loader EXCEPT
                             !.names = @ \ {name},
                             !.found = @ \cup {[place |-> place, text |-> text]}]
                     ELSE Refused(loader))
    BY <1>4 DEF ReadFile
  <2> DEFINE place == <<Directory(loader.stage), k, name>>
             file == [place |-> place, text |-> data[place]]
  <2>1. CASE /\ Parses(place, data[place])
             /\ loader' = [loader EXCEPT !.names = loader.names \ {name},
                                         !.found = loader.found \cup {file}]
    <3>1. place \in Places
      BY <1>4, <2>0 DEF ReadFile, CatalogInv, LoaderTyped
    <3>2. Read(file) /\ file.place[1] = Directory(loader.stage)
                     /\ file.place[2] \in Tree(loader.stage)
      <4>1. \E r \in Revisions : r[place] = data[place]
        BY <2>1, <3>1, ReadNow DEF CatalogInv
      <4> QED
        BY <2>1, <3>1, <4>1 DEF Read, CatalogInv, LoaderTyped
    <3> HIDE DEF file
    <3>3. LoaderTyped'
      BY <2>1, <3>2 DEF CatalogInv, LoaderTyped, Read, Parses
    <3>4. OneRevision' /\ PackIsARevisions' /\ Answered'
      <4>1. /\ loader.step \in {"open", "read"} /\ loader'.step = "read"
            /\ loader'.call = loader.call /\ loader'.wanted = loader.wanted
            /\ loader'.stage = loader.stage /\ loader'.pack = loader.pack
            /\ loader'.frozen = loader.frozen /\ loader'.further = loader.further
        BY <1>4, <2>1 DEF ReadFile, CatalogInv, LoaderTyped
      <4> QED
        BY <4>1, ReadingSettlesNothing
    <3> QED
      BY <1>1, <3>3, <3>4 DEF CatalogInv
  <2> QED
    BY <1>9, <2>0, <2>1, RefusalsAreSafe DEF Goes
<1> QED
  BY <1>2, <1>3, <1>4

\* What is defined by files that were read, and by which of them.
LEMMA DefinedByFiles ==
  ASSUME CatalogInv, loader.stage # "packs",
         NEW found \in SUBSET loader.found,
         \A f \in found : f.place # Canonical
  PROVE  /\ DOMAIN Defined(found) = {f.text.id : f \in found}
         /\ \A b \in DOMAIN Defined(found) : \E f \in found :
              /\ f.text.id = b
              /\ f.text = [id |-> b, body |-> Defined(found)[b]]
              /\ \E r \in Revisions : r[f.place] = f.text
PROOF
<1>1. DOMAIN Defined(found) = {f.text.id : f \in found}
  BY DEF Defined
<1>2. ASSUME NEW b \in DOMAIN Defined(found)
      PROVE  \E f \in found :
               /\ f.text.id = b
               /\ f.text = [id |-> b, body |-> Defined(found)[b]]
               /\ \E r \in Revisions : r[f.place] = f.text
  <2> DEFINE g == CHOOSE f \in found : f.text.id = b
  <2>1. g \in found /\ g.text.id = b
    BY <1>1, <1>2
  <2>2. Defined(found)[b] = g.text.body
    BY <1>1, <1>2 DEF Defined
  <2> HIDE DEF g
  <2>3. Read(g) /\ g.place[1] = "catalog"
    BY <2>1 DEF CatalogInv, LoaderTyped, Directory
  <2>4. PICK r \in Revisions : r[g.place] = g.text
    BY <2>3 DEF Read
  <2>5. g.text \in BenchmarkSpecs
    BY <2>1, <2>3, <2>4, TextsOfPlaces DEF Read, Parses
  <2> QED
    BY <2>1, <2>2, <2>4, <2>5 DEF BenchmarkSpecs
<1> QED
  BY <1>1, <1>2

LEMMA SettlingsAreSafe ==
  ASSUME CatalogInv, SettlePacks \/ SettleFrozen \/ SettleFurther
  PROVE  CatalogInv'
PROOF
<1>1. /\ DirectoryTyped' /\ data' = data
      /\ loader.step = "open" /\ loader.todo = {} /\ loader.further = <<>>
  BY DEF CatalogInv, SettlePacks, SettleFrozen, SettleFurther, AllRead, ChoosePack,
         Goes, DirectoryTyped, Holdings, Answered
<1>2. CASE SettlePacks
  <2>1. ForPack /\ loader.wanted \in Packs /\ loader.stage = "packs"
    BY <1>2 DEF SettlePacks, AllRead, CatalogInv, PackIsARevisions
  <2>2. ASSUME NEW f \in loader.found, f.text.id = loader.wanted,
               Unambiguous(loader.found), Goes(ChoosePack(f.text))
        PROVE  CatalogInv'
    <3>1. /\ Read(f) /\ f.place[1] = "packs" /\ f.place[2] \in Extensions
          /\ f.place[3] = loader.wanted
      BY <2>1, <2>2 DEF CatalogInv, LoaderTyped, Directory, Tree, Unambiguous
    <3>2. f.place = <<"packs", f.place[2], loader.wanted>>
      BY <3>1, PartsOfPlaces DEF Read
    <3>3. PackChosen(f.text)
      BY <3>1, <3>2 DEF PackChosen, Read
    <3> QED
      BY <1>1, <2>1, <2>2, <3>3, ChoicesAreSafe
  <2> QED
    BY <1>1, <1>2, <2>2, RefusalsAreSafe DEF SettlePacks
<1>3. CASE SettleFrozen
  <2>1. loader.stage = "frozen"
    BY <1>3 DEF SettleFrozen, AllRead
  <2>2. PICK registry \in loader.found :
          /\ registry.place = Canonical
          /\ LET others == loader.found \ {registry}
                 settled == [loader EXCEPT !.frozen = Defined(others)]
             IN  Goes(IF ~Registers(registry.text, others)
                         \/ ~(loader.root.catalog \subseteq Extended("catalog"))
                      THEN Refused(loader)
                      ELSE IF loader.call = "get" /\ loader.wanted \in DOMAIN settled.frozen
                        THEN [settled EXCEPT !.step = "answered"]
                      ELSE Enter("further", loader.root.catalog, settled))
    BY <1>3 DEF SettleFrozen
  <2> DEFINE frozen == Defined(loader.found \ {registry})
  <2>3. CASE /\ registry.text.entries = frozen
             /\ loader.call = "get" /\ loader.wanted \in DOMAIN frozen
             /\ loader' = [loader EXCEPT !.frozen = frozen, !.step = "answered"]
    <3>1. PICK r \in Revisions : frozen = r[Canonical].entries
      BY <2>2, <2>3 DEF CatalogInv, LoaderTyped, Read
    <3> HIDE DEF frozen
    <3>2. LoaderTyped' /\ OneRevision'
      BY <2>3, <3>1 DEF CatalogInv, LoaderTyped, OneRevision, Read, Parses
    <3>3. PackIsARevisions'
      BY <2>1, <2>3 DEF CatalogInv, LoaderTyped, PackIsARevisions, ForPack
    <3>4. Answered'
      BY <1>1, <2>3 DEF CatalogInv, LoaderTyped, Answered, Merged
    <3> QED
      BY <1>1, <3>2, <3>3, <3>4 DEF CatalogInv
  <2>4. CASE /\ registry.text.entries = frozen
             /\ loader' = [loader EXCEPT !.frozen = frozen, !.step = "open",
                             !.stage = "further", !.todo = loader.root.catalog,
                             !.found = {}]
    <3>1. PICK r \in Revisions : frozen = r[Canonical].entries
      BY <2>2, <2>4 DEF CatalogInv, LoaderTyped, Read
    <3> HIDE DEF frozen
    <3>2. LoaderTyped' /\ OneRevision'
      BY <2>4, <3>1 DEF CatalogInv, LoaderTyped, OneRevision, Tree
    <3>3. PackIsARevisions'
      BY <1>1, <2>1, <2>4 DEF CatalogInv, LoaderTyped, PackIsARevisions, PackChosen,
                              ForPack, Parses
    <3>4. Answered'
      BY <1>1, <2>4 DEF CatalogInv, LoaderTyped, Answered
    <3> QED
      BY <1>1, <3>2, <3>3, <3>4 DEF CatalogInv
  <2>5. \/ Goes(Refused(loader))
        \/ /\ registry.text.entries = frozen
           /\ loader.call = "get" /\ loader.wanted \in DOMAIN frozen
           /\ loader' = [loader EXCEPT !.frozen = frozen, !.step = "answered"]
        \/ /\ registry.text.entries = frozen
           /\ loader' = [loader EXCEPT !.frozen = frozen, !.step = "open",
                           !.stage = "further", !.todo = loader.root.catalog,
                           !.found = {}]
    BY <2>2 DEF Goes, Registers, Enter, CatalogInv, LoaderTyped
  <2> QED
    BY <1>1, <2>3, <2>4, <2>5, RefusalsAreSafe
<1>4. CASE SettleFurther
  <2> DEFINE further == Defined(loader.found)
             settled == [loader EXCEPT !.further = further]
  <2>1. loader.stage = "further"
    BY <1>4 DEF SettleFurther, AllRead
  <2>2. CASE /\ Unambiguous(loader.found)
             /\ loader.call = "get" => loader.wanted \in DOMAIN Merged(settled)
             /\ loader.call = "pack" =>
                  loader.pack[1].benchmarks \subseteq DOMAIN Merged(settled)
             /\ loader' = [settled EXCEPT !.step = "answered"]
    <3>1. ASSUME NEW b \in DOMAIN further
          PROVE  \E r \in Revisions, k \in Extensions :
                   r[<<"catalog", k, b>>] = [id |-> b, body |-> further[b]]
      <4>1. \A f \in loader.found : /\ f.place \in Places /\ f.place[1] = "catalog"
                                    /\ f.place[2] \in Extensions
                                    /\ f.place # Canonical
        BY <2>1, CatalogAssumption DEF CatalogInv, LoaderTyped, Read, Tree, Directory, Canonical
      <4>2. PICK f \in loader.found :
              /\ f.text.id = b /\ f.text = [id |-> b, body |-> further[b]]
              /\ \E r \in Revisions : r[f.place] = f.text
        <5>1. \A c \in DOMAIN Defined(loader.found) : \E f \in loader.found :
                /\ f.text.id = c
                /\ f.text = [id |-> c, body |-> Defined(loader.found)[c]]
                /\ \E r \in Revisions : r[f.place] = f.text
          BY <2>1, <4>1, DefinedByFiles
        <5> QED
          BY <3>1, <5>1
      <4>3. f.place = <<"catalog", f.place[2], b>>
        BY <2>2, <4>1, <4>2, PartsOfPlaces DEF Unambiguous
      <4> QED
        BY <4>1, <4>2, <4>3
    <3>2. Merged(loader') = Merged(settled)
      BY <2>2 DEF Merged, CatalogInv, LoaderTyped
    <3> HIDE DEF further
    <3>3. loader' = [loader EXCEPT !.further = further, !.step = "answered"]
      BY <2>2 DEF CatalogInv, LoaderTyped
    <3>4. LoaderTyped' /\ OneRevision'
      BY <2>1, <3>3 DEF CatalogInv, LoaderTyped, OneRevision, Read, Parses
    <3>5. PackIsARevisions'
      BY <1>1, <2>1, <3>3 DEF CatalogInv, LoaderTyped, PackIsARevisions, PackChosen,
                              ForPack, Parses
    <3>6. Answered'
      <4>1. /\ loader'.further = further /\ loader'.step = "answered"
            /\ loader'.call = loader.call /\ loader'.wanted = loader.wanted
            /\ loader'.pack = loader.pack
        BY <3>3 DEF CatalogInv, LoaderTyped
      <4>2. /\ loader.call = "get" => loader.wanted \in DOMAIN Merged(loader')
            /\ loader.call = "pack" =>
                 loader.pack[1].benchmarks \subseteq DOMAIN Merged(loader')
        BY <2>2, <3>2
      <4>3. Merged(loader)' = Merged(loader')
        BY DEF Merged
      <4> HIDE DEF settled
      <4> QED
        BY <3>1, <4>1, <4>2, <4>3 DEF Answered
    <3> QED
      BY <1>1, <3>4, <3>5, <3>6 DEF CatalogInv
  <2> QED
    BY <1>1, <1>4, <2>2, RefusalsAreSafe DEF SettleFurther, Goes
<1> QED
  BY <1>2, <1>3, <1>4

\* An answer never mixes two revisions of the frozen catalog, and what it says of
\* packs and extensions some revision says (AnswersAreOneRevision): for any
\* benchmarks, packs, extensions and revisions, and edits in any order.
THEOREM CatalogReadsOneRevision == CatalogSpec => []AnswersAreOneRevision
PROOF
<1>1. CatalogInv /\ [CatalogNext]_catalogVars => CatalogInv'
  <2> SUFFICES ASSUME CatalogInv, [CatalogNext]_catalogVars PROVE CatalogInv'
    OBVIOUS
  <2>1. CASE LoadFails
    BY <2>1, RefusalsAreSafe DEF LoadFails
  <2>2. CASE \/ \E r \in Revisions : AimAt(r)
             \/ \E place \in Places : Edit(place)
             \/ UNCHANGED catalogVars
    BY <2>2, EditsAreSafe
  <2>3. CASE \E call \in {"get", "list", "pack", "path"},
               wanted \in {0} \cup Benchmarks \cup Packs : BeginLoad(call, wanted)
    BY <2>3, BeginningsAreSafe
  <2> QED
    BY <2>1, <2>2, <2>3, SelectionsAreSafe, ReadingsAreSafe, SettlingsAreSafe
       DEF CatalogNext
<1>2. CatalogInv => AnswersAreOneRevision
  <2> SUFFICES ASSUME CatalogInv, loader.step = "answered"
               PROVE  AnswersAreOneRevision
    BY DEF AnswersAreOneRevision
  <2>1. /\ loader.call # "path" => \E r \in Revisions : loader.frozen = r[Canonical].entries
        /\ \A b \in DOMAIN loader.further : \E r \in Revisions, k \in Extensions :
             r[<<"catalog", k, b>>] = [id |-> b, body |-> loader.further[b]]
        /\ loader.call = "get" => loader.wanted \in DOMAIN Merged(loader)
        /\ loader.call = "pack" =>
             loader.pack[1].benchmarks \subseteq DOMAIN Merged(loader)
    BY DEF CatalogInv, OneRevision, Answered
  <2>2. ASSUME ForPack
        PROVE  /\ \E r \in Revisions, k \in {0} \cup Extensions :
                    r[<<"packs", k, loader.wanted>>] = loader.pack[1]
               /\ loader.pack[1].evaluations % Cardinality(loader.pack[1].benchmarks) = 0
    <3>1. PICK text : loader.pack = <<text>> /\ PackChosen(text)
      BY <2>2 DEF CatalogInv, PackIsARevisions
    <3>2. loader.pack[1] = text
      BY <3>1
    <3>3. PICK r \in Revisions, k \in {0} \cup Extensions :
            /\ r[<<"packs", k, loader.wanted>>] = text
            /\ Parses(<<"packs", k, loader.wanted>>, text)
      BY <3>1 DEF PackChosen
    <3>4. text.evaluations % Cardinality(text.benchmarks) = 0
      BY <3>3 DEF Parses
    <3> QED
      BY <3>2, <3>3, <3>4
  <2> QED
    BY <2>1, <2>2 DEF AnswersAreOneRevision, ForPack
<1> QED
  BY <1>1, <1>2, CatalogBegins, PTL DEF CatalogSpec

(***************************************************************************)
(* The cache of language-model data.  A file that was of its size when it  *)
(* was inspected reaches that size again, through cuts and appends, only   *)
(* by being whole, unless it holds a wrong cell: so what was read right up *)
(* to its size was whole at some moment.                                   *)
(***************************************************************************)

Contents == {NoFile, NotRegular} \cup Seq(Cells)
WarmTyped ==
  /\ cache = [a \in 1 .. Artifacts |-> cache[a]]
  /\ \A a \in 1 .. Artifacts : cache[a] \in Contents
  /\ held = [a \in 1 .. Artifacts |-> held[a]]
  /\ \A a \in 1 .. Artifacts : Truths(cache[a]) \subseteq held[a]
VerifierTyped ==
  /\ verifier \in [step : {"idle", "root", "artifact", "opened", "reading",
                           "done", "raised"},
                   deep : BOOLEAN, at : Nat, kept : {<<>>} \cup {<<c>> : c \in Contents},
                   read : Seq(Cells),
                   verdicts : [1 .. Artifacts ->
                     {"none", "unreadable", "missing", "not_regular_file",
                      "size_mismatch", "checksum_mismatch", "fits"}]]
  /\ verifier.step = "artifact" => verifier.at >= 1
  /\ verifier.step \notin {"opened", "reading"} => verifier.kept = <<>>
  /\ verifier.step # "reading" => verifier.read = <<>>
  /\ verifier.step = "reading" => verifier.deep

\* The file that is open, under its name or not, has been what it is.
OpenedWasThere ==
  verifier.step \in {"opened", "reading"} =>
    /\ verifier.at \in 1 .. Artifacts
    /\ Opened \in Contents \ {NoFile} /\ Truths(Opened) \subseteq held[verifier.at]

\* Cells 1 to n of a sequence are right.
RightTo(s, n) == \A i \in 1 .. n : i <= Len(s) => s[i] = "right"
Right == RightTo(verifier.read, Len(verifier.read))
WasWhole == "whole" \in held[verifier.at]
WhatWasRead ==
  verifier.step = "reading" =>
    /\ Opened # NotRegular
    /\ Len(Opened) >= SizeBytes /\ RightTo(Opened, SizeBytes) => WasWhole
    /\ Len(verifier.read) > SizeBytes => "size_mismatch" \in held[verifier.at]
    /\ ~Right => "checksum_mismatch" \in held[verifier.at]
    /\ Right => WasWhole \/ RightTo(Opened, Len(verifier.read))
    /\ Right /\ Len(verifier.read) >= SizeBytes => WasWhole

LmCacheInv ==
  WarmTyped /\ VerifierTyped /\ OpenedWasThere /\ WhatWasRead /\ VerdictsWereTrue

\* A sequence is whole when it has the length and is right so far.
LEMMA WholeIsRight ==
  ASSUME NEW s \in Seq(Cells)
  PROVE  s = Intact <=> Len(s) = SizeBytes /\ RightTo(s, SizeBytes)
PROOF
<1>1. s = [i \in 1 .. Len(s) |-> s[i]]
  OBVIOUS
<1>2. SizeBytes \in Nat /\ Len(s) \in Nat
  BY LmCacheAssumption
<1>3. ASSUME s = Intact PROVE Len(s) = SizeBytes /\ RightTo(s, SizeBytes)
  <2>1. Len(Intact) = SizeBytes
    BY <1>2 DEF Intact
  <2> QED
    BY <1>3, <2>1 DEF Intact, RightTo
<1>4. ASSUME Len(s) = SizeBytes, RightTo(s, SizeBytes) PROVE s = Intact
  BY <1>1, <1>2, <1>4 DEF Intact, RightTo
<1> QED
  BY <1>3, <1>4

LEMMA TruthsOfFiles ==
  ASSUME NEW s \in Seq(Cells)
  PROVE  /\ s # NoFile /\ s # NotRegular
         /\ "size_mismatch" \in Truths(s) <=> Len(s) # SizeBytes
         /\ "sized" \in Truths(s) <=> Len(s) = SizeBytes
         /\ "whole" \in Truths(s) <=> Len(s) = SizeBytes /\ RightTo(s, SizeBytes)
         /\ "checksum_mismatch" \in Truths(s) <=> ~(Len(s) = SizeBytes /\ RightTo(s, SizeBytes))
PROOF
<1>1. s # NoFile /\ s # NotRegular
  BY LmCacheAssumption DEF Cells
<1> QED
  BY <1>1, WholeIsRight DEF Truths

LEMMA WarmingBegins == LmCacheInit => LmCacheInv
PROOF
<1> SUFFICES ASSUME LmCacheInit PROVE LmCacheInv
  OBVIOUS
<1>1. WarmTyped
  <2>1. Files \subseteq Seq(Cells)
    BY LmCacheAssumption DEF Files
  <2>2. cache \in [1 .. Artifacts -> Contents]
    BY <2>1 DEF LmCacheInit, Contents
  <2> QED
    BY <2>2 DEF LmCacheInit, WarmTyped
<1>2. VerifierTyped
  BY DEF LmCacheInit, NoVerifier, VerifierTyped
<1>3. OpenedWasThere /\ WhatWasRead /\ VerdictsWereTrue
  BY DEF LmCacheInit, NoVerifier, OpenedWasThere, WhatWasRead, VerdictsWereTrue
<1> QED
  BY <1>1, <1>2, <1>3 DEF LmCacheInv

\* A verdict that was true ends the inspection of an artifact.
LEMMA VerdictsEndInspections ==
  ASSUME LmCacheInv, verifier.at \in 1 .. Artifacts,
         NEW verdict \in {"unreadable", "missing", "not_regular_file",
                          "size_mismatch", "checksum_mismatch", "fits"},
         \/ verdict \in {"unreadable"} \cup held[verifier.at]
         \/ /\ verdict = "fits"
            /\ (IF verifier.deep THEN "whole" ELSE "sized") \in held[verifier.at],
         Inspected(verdict)
  PROVE  LmCacheInv'
PROOF
<1>1. /\ cache' = cache /\ held' = held
      /\ verifier' = [verifier EXCEPT !.step = "artifact", !.at = verifier.at + 1,
           !.kept = <<>>, !.read = <<>>, !.verdicts[verifier.at] = verdict]
  BY DEF Inspected, Proceeds
<1>2. WarmTyped'
  BY <1>1 DEF LmCacheInv, WarmTyped
<1>3. VerifierTyped'
  <2>1. verifier.at + 1 \in Nat /\ verifier.at + 1 >= 1 /\ <<>> \in Seq(Cells)
    BY LmCacheAssumption
  <2>2. [verifier.verdicts EXCEPT ![verifier.at] = verdict] \in [1 .. Artifacts ->
          {"none", "unreadable", "missing", "not_regular_file",
           "size_mismatch", "checksum_mismatch", "fits"}]
    BY DEF LmCacheInv, VerifierTyped
  <2> QED
    BY <1>1, <2>1, <2>2 DEF LmCacheInv, VerifierTyped
<1>4. OpenedWasThere' /\ WhatWasRead'
  BY <1>1 DEF LmCacheInv, VerifierTyped, OpenedWasThere, WhatWasRead
<1>5. VerdictsWereTrue'
  <2>1. /\ verifier'.deep = verifier.deep
        /\ \A a \in 1 .. Artifacts : verifier'.verdicts[a] =
             IF a = verifier.at THEN verdict ELSE verifier.verdicts[a]
    BY <1>1 DEF LmCacheInv, VerifierTyped
  <2> QED
    BY <1>1, <2>1 DEF LmCacheInv, VerdictsWereTrue
<1> QED
  BY <1>2, <1>3, <1>4, <1>5 DEF LmCacheInv

\* What is written under a name adds to what was true.
LEMMA WritesAreNoted ==
  ASSUME LmCacheInv, NEW a \in 1 .. Artifacts, NEW content \in Contents,
         Holds(a, content)
  PROVE  /\ WarmTyped'
         /\ \A b \in 1 .. Artifacts : held[b] \subseteq held'[b]
         /\ \A b \in 1 .. Artifacts :
              cache'[b] = IF b = a THEN content ELSE cache[b]
         /\ Truths(content) \subseteq held'[a]
PROOF
<1>1. /\ cache' = [cache EXCEPT ![a] = content]
      /\ held' = [held EXCEPT ![a] = held[a] \cup Truths(content)]
  BY DEF Holds
<1>2. /\ cache' = [b \in 1 .. Artifacts |-> cache'[b]]
      /\ held' = [b \in 1 .. Artifacts |-> held'[b]]
      /\ \A b \in 1 .. Artifacts : cache'[b] = IF b = a THEN content ELSE cache[b]
      /\ \A b \in 1 .. Artifacts :
           held'[b] = IF b = a THEN held[a] \cup Truths(content) ELSE held[b]
  BY <1>1 DEF LmCacheInv, WarmTyped
<1> QED
  BY <1>2 DEF LmCacheInv, WarmTyped

\* A write in place: the file that is open may be the one that is written.
LEMMA WritesInPlace ==
  ASSUME LmCacheInv, NEW a \in 1 .. Artifacts, cache[a] \in Seq(Cells),
         NEW content \in Seq(Cells), Holds(a, content), UNCHANGED verifier,
         \/ content = <<>>
         \/ \E cell \in Cells : /\ content = Append(cache[a], cell)
                                /\ Len(cache[a]) < SizeBytes => cell = "right"
  PROVE  LmCacheInv'
PROOF
<1>0. Artifacts \in Nat /\ SizeBytes \in Nat
  BY LmCacheAssumption
<1>1. /\ WarmTyped'
      /\ \A b \in 1 .. Artifacts : held[b] \subseteq held'[b]
      /\ \A b \in 1 .. Artifacts : cache'[b] = IF b = a THEN content ELSE cache[b]
      /\ Truths(content) \subseteq held'[a]
  BY WritesAreNoted DEF Contents
<1>2. VerifierTyped' /\ VerdictsWereTrue'
  BY <1>1 DEF LmCacheInv, VerifierTyped, VerdictsWereTrue
<1>3. CASE verifier.step \notin {"opened", "reading"}
  BY <1>1, <1>2, <1>3 DEF LmCacheInv, OpenedWasThere, WhatWasRead
<1>4. CASE /\ verifier.step \in {"opened", "reading"}
           /\ verifier.kept # <<>> \/ verifier.at # a
  <2>1. Opened' = Opened /\ verifier.at \in 1 .. Artifacts
    BY <1>1, <1>4 DEF LmCacheInv, OpenedWasThere, Opened
  <2>2. OpenedWasThere' /\ WhatWasRead'
    BY <1>1, <1>4, <2>1 DEF LmCacheInv, OpenedWasThere, WhatWasRead, WasWhole, Right, RightTo
  <2> QED
    BY <1>1, <1>2, <2>2 DEF LmCacheInv
<1>5. CASE /\ verifier.step \in {"opened", "reading"}
           /\ verifier.kept = <<>> /\ verifier.at = a
  <2>1. Opened = cache[a] /\ Opened' = content
    BY <1>1, <1>5 DEF Opened
  <2>2. OpenedWasThere'
    BY <1>1, <1>5, <2>1, TruthsOfFiles DEF OpenedWasThere, Contents
  <2>3. ASSUME verifier.step = "reading" PROVE WhatWasRead'
    <3>1. /\ Len(Opened) >= SizeBytes /\ RightTo(Opened, SizeBytes) => WasWhole
          /\ Right => WasWhole \/ RightTo(Opened, Len(verifier.read))
          /\ Right /\ Len(verifier.read) >= SizeBytes => WasWhole
      BY <2>3 DEF LmCacheInv, WhatWasRead
    <3>2. verifier.read \in Seq(Cells) /\ Right' = Right /\ (WasWhole => WasWhole')
      BY <1>1, <1>5 DEF LmCacheInv, VerifierTyped, Right, WasWhole
    <3>3. /\ Len(content) >= SizeBytes /\ RightTo(content, SizeBytes) => WasWhole'
          /\ Right => WasWhole' \/ RightTo(content, Len(verifier.read))
      <4>1. Len(content) = SizeBytes /\ RightTo(content, SizeBytes) => WasWhole'
        BY <1>1, <1>5, TruthsOfFiles DEF WasWhole
      <4>2. CASE content = <<>>
        BY <1>0, <4>1, <4>2 DEF RightTo
      <4>3. CASE content # <<>>
        <5>1. PICK cell \in Cells : /\ content = Append(cache[a], cell)
                                    /\ Len(cache[a]) < SizeBytes => cell = "right"
          BY <4>3
        <5>2. /\ Len(cache[a]) \in Nat /\ Len(content) = Len(cache[a]) + 1
              /\ \A i \in 1 .. Len(cache[a]) : content[i] = cache[a][i]
              /\ content[Len(content)] = cell
          BY <5>1
        <5>3. ASSUME Len(content) >= SizeBytes, RightTo(content, SizeBytes) PROVE WasWhole'
          <6>1. CASE Len(cache[a]) >= SizeBytes
            <7>1. RightTo(cache[a], SizeBytes)
              <8>1. ASSUME NEW i \in 1 .. SizeBytes PROVE cache[a][i] = "right"
                <9>1. i \in 1 .. Len(cache[a]) /\ i <= Len(content)
                  BY <1>0, <5>2, <6>1
                <9> QED
                  BY <5>2, <5>3, <9>1 DEF RightTo
              <8> QED
                BY <8>1 DEF RightTo
            <7> QED
              BY <2>1, <3>1, <3>2, <6>1, <7>1
          <6>2. CASE Len(cache[a]) < SizeBytes
            BY <1>0, <4>1, <5>2, <5>3, <6>2
          <6> QED
            BY <1>0, <5>2, <6>1, <6>2
        <5>4. ASSUME Right, ~WasWhole' PROVE RightTo(content, Len(verifier.read))
          <6>1. RightTo(cache[a], Len(verifier.read)) /\ Len(verifier.read) < SizeBytes
            BY <1>0, <2>1, <3>1, <3>2, <5>4
          <6>2. Len(cache[a]) < Len(verifier.read) => cell = "right"
            BY <1>0, <3>2, <5>1, <5>2, <6>1
          <6> QED
            BY <3>2, <5>2, <6>1, <6>2 DEF RightTo
        <5> QED
          BY <5>3, <5>4
      <4> QED
        BY <4>2, <4>3
    <3> QED
      BY <1>1, <1>5, <2>1, <2>3, <3>1, <3>2, <3>3, TruthsOfFiles
         DEF LmCacheInv, WhatWasRead
  <2>4. WhatWasRead'
    BY <1>5, <2>3 DEF WhatWasRead
  <2> QED
    BY <1>1, <1>2, <2>2, <2>4 DEF LmCacheInv
<1> QED
  BY <1>3, <1>4, <1>5

\* Another file under the name: who has the old one open keeps it.
LEMMA WritesByName ==
  ASSUME LmCacheInv, NEW a \in 1 .. Artifacts, NEW content \in Contents,
         ReplaceFile(a, content)
  PROVE  LmCacheInv'
PROOF
<1>1. /\ WarmTyped'
      /\ \A b \in 1 .. Artifacts : held[b] \subseteq held'[b]
      /\ \A b \in 1 .. Artifacts : cache'[b] = IF b = a THEN content ELSE cache[b]
  BY WritesAreNoted DEF ReplaceFile
<1>2. /\ cache[a] \in Contents
      /\ verifier' = IF verifier.at = a /\ verifier.step \in {"opened", "reading"}
                         /\ verifier.kept = <<>>
                       THEN [verifier EXCEPT !.kept = <<cache[a]>>] ELSE verifier
  BY DEF ReplaceFile, LmCacheInv, WarmTyped
<1>3. VerifierTyped'
  BY <1>2 DEF LmCacheInv, VerifierTyped
<1>4. /\ verifier'.step = verifier.step /\ verifier'.at = verifier.at
      /\ verifier'.read = verifier.read /\ verifier'.deep = verifier.deep
      /\ verifier'.verdicts = verifier.verdicts
  BY <1>2 DEF LmCacheInv, VerifierTyped
<1>5. VerdictsWereTrue'
  BY <1>1, <1>4 DEF LmCacheInv, VerdictsWereTrue
<1>6. verifier.step \in {"opened", "reading"} => Opened' = Opened
  <2>1. CASE verifier.at = a /\ verifier.step \in {"opened", "reading"} /\ verifier.kept = <<>>
    <3>1. verifier'.kept = <<cache[a]>>
      BY <1>2, <2>1 DEF LmCacheInv, VerifierTyped
    <3> QED
      BY <2>1, <3>1 DEF Opened
  <2>2. CASE ~(verifier.at = a /\ verifier.step \in {"opened", "reading"} /\ verifier.kept = <<>>)
    BY <1>1, <1>2, <2>2 DEF Opened, LmCacheInv, OpenedWasThere
  <2> QED
    BY <2>1, <2>2
<1>7. OpenedWasThere' /\ WhatWasRead'
  BY <1>1, <1>4, <1>6 DEF LmCacheInv, OpenedWasThere, WhatWasRead, WasWhole, Right, RightTo
<1> QED
  BY <1>1, <1>3, <1>5, <1>7 DEF LmCacheInv

LEMMA VerificationsBegin ==
  ASSUME LmCacheInv, NEW deep \in BOOLEAN, NEW found,
         StartVerification(deep, found)
  PROVE  LmCacheInv'
PROOF
<1>1. /\ cache' = cache
      /\ held' = [a \in 1 .. Artifacts |-> Truths(cache[a])]
      /\ verifier' = [NoVerifier EXCEPT !.deep = deep,
           !.step = IF found = "valid" THEN "root" ELSE "raised"]
  BY DEF StartVerification
<1>2. WarmTyped'
  BY <1>1 DEF LmCacheInv, WarmTyped
<1>3. PICK step \in {"root", "raised"} :
        verifier' = [step |-> step, deep |-> deep, at |-> 0, kept |-> <<>>, read |-> <<>>,
                     verdicts |-> [a \in 1 .. Artifacts |-> "none"]]
  BY <1>1 DEF NoVerifier
<1>4. VerifierTyped'
  <2>1. <<>> \in Seq(Cells)
    OBVIOUS
  <2> QED
    BY <1>3, <2>1 DEF VerifierTyped
<1>5. OpenedWasThere' /\ WhatWasRead'
  BY <1>3 DEF OpenedWasThere, WhatWasRead
<1>6. VerdictsWereTrue'
  BY <1>3 DEF VerdictsWereTrue
<1> QED
  BY <1>2, <1>4, <1>5, <1>6 DEF LmCacheInv

LEMMA RootsAreSafe ==
  ASSUME LmCacheInv, OpenRoot \/ RootUnsafe \/ RootMissing \/ ReportFindings
  PROVE  LmCacheInv'
PROOF
<1>1. cache' = cache /\ held' = held
  BY DEF OpenRoot, RootUnsafe, RootMissing, ReportFindings, Proceeds
<1>2. WarmTyped'
  BY <1>1 DEF LmCacheInv, WarmTyped
<1>3. VerifierTyped'
  <2>1. CASE OpenRoot
    <3>1. verifier' = [step |-> "artifact", deep |-> verifier.deep, at |-> 1,
                       kept |-> <<>>, read |-> <<>>, verdicts |-> verifier.verdicts]
      BY <2>1 DEF OpenRoot, Proceeds, LmCacheInv, VerifierTyped
    <3>2. 1 \in Nat /\ 1 >= 1 /\ <<>> \in Seq(Cells)
      OBVIOUS
    <3> QED
      BY <3>1, <3>2 DEF LmCacheInv, VerifierTyped
  <2>2. CASE RootUnsafe
    BY <2>2 DEF RootUnsafe, Proceeds, LmCacheInv, VerifierTyped
  <2>3. CASE RootMissing
    BY <2>3 DEF RootMissing, Proceeds, LmCacheInv, VerifierTyped
  <2>4. CASE ReportFindings
    BY <2>4 DEF ReportFindings, Proceeds, LmCacheInv, VerifierTyped
  <2> QED
    BY <2>1, <2>2, <2>3, <2>4
<1>4. OpenedWasThere' /\ WhatWasRead'
  <2>1. verifier'.step \notin {"opened", "reading"}
    BY DEF OpenRoot, RootUnsafe, RootMissing, ReportFindings, Proceeds, LmCacheInv,
           VerifierTyped
  <2> QED
    BY <2>1 DEF OpenedWasThere, WhatWasRead
<1>5. VerdictsWereTrue'
  <2>1. CASE RootMissing
    <3>1. \A a \in 1 .. Artifacts : "missing" \in held[a]
      BY <2>1 DEF RootMissing, LmCacheInv, WarmTyped, Truths
    <3>2. verifier'.verdicts = [a \in 1 .. Artifacts |-> "missing"]
      BY <2>1 DEF RootMissing, Proceeds, LmCacheInv, VerifierTyped
    <3> QED
      BY <1>1, <3>1, <3>2 DEF VerdictsWereTrue
  <2>2. CASE OpenRoot \/ RootUnsafe \/ ReportFindings
    <3>1. verifier'.verdicts = verifier.verdicts /\ verifier'.deep = verifier.deep
      BY <2>2 DEF OpenRoot, RootUnsafe, ReportFindings, Proceeds, LmCacheInv, VerifierTyped
    <3> QED
      BY <1>1, <3>1 DEF LmCacheInv, VerdictsWereTrue
  <2> QED
    BY <2>1, <2>2
<1> QED
  BY <1>2, <1>3, <1>4, <1>5 DEF LmCacheInv

LEMMA InspectionsAreSafe ==
  ASSUME LmCacheInv, Unreadable \/ OpenArtifact \/ StatArtifact \/ ReadChunk \/ JudgeArtifact
  PROVE  LmCacheInv'
PROOF
<1>0. Artifacts \in Nat /\ SizeBytes \in Nat
  BY LmCacheAssumption
<1>1. /\ verifier.step \in {"artifact", "opened", "reading"}
      /\ verifier.at \in 1 .. Artifacts
  <2>1. verifier.step \in {"opened", "reading"} => verifier.at \in 1 .. Artifacts
    BY DEF LmCacheInv, OpenedWasThere
  <2>2. verifier.step = "artifact" /\ verifier.at <= Artifacts => verifier.at \in 1 .. Artifacts
    BY <1>0 DEF LmCacheInv, VerifierTyped
  <2> QED
    BY <2>1, <2>2 DEF Unreadable, OpenArtifact, StatArtifact, ReadChunk, JudgeArtifact
<1>2. CASE Unreadable
  BY <1>1, <1>2, VerdictsEndInspections DEF Unreadable
<1>3. CASE OpenArtifact
  <2>1. CASE cache[verifier.at] = NoFile
    <3>1. "missing" \in held[verifier.at]
      BY <1>1, <2>1 DEF LmCacheInv, WarmTyped, Truths
    <3> QED
      BY <1>1, <1>3, <2>1, <3>1, VerdictsEndInspections DEF OpenArtifact
  <2>2. CASE cache[verifier.at] # NoFile
    <3>1. /\ cache' = cache /\ held' = held
          /\ verifier' = [verifier EXCEPT !.step = "opened"]
          /\ verifier.kept = <<>> /\ verifier.read = <<>>
      BY <1>3, <2>2 DEF OpenArtifact, Proceeds, LmCacheInv, VerifierTyped
    <3>2. WarmTyped' /\ VerifierTyped' /\ WhatWasRead' /\ VerdictsWereTrue'
      BY <3>1 DEF LmCacheInv, WarmTyped, VerifierTyped, WhatWasRead, VerdictsWereTrue
    <3>3. OpenedWasThere'
      <4>1. verifier'.at = verifier.at /\ verifier'.kept = <<>>
        BY <3>1 DEF LmCacheInv, VerifierTyped
      <4>2. Opened' = cache[verifier.at]
        BY <3>1, <4>1 DEF Opened
      <4> QED
        BY <1>1, <2>2, <3>1, <4>1, <4>2 DEF OpenedWasThere, LmCacheInv, WarmTyped
    <3> QED
      BY <3>2, <3>3 DEF LmCacheInv
  <2> QED
    BY <2>1, <2>2
<1>4. CASE StatArtifact
  <2>0. /\ verifier.step = "opened" /\ Opened \in Contents \ {NoFile}
        /\ Truths(Opened) \subseteq held[verifier.at]
    BY <1>4 DEF StatArtifact, LmCacheInv, OpenedWasThere
  <2>1. CASE Opened = NotRegular
    <3>1. "not_regular_file" \in held[verifier.at]
      BY <2>0, <2>1 DEF Truths
    <3> QED
      BY <1>1, <1>4, <2>1, <3>1, VerdictsEndInspections DEF StatArtifact
  <2>2. CASE Opened # NotRegular /\ Len(Opened) # SizeBytes
    <3>1. "size_mismatch" \in held[verifier.at]
      BY <2>0, <2>2, TruthsOfFiles DEF Contents
    <3> QED
      BY <1>1, <1>4, <2>2, <3>1, VerdictsEndInspections DEF StatArtifact
  <2>3. CASE Opened # NotRegular /\ Len(Opened) = SizeBytes /\ ~verifier.deep
    <3>1. "sized" \in held[verifier.at]
      BY <2>0, <2>3, TruthsOfFiles DEF Contents
    <3> QED
      BY <1>1, <1>4, <2>3, <3>1, VerdictsEndInspections DEF StatArtifact
  <2>4. CASE Opened # NotRegular /\ Len(Opened) = SizeBytes /\ verifier.deep
    <3>1. /\ cache' = cache /\ held' = held
          /\ verifier' = [verifier EXCEPT !.step = "reading"]
          /\ verifier.read = <<>>
      BY <1>4, <2>4 DEF StatArtifact, Proceeds, LmCacheInv, VerifierTyped
    <3>2. /\ verifier'.read = <<>> /\ verifier'.at = verifier.at /\ Opened' = Opened
      BY <3>1 DEF LmCacheInv, VerifierTyped, Opened
    <3>3. WarmTyped' /\ VerifierTyped' /\ OpenedWasThere' /\ VerdictsWereTrue'
      <4>1. WarmTyped' /\ VerifierTyped'
        BY <2>4, <3>1 DEF LmCacheInv, WarmTyped, VerifierTyped
      <4>2. OpenedWasThere'
        BY <1>1, <2>0, <3>1, <3>2 DEF OpenedWasThere
      <4>3. verifier'.verdicts = verifier.verdicts /\ verifier'.deep = verifier.deep
        BY <3>1 DEF LmCacheInv, VerifierTyped
      <4> QED
        BY <3>1, <4>1, <4>2, <4>3 DEF LmCacheInv, VerdictsWereTrue
    <3>4. Opened \in Seq(Cells)
      BY <2>0, <2>4 DEF Contents
    <3>5. RightTo(Opened, SizeBytes) => WasWhole
      BY <2>0, <2>4, <3>4, TruthsOfFiles DEF WasWhole
    <3>6. Right' /\ Len(verifier'.read) = 0 /\ RightTo(Opened, 0) /\ WasWhole' = WasWhole
      BY <3>1, <3>2 DEF Right, RightTo, WasWhole
    <3>7. SizeBytes = 0 => RightTo(Opened, SizeBytes)
      BY DEF RightTo
    <3>8. WhatWasRead'
      BY <1>0, <2>4, <3>2, <3>5, <3>6, <3>7 DEF WhatWasRead
    <3> QED
      BY <3>3, <3>8 DEF LmCacheInv
  <2> QED
    BY <2>0, <2>1, <2>2, <2>3, <2>4 DEF LmCacheInv, VerifierTyped
<1>5. CASE ReadChunk \/ JudgeArtifact
  <2>0. /\ verifier.step = "reading"
        /\ Opened \in Seq(Cells) /\ Truths(Opened) \subseteq held[verifier.at]
        /\ verifier.read \in Seq(Cells) /\ WarmTyped /\ VerifierTyped
        /\ Len(Opened) \in Nat /\ Len(verifier.read) \in Nat
    BY <1>5 DEF ReadChunk, JudgeArtifact, LmCacheInv, OpenedWasThere, WhatWasRead,
                Contents, VerifierTyped
  <2>1. /\ Len(Opened) >= SizeBytes /\ RightTo(Opened, SizeBytes) => WasWhole
        /\ Len(verifier.read) > SizeBytes => "size_mismatch" \in held[verifier.at]
        /\ ~Right => "checksum_mismatch" \in held[verifier.at]
        /\ Right => WasWhole \/ RightTo(Opened, Len(verifier.read))
        /\ Right /\ Len(verifier.read) >= SizeBytes => WasWhole
    BY <2>0 DEF LmCacheInv, WhatWasRead
  <2>2. CASE ReadChunk
    <3> DEFINE n == Len(verifier.read) + 1
               cell == Opened[n]
    <3>1. /\ cache' = cache /\ held' = held
          /\ verifier' = [verifier EXCEPT !.read = Append(verifier.read, cell)]
          /\ Len(verifier.read) < Len(Opened)
      BY <2>2 DEF ReadChunk, Proceeds
    <3>2. /\ n \in 1 .. Len(Opened) /\ cell \in Cells
      BY <2>0, <3>1
    <3>3. /\ verifier'.read = Append(verifier.read, cell) /\ verifier'.at = verifier.at
          /\ verifier'.step = "reading" /\ Opened' = Opened
          /\ verifier'.verdicts = verifier.verdicts /\ verifier'.deep = verifier.deep
      BY <2>0, <3>1 DEF VerifierTyped, Opened
    <3>4. VerifierTyped' /\ WarmTyped' /\ OpenedWasThere' /\ VerdictsWereTrue'
      <4>1. VerifierTyped'
        <5>1. Append(verifier.read, cell) \in Seq(Cells)
          BY <2>0, <3>2
        <5> HIDE DEF cell
        <5> QED
          BY <2>0, <3>1, <5>1 DEF VerifierTyped
      <4>2. WarmTyped'
        BY <2>0, <3>1 DEF WarmTyped
      <4>3. OpenedWasThere'
        BY <1>1, <2>0, <3>1, <3>3 DEF LmCacheInv, OpenedWasThere
      <4>4. VerdictsWereTrue'
        BY <3>1, <3>3 DEF LmCacheInv, VerdictsWereTrue
      <4> QED
        BY <4>1, <4>2, <4>3, <4>4
    <3>5. /\ Len(verifier'.read) = n
          /\ Right' <=> Right /\ cell = "right"
          /\ WasWhole' = WasWhole
      <4>1. /\ Len(Append(verifier.read, cell)) = n
            /\ \A i \in 1 .. Len(verifier.read) :
                 Append(verifier.read, cell)[i] = verifier.read[i]
            /\ Append(verifier.read, cell)[n] = cell
        BY <2>0, <3>2
      <4> HIDE DEF cell
      <4> QED
        BY <2>0, <3>1, <3>3, <4>1 DEF Right, RightTo, WasWhole
    <3>6. n > SizeBytes => "size_mismatch" \in held[verifier.at]
      BY <1>0, <2>0, <3>2, TruthsOfFiles
    <3>7. cell # "right" => "checksum_mismatch" \in held[verifier.at]
      <4>1. cell # "right" => ~(Len(Opened) = SizeBytes /\ RightTo(Opened, SizeBytes))
        BY <3>2 DEF RightTo
      <4> QED
        BY <2>0, <4>1, TruthsOfFiles
    <3>8. Right /\ cell = "right" => WasWhole \/ RightTo(Opened, n)
      BY <2>0, <2>1, <3>2 DEF RightTo
    <3>9. Right /\ cell = "right" /\ n >= SizeBytes => WasWhole
      <4>1. RightTo(Opened, n) /\ n >= SizeBytes => RightTo(Opened, SizeBytes)
        BY <1>0, <2>0 DEF RightTo
      <4> QED
        BY <1>0, <2>0, <2>1, <3>2, <3>8, <4>1
    <3>10. WhatWasRead'
      <4> HIDE DEF cell, n
      <4>1. Opened # NotRegular
        BY <2>0 DEF LmCacheInv, WhatWasRead
      <4> QED
        BY <2>1, <3>1, <3>3, <3>5, <3>6, <3>7, <3>8, <3>9, <4>1 DEF WhatWasRead
    <3> QED
      BY <3>4, <3>10 DEF LmCacheInv
  <2>3. CASE JudgeArtifact
    <3>1. Len(verifier.read) >= Len(Opened)
      BY <2>3 DEF JudgeArtifact
    <3>2. CASE Len(verifier.read) # SizeBytes
      <4>1. "size_mismatch" \in held[verifier.at]
        BY <1>0, <2>0, <2>1, <3>1, <3>2, TruthsOfFiles
      <4> QED
        BY <1>1, <2>3, <3>2, <4>1, VerdictsEndInspections DEF JudgeArtifact
    <3>3. CASE Len(verifier.read) = SizeBytes /\ verifier.read # Intact
      <4>1. ~Right
        BY <2>0, <3>3, WholeIsRight DEF Right
      <4> QED
        BY <1>1, <2>1, <2>3, <3>3, <4>1, VerdictsEndInspections DEF JudgeArtifact
    <3>4. CASE Len(verifier.read) = SizeBytes /\ verifier.read = Intact
      <4>1. Right
        BY <2>0, <3>4, WholeIsRight DEF Right
      <4>2. WasWhole
        BY <1>0, <2>1, <3>4, <4>1
      <4>3. verifier.deep
        BY <2>0 DEF LmCacheInv, VerifierTyped
      <4> QED
        BY <1>1, <2>3, <3>4, <4>2, <4>3, VerdictsEndInspections DEF JudgeArtifact, WasWhole
    <3> QED
      BY <3>2, <3>3, <3>4
  <2> QED
    BY <1>5, <2>2, <2>3
<1> QED
  BY <1>2, <1>3, <1>4, <1>5

\* What a verification says was true at a moment of it (VerdictsWereTrue): for any
\* number and length of artifacts, and any number of writes between its steps.
THEOREM VerificationTellsTheTruth == LmCacheSpec => []VerdictsWereTrue
PROOF
<1>1. LmCacheInv /\ [LmCacheNext]_lmCacheVars => LmCacheInv'
  <2> SUFFICES ASSUME LmCacheInv, [LmCacheNext]_lmCacheVars PROVE LmCacheInv'
    OBVIOUS
  <2>1. CASE UNCHANGED lmCacheVars
    <3>1. cache' = cache /\ held' = held /\ verifier' = verifier
      BY <2>1 DEF lmCacheVars
    <3>2. Opened' = Opened /\ WasWhole' = WasWhole /\ Right' = Right
      BY <3>1 DEF Opened, WasWhole, Right, RightTo
    <3>3. WarmTyped' /\ VerifierTyped'
      BY <3>1 DEF LmCacheInv, WarmTyped, VerifierTyped
    <3>4. OpenedWasThere' /\ VerdictsWereTrue'
      BY <3>1, <3>2 DEF LmCacheInv, OpenedWasThere, VerdictsWereTrue
    <3>5. WhatWasRead'
      BY <3>1, <3>2 DEF LmCacheInv, WhatWasRead, RightTo
    <3> QED
      BY <3>3, <3>4, <3>5 DEF LmCacheInv
  <2>2. ASSUME NEW a \in 1 .. Artifacts, CutFile(a) \/ \E cell \in Cells : AppendCell(a, cell)
        PROVE  LmCacheInv'
    <3>1. cache[a] \in Seq(Cells)
      BY <2>2 DEF CutFile, AppendCell, LmCacheInv, WarmTyped, Contents
    <3>2. CASE CutFile(a)
      <4>1. Holds(a, <<>>) /\ UNCHANGED verifier /\ <<>> \in Seq(Cells)
        BY <3>2 DEF CutFile
      <4> QED
        BY <3>1, <4>1, WritesInPlace
    <3>3. CASE \E cell \in Cells : AppendCell(a, cell)
      <4>1. PICK cell \in Cells : AppendCell(a, cell)
        BY <3>3
      <4> DEFINE longer == Append(cache[a], cell)
      <4>2. longer \in Seq(Cells)
        BY <3>1
      <4>3. /\ Holds(a, longer) /\ UNCHANGED verifier
            /\ Len(cache[a]) < SizeBytes => cell = "right"
        BY <4>1 DEF AppendCell
      <4>4. \E c \in Cells : /\ longer = Append(cache[a], c)
                             /\ Len(cache[a]) < SizeBytes => c = "right"
        BY <4>3
      <4> HIDE DEF longer
      <4> QED
        BY <3>1, <4>2, <4>3, <4>4, WritesInPlace
    <3> QED
      BY <2>2, <3>2, <3>3
  <2>3. ASSUME NEW a \in 1 .. Artifacts,
               \E content \in {NoFile, NotRegular} \cup Files : ReplaceFile(a, content)
        PROVE  LmCacheInv'
    <3>1. {NoFile, NotRegular} \cup Files \subseteq Contents
      BY LmCacheAssumption DEF Files, Contents
    <3> QED
      BY <2>3, <3>1, WritesByName
  <2>4. CASE \E deep \in BOOLEAN, found \in {"valid", "refused"} :
               StartVerification(deep, found)
    BY <2>4, VerificationsBegin
  <2> QED
    BY <2>1, <2>2, <2>3, <2>4, RootsAreSafe, InspectionsAreSafe DEF LmCacheNext
<1>2. LmCacheInv => VerdictsWereTrue
  BY DEF LmCacheInv
<1> QED
  BY <1>1, <1>2, WarmingBegins, PTL DEF LmCacheSpec
=============================================================================
