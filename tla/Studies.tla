------------------------------ MODULE Studies ------------------------------
(* The study drivers of Compare. Each freezes a schedule of slots over many   *)
(* campaigns; sessions under one lease walk through it, dispatch engines,     *)
(* replay the winners, and draw conclusions when nothing is missing. Sessions *)
(* and engines die, a dead session's engine may go on and keep the lease.     *)
(* Fits within a run, receipts and journals in detail: see Campaign.          *)
EXTENDS Naturals, Sequences, FiniteSets, SequencesExt

CONSTANTS
  Drivers,     \* of: baseline, confidence, topograph, stratograph, primordia,
               \* cross (topograph_cross_engine)
  Arms,        \* sequence of variants; the first is the control
  MainSeeds,   \* paired seeds of a main stage
  Scores,      \* what a run may score, above Bad (told apart in a screening)
  StudyFits,        \* fits of a run
  SegmentFits, \* fits of a dispatch of the cross-engine study
  MaxDeaths, MaxPauses, MaxFailures   \* bounds

VARIABLES
  study,    \* driver, prepared stages, nominee, PAUSE, failures, conclusion
  slots,     \* per slot of the schedule: committed fits, export, receipts
  session,  \* the process that holds the study's lease
  mishaps   \* what the environment still may do

studyVars == <<study, slots, session, mishaps>>

NoneYet == "none"
Unexported == 0
Bad == 1   \* an export with failed fits: adopted() refuses it

\* The variants of a study are different; what a run scores is no failure.
ASSUME StudiesAssumption ==
  /\ Drivers \subseteq {"baseline", "confidence", "topograph", "stratograph",
                         "primordia", "cross"}
  /\ Arms \in Seq(ToSet(Arms)) /\ Arms # <<>>
  /\ \A a, b \in DOMAIN Arms : Arms[a] = Arms[b] => a = b
  /\ MainSeeds \in Nat \ {0}
  /\ Scores \subseteq Nat \ {Unexported, Bad} /\ Scores # {}

-----------------------------------------------------------------------------
(* The frozen schedules *)

Rotated(q, k) ==
  LET n == k % Len(q)
  IN  SubSeq(q, n + 1, Len(q)) \o SubSeq(q, 1, n)

Slot(stage, seed, arm, system, campaign) ==
  [stage |-> stage, seed |-> seed, arm |-> arm, system |-> system,
   campaign |-> campaign]

SeedNumbers(stage) == [k \in 1..(IF stage = "main" THEN MainSeeds ELSE 1) |-> k]

\* A campaign for each seed and arm, its systems rotated.
BaselineMatrix(stage) ==
  FlattenSeq([s \in DOMAIN SeedNumbers(stage) |->
    FlattenSeq([a \in DOMAIN Arms |->
      LET arm == Rotated(Arms, s - 1)[a]
          systems == Rotated(<<"engine", "contenders">>, s + a - 2)
      IN  [y \in DOMAIN systems |->
             Slot(stage, s, arm, systems[y], <<stage, s, arm>>)]])])

\* A campaign for each arm; the seeds are blocks, the arms rotate in them.
ConfidenceSchedule(stage) ==
  FlattenSeq([s \in DOMAIN SeedNumbers(stage) |->
    [a \in DOMAIN Arms |->
      LET arm == Rotated(Arms, s - 1)[a]
      IN  Slot(stage, s, arm, "engine", <<stage, arm>>)]])

\* The same with every second block reversed.
PrimordiaSchedule(stage) ==
  FlattenSeq([s \in DOMAIN SeedNumbers(stage) |->
    [a \in DOMAIN Arms |->
      LET turned == Rotated(Arms, s - 1)
          arm == (IF s % 2 = 0 THEN Reverse(turned) ELSE turned)[a]
      IN  Slot(stage, s, arm, "engine", <<stage, arm>>)]])

\* Cells of their own, without campaigns.
StratographSlots(stage) ==
  FlattenSeq([s \in DOMAIN SeedNumbers(stage) |->
    [a \in DOMAIN Arms |->
      LET arm == Rotated(Arms, s - 1)[a]
      IN  Slot(stage, s, arm, "engine", <<stage, s, arm>>)]])

\* Three stages; the shuffles are fixed by the seeds, here the identity.
TopographMatrix(stage) ==
  [a \in DOMAIN Arms |->
     Slot(stage, 1, Arms[a], "engine", <<stage, 1, Arms[a]>>)]

CrossMatrix(stage) ==
  FlattenSeq([s \in DOMAIN SeedNumbers(stage) |->
    [y \in 1..2 |-> Slot(stage, s, Arms[1], <<"engine", "contenders">>[y],
                         <<stage, s>>)]])

Stages(d) == IF d = "topograph"
             THEN <<"qualification", "screening", "confirmation">>
             ELSE <<"qualification", "main">>

StageOf(d, stage) ==
  CASE d = "baseline" -> BaselineMatrix(stage)
    [] d = "confidence" -> ConfidenceSchedule(stage)
    [] d = "primordia" -> PrimordiaSchedule(stage)
    [] d = "stratograph" -> StratographSlots(stage)
    [] d = "topograph" -> TopographMatrix(stage)
    [] d = "cross" -> CrossMatrix(stage)

Schedule == [d \in Drivers |->
  FlattenSeq([k \in DOMAIN Stages(d) |-> StageOf(d, Stages(d)[k])])]
Plan == Schedule[study.driver]
In(stage) == {i \in DOMAIN Plan : Plan[i].stage = stage}
OfCampaign(i) == {j \in DOMAIN Plan : Plan[j].campaign = Plan[i].campaign}
Least(I) == CHOOSE i \in I : \A j \in I : i <= j

\* Rows that are declared: of a confirmation, the control and the nominee.
IsDeclared(i) ==
  Plan[i].stage = "confirmation" => Plan[i].arm \in {Arms[1], study.nominee}
Declared(stage) == {i \in In(stage) : IsDeclared(i)}

-----------------------------------------------------------------------------
(* Evidence *)

\* adopted: a complete export all of whose fits succeeded.
Finished(i) == slots[i].export \notin {Unexported, Bad}

\* The baseline study has no replay of contenders.
Replayable(i) == ~(study.driver = "baseline" /\ Plan[i].system = "contenders")
Verified(i) == Finished(i) /\ (Replayable(i) => slots[i].replayed)

\* What a report of a stage takes for complete: the topograph and primordia
\* collect, the baseline report and qualification gate.
Whole(stage) == \A i \in Declared(stage) : Verified(i)

\* choose_nominee: the first arm with the largest effect over the control, if
\* that is positive. One paired seed: effects are ordered as the scores are.
ChosenFrom(stage) ==
  LET score(k) == slots[CHOOSE i \in In(stage) : Plan[i].arm = Arms[k]].export
      best == Least({k \in DOMAIN Arms :
                       \A m \in DOMAIN Arms : score(k) >= score(m)})
  IN  IF score(best) > score(1) THEN Arms[best] ELSE Arms[1]

-----------------------------------------------------------------------------
Quiet == [pc |-> "idle", path |-> {}, target |-> 0, launched |-> FALSE,
          limited |-> FALSE, gated |-> FALSE, stage |-> NoneYet]
Unbegun == [fits |-> 0, export |-> Unexported, receipt |-> FALSE, replayed |-> FALSE]

StudyInit ==
  \E d \in Drivers :
    /\ study = [driver |-> d, prepared |-> {}, nominee |-> NoneYet,
                paused |-> FALSE, stopped |-> FALSE, concluded |-> FALSE]
    /\ slots = [i \in DOMAIN Schedule[d] |-> Unbegun]
    /\ session = Quiet
    /\ mishaps = [deaths |-> MaxDeaths, pauses |-> MaxPauses,
                  failures |-> MaxFailures]

Ends == session' = Quiet

\* prepare: a fresh directory, the matrix published last. A main baseline study
\* binds a complete qualification study.
PrepareBaseline(stage) ==
  /\ study.driver = "baseline" /\ session.pc = "idle"
  /\ stage \in {"qualification", "main"} \ study.prepared
  /\ stage = "main" => "qualification" \in study.prepared /\ Whole("qualification")
  /\ study' = [study EXCEPT !.prepared = @ \union {stage}]
  /\ UNCHANGED <<slots, session, mishaps>>

\* A Topograph study plans two stages; the third has a plan of its own.
PrepareTopograph ==
  /\ study.driver = "topograph" /\ session.pc = "idle" /\ study.prepared = {}
  /\ study' = [study EXCEPT !.prepared = {"qualification", "screening"}]
  /\ UNCHANGED <<slots, session, mishaps>>

\* The other drivers freeze both stages at once.
PrepareBoth ==
  /\ study.driver \notin {"baseline", "topograph"}
  /\ session.pc = "idle" /\ study.prepared = {}
  /\ study' = [study EXCEPT !.prepared = ToSet(Stages(study.driver))]
  /\ UNCHANGED <<slots, session, mishaps>>

\* nominate: once, from complete stages; what it returns is chosen from the
\* screening, the last stage it collected.
Nominate ==
  /\ study.driver = "topograph" /\ session.pc = "idle"
  /\ study.nominee = NoneYet /\ study.prepared # {}
  /\ Whole("qualification") /\ Whole("screening")
  /\ study' = [study EXCEPT !.nominee = ChosenFrom("screening")]
  /\ UNCHANGED <<slots, session, mishaps>>

Nominated == /\ study.nominee # NoneYet
             /\ Whole("screening")
             /\ study.nominee = ChosenFrom("screening")

PrepareConfirmation ==
  /\ study.driver = "topograph" /\ session.pc = "idle"
  /\ "confirmation" \notin study.prepared /\ Nominated
  /\ study' = [study EXCEPT !.prepared = @ \union {"confirmation"}]
  /\ UNCHANGED <<slots, session, mishaps>>

-----------------------------------------------------------------------------
(* A session *)

\* What a session goes through, in the order of the schedule: everything, or
\* the stage it was asked for.
Visits(stage) == IF stage = NoneYet THEN DOMAIN Plan ELSE Declared(stage)

Before(stage) ==
  CASE stage = "screening" -> {"qualification"}
    [] stage = "confirmation" -> {"qualification", "screening"}
    [] OTHER -> {}

\* The gates that are passed before the first slot: Topograph's collects, the
\* binding of a main baseline study, Stratograph's retained failures.
Admitted(stage) ==
  CASE study.driver = "topograph" ->
         /\ \A s \in Before(stage) : Whole(s)
         /\ stage = "confirmation" => Nominated
    [] study.driver = "baseline" -> stage = "main" => Whole("qualification")
    [] study.driver = "stratograph" -> ~study.stopped
    [] OTHER -> TRUE

Begin(stage) ==
  /\ session.pc = "idle"
  /\ IF study.driver \in {"topograph", "baseline"} THEN stage \in study.prepared
     ELSE /\ study.prepared # {}
          /\ stage = NoneYet \/ (study.driver = "primordia" /\ stage \in study.prepared)
  /\ Admitted(stage)
  /\ \E limited \in BOOLEAN :
       /\ limited => study.driver \notin {"baseline", "cross"}
       /\ session' = [Quiet EXCEPT !.pc = "visit", !.path = Visits(stage),
                                   !.limited = limited, !.stage = stage]
  /\ UNCHANGED <<study, slots, mishaps>>

Here == Least(session.path)
Visiting == session.pc = "visit" /\ session.path # {}
Onward == session' = [session EXCEPT !.pc = "visit", !.path = @ \ {Here}]
Goto(label, i) == session' = [session EXCEPT !.pc = label, !.target = i]

\* The gate inside a walk over both stages: no main slot before every
\* qualification slot is complete and its winner replayed.
AtGate == /\ study.driver \in {"confidence", "primordia", "cross"}
          /\ Plan[Here].stage = "main" /\ ~session.gated
Gate ==
  /\ Visiting /\ AtGate
  /\ IF Whole("qualification") THEN session' = [session EXCEPT !.gated = TRUE]
     ELSE Ends
  /\ UNCHANGED <<study, slots, mishaps>>

Held == study.paused \/ (session.limited /\ session.launched)

\* Recovery and receipts first, or PAUSE first: what a driver still does for a
\* slot when it is held.
SettledSlots(i) ==
  CASE study.driver = "confidence" -> slots[i].receipt /\ slots[i].replayed
    [] study.driver \in {"stratograph", "cross"} -> Verified(i)
    [] OTHER -> ~Held /\ Verified(i)
MayWork(i) == ~Held \/ (study.driver = "confidence" /\ slots[i].receipt)

\* The baseline study replays a campaign when all of it is complete.
Postponed(i) == study.driver = "baseline"
                /\ \E j \in OfCampaign(i) : ~Finished(j)
ToReplay(i) ==
  {j \in IF study.driver = "baseline" THEN OfCampaign(i) ELSE {i} : ~Verified(j)}

Skip ==
  /\ Visiting /\ ~AtGate
  /\ \/ SettledSlots(Here) /\ (study.driver = "baseline" => ToReplay(Here) = {})
     \/ ~Held /\ Finished(Here) /\ slots[Here].receipt /\ Postponed(Here)
  /\ Onward
  /\ UNCHANGED <<study, slots, mishaps>>

Pause ==
  /\ Visiting /\ ~AtGate /\ ~SettledSlots(Here) /\ ~MayWork(Here)
  /\ Ends
  /\ UNCHANGED <<study, slots, mishaps>>

\* A failed export is never adopted, a partial run of Contenders not restarted.
Refused(i) ==
  \/ slots[i].export = Bad
  \/ Plan[i].system = "contenders" /\ slots[i].export = Unexported /\ slots[i].fits > 0

\* Stratograph retains a failure in status.json and refuses every later session.
Fails == /\ Ends
         /\ study' = [study EXCEPT !.stopped = study.driver = "stratograph"]

\* Mutant: without adopt_scheduled the generic campaign goes on to a later seed.
AdoptsNothing == FALSE

\* adopt_scheduled, and the dispatch of the cross-engine study: the export of
\* the scheduled slot survived its receipt.
Adopts == study.driver \in {"confidence", "cross"}
Adopt ==
  /\ Visiting /\ ~AtGate /\ MayWork(Here) /\ Adopts
  /\ Finished(Here) /\ ~slots[Here].receipt
  /\ slots' = [slots EXCEPT ![Here].receipt = TRUE]
  /\ Goto("replay", Here)
  /\ UNCHANGED <<study, mishaps>>

\* run_campaign(max_runs=1): exports that are found get their receipts, then the
\* first slot without one is dispatched.
RunCampaign(i) ==
  LET open == {j \in OfCampaign(i) : ~Finished(j)}
      target == Least(open)
      adopted == {j \in OfCampaign(i) : open # {} => j < target}
  IN  /\ open # {} => ~Refused(target)
      /\ slots' = [j \in DOMAIN slots |->
                    IF j \in adopted THEN [slots[j] EXCEPT !.receipt = TRUE]
                    ELSE slots[j]]
      /\ IF open # {} THEN Goto("train", target) ELSE UNCHANGED session

ByCampaign == study.driver \in {"baseline", "confidence", "topograph", "primordia"}

\* The next dispatch of a driver: through its campaign, or its own.
Dispatch ==
  /\ Visiting /\ ~AtGate /\ MayWork(Here)
  /\ \/ /\ ByCampaign
        /\ \/ ~Finished(Here)
           \/ /\ ~slots[Here].receipt
              /\ study.driver \in {"baseline", "confidence"}
        /\ (study.driver = "confidence" /\ Adopts) => ~Finished(Here)
        /\ RunCampaign(Here)
     \/ /\ ~ByCampaign
        /\ ~Finished(Here) /\ ~Refused(Here)
        /\ Goto("train", Here)
        /\ UNCHANGED slots
  /\ UNCHANGED <<study, mishaps>>

Refuse ==
  /\ Visiting /\ ~AtGate /\ MayWork(Here) /\ ~Finished(Here)
  /\ Refused(Here)
  /\ Fails
  /\ UNCHANGED <<slots, mishaps>>

\* The engine commits a fit; the cross-engine study stops it after a segment.
Train ==
  /\ session.pc \in {"train", "orphan"}
  /\ LET i == session.target
         n == slots[i].fits + 1
         stops == /\ study.driver = "cross" /\ Plan[i].system = "engine"
                  /\ n < StudyFits /\ n % SegmentFits = 0
     IN  /\ n <= StudyFits
         /\ slots' = [slots EXCEPT ![i].fits = n]
         /\ session' = IF ~stops THEN session
                       ELSE IF session.pc = "orphan" THEN Quiet
                       ELSE [session EXCEPT !.pc = "visit"]
  /\ UNCHANGED <<study, mishaps>>

\* The engine exports; fits that failed make the export one that is refused.
ExportReceipt(score) ==
  /\ session.pc \in {"train", "orphan"}
  /\ slots[session.target].fits = StudyFits /\ slots[session.target].export = Unexported
  /\ score = Bad => mishaps.failures > 0
  /\ mishaps' = [mishaps EXCEPT !.failures = IF score = Bad THEN @ - 1 ELSE @]
  /\ slots' = [slots EXCEPT ![session.target].export = score]
  /\ IF session.pc = "orphan" THEN (Ends /\ UNCHANGED study)
     ELSE IF score = Bad THEN Fails
     ELSE (Goto("receipt", session.target) /\ UNCHANGED study)

\* The journal entry; Stratograph has none and records the slot after replay.
Receipt ==
  /\ session.pc = "receipt"
  /\ slots' = [slots EXCEPT ![session.target].receipt =
                            study.driver # "stratograph"]
  /\ session' = IF study.driver = "baseline"
                THEN [session EXCEPT !.pc = "visit"]
                ELSE [session EXCEPT !.pc = "replay", !.target = Here,
                                     !.launched = TRUE]
  /\ UNCHANGED <<study, mishaps>>

\* The winner's replay of a finished slot that lacks it.
TakeUp ==
  /\ Visiting /\ ~AtGate /\ MayWork(Here)
  /\ Finished(Here) /\ ToReplay(Here) # {}
  /\ CASE Adopts -> slots[Here].receipt
       [] study.driver = "baseline" -> slots[Here].receipt /\ ~Postponed(Here)
       [] OTHER -> TRUE
  /\ Goto("replay", Least(ToReplay(Here)))
  /\ UNCHANGED <<study, slots, mishaps>>

Replay ==
  /\ session.pc = "replay"
  /\ LET i == session.target
     IN  slots' = [slots EXCEPT ![i].replayed = TRUE,
                              ![i].receipt = @ \/ study.driver = "stratograph"]
  /\ IF study.driver = "baseline" THEN session' = [session EXCEPT !.pc = "visit"]
     ELSE IF study.driver = "stratograph"
     THEN session' = [session EXCEPT !.pc = "visit", !.path = @ \ {Here},
                                     !.launched = TRUE]
     ELSE Onward
  /\ UNCHANGED <<study, mishaps>>

ReplayFails ==
  /\ session.pc = "replay" /\ mishaps.failures > 0
  /\ mishaps' = [mishaps EXCEPT !.failures = @ - 1]
  /\ Fails
  /\ UNCHANGED slots

-----------------------------------------------------------------------------
(* Conclusions: what each driver asks before it infers or nominates anything *)

\* receipts and replays of the whole schedule (analyze, collect)
Receipted(i) == slots[i].receipt /\ Verified(i)
ConfidenceMissing == {i \in DOMAIN Plan : ~Receipted(i)}
StratographMissing == {i \in DOMAIN Plan : ~Receipted(i)}
CrossMissing == {i \in DOMAIN Plan : ~Receipted(i)}

\* exports and replays (inference, report)
PrimordiaMissing == {i \in DOMAIN Plan : ~Verified(i)}
BaselineMissing == {i \in In("main") : ~Verified(i)}
TopographMissing == {i \in Declared("confirmation") : ~Verified(i)}

MissingSlots ==
  CASE study.driver = "confidence" -> ConfidenceMissing
    [] study.driver = "stratograph" -> StratographMissing
    [] study.driver = "cross" -> CrossMissing
    [] study.driver = "primordia" -> PrimordiaMissing
    [] study.driver = "baseline" -> BaselineMissing
    [] study.driver = "topograph" -> TopographMissing

Conclude ==
  /\ session.pc = "idle" \/ (session.pc = "visit" /\ session.path = {})
  /\ MissingSlots = {} /\ ~study.stopped
  /\ study.driver = "baseline" => "main" \in study.prepared
  /\ study.driver = "topograph" =>
       "confirmation" \in study.prepared /\ Nominated
  /\ study' = [study EXCEPT !.concluded = TRUE]
  /\ Ends
  /\ UNCHANGED <<slots, mishaps>>

\* A session that came to its end with something missing.
Return ==
  /\ session.pc = "visit" /\ session.path = {} /\ Ends
  /\ UNCHANGED <<study, slots, mishaps>>

-----------------------------------------------------------------------------
\* pause and resume are commands of other processes; resume removes PAUSE
\* before it asks for the lease.
TogglePause ==
  /\ study.prepared # {} /\ mishaps.pauses > 0
  /\ study' = [study EXCEPT !.paused = ~@]
  /\ mishaps' = [mishaps EXCEPT !.pauses = @ - 1]
  /\ UNCHANGED <<slots, session>>

\* The session is killed; its engine keeps the lease it inherited.
SessionDies ==
  /\ session.pc \notin {"idle", "orphan"} /\ mishaps.deaths > 0
  /\ mishaps' = [mishaps EXCEPT !.deaths = @ - 1]
  /\ session' = IF session.pc = "train" 
                THEN [Quiet EXCEPT !.pc = "orphan", !.target = session.target]
                ELSE Quiet
  /\ UNCHANGED <<study, slots>>

\* The engine dies or is stopped at its time limit.
EngineDies ==
  /\ session.pc \in {"train", "orphan"} /\ mishaps.deaths > 0
  /\ mishaps' = [mishaps EXCEPT !.deaths = @ - 1]
  /\ IF session.pc = "train" THEN Fails ELSE (Ends /\ UNCHANGED study)
  /\ UNCHANGED slots

Grades == IF session.target # 0 /\ Plan[session.target].stage = "screening"
          THEN Scores ELSE {Least(Scores)}

StudyNext ==
  \/ PrepareTopograph \/ PrepareBoth \/ Nominate \/ PrepareConfirmation
  \/ \E stage \in ToSet(Stages(study.driver)) : PrepareBaseline(stage)
  \/ \E stage \in {NoneYet} \union ToSet(Stages(study.driver)) : Begin(stage)
  \/ Gate \/ Skip \/ Pause \/ Adopt \/ Dispatch \/ Refuse
  \/ Train \/ (\E score \in Grades \union {Bad} : ExportReceipt(score))
  \/ Receipt \/ TakeUp \/ Replay \/ ReplayFails
  \/ Conclude \/ Return \/ TogglePause \/ SessionDies \/ EngineDies

StudySpec == StudyInit /\ [][StudyNext]_studyVars

-----------------------------------------------------------------------------
\* However sessions, engines and receipts are lost, no slot trains before its
\* turn: every slot before it in the frozen schedule has a complete export, and
\* those of other campaigns a replayed winner. So no main slot trains before its
\* stage may begin, none after a failure, and seed blocks stay balanced.
ScheduleKept ==
  \A i \in DOMAIN slots : slots[i].fits > 0 =>
    \A j \in 1..(i - 1) :
      IsDeclared(j) =>
        Finished(j) /\ (Plan[j].campaign # Plan[i].campaign => Verified(j))

=============================================================================
