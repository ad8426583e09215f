---------------------------- MODULE CampaignProofs ---------------------------
(***************************************************************************)
(* Proofs about the campaign runner, for any number of controllers,        *)
(* process groups, cases and systems, and any number of crashes.           *)
(*                                                                         *)
(* The lease lets one session work at any time, so IInv names its          *)
(* controller: every other one is idle, and what the session remembers of  *)
(* the journal and has found of its slot is true of the files until its    *)
(* own process changes them.  World speaks of the processes that outlive   *)
(* their session and of what the files say of one another.                 *)
(***************************************************************************)
EXTENDS Campaign, FiniteSetTheorems, TLAPS

Pcs == {"idle", "check", "adopt", "dispatch", "spawn", "wait", "collect",
        "complete", "report"}
Events == [kind : {"dispatch"}, slot : Slots, resumed : BOOLEAN]
            \union [kind : {"complete"}, slot : Slots, export : Nat]
Sessions == [pc : Pcs, filter : Filters \union {None}, at : Nat,
             history : Seq(Events), child : Groups \union {None},
             launched : Nat, before : Nat, resumed : BOOLEAN, reference : Nat]
Processes == [leader : {"none", "worker", "engine", "zombie"},
              fitting : BOOLEAN, event : Nat, bound : BOOLEAN,
              code : {"ok", "failed"}]
Runs == [directories : Nat, stage : {"none", "bare", "storeless", "ready"},
         done : Nat, failed : BOOLEAN, spent : BOOLEAN, export : Nat]
Faults == [crashes : Nat, deaths : Nat, pauses : Nat,
           alarms : SUBSET {"ambiguous", "evidence", "journal", "report"}]

TypeOK ==
    /\ journal \in Seq(Events)
    /\ handshake \in [1..MaxEvents -> Groups \union {None}]
    /\ Len(journal) <= MaxEvents
    /\ run \in [Slots -> Runs]
    /\ DOMAIN report = Cases /\ report = [k \in Cases |-> report[k]]
    /\ lease \subseteq Controllers \union Groups
    /\ session \in [Controllers -> Sessions]
    /\ group \in [Groups -> Processes]
    /\ faults \in Faults

InSession(c) == session[c].pc # "idle"

\* The lease is held by the one session there may be and by the one process
\* that was dispatched with it.
Holds(c) ==
    /\ \A d \in Controllers \ {c} : session[d] = Idle
    /\ InSession(c) <=> c \in lease
    /\ InSession(c) \/ session[c] = Idle
    /\ lease \intersect Controllers \subseteq {c}
    /\ \A g \in Groups : Running(g) <=> g \in lease
    /\ \A g, h \in Groups : Running(g) /\ Running(h) => g = h

\* It waits for the process it has started, and for no other.
HasChild(c) ==
    /\ \A g \in Groups : Running(g) /\ InSession(c) => session[c].child = g
    /\ \A g \in Groups : group[g].leader = "zombie" => session[c].child = g
    /\ session[c].child # None <=> session[c].pc = "wait"
    /\ session[c].pc = "wait" => group[session[c].child].leader # "none"

\* What it knows of the journal is all there is, and what it has found of its
\* slot remains true until its own process changes it.
Knows(c) ==
    /\ InSession(c) => session[c].history = journal
    /\ session[c].pc \notin {"idle", "report"} => At(c) \in Slots
    /\ session[c].pc \in {"adopt", "dispatch", "spawn"} =>
         \A g \in Groups : Alive(g) => Slot(g) # At(c)
    /\ session[c].pc \in {"dispatch", "spawn", "wait", "collect", "complete"} =>
         At(c) \notin CompletedIn(journal)
    /\ session[c].pc = "dispatch" =>
         /\ run[At(c)].export = 0
         /\ ~session[c].resumed => run[At(c)].directories = 0
    /\ session[c].pc = "spawn" =>
         /\ Len(journal) > 0 /\ journal[Len(journal)].kind = "dispatch"
         /\ journal[Len(journal)].slot = At(c)
         /\ ~journal[Len(journal)].resumed => run[At(c)].directories = 0
    /\ session[c].pc = "complete" =>
         session[c].reference = run[At(c)].export /\ run[At(c)].export # 0

\* A process that works was dispatched by an event of the journal, has
\* announced itself before it became an engine, and does not meet a run
\* directory that it does not know of.
Works(g) ==
    Alive(g) =>
        /\ group[g].event \in 1..Len(journal)
        /\ journal[group[g].event].kind = "dispatch"
        /\ group[g].leader = "engine" \/ group[g].fitting =>
             handshake[group[g].event] = g
        /\ Running(g) /\ ~Resumes(g) /\ ~group[g].bound =>
             run[Slot(g)].directories = 0
        /\ group[g].leader = "engine" /\ group[g].fitting =>
             run[Slot(g)].stage = "ready" /\ run[Slot(g)].done < Budget
        /\ group[g].leader = "worker" => ~group[g].fitting

\* A run is exported when it is complete, and receipts and reports say what
\* was exported.
RunsAreWhole ==
    \A s \in Slots :
        /\ run[s].directories <= 1
        /\ run[s].stage # "none" => run[s].directories = 1
        /\ run[s].export # 0 =>
             /\ run[s].directories = 1 /\ run[s].stage = "ready"
             /\ run[s].done = Budget

ReceiptsAreTrue ==
    \A i \in 1..Len(journal) : journal[i].kind = "complete" =>
        journal[i].export = run[journal[i].slot].export /\ journal[i].export # 0

ReportsAreTrue ==
    \A k \in Cases : report[k] # None =>
        /\ SlotsOf(k) \subseteq CompletedIn(journal)
        /\ report[k] = [s \in SlotsOf(k) |-> run[s].export]

World ==
    /\ \A g \in Groups : Works(g)
    /\ OneDispatchAtWork
    /\ RunsAreWhole /\ ReceiptsAreTrue /\ ReportsAreTrue
    /\ EvidenceUndisputed

Inv(c) == TypeOK /\ Holds(c) /\ HasChild(c) /\ Knows(c) /\ World

IInv == \E c \in Controllers : Inv(c)

LEMMA LeastOfFinite ==
    ASSUME NEW S, S \subseteq Nat, S # {}, IsFiniteSet(S)
    PROVE  \E t \in S : \A u \in S : t <= u
<1> DEFINE Below(t) == {u \in S : u <= t}
           T == {Below(t) : t \in S}
<1>1. T \subseteq FiniteSubsetsOf(S) /\ T # {}
  <2>1. \A t \in S : Below(t) \in SUBSET S
    OBVIOUS
  <2>2. \A t \in S : IsFiniteSet(Below(t))
    BY <2>1, FS_Subset
  <2>3. \A t \in S : Below(t) \in FiniteSubsetsOf(S)
    BY <2>1, <2>2 DEF FiniteSubsetsOf
  <2> HIDE DEF Below
  <2> QED
    BY <2>3
<1>2. PICK x \in T : \A y \in T : <<y, x>> \notin StrictSubsetOrdering(S)
  <2> HIDE DEF T
  <2> QED
    BY <1>1, FS_StrictSubsetOrderingWellFounded, WFMin
<1>3. PICK t \in S : x = Below(t)
  OBVIOUS
<1>4. ASSUME NEW u \in S, u < t PROVE FALSE
  <2>1. t \in Nat /\ u \in Nat
    OBVIOUS
  <2>2. t \notin Below(u) /\ t \in Below(t)
    BY <1>4, <2>1
  <2>3. \A v \in S : v \in Nat /\ (v <= u => v <= t)
    BY <1>4, <2>1
  <2>4. Below(u) \subseteq Below(t)
    BY <2>3
  <2>5. <<Below(u), Below(t)>> \in StrictSubsetOrdering(S)
    BY <2>2, <2>4 DEF StrictSubsetOrdering
  <2>6. Below(u) \in T
    OBVIOUS
  <2> QED
    BY <1>2, <1>3, <2>5, <2>6
<1>5. \A u \in S : u \in Nat /\ t \in Nat /\ ~(u < t)
  BY <1>4
<1> QED
  BY <1>5
LEMMA LeastExists ==
    ASSUME NEW S, S \subseteq Nat, S # {}
    PROVE  \E t \in S : \A u \in S : t <= u
<1>1. PICK n \in S : n \in Nat
  OBVIOUS
<1> DEFINE L == {u \in S : u <= n}
<1>2. L \subseteq Nat /\ n \in L /\ L \subseteq S
  <2>1. n <= n /\ (\A u \in L : u \in S /\ u \in Nat)
    BY <1>1
  <2> QED
    BY <1>1, <2>1
<1>3. IsFiniteSet(L)
  BY <1>1, <1>2, FS_BoundedSetOfNaturals
<1>4. PICK t \in L : \A u \in L : t <= u
  <2> HIDE DEF L
  <2> QED
    BY <1>2, <1>3, LeastOfFinite
<1>5. ASSUME NEW u \in S PROVE t <= u
  <2>1. u \in Nat /\ t \in Nat /\ t <= n
    BY <1>4
  <2> QED
    BY <1>1, <1>4, <2>1
<1> QED
  BY <1>2, <1>4, <1>5

----------------------------------------------------------------------------
(***************************************************************************)
(* Records                                                                 *)
(***************************************************************************)
LEMMA IdleTyped == Idle \in Sessions /\ Idle.pc = "idle" /\ Idle.child = None
BY DEF Idle, Sessions, Pcs, Events

\* What the loop goes on with: the next slot, or the reports.
LEMMA Continues ==
    ASSUME NEW r \in Sessions, NEW s
    PROVE  /\ Continue(r, s) \in Sessions
           /\ Continue(r, s).pc \in {"check", "report"}
           /\ Continue(r, s).pc = "check" => Continue(r, s).at \in Slots
           /\ Continue(r, s).history = r.history
           /\ Continue(r, s).child = r.child
<1> DEFINE later == {t \in Selected(r.filter) : t > s}
<1>0. Slots \subseteq Nat
  BY PlanAssumption DEF Slots
<1>1. later \subseteq Slots
  BY DEF Selected
<1>2. CASE later = {}
  <2>1. Continue(r, s) = [r EXCEPT !.pc = "report", !.at = 0]
    BY <1>2 DEF Continue
  <2>2. [r EXCEPT !.pc = "report", !.at = 0] \in Sessions
    BY DEF Sessions, Pcs
  <2>3. /\ Continue(r, s).pc = "report"
        /\ Continue(r, s).history = r.history
        /\ Continue(r, s).child = r.child
    BY <2>1 DEF Sessions
  <2> QED
    BY <2>1, <2>2, <2>3
<1>3. CASE later # {}
  <2> DEFINE first == CHOOSE t \in later : \A u \in later : t <= u
  <2>1. Continue(r, s) = [r EXCEPT !.pc = "check", !.at = first]
    BY <1>3 DEF Continue
  <2> HIDE DEF later
  <2>2. \E t \in later : \A u \in later : t <= u
    BY <1>0, <1>1, <1>3, LeastExists
  <2>3. first \in later
    BY <2>2
  <2>4. first \in Slots /\ first \in Nat
    BY <1>0, <1>1, <2>3
  <2> HIDE DEF first
  <2> QED
    BY <2>1, <2>4 DEF Sessions, Pcs
<1> QED
  BY <1>2, <1>3

\* A session that goes on is the one whose facts are known.
LEMMA Serving ==
    ASSUME NEW c \in Controllers, IInv, session[c].pc # "idle"
    PROVE  Inv(c)
<1>1. PICK d \in Controllers : Inv(d)
  BY DEF IInv
<1>2. d = c
  BY <1>1, IdleTyped DEF Inv, Holds
<1> QED
  BY <1>1, <1>2

\* When nobody has the lease, any session may be the one.
LEMMA NobodyServing ==
    ASSUME NEW c \in Controllers, IInv, lease = {}
    PROVE  /\ Inv(c)
           /\ \A g \in Groups : group[g].leader = "none"
<1>1. PICK d \in Controllers : Inv(d)
  BY DEF IInv
<1>2. \A e \in Controllers : session[e] = Idle
  BY <1>1 DEF Inv, Holds, InSession
<1>3. \A g \in Groups : ~Running(g)
  BY <1>1 DEF Inv, Holds
<1>4. \A g \in Groups : group[g].leader # "zombie"
  BY <1>1, <1>2, IdleTyped, PlanAssumption DEF Inv, HasChild
<1>5. \A g \in Groups : group[g].leader = "none"
  <2>1. TypeOK
    BY <1>1 DEF Inv
  <2>2. \A g \in Groups : group[g] \in Processes
    BY <2>1 DEF TypeOK
  <2> QED
    BY <1>3, <1>4, <2>2 DEF Processes, Running
<1>6. ~InSession(c) /\ session[c].pc = "idle" /\ session[c].child = None
  BY <1>2, IdleTyped DEF InSession
<1>7. Holds(c)
  BY <1>2, <1>3, <1>6 DEF Holds
<1>8. HasChild(c)
  BY <1>3, <1>4, <1>6 DEF HasChild
<1>9. Knows(c)
  BY <1>6 DEF Knows
<1> QED
  BY <1>1, <1>5, <1>7, <1>8, <1>9 DEF Inv

----------------------------------------------------------------------------
(***************************************************************************)
(* Steps of a session                                                      *)
(***************************************************************************)
\* What a session does in its own memory leaves the rest as it was.
LEMMA WorldStands ==
    ASSUME World, UNCHANGED <<disk, group>>, faults'.alarms = faults.alarms
    PROVE  World'
<1>1. /\ journal' = journal /\ handshake' = handshake
      /\ run' = run /\ report' = report /\ group' = group
  BY DEF disk
<1>2. \A g \in Groups : Works(g)'
  <2> TAKE g \in Groups
  <2>1. Works(g)
    BY DEF World
  <2> QED
    BY <1>1, <2>1 DEF Works, Alive, Running, Slot, Resumes
<1>3. OneDispatchAtWork'
  BY <1>1 DEF World, OneDispatchAtWork, Alive, Slot
<1>4. RunsAreWhole' /\ ReceiptsAreTrue'
  BY <1>1 DEF World, RunsAreWhole, ReceiptsAreTrue
<1>5. ReportsAreTrue'
  BY <1>1 DEF World, ReportsAreTrue, CompletedIn
<1>6. EvidenceUndisputed'
  BY DEF World, EvidenceUndisputed
<1> QED
  BY <1>2, <1>3, <1>4, <1>5, <1>6 DEF World

\* A session ends: what it started is left to itself.
LEMMA Leaves ==
    ASSUME NEW c \in Controllers, Inv(c),
           session' = [session EXCEPT ![c] = Idle],
           UNCHANGED disk, faults' \in Faults, faults'.alarms = faults.alarms,
           lease' \subseteq lease \ {c},
           group' \in [Groups -> Processes],
           \A g \in Groups : Running(g)' <=> g \in lease',
           \A g \in Groups :
              \/ /\ group'[g] = group[g]
                 /\ group[g].leader # "zombie"
              \/ /\ group'[g].leader = "none"
                 /\ group'[g].fitting =>
                      group[g].fitting /\ group'[g].event = group[g].event
    PROVE  IInv'
<1>1. /\ journal' = journal /\ handshake' = handshake
      /\ run' = run /\ report' = report
  BY DEF disk
<1>2. TypeOK /\ Holds(c) /\ HasChild(c) /\ World
  BY DEF Inv
<1>3. TypeOK'
  <2>1. session' \in [Controllers -> Sessions]
    BY <1>2, IdleTyped DEF TypeOK
  <2>2. lease' \subseteq Controllers \union Groups
    BY <1>2 DEF TypeOK
  <2> QED
    BY <1>1, <1>2, <2>1, <2>2 DEF TypeOK
<1>4. /\ \A d \in Controllers : session'[d] = Idle
      /\ session'[c].pc = "idle" /\ session'[c].child = None
  BY <1>2, IdleTyped DEF TypeOK, Holds
<1>5. \A g \in Groups : Running(g)' => Running(g) /\ group'[g] = group[g]
  BY DEF Running
<1>6. \A g \in Groups : group'[g].leader # "zombie"
  OBVIOUS
<1>7. Holds(c)'
  BY <1>2, <1>4, <1>5 DEF Holds, InSession
<1>8. HasChild(c)'
  BY <1>4, <1>6 DEF HasChild, InSession
<1>9. Knows(c)'
  BY <1>4 DEF Knows, InSession
<1>10. \A g \in Groups : Alive(g)' =>
          /\ Alive(g) /\ group'[g].event = group[g].event
          /\ Running(g)' => group'[g] = group[g]
          /\ group'[g].leader = "engine" \/ group'[g].fitting =>
               group[g].leader = "engine" \/ group[g].fitting
          /\ group'[g].leader = "engine" => group'[g] = group[g]
  BY <1>5 DEF Alive, Running
<1>11. \A g \in Groups : Works(g)'
  <2> TAKE g \in Groups
  <2> SUFFICES ASSUME Alive(g)' PROVE Works(g)'
    BY DEF Works
  <2>1. Works(g) /\ Alive(g)
    BY <1>2, <1>10 DEF World
  <2> QED
    BY <1>1, <1>5, <1>10, <2>1 DEF Works, Resumes, Slot
<1>12. OneDispatchAtWork'
  BY <1>1, <1>2, <1>10 DEF World, OneDispatchAtWork, Slot
<1>13. RunsAreWhole' /\ ReceiptsAreTrue'
  BY <1>1, <1>2 DEF World, RunsAreWhole, ReceiptsAreTrue
<1>14. ReportsAreTrue'
  BY <1>1, <1>2 DEF World, ReportsAreTrue, CompletedIn
<1>15. EvidenceUndisputed'
  BY <1>2 DEF World, EvidenceUndisputed
<1>16. World'
  BY <1>11, <1>12, <1>13, <1>14, <1>15 DEF World
<1> QED
  BY <1>3, <1>7, <1>8, <1>9, <1>16 DEF IInv, Inv

\* A session without a child refuses to go on.
LEMMA Refuses ==
    ASSUME NEW c \in Controllers, Inv(c),
           session[c].pc \notin {"idle", "wait"}, Refuse(c)
    PROVE  IInv'
<1>1. /\ session' = [session EXCEPT ![c] = Idle]
      /\ lease' = lease \ {c} /\ group' = group /\ faults' = faults
      /\ UNCHANGED disk
  BY DEF Refuse, Leave
<1>2. TypeOK /\ Holds(c) /\ HasChild(c)
  BY DEF Inv
<1>3. \A g \in Groups : group[g].leader # "zombie"
  BY <1>2, PlanAssumption DEF HasChild
<1>4. \A g \in Groups : g # c /\ (Running(g)' <=> Running(g))
  BY <1>1, PlanAssumption DEF Running
<1>5. \A g \in Groups : Running(g)' <=> g \in lease'
  BY <1>1, <1>2, <1>4 DEF Holds
<1>6. group' \in [Groups -> Processes] /\ faults' \in Faults
  BY <1>1, <1>2 DEF TypeOK
<1> QED
  BY <1>1, <1>3, <1>5, <1>6, Leaves

\* A session that has no child goes on without touching the disk.
LEMMA Moves ==
    ASSUME NEW c \in Controllers, NEW r \in Sessions, Inv(c),
           session' = [session EXCEPT ![c] = r],
           UNCHANGED <<disk, group>>,
           faults' \in Faults, faults'.alarms = faults.alarms,
           session[c].pc # "wait", session[c].pc # "idle" \/ lease = {},
           lease' = lease \union {c},
           r.pc \notin {"idle", "spawn", "wait"}, r.child = None,
           r.history = journal,
           r.pc # "report" => r.at \in Slots,
           r.pc \in {"adopt", "dispatch"} =>
              \A g \in Groups : Alive(g) => Slot(g) # r.at,
           r.pc \in {"dispatch", "collect", "complete"} =>
              r.at \notin CompletedIn(journal),
           r.pc = "dispatch" =>
              /\ run[r.at].export = 0
              /\ ~r.resumed => run[r.at].directories = 0,
           r.pc = "complete" =>
              r.reference = run[r.at].export /\ run[r.at].export # 0
    PROVE  IInv'
<1>1. /\ journal' = journal /\ handshake' = handshake
      /\ run' = run /\ report' = report /\ group' = group
  BY DEF disk
<1>2. TypeOK /\ Holds(c) /\ HasChild(c) /\ World
  BY DEF Inv
<1>3. TypeOK'
  <2>1. session' \in [Controllers -> Sessions]
    BY <1>2 DEF TypeOK
  <2>2. lease' \subseteq Controllers \union Groups
    BY <1>2 DEF TypeOK
  <2> QED
    BY <1>1, <1>2, <2>1, <2>2 DEF TypeOK
<1>4. session'[c] = r /\ \A d \in Controllers \ {c} : session'[d] = session[d]
  BY <1>2 DEF TypeOK
<1>5. \A g \in Groups : g # c /\ (Running(g)' <=> Running(g))
  BY <1>1, PlanAssumption DEF Running
<1>6. \A g \in Groups : group[g].leader # "zombie"
  BY <1>2, PlanAssumption DEF HasChild
<1>7. \A g \in Groups : ~Running(g) \/ ~InSession(c)
  BY <1>2, PlanAssumption DEF HasChild
<1>8. \A g \in Groups : ~Running(g)
  BY <1>2, <1>7 DEF Holds, InSession
<1>9. Holds(c)'
  BY <1>2, <1>4, <1>5 DEF Holds, InSession
<1>10. HasChild(c)'
  BY <1>1, <1>4, <1>5, <1>6, <1>8 DEF HasChild, InSession
<1>11. Knows(c)'
  BY <1>1, <1>4 DEF Knows, InSession, At, Alive, Slot, CompletedIn
<1>12. World'
  BY <1>2, WorldStands
<1> QED
  BY <1>3, <1>9, <1>10, <1>11, <1>12 DEF IInv, Inv

LEMMA AcquireStep ==
    ASSUME NEW c \in Controllers, IInv, Acquire(c)
    PROVE  IInv'
<1>1. Inv(c) /\ session[c].pc = "idle" /\ lease = {} /\ lease' = {c}
      /\ UNCHANGED <<disk, group>> /\ faults' = faults
  BY NobodyServing DEF Acquire
<1>2. PICK filter \in Filters : session' = [session EXCEPT
        ![c] = Continue([Idle EXCEPT !.filter = filter,
                                     !.history = journal], 0)]
  BY DEF Acquire
<1> DEFINE r0 == [Idle EXCEPT !.filter = filter, !.history = journal]
           r == Continue(r0, 0)
<1>3. TypeOK
  BY <1>1 DEF Inv
<1>4. r0 \in Sessions /\ r0.history = journal /\ r0.child = None
  BY <1>3 DEF TypeOK, Sessions, Idle, Pcs
<1> HIDE DEF r0
<1>5. /\ r \in Sessions /\ r.pc \in {"check", "report"}
      /\ r.pc = "check" => r.at \in Slots
      /\ r.history = journal /\ r.child = None
  BY <1>4, Continues
<1>6. faults' \in Faults /\ faults'.alarms = faults.alarms
  BY <1>1, <1>3 DEF TypeOK
<1>7. session' = [session EXCEPT ![c] = r] /\ lease' = lease \union {c}
  BY <1>1, <1>2 DEF r0
<1> HIDE DEF r
<1> QED
  BY <1>1, <1>5, <1>6, <1>7, Moves

\* A process in its session's slot, while that session does not wait for one,
\* is an engine or a training that has announced itself.
LEMMA CheckActiveStep ==
    ASSUME NEW c \in Controllers, IInv, CheckActive(c)
    PROVE  IInv'
<1>1. session[c].pc = "check" /\ Inv(c)
  BY Serving DEF CheckActive
<1>2. /\ TypeOK /\ Holds(c) /\ HasChild(c) /\ Knows(c) /\ World
      /\ session[c].history = journal /\ session[c].child = None
      /\ session[c] \in Sessions /\ At(c) \in Slots /\ c \in lease
  BY <1>1, PlanAssumption
     DEF Inv, TypeOK, HasChild, Knows, Holds, InSession
<1>3. CASE Refuse(c)
  BY <1>1, <1>3, Refuses
<1>4. CASE ~Refuse(c)
  <2> DEFINE r == [session[c] EXCEPT !.pc = "adopt"]
  <2>1. /\ session' = [session EXCEPT ![c].pc = "adopt"]
        /\ UNCHANGED <<disk, group>> /\ lease' = lease /\ faults' = faults
        /\ ~ \E i \in DOMAIN journal :
              /\ journal[i].kind = "dispatch" /\ journal[i].slot = At(c)
              /\ handshake[i] # None /\ Alive(handshake[i])
    BY <1>2, <1>4 DEF CheckActive, Goto
  <2>2. /\ session' = [session EXCEPT ![c] = r] /\ r \in Sessions
        /\ r.pc = "adopt" /\ r.child = None /\ r.history = journal
        /\ r.at = At(c)
    BY <1>2, <2>1 DEF TypeOK, Sessions, Pcs, At
  <2>3. ASSUME NEW g \in Groups, Alive(g) PROVE Slot(g) # At(c)
    <3>1. ~Running(g) /\ group[g].leader # "zombie"
      BY <1>1, <1>2, PlanAssumption DEF HasChild, InSession
    <3>2. group[g].fitting
      BY <1>2, <2>3, <3>1 DEF TypeOK, Processes, Running, Alive
    <3>3. /\ group[g].event \in 1..Len(journal)
          /\ journal[group[g].event].kind = "dispatch"
          /\ handshake[group[g].event] = g
      BY <1>2, <2>3, <3>2 DEF World, Works
    <3>4. group[g].event \in DOMAIN journal
      BY <1>2, <3>3 DEF TypeOK
    <3> QED
      BY <2>1, <2>3, <3>3, <3>4, PlanAssumption DEF Slot
  <2>4. /\ faults' \in Faults /\ faults'.alarms = faults.alarms
        /\ lease' = lease \union {c}
    BY <1>2, <2>1 DEF TypeOK
  <2> HIDE DEF r
  <2> QED
    BY <1>1, <1>2, <2>1, <2>2, <2>3, <2>4, Moves, ZenonT(40)
<1> QED
  BY <1>3, <1>4

\* What a session that does not wait for a child can rely on.
LEMMA Known ==
    ASSUME NEW c \in Controllers, IInv, session[c].pc \notin {"idle", "wait"}
    PROVE  /\ Inv(c) /\ TypeOK /\ Knows(c) /\ World
           /\ session[c] \in Sessions /\ session[c].child = None
           /\ session[c].history = journal /\ lease = lease \union {c}
           /\ faults \in Faults
           /\ \A g \in Groups : ~Running(g)
           /\ session[c].pc # "report" =>
                /\ At(c) \in Slots /\ run[At(c)] \in Runs
                /\ ~Ambiguous(At(c))
<1>1. Inv(c)
  BY Serving
<1>2. TypeOK /\ Holds(c) /\ HasChild(c) /\ Knows(c) /\ World
  BY <1>1 DEF Inv
<1>3. /\ session[c] \in Sessions /\ session[c].child = None
      /\ session[c].history = journal /\ c \in lease /\ faults \in Faults
  BY <1>2 DEF TypeOK, HasChild, Knows, Holds, InSession
<1>4. \A g \in Groups : ~Running(g)
  BY <1>2, <1>3, PlanAssumption DEF HasChild, InSession
<1>5. ASSUME session[c].pc # "report"
      PROVE  At(c) \in Slots /\ run[At(c)] \in Runs /\ ~Ambiguous(At(c))
  <2>1. At(c) \in Slots
    BY <1>2, <1>5 DEF Knows
  <2>2. run[At(c)] \in Runs /\ run[At(c)].directories <= 1
    BY <1>2, <2>1 DEF TypeOK, World, RunsAreWhole
  <2> QED
    BY <2>1, <2>2 DEF Ambiguous, Runs
<1> QED
  BY <1>1, <1>2, <1>3, <1>4, <1>5

LEMMA AdoptRefusedStep ==
    ASSUME NEW c \in Controllers, IInv, AdoptRefused(c)
    PROVE  IInv'
<1>1. session[c].pc \in {"adopt", "collect"}
  BY DEF AdoptRefused
<1>2. Inv(c) /\ ~Ambiguous(At(c))
  BY <1>1, Known
<1>3. Refuse(c)
  BY <1>2 DEF AdoptRefused
<1> QED
  BY <1>1, <1>2, <1>3, Refuses

\* The receipts of a slot name its export; there is none while the journal
\* does not call it complete.
LEMMA Receipts ==
    ASSUME NEW c \in Controllers, TypeOK, ReceiptsAreTrue,
           session[c].history = journal
    PROVE  /\ ReceiptOf(c) \subseteq {run[At(c)].export}
           /\ ReceiptOf(c) = {} <=> At(c) \notin CompletedIn(journal)
<1>1. journal \in Seq(Events) /\ DOMAIN journal = 1..Len(journal)
  BY DEF TypeOK
<1>2. \A i \in DOMAIN journal :
         journal[i].kind = "complete" /\ journal[i].slot = At(c)
            => journal[i].export = run[At(c)].export
  BY <1>1 DEF ReceiptsAreTrue
<1>3. ReceiptOf(c) = {journal[i].export : i \in {j \in DOMAIN journal :
            journal[j].kind = "complete" /\ journal[j].slot = At(c)}}
  BY DEF ReceiptOf
<1> QED
  BY <1>2, <1>3, SMTT(30) DEF CompletedIn

LEMMA SkipCompletedStep ==
    ASSUME NEW c \in Controllers, IInv, SkipCompleted(c)
    PROVE  IInv'
<1>1. session[c].pc = "adopt" /\ ReceiptOf(c) # {}
  BY DEF SkipCompleted
<1>2. /\ Inv(c) /\ TypeOK /\ World /\ session[c] \in Sessions
      /\ session[c].child = None
      /\ session[c].history = journal /\ lease = lease \union {c}
      /\ faults \in Faults
  BY <1>1, Known
<1>3. ReceiptOf(c) = {run[At(c)].export}
  BY <1>1, <1>2, Receipts DEF World
<1> DEFINE r == Continue(session[c], At(c))
<1>4. /\ session' = [session EXCEPT ![c] = r]
      /\ UNCHANGED <<disk, group>> /\ lease' = lease /\ faults' = faults
  BY <1>2, <1>3 DEF SkipCompleted, TypeOK
<1>5. /\ r \in Sessions /\ r.pc \in {"check", "report"}
      /\ r.pc = "check" => r.at \in Slots
      /\ r.history = journal /\ r.child = None
  BY <1>2, Continues
<1>6. faults' \in Faults /\ faults'.alarms = faults.alarms
      /\ lease' = lease \union {c}
  BY <1>2, <1>4
<1> HIDE DEF r
<1> QED
  BY <1>1, <1>2, <1>4, <1>5, <1>6, Moves

LEMMA AdoptExportStep ==
    ASSUME NEW c \in Controllers, IInv, AdoptExport(c)
    PROVE  IInv'
<1>1. /\ session[c].pc = "adopt" /\ ReceiptOf(c) = {}
      /\ run[At(c)].export # 0
  BY DEF AdoptExport, Exported
<1>2. /\ Inv(c) /\ TypeOK /\ World /\ session[c] \in Sessions
      /\ session[c].child = None
      /\ session[c].history = journal /\ lease = lease \union {c}
      /\ faults \in Faults /\ At(c) \in Slots /\ run[At(c)] \in Runs
  BY <1>1, Known
<1>3. At(c) \notin CompletedIn(journal)
  BY <1>1, <1>2, Receipts DEF World
<1> DEFINE q == [session[c] EXCEPT !.pc = "complete"]
           r == [q EXCEPT !.reference = run[At(c)].export]
<1>4. /\ session' = [session EXCEPT ![c] = r]
      /\ UNCHANGED <<disk, group>> /\ lease' = lease /\ faults' = faults
  BY <1>2 DEF AdoptExport, TypeOK
<1>5. q \in Sessions /\ q.pc = "complete" /\ q.child = None
      /\ q.history = journal /\ q.at = At(c)
  BY <1>2 DEF Sessions, Pcs, At
<1> HIDE DEF q
<1>6. r \in Sessions /\ r.pc = "complete" /\ r.child = None
      /\ r.history = journal /\ r.at = At(c)
      /\ r.reference = run[At(c)].export
  BY <1>2, <1>5 DEF Sessions, Runs
<1>7. faults' \in Faults /\ faults'.alarms = faults.alarms
      /\ lease' = lease \union {c}
  BY <1>2, <1>4
<1> HIDE DEF r
<1> QED
  BY <1>1, <1>2, <1>3, <1>4, <1>6, <1>7, Moves

LEMMA BreakStep ==
    ASSUME NEW c \in Controllers, IInv, Break(c)
    PROVE  IInv'
<1>1. session[c].pc = "adopt"
  BY DEF Break, Unfinished
<1>2. /\ Inv(c) /\ TypeOK /\ session[c] \in Sessions
      /\ session[c].child = None
      /\ session[c].history = journal /\ lease = lease \union {c}
      /\ faults \in Faults
  BY <1>1, Known
<1> DEFINE r == [session[c] EXCEPT !.pc = "report"]
<1>3. /\ session' = [session EXCEPT ![c] = r]
      /\ UNCHANGED <<disk, group>> /\ lease' = lease
  BY <1>2 DEF Break, Goto, TypeOK
<1>4. faults' \in Faults /\ faults'.alarms = faults.alarms
  BY <1>2 DEF Break, Faults
<1>5. r \in Sessions /\ r.pc = "report" /\ r.child = None
      /\ r.history = journal
  BY <1>2 DEF Sessions, Pcs
<1>6. lease' = lease \union {c}
  BY <1>2, <1>3
<1> HIDE DEF r
<1> QED
  BY <1>1, <1>2, <1>3, <1>4, <1>5, <1>6, Moves

LEMMA PrepareRefusedStep ==
    ASSUME NEW c \in Controllers, IInv, PrepareRefused(c)
    PROVE  IInv'
<1>1. session[c].pc = "adopt" /\ Refuse(c)
  BY DEF PrepareRefused, Unfinished
<1> QED
  BY <1>1, Known, Refuses

LEMMA PrepareStep ==
    ASSUME NEW c \in Controllers, IInv, Prepare(c)
    PROVE  IInv'
<1>1. /\ session[c].pc = "adopt" /\ ReceiptOf(c) = {}
      /\ run[At(c)].export = 0
  BY DEF Prepare, Unfinished
<1>2. /\ Inv(c) /\ TypeOK /\ Knows(c) /\ World /\ session[c] \in Sessions
      /\ session[c].child = None
      /\ session[c].history = journal /\ lease = lease \union {c}
      /\ faults \in Faults /\ At(c) \in Slots /\ run[At(c)] \in Runs
      /\ ~Ambiguous(At(c))
  BY <1>1, Known
<1>3. At(c) \notin CompletedIn(journal)
  BY <1>1, <1>2, Receipts DEF World
<1>4. \A g \in Groups : Alive(g) => Slot(g) # At(c)
  BY <1>1, <1>2 DEF Knows
<1> DEFINE before == IF Partial(At(c)) THEN run[At(c)].done ELSE 0
           p == [session[c] EXCEPT !.pc = "dispatch"]
           q == [p EXCEPT !.before = before]
           r == [q EXCEPT !.resumed = Partial(At(c))]
<1>5. /\ session' = [session EXCEPT ![c] = r]
      /\ UNCHANGED <<disk, group>> /\ lease' = lease /\ faults' = faults
  BY <1>2 DEF Prepare, TypeOK
<1>6. before \in Nat
  BY <1>2 DEF Runs
<1> HIDE DEF before
<1>7. p \in Sessions /\ p.pc = "dispatch" /\ p.child = None
      /\ p.history = journal /\ p.at = At(c)
  BY <1>2 DEF Sessions, Pcs, At
<1> HIDE DEF p
<1>8. q \in Sessions /\ q.pc = "dispatch" /\ q.child = None
      /\ q.history = journal /\ q.at = At(c)
  BY <1>6, <1>7 DEF Sessions
<1> HIDE DEF q
<1>9. /\ r \in Sessions /\ r.pc = "dispatch" /\ r.child = None
      /\ r.history = journal /\ r.at = At(c)
      /\ ~r.resumed => run[At(c)].directories = 0
  <2>1. CASE Partial(At(c))
    <3>1. r = [q EXCEPT !.resumed = TRUE]
      BY <2>1 DEF Partial
    <3> QED
      BY <1>8, <3>1 DEF Sessions
  <2>2. CASE ~Partial(At(c))
    <3>1. r = [q EXCEPT !.resumed = FALSE]
      BY <2>2 DEF Partial
    <3>2. run[At(c)].directories = 0
      BY <1>1, <1>2, <2>2 DEF Partial, Ambiguous, Runs
    <3> QED
      BY <1>8, <3>1, <3>2 DEF Sessions
  <2> QED
    BY <2>1, <2>2
<1>10. faults' \in Faults /\ faults'.alarms = faults.alarms
      /\ lease' = lease \union {c}
  BY <1>2, <1>5
<1> HIDE DEF r
<1>11. /\ run[r.at].export = 0
       /\ ~r.resumed => run[r.at].directories = 0
       /\ r.at \notin CompletedIn(journal) /\ r.at \in Slots
       /\ \A g \in Groups : Alive(g) => Slot(g) # r.at
  BY <1>1, <1>2, <1>3, <1>4, <1>9
<1>12. r.pc = "dispatch" /\ r \in Sessions /\ r.child = None
       /\ r.history = journal /\ session[c].pc = "adopt" /\ Inv(c)
  BY <1>1, <1>2, <1>9
<1> QED
  BY <1>5, <1>10, <1>11, <1>12, Moves

\* An event more changes nothing of what was recorded before it.
LEMMA Appended ==
    ASSUME NEW e \in Events, TypeOK, World, Len(journal) < MaxEvents,
           journal' = Append(journal, e),
           UNCHANGED <<handshake, run, report, group, faults>>,
           e.kind = "complete" =>
              e.export = run[e.slot].export /\ e.export # 0
    PROVE  /\ World'
           /\ journal' \in Seq(Events) /\ Len(journal') <= MaxEvents
           /\ Len(journal') = Len(journal) + 1
           /\ journal'[Len(journal')] = e
           /\ CompletedIn(journal) \subseteq CompletedIn(journal')
           /\ CompletedIn(journal') \subseteq
                CompletedIn(journal)
                  \union (IF e.kind = "complete" THEN {e.slot} ELSE {})
           /\ \A g \in Groups : Alive(g) => Slot(g)' = Slot(g)
<1>1. /\ journal \in Seq(Events) /\ journal' \in Seq(Events)
      /\ Len(journal) \in Nat /\ MaxEvents \in Nat
      /\ Len(journal') = Len(journal) + 1
      /\ journal'[Len(journal')] = e
      /\ \A i \in 1..Len(journal) : journal'[i] = journal[i]
      /\ DOMAIN journal = 1..Len(journal)
      /\ DOMAIN journal' = 1..Len(journal')
  BY PlanAssumption DEF TypeOK
<1>2. 1..Len(journal') = 1..Len(journal) \union {Len(journal')}
  BY <1>1
<1>3. \A g \in Groups : /\ Alive(g)' <=> Alive(g)
                        /\ Running(g)' <=> Running(g)
  BY DEF Alive, Running
<1>4. \A g \in Groups : Alive(g) =>
         /\ group[g].event \in 1..Len(journal)
         /\ Slot(g)' = Slot(g) /\ (Resumes(g)' <=> Resumes(g))
  BY <1>1 DEF World, Works, Slot, Resumes
<1>5. ASSUME NEW g \in Groups PROVE Works(g)'
  <2>1. SUFFICES ASSUME Alive(g) PROVE Works(g)'
    BY <1>3 DEF Works
  <2>2. Works(g)
    BY DEF World
  <2> QED
    BY <1>1, <1>2, <1>3, <1>4, <2>1, <2>2 DEF Works
<1>6. OneDispatchAtWork'
  BY <1>3, <1>4 DEF World, OneDispatchAtWork
<1>7. RunsAreWhole' /\ EvidenceUndisputed'
  BY DEF World, RunsAreWhole, EvidenceUndisputed
<1>8. ReceiptsAreTrue'
  BY <1>1, <1>2 DEF World, ReceiptsAreTrue
<1>9. CompletedIn(journal) \subseteq CompletedIn(journal')
  BY <1>1, <1>2 DEF CompletedIn
<1>10. CompletedIn(journal') \subseteq
          CompletedIn(journal)
            \union (IF e.kind = "complete" THEN {e.slot} ELSE {})
  BY <1>1, <1>2 DEF CompletedIn
<1>11. ReportsAreTrue'
  <2>1. ReportsAreTrue
    BY DEF World
  <2> QED
    BY <1>9, <2>1 DEF ReportsAreTrue
<1>12. World'
  BY <1>5, <1>6, <1>7, <1>8, <1>11 DEF World
<1> QED
  BY <1>1, <1>4, <1>9, <1>10, <1>12

\* The session's own event is in the journal and in its history.
LEMMA Appends ==
    ASSUME NEW c \in Controllers, NEW r \in Sessions, NEW e \in Events, IInv,
           session[c].pc \notin {"idle", "wait"},
           AppendEvent(c, e, r),
           e.kind = "complete" =>
              e.export = run[e.slot].export /\ e.export # 0,
           r.pc \in {"check", "report", "spawn"}, r.child = None,
           r.history = Append(journal, e),
           r.pc # "report" => r.at \in Slots,
           r.pc = "spawn" =>
              /\ e.kind = "dispatch" /\ e.slot = r.at
              /\ \A g \in Groups : Alive(g) => Slot(g) # r.at
              /\ r.at \notin CompletedIn(journal)
              /\ ~e.resumed => run[r.at].directories = 0
    PROVE  IInv'
<1>1. /\ Inv(c) /\ TypeOK /\ World /\ session[c].child = None
      /\ session[c].history = journal
      /\ \A g \in Groups : ~Running(g)
  BY Known
<1>2. /\ Len(journal) < MaxEvents /\ journal' = Append(journal, e)
      /\ session' = [session EXCEPT ![c] = r]
      /\ UNCHANGED <<handshake, run, report, group, faults>>
      /\ lease' = lease
  <2>1. Len(journal) \in Nat
    BY <1>1 DEF TypeOK
  <2> QED
    BY <1>1, <2>1 DEF AppendEvent
<1>3. /\ World'
      /\ journal' \in Seq(Events) /\ Len(journal') <= MaxEvents
      /\ Len(journal') = Len(journal) + 1 /\ Len(journal) \in Nat
      /\ journal'[Len(journal')] = e
      /\ CompletedIn(journal') \subseteq
            CompletedIn(journal)
              \union (IF e.kind = "complete" THEN {e.slot} ELSE {})
      /\ \A g \in Groups : Alive(g) => Slot(g)' = Slot(g)
  <2>1. Len(journal) \in Nat
    BY <1>1 DEF TypeOK
  <2> QED
    BY <1>1, <1>2, <2>1, Appended
<1>4. session'[c] = r /\ \A d \in Controllers \ {c} : session'[d] = session[d]
  BY <1>1, <1>2 DEF TypeOK
<1>5. TypeOK'
  <2>1. session' \in [Controllers -> Sessions]
    BY <1>1, <1>2 DEF TypeOK
  <2> QED
    BY <1>1, <1>2, <1>3, <2>1 DEF TypeOK
<1>6. \A g \in Groups : /\ Alive(g)' <=> Alive(g)
                        /\ Running(g)' <=> Running(g)
  BY <1>2 DEF Alive, Running
<1>7. Holds(c) /\ HasChild(c)
  BY <1>1 DEF Inv
<1>8. Holds(c)'
  BY <1>2, <1>4, <1>6, <1>7 DEF Holds, InSession
<1>9. \A g \in Groups : group[g].leader # "zombie"
  BY <1>1, <1>7, PlanAssumption DEF HasChild
<1>10. HasChild(c)'
  BY <1>1, <1>2, <1>4, <1>6, <1>9 DEF HasChild
<1>11. Knows(c)'
  <2>1. CASE r.pc = "spawn"
    <3>1. r.at \notin CompletedIn(journal')
      BY <1>3, <2>1
    <3>2. \A g \in Groups : Alive(g)' => Slot(g)' # r.at
      BY <1>3, <1>6, <2>1
    <3> QED
      BY <1>2, <1>3, <1>4, <2>1, <3>1, <3>2 DEF Knows, At, InSession
  <2>2. CASE r.pc # "spawn"
    BY <1>2, <1>4, <2>2 DEF Knows, At, InSession
  <2> QED
    BY <2>1, <2>2
<1> QED
  BY <1>3, <1>5, <1>8, <1>10, <1>11 DEF IInv, Inv

LEMMA ReceiptStep ==
    ASSUME NEW c \in Controllers, IInv, Receipt(c)
    PROVE  IInv'
<1>1. session[c].pc = "complete"
  BY DEF Receipt
<1>2. /\ TypeOK /\ Knows(c) /\ session[c] \in Sessions
      /\ session[c].child = None
      /\ session[c].history = journal /\ At(c) \in Slots
      /\ run[At(c)] \in Runs
  BY <1>1, Known
<1> DEFINE e == Completed(At(c), session[c].reference)
           h == Append(journal, e)
           q == [session[c] EXCEPT !.history = h]
           after == [q EXCEPT !.reference = 0]
           r == Continue(after, At(c))
<1>3. /\ e \in Events /\ e.kind = "complete" /\ e.slot = At(c)
      /\ e.export = run[At(c)].export /\ e.export # 0
  BY <1>1, <1>2 DEF Completed, Events, Knows, Sessions
<1>4. AppendEvent(c, e, r)
  BY <1>2 DEF Receipt, Sessions
<1> HIDE DEF e
<1>5. h \in Seq(Events)
  BY <1>2, <1>3 DEF TypeOK
<1> HIDE DEF h
<1>6. q \in Sessions /\ q.history = h /\ q.child = None
  BY <1>2, <1>5 DEF Sessions
<1> HIDE DEF q
<1>7. after \in Sessions /\ after.history = h /\ after.child = None
  BY <1>6 DEF Sessions
<1> HIDE DEF after
<1>8. /\ r \in Sessions /\ r.pc \in {"check", "report"}
      /\ r.pc = "check" => r.at \in Slots
      /\ r.history = h /\ r.child = None
  BY <1>7, Continues
<1> HIDE DEF r
<1> QED
  BY <1>1, <1>3, <1>4, <1>8, Appends DEF h

LEMMA DispatchStep ==
    ASSUME NEW c \in Controllers, IInv, Dispatch(c)
    PROVE  IInv'
<1>1. session[c].pc = "dispatch"
  BY DEF Dispatch
<1>2. /\ TypeOK /\ Knows(c) /\ session[c] \in Sessions
      /\ session[c].child = None
      /\ session[c].history = journal /\ At(c) \in Slots
      /\ session[c].resumed \in BOOLEAN
  BY <1>1, Known DEF Sessions
<1> DEFINE e == Dispatched(At(c), session[c].resumed)
           p == [session[c] EXCEPT !.pc = "spawn"]
           h == Append(journal, e)
           q == [p EXCEPT !.history = h]
           r == [q EXCEPT !.resumed = FALSE]
<1>3. /\ e \in Events /\ e.kind = "dispatch" /\ e.slot = At(c)
      /\ e.resumed = session[c].resumed
  BY <1>2 DEF Dispatched, Events
<1>4. AppendEvent(c, e, r)
  BY <1>2 DEF Dispatch, Sessions
<1> HIDE DEF e
<1>9. h \in Seq(Events)
  BY <1>2, <1>3 DEF TypeOK
<1> HIDE DEF h
<1>5. p \in Sessions /\ p.history = journal /\ p.child = None
      /\ p.pc = "spawn" /\ p.at = At(c)
  BY <1>2 DEF Sessions, Pcs, At
<1> HIDE DEF p
<1>6. q \in Sessions /\ q.history = h /\ q.child = None
      /\ q.pc = "spawn" /\ q.at = At(c)
  BY <1>5, <1>9 DEF Sessions
<1> HIDE DEF q
<1>7. r \in Sessions /\ r.history = h /\ r.child = None
      /\ r.pc = "spawn" /\ r.at = At(c)
  BY <1>6 DEF Sessions
<1> HIDE DEF r
<1>8. /\ \A g \in Groups : Alive(g) => Slot(g) # At(c)
      /\ At(c) \notin CompletedIn(journal)
      /\ ~e.resumed => run[At(c)].directories = 0
  BY <1>1, <1>2, <1>3 DEF Knows
<1> QED
  BY <1>1, <1>2, <1>3, <1>4, <1>7, <1>8, Appends DEF h

\* The started process has the lease, works for its session's slot, and is
\* the only one that does.
LEMMA SpawnStep ==
    ASSUME NEW c \in Controllers, IInv, Spawn(c)
    PROVE  IInv'
<1>1. PICK g \in Groups : SpawnIn(c, g) /\ lease' = lease \union {g}
  BY DEF Spawn
<1>2. session[c].pc = "spawn" /\ ~Alive(g)
  BY <1>1 DEF SpawnIn
<1>3. /\ Inv(c) /\ TypeOK /\ Knows(c) /\ World /\ session[c] \in Sessions
      /\ session[c].child = None /\ session[c].history = journal
      /\ \A h \in Groups : ~Running(h)
      /\ At(c) \in Slots
  BY <1>2, Known
<1>4. Holds(c) /\ HasChild(c)
  BY <1>3 DEF Inv
<1>5. /\ Len(journal) \in Nat /\ Len(journal) > 0
      /\ journal[Len(journal)].kind = "dispatch"
      /\ journal[Len(journal)].slot = At(c)
      /\ ~journal[Len(journal)].resumed => run[At(c)].directories = 0
      /\ At(c) \notin CompletedIn(journal)
      /\ \A h \in Groups : Alive(h) => Slot(h) # At(c)
  BY <1>2, <1>3 DEF Knows, TypeOK
<1>6. /\ journal' = journal /\ handshake' = handshake
      /\ run' = run /\ report' = report /\ faults' = faults
  BY <1>1 DEF SpawnIn, disk
<1> DEFINE n == Len(journal)
           p0 == [Free EXCEPT !.leader = "worker"]
           p == [p0 EXCEPT !.event = n]
           r0 == [session[c] EXCEPT !.pc = "wait"]
           r == [r0 EXCEPT !.child = g]
<1>7. group' = [group EXCEPT ![g] = p]
  BY <1>1, <1>3 DEF SpawnIn, Free
<1>8. session' = [session EXCEPT ![c] = r]
  BY <1>1, <1>3 DEF SpawnIn, TypeOK, Sessions
<1>9. /\ p \in Processes /\ p.leader = "worker" /\ p.event = n
      /\ p.fitting = FALSE /\ p.bound = FALSE
  BY <1>5 DEF Free, Processes
<1>10. /\ r0 \in Sessions /\ r0.pc = "wait" /\ r0.history = journal
       /\ r0.at = At(c)
  BY <1>3 DEF Sessions, Pcs, At
<1> HIDE DEF p, r0
<1>11. /\ r \in Sessions /\ r.pc = "wait" /\ r.history = journal
       /\ r.at = At(c) /\ r.child = g
  BY <1>10 DEF Sessions
<1> HIDE DEF r, n
<1>12. /\ session'[c] = r
       /\ \A d \in Controllers \ {c} : session'[d] = session[d]
       /\ group'[g] = p
       /\ \A h \in Groups \ {g} : group'[h] = group[h]
  BY <1>3, <1>7, <1>8 DEF TypeOK
<1>13. TypeOK'
  <2>1. session' \in [Controllers -> Sessions]
    BY <1>3, <1>8, <1>11 DEF TypeOK
  <2>2. group' \in [Groups -> Processes]
    BY <1>3, <1>7, <1>9 DEF TypeOK
  <2>3. lease' \subseteq Controllers \union Groups
    BY <1>1, <1>3 DEF TypeOK
  <2> QED
    BY <1>3, <1>6, <2>1, <2>2, <2>3 DEF TypeOK
<1>14. \A h \in Groups : /\ Running(h)' <=> h = g
                         /\ h # g => (Alive(h)' <=> Alive(h))
  BY <1>3, <1>9, <1>12 DEF Running, Alive
<1>15. g # c /\ g # None /\ Controllers \intersect Groups = {}
  BY PlanAssumption
<1>16. Holds(c)'
  <2>1. \A h \in Groups : h \in lease' <=> h = g
    BY <1>1, <1>3, <1>4 DEF Holds
  <2>2. lease' \intersect Controllers \subseteq {c}
    BY <1>1, <1>4, <1>15 DEF Holds
  <2>3. c \in lease' /\ r.pc # "idle"
    BY <1>1, <1>2, <1>4, <1>11 DEF Holds, InSession
  <2>4. \A d \in Controllers \ {c} : session'[d] = Idle
    BY <1>4, <1>12 DEF Holds
  <2> QED
    BY <1>12, <1>14, <2>1, <2>2, <2>3, <2>4 DEF Holds, InSession
<1>17. HasChild(c)'
  <2>1. \A h \in Groups : group'[h].leader # "zombie"
    <3>1. \A h \in Groups : group[h].leader # "zombie"
      BY <1>3, <1>4, PlanAssumption DEF HasChild
    <3> QED
      BY <1>9, <1>12, <3>1
  <2> QED
    BY <1>9, <1>11, <1>12, <1>14, <1>15, <2>1 DEF HasChild
<1>18. Knows(c)'
  BY <1>3, <1>5, <1>6, <1>11, <1>12 DEF Knows, At, InSession, CompletedIn
<1>19. \A h \in Groups \ {g} : Alive(h) =>
          /\ Slot(h)' = Slot(h) /\ (Resumes(h)' <=> Resumes(h))
  BY <1>6, <1>12 DEF Slot, Resumes
<1>20. Slot(g)' = At(c) /\ (Resumes(g)' <=> journal[n].resumed)
  BY <1>5, <1>6, <1>9, <1>12 DEF Slot, Resumes, n
<1>21. ASSUME NEW h \in Groups PROVE Works(h)'
  <2>1. CASE h = g
    <3>1. group[g].event' \in 1..Len(journal)
      BY <1>5, <1>9, <1>12 DEF n
    <3> QED
      BY <1>5, <1>6, <1>9, <1>12, <1>20, <2>1, <3>1 DEF Works, n
  <2>2. CASE h # g
    <3>1. Works(h)
      BY <1>3 DEF World
    <3> QED
      BY <1>3, <1>6, <1>12, <1>14, <1>19, <2>2, <3>1 DEF Works
  <2> QED
    BY <2>1, <2>2
<1>22. OneDispatchAtWork'
  BY <1>3, <1>5, <1>14, <1>19, <1>20 DEF World, OneDispatchAtWork
<1>23. RunsAreWhole' /\ ReceiptsAreTrue' /\ EvidenceUndisputed'
  BY <1>3, <1>6 DEF World, RunsAreWhole, ReceiptsAreTrue, EvidenceUndisputed
<1>24. ReportsAreTrue'
  BY <1>3, <1>6 DEF World, ReportsAreTrue, CompletedIn
<1>25. World'
  BY <1>21, <1>22, <1>23, <1>24 DEF World
<1> QED
  BY <1>13, <1>16, <1>17, <1>18, <1>25 DEF IInv, Inv

\* The child that the session waits for.
LEMMA Waiting ==
    ASSUME NEW c \in Controllers, IInv, session[c].pc = "wait"
    PROVE  /\ Inv(c) /\ TypeOK /\ Holds(c) /\ HasChild(c) /\ Knows(c) /\ World
           /\ session[c] \in Sessions /\ session[c].history = journal
           /\ session[c].child \in Groups /\ session[c].child # c
           /\ \A g \in Groups : g # session[c].child =>
                ~Running(g) /\ group[g].leader # "zombie"
           /\ At(c) \in Slots /\ At(c) \notin CompletedIn(journal)
<1>1. Inv(c)
  BY Serving
<1>2. TypeOK /\ Holds(c) /\ HasChild(c) /\ Knows(c) /\ World
  BY <1>1 DEF Inv
<1>3. session[c] \in Sessions /\ session[c].child \in Groups \union {None}
  BY <1>2 DEF TypeOK, Sessions
<1>4. session[c].child \in Groups
  BY <1>2, <1>3 DEF HasChild
<1> QED
  BY <1>1, <1>2, <1>3, <1>4, PlanAssumption DEF HasChild, Knows, InSession

\* The session has waited for its child: it goes on, or it fails with it.
LEMMA ReapStep ==
    ASSUME NEW c \in Controllers, IInv, Reap(c)
    PROVE  IInv'
<1> DEFINE g == session[c].child
<1>1. /\ session[c].pc = "wait" /\ group[g].leader = "zombie"
      /\ group' = [group EXCEPT ![g].leader = "none"]
      /\ UNCHANGED <<disk, faults>>
  BY DEF Reap
<1>2. /\ Inv(c) /\ TypeOK /\ Holds(c) /\ HasChild(c) /\ Knows(c) /\ World
      /\ session[c] \in Sessions /\ session[c].history = journal
      /\ g \in Groups /\ g # c
      /\ \A h \in Groups : h # g => ~Running(h) /\ group[h].leader # "zombie"
      /\ At(c) \in Slots /\ At(c) \notin CompletedIn(journal)
  BY <1>1, Waiting
<1>3. \/ /\ session' = [session EXCEPT ![c].pc = "collect", ![c].child = None,
                                       ![c].launched = @ + 1]
         /\ lease' = lease
      \/ Leave(c)
  BY <1>1 DEF Reap
<1> HIDE DEF g
<1> DEFINE p == [group[g] EXCEPT !.leader = "none"]
<1>4. group' = [group EXCEPT ![g] = p] /\ group[g] \in Processes
  BY <1>1, <1>2 DEF TypeOK
<1>5. /\ p \in Processes /\ p.leader = "none" /\ p.event = group[g].event
      /\ p.fitting = group[g].fitting /\ p.bound = group[g].bound
  BY <1>4 DEF Processes
<1> HIDE DEF p
<1>6. /\ group' \in [Groups -> Processes] /\ group'[g] = p
      /\ \A h \in Groups \ {g} : group'[h] = group[h]
  BY <1>2, <1>4, <1>5 DEF TypeOK
<1>7. \A h \in Groups : ~Running(h) /\ ~Running(h)'
  BY <1>1, <1>2, <1>5, <1>6 DEF Running
<1>8. \A h \in Groups : h \notin lease
  BY <1>2, <1>7 DEF Holds
<1>9. CASE Leave(c)
  <2>1. session' = [session EXCEPT ![c] = Idle] /\ lease' = lease \ {c}
    BY <1>9 DEF Leave
  <2>2. \A h \in Groups : Running(h)' <=> h \in lease'
    BY <1>7, <1>8, <2>1
  <2>3. \A h \in Groups :
          \/ /\ group'[h] = group[h]
             /\ group[h].leader # "zombie"
          \/ /\ group'[h].leader = "none"
             /\ group'[h].fitting =>
                  group[h].fitting /\ group'[h].event = group[h].event
    BY <1>2, <1>5, <1>6
  <2>4. faults' \in Faults /\ faults'.alarms = faults.alarms
        /\ UNCHANGED disk
    BY <1>1, <1>2 DEF TypeOK
  <2> QED
    BY <1>2, <1>6, <2>1, <2>2, <2>3, <2>4, Leaves
<1>10. CASE ~Leave(c)
  <2> DEFINE r0 == [session[c] EXCEPT !.pc = "collect"]
             r1 == [r0 EXCEPT !.child = None]
             r == [r1 EXCEPT !.launched = @ + 1]
  <2>1. session' = [session EXCEPT ![c] = r] /\ lease' = lease
    BY <1>2, <1>3, <1>10 DEF TypeOK, Sessions
  <2>2. /\ r0 \in Sessions /\ r0.pc = "collect" /\ r0.history = journal
        /\ r0.at = At(c)
    BY <1>2 DEF Sessions, Pcs, At
  <2> HIDE DEF r0
  <2>3. /\ r1 \in Sessions /\ r1.pc = "collect" /\ r1.history = journal
        /\ r1.at = At(c) /\ r1.child = None
    BY <2>2 DEF Sessions
  <2> HIDE DEF r1
  <2>4. /\ r \in Sessions /\ r.pc = "collect" /\ r.history = journal
        /\ r.at = At(c) /\ r.child = None
    BY <2>3 DEF Sessions
  <2> HIDE DEF r
  <2>5. /\ session'[c] = r
        /\ \A d \in Controllers \ {c} : session'[d] = session[d]
    BY <1>2, <2>1 DEF TypeOK
  <2>6. /\ journal' = journal /\ handshake' = handshake
        /\ run' = run /\ report' = report /\ faults' = faults
    BY <1>1 DEF disk
  <2>7. TypeOK'
    <3>1. session' \in [Controllers -> Sessions]
      BY <1>2, <2>1, <2>4 DEF TypeOK
    <3> QED
      BY <1>2, <1>6, <2>1, <2>6, <3>1 DEF TypeOK
  <2>8. Holds(c)'
    BY <1>2, <1>7, <2>1, <2>4, <2>5, <1>1, <1>8 DEF Holds, InSession
  <2>9. HasChild(c)'
    BY <1>2, <1>5, <1>6, <1>7, <2>4, <2>5 DEF HasChild
  <2>10. Knows(c)'
    BY <1>2, <2>4, <2>5, <2>6 DEF Knows, At, InSession, CompletedIn
  <2>11. \A h \in Groups : Alive(h)' => Alive(h) /\ Slot(h)' = Slot(h)
    BY <1>5, <1>6, <2>6 DEF Alive, Slot
  <2>12. ASSUME NEW h \in Groups PROVE Works(h)'
    <3>1. Works(h)
      BY <1>2 DEF World
    <3>2. /\ group'[h].event = group[h].event
          /\ group'[h].fitting = group[h].fitting
          /\ group'[h].leader \notin {"engine", "worker"}
      BY <1>5, <1>6, <1>7 DEF Running
    <3> QED
      BY <1>7, <2>6, <2>11, <3>1, <3>2 DEF Works
  <2>13. OneDispatchAtWork'
    BY <1>2, <2>11 DEF World, OneDispatchAtWork
  <2>14. RunsAreWhole' /\ ReceiptsAreTrue' /\ EvidenceUndisputed'
    BY <1>2, <2>6 DEF World, RunsAreWhole, ReceiptsAreTrue, EvidenceUndisputed
  <2>15. ReportsAreTrue'
    BY <1>2, <2>6 DEF World, ReportsAreTrue, CompletedIn
  <2>16. World'
    BY <2>12, <2>13, <2>14, <2>15 DEF World
  <2> QED
    BY <2>7, <2>8, <2>9, <2>10, <2>16 DEF IInv, Inv
<1> QED
  BY <1>9, <1>10

\* The deadline kills the whole group, and the session with it.
LEMMA TimeOutStep ==
    ASSUME NEW c \in Controllers, IInv, TimeOut(c)
    PROVE  IInv'
<1> DEFINE g == session[c].child
<1>1. /\ session[c].pc = "wait" /\ Running(g)
      /\ group' = [group EXCEPT ![g] = Free]
      /\ session' = [session EXCEPT ![c] = Idle]
      /\ lease' = lease \ {c, g}
      /\ faults' = [faults EXCEPT !.deaths = @ + 1]
      /\ UNCHANGED disk
  BY DEF TimeOut
<1>2. /\ Inv(c) /\ TypeOK /\ Holds(c)
      /\ g \in Groups /\ g # c
      /\ \A h \in Groups : h # g => ~Running(h) /\ group[h].leader # "zombie"
  BY <1>1, Waiting
<1> HIDE DEF g
<1>3. Free \in Processes /\ Free.leader = "none" /\ Free.fitting = FALSE
  BY DEF Free, Processes
<1>4. /\ group' \in [Groups -> Processes] /\ group'[g] = Free
      /\ \A h \in Groups \ {g} : group'[h] = group[h]
  BY <1>1, <1>2, <1>3 DEF TypeOK
<1>5. \A h \in Groups : ~Running(h)'
  BY <1>2, <1>3, <1>4 DEF Running
<1>6. \A h \in Groups : h \notin lease'
  BY <1>1, <1>2 DEF Holds
<1>7. faults' \in Faults /\ faults'.alarms = faults.alarms
  BY <1>1, <1>2 DEF TypeOK, Faults
<1>8. \A h \in Groups :
        \/ /\ group'[h] = group[h]
           /\ group[h].leader # "zombie"
        \/ /\ group'[h].leader = "none"
           /\ group'[h].fitting =>
                group[h].fitting /\ group'[h].event = group[h].event
  BY <1>2, <1>3, <1>4
<1>9. lease' \subseteq lease \ {c}
  BY <1>1
<1> QED
  BY <1>1, <1>2, <1>4, <1>5, <1>6, <1>7, <1>8, <1>9, Leaves

LEMMA CollectStep ==
    ASSUME NEW c \in Controllers, IInv, Collect(c)
    PROVE  IInv'
<1>1. session[c].pc = "collect" /\ UNCHANGED <<disk, group, faults>>
  BY DEF Collect
<1>2. /\ Inv(c) /\ TypeOK /\ Knows(c) /\ World /\ session[c] \in Sessions
      /\ session[c].child = None
      /\ session[c].history = journal /\ lease = lease \union {c}
      /\ faults \in Faults /\ At(c) \in Slots /\ run[At(c)] \in Runs
  BY <1>1, Known
<1>3. At(c) \notin CompletedIn(journal)
  BY <1>1, <1>2 DEF Knows
<1>4. faults' \in Faults /\ faults'.alarms = faults.alarms
  BY <1>1, <1>2
<1>5. CASE Leave(c)
  BY <1>1, <1>2, <1>5, Refuses DEF Refuse
<1>6. CASE /\ Exported(At(c))
           /\ session' = [session EXCEPT ![c].pc = "complete",
                                         ![c].reference = run[At(c)].export]
           /\ lease' = lease
  <2> DEFINE q == [session[c] EXCEPT !.pc = "complete"]
             r == [q EXCEPT !.reference = run[At(c)].export]
  <2>1. session' = [session EXCEPT ![c] = r]
    BY <1>2, <1>6 DEF TypeOK
  <2>2. /\ q \in Sessions /\ q.pc = "complete" /\ q.child = None
        /\ q.history = journal /\ q.at = At(c)
    BY <1>2 DEF Sessions, Pcs, At
  <2> HIDE DEF q
  <2>3. /\ r \in Sessions /\ r.pc = "complete" /\ r.child = None
        /\ r.history = journal /\ r.at = At(c)
        /\ r.reference = run[At(c)].export
    BY <1>2, <2>2 DEF Sessions, Runs
  <2>4. run[At(c)].export # 0 /\ lease' = lease \union {c}
    BY <1>2, <1>6 DEF Exported
  <2> HIDE DEF r
  <2> QED
    BY <1>1, <1>2, <1>3, <1>4, <2>1, <2>3, <2>4, Moves
<1>7. CASE Goto(c, "report") /\ lease' = lease
  <2> DEFINE r == [session[c] EXCEPT !.pc = "report"]
  <2>1. session' = [session EXCEPT ![c] = r]
    BY <1>2, <1>7 DEF TypeOK, Goto
  <2>2. /\ r \in Sessions /\ r.pc = "report" /\ r.child = None
        /\ r.history = journal
    BY <1>2 DEF Sessions, Pcs
  <2>3. lease' = lease \union {c}
    BY <1>2, <1>7
  <2> HIDE DEF r
  <2> QED
    BY <1>1, <1>2, <1>4, <2>1, <2>2, <2>3, Moves
<1> QED
  BY <1>5, <1>6, <1>7 DEF Collect

\* A case's report names what its slots exported.
LEMMA Documents ==
    ASSUME NEW k \in Cases, TypeOK, ReceiptsAreTrue,
           SlotsOf(k) \subseteq CompletedIn(journal)
    PROVE  Document(journal, k) = [s \in SlotsOf(k) |-> run[s].export]
<1>1. journal \in Seq(Events) /\ DOMAIN journal = 1..Len(journal)
  BY DEF TypeOK
<1> DEFINE Of(s) == {j \in DOMAIN journal :
                        journal[j].kind = "complete" /\ journal[j].slot = s}
           first(s) == CHOOSE j \in DOMAIN journal :
                        journal[j].kind = "complete" /\ journal[j].slot = s
<1>2. ASSUME NEW s \in SlotsOf(k)
      PROVE  journal[first(s)].export = run[s].export
  <2>1. \E j \in DOMAIN journal :
            journal[j].kind = "complete" /\ journal[j].slot = s
    BY <1>2 DEF CompletedIn
  <2>2. /\ first(s) \in DOMAIN journal
        /\ journal[first(s)].kind = "complete" /\ journal[first(s)].slot = s
    BY <2>1
  <2> HIDE DEF first
  <2> QED
    BY <1>1, <2>2 DEF ReceiptsAreTrue
<1>3. SlotsOf(k) \intersect CompletedIn(journal) = SlotsOf(k)
  OBVIOUS
<1>4. Document(journal, k) = [s \in SlotsOf(k) |-> journal[first(s)].export]
  BY <1>3 DEF Document
<1> HIDE DEF first
<1> QED
  BY <1>2, <1>4

\* A report that stands already is the one that would be written now.
LEMMA PublishReportStep ==
    ASSUME NEW c \in Controllers, IInv, PublishReport(c)
    PROVE  IInv'
<1>1. session[c].pc = "report"
  BY DEF PublishReport
<1>2. /\ Inv(c) /\ TypeOK /\ World /\ session[c].history = journal
  BY <1>1, Known
<1>3. PICK k \in Cases :
        /\ SlotsOf(k) \subseteq CompletedIn(journal)
        /\ report[k] # Document(journal, k)
        /\ IF report[k] = None
           THEN /\ report' = [report EXCEPT ![k] = Document(journal, k)]
                /\ UNCHANGED <<journal, handshake, run, lease, session, group,
                               faults>>
           ELSE RefuseEvidence(c, "report")
  BY <1>2 DEF PublishReport, AllComplete
<1> DEFINE document == [s \in SlotsOf(k) |-> run[s].export]
<1>4. Document(journal, k) = document
  BY <1>2, <1>3, Documents DEF World
<1>5. report[k] = None
  BY <1>2, <1>3, <1>4 DEF World, ReportsAreTrue
<1> HIDE DEF document
<1>6. /\ report' = [report EXCEPT ![k] = document]
      /\ journal' = journal /\ handshake' = handshake /\ run' = run
      /\ lease' = lease /\ session' = session /\ group' = group
      /\ faults' = faults
  BY <1>3, <1>4, <1>5
<1>7. /\ DOMAIN report' = Cases /\ report'[k] = document
      /\ \A j \in Cases \ {k} : report'[j] = report[j]
      /\ report' = [j \in Cases |-> report'[j]]
  BY <1>2, <1>6 DEF TypeOK
<1>8. TypeOK'
  BY <1>2, <1>6, <1>7 DEF TypeOK
<1>9. ReportsAreTrue'
  <2> SUFFICES ASSUME NEW j \in Cases, report'[j] # None
               PROVE  /\ SlotsOf(j) \subseteq CompletedIn(journal)
                      /\ report'[j] = [s \in SlotsOf(j) |-> run[s].export]
    BY <1>6 DEF ReportsAreTrue, CompletedIn
  <2>1. CASE j = k
    BY <1>3, <1>7, <2>1 DEF document
  <2>2. CASE j # k
    BY <1>2, <1>7, <2>2 DEF World, ReportsAreTrue
  <2> QED
    BY <2>1, <2>2
<1>10. Holds(c)' /\ HasChild(c)'
  BY <1>2, <1>6 DEF Inv, Holds, HasChild, InSession, Running
<1>11. Knows(c)'
  BY <1>1, <1>2, <1>6 DEF Inv, Knows, InSession
<1>12. \A g \in Groups : Works(g)'
  BY <1>2, <1>6 DEF World, Works, Alive, Running, Slot, Resumes
<1>13. OneDispatchAtWork' /\ RunsAreWhole' /\ ReceiptsAreTrue'
       /\ EvidenceUndisputed'
  BY <1>2, <1>6 DEF World, OneDispatchAtWork, RunsAreWhole, ReceiptsAreTrue,
                    EvidenceUndisputed, Alive, Slot
<1>14. World'
  BY <1>9, <1>12, <1>13 DEF World
<1> QED
  BY <1>8, <1>10, <1>11, <1>14 DEF IInv, Inv

LEMMA FinishStep ==
    ASSUME NEW c \in Controllers, IInv, Finish(c)
    PROVE  IInv'
<1>1. session[c].pc = "report" /\ Refuse(c)
  BY DEF Finish
<1> QED
  BY <1>1, Known, Refuses

\* A killed session leaves its child alone; a zombie is nobody's any more.
LEMMA CrashStep ==
    ASSUME NEW c \in Controllers, IInv, Crash(c)
    PROVE  IInv'
<1> DEFINE g == session[c].child
<1>1. /\ session[c].pc # "idle"
      /\ session' = [session EXCEPT ![c] = Idle]
      /\ lease' = lease \ {c}
      /\ faults' = [faults EXCEPT !.crashes = @ + 1]
      /\ UNCHANGED disk
      /\ group' = IF g # None /\ group[g].leader = "zombie"
                  THEN [group EXCEPT ![g].leader = "none"]
                  ELSE group
  BY DEF Crash, Leave
<1>2. Inv(c)
  BY <1>1, Serving
<1>3. TypeOK /\ Holds(c) /\ HasChild(c)
  BY <1>2 DEF Inv
<1>4. g \in Groups \union {None}
  BY <1>3 DEF TypeOK, Sessions
<1>5. \A h \in Groups : group[h].leader = "zombie" => h = g
  BY <1>3 DEF HasChild
<1>6. faults' \in Faults /\ faults'.alarms = faults.alarms
  <2>1. faults' = [faults EXCEPT !.crashes = @ + 1] /\ faults \in Faults
    BY <1>1, <1>3 DEF TypeOK
  <2> QED
    BY <2>1 DEF Faults
<1> HIDE DEF g
<1>7. /\ group' \in [Groups -> Processes]
      /\ \A h \in Groups :
           \/ /\ group'[h] = group[h]
              /\ group[h].leader # "zombie"
           \/ /\ group[h].leader = "zombie"
              /\ group'[h].leader = "none"
              /\ group'[h].fitting =>
                   group[h].fitting /\ group'[h].event = group[h].event
  <2>1. CASE g # None /\ group[g].leader = "zombie"
    <3> DEFINE p == [group[g] EXCEPT !.leader = "none"]
    <3>1. group[g] \in Processes /\ g \in Groups
      BY <1>3, <1>4, <2>1 DEF TypeOK
    <3>2. group' = [group EXCEPT ![g] = p]
      BY <1>1, <1>3, <2>1, <3>1 DEF TypeOK
    <3>3. /\ p \in Processes /\ p.leader = "none"
          /\ p.fitting = group[g].fitting /\ p.event = group[g].event
      BY <3>1 DEF Processes
    <3> HIDE DEF p
    <3> QED
      BY <1>3, <1>5, <2>1, <3>1, <3>2, <3>3 DEF TypeOK
  <2>2. CASE ~(g # None /\ group[g].leader = "zombie")
    <3>1. group' = group
      BY <1>1, <2>2
    <3>2. \A h \in Groups : group[h].leader # "zombie"
      BY <1>5, <2>2, PlanAssumption
    <3> QED
      BY <1>3, <3>1, <3>2 DEF TypeOK
  <2> QED
    BY <2>1, <2>2
<1>8. \A h \in Groups : (Running(h)' <=> Running(h)) /\ h # c
  BY <1>7, PlanAssumption DEF Running
<1>9. \A h \in Groups : Running(h)' <=> h \in lease'
  BY <1>1, <1>3, <1>8 DEF Holds
<1> QED
  BY <1>1, <1>2, <1>6, <1>7, <1>9, Leaves

----------------------------------------------------------------------------
(***************************************************************************)
(* Steps of the dispatched process                                         *)
(***************************************************************************)
\* What is known of a process that runs: it is the only one, and its session
\* waits for it or is gone.
LEMMA AtWork ==
    ASSUME NEW c \in Controllers, NEW g \in Groups, Inv(c), Running(g)
    PROVE  /\ TypeOK /\ Holds(c) /\ HasChild(c) /\ Knows(c) /\ World
           /\ g # c /\ g # None /\ group[g] \in Processes
           /\ Alive(g) /\ Works(g)
           /\ \A h \in Groups \ {g} : ~Running(h)
           /\ session[c].pc \in {"idle", "wait"}
           /\ session[c].pc = "wait" <=> session[c].child = g
           /\ \A d \in Controllers \ {c} : session[d] = Idle
           /\ group[g].event \in 1..Len(journal) /\ Slot(g) \in Slots
           /\ run[Slot(g)] \in Runs
           /\ \A h \in Groups \ {g} : Alive(h) => Slot(h) # Slot(g)
<1>1. TypeOK /\ Holds(c) /\ HasChild(c) /\ Knows(c) /\ World
  BY DEF Inv
<1>2. g # c /\ g # None /\ group[g] \in Processes
  BY <1>1, PlanAssumption DEF TypeOK
<1>3. Alive(g)
  BY DEF Alive, Running
<1>4. Works(g)
  BY <1>1 DEF World
<1>5. \A h \in Groups \ {g} : ~Running(h)
  BY <1>1 DEF Holds
<1>6. /\ session[c].pc \in {"idle", "wait"}
      /\ session[c].pc = "wait" => session[c].child = g
      /\ session[c].child = g => session[c].pc = "wait"
  BY <1>1, <1>2 DEF HasChild, InSession
<1>7. \A d \in Controllers \ {c} : session[d] = Idle
  BY <1>1 DEF Holds
<1>8. group[g].event \in 1..Len(journal)
      /\ journal[group[g].event].kind = "dispatch"
  BY <1>3, <1>4 DEF Works
<1>9. journal[group[g].event] \in Events
  BY <1>1, <1>8 DEF TypeOK
<1>10. Slot(g) \in Slots
  BY <1>9 DEF Events, Slot
<1>11. \A h \in Groups \ {g} : Alive(h) => Slot(h) # Slot(g)
  BY <1>1, <1>3 DEF World, OneDispatchAtWork
<1>12. run[Slot(g)] \in Runs
  BY <1>1, <1>10 DEF TypeOK
<1> QED
  BY <1>1, <1>2, <1>3, <1>4, <1>5, <1>6, <1>7, <1>8, <1>10, <1>11, <1>12

\* The engine writes to the run of its slot, which has no export yet: no
\* receipt and no report speaks of it, and no other process works on it.
LEMMA RunChanges ==
    ASSUME NEW c \in Controllers, NEW g \in Groups, NEW r \in Runs,
           NEW p \in Processes, Inv(c),
           group[g].leader = "engine",
           run' = [run EXCEPT ![Slot(g)] = r],
           group' = [group EXCEPT ![g] = p],
           UNCHANGED <<journal, handshake, report, lease, session, faults>>,
           run[Slot(g)].export = 0,
           r.directories = 1,
           r.export # 0 => r.stage = "ready" /\ r.done = Budget,
           p.leader = "engine", p.event = group[g].event,
           p.bound \/ Resumes(g), p.fitting = FALSE
    PROVE  IInv'
<1>1. Running(g)
  BY DEF Running
<1>2. /\ TypeOK /\ Holds(c) /\ HasChild(c) /\ Knows(c) /\ World
      /\ g # c /\ g # None /\ group[g] \in Processes
      /\ Alive(g) /\ Works(g)
      /\ \A h \in Groups \ {g} : ~Running(h)
      /\ session[c].pc \in {"idle", "wait"}
      /\ session[c].pc = "wait" <=> session[c].child = g
      /\ group[g].event \in 1..Len(journal) /\ Slot(g) \in Slots
      /\ \A h \in Groups \ {g} : Alive(h) => Slot(h) # Slot(g)
  BY <1>1, AtWork
<1>3. /\ group'[g] = p /\ run'[Slot(g)] = r
      /\ \A h \in Groups \ {g} : group'[h] = group[h]
      /\ \A s \in Slots \ {Slot(g)} : run'[s] = run[s]
  BY <1>2 DEF TypeOK
<1>4. TypeOK'
  <2>1. run' \in [Slots -> Runs] /\ group' \in [Groups -> Processes]
    BY <1>2 DEF TypeOK
  <2> QED
    BY <1>2, <2>1 DEF TypeOK
<1>5. \A h \in Groups : /\ Running(h)' <=> Running(h)
                        /\ Alive(h)' <=> Alive(h)
                        /\ Slot(h)' = Slot(h)
                        /\ Resumes(h)' <=> Resumes(h)
                        /\ group'[h].leader = group[h].leader
  BY <1>1, <1>2, <1>3 DEF Running, Alive, Slot, Resumes
<1>6. Holds(c)'
  BY <1>2, <1>5 DEF Holds, InSession
<1>7. HasChild(c)'
  <2>1. session[c].pc = "wait" => group'[session[c].child].leader # "none"
    BY <1>1, <1>2, <1>5 DEF Running
  <2> QED
    BY <1>2, <1>5, <2>1 DEF HasChild, InSession
<1>8. Knows(c)'
  BY <1>2 DEF Knows, InSession, At, CompletedIn
<1>9. ASSUME NEW h \in Groups PROVE Works(h)'
  <2>1. CASE h = g
    BY <1>2, <1>3, <1>5, <2>1 DEF Works
  <2>2. CASE h # g
    <3>1. Works(h)
      BY <1>2 DEF World
    <3>2. ASSUME Alive(h) PROVE run'[Slot(h)] = run[Slot(h)]
      <4>1. Slot(h) # Slot(g)
        BY <1>2, <2>2, <3>2
      <4>2. group[h].event \in 1..Len(journal)
            /\ journal[group[h].event].kind = "dispatch"
        BY <3>1, <3>2 DEF Works
      <4>3. journal[group[h].event] \in Events
        BY <1>2, <4>2 DEF TypeOK
      <4>4. Slot(h) \in Slots
        BY <4>2, <4>3 DEF Events, Slot
      <4> QED
        BY <1>3, <4>1, <4>4
    <3> QED
      BY <1>3, <1>5, <2>2, <3>1, <3>2 DEF Works
  <2> QED
    BY <2>1, <2>2
<1>10. OneDispatchAtWork' /\ EvidenceUndisputed'
  BY <1>2, <1>5 DEF World, OneDispatchAtWork, EvidenceUndisputed
<1>11. RunsAreWhole'
  BY <1>2, <1>3 DEF World, RunsAreWhole, Runs
<1>12. ReceiptsAreTrue'
  <2> SUFFICES ASSUME NEW i \in 1..Len(journal),
                      journal[i].kind = "complete"
               PROVE  /\ journal[i].export = run'[journal[i].slot].export
                      /\ journal[i].export # 0
    BY DEF ReceiptsAreTrue
  <2>1. /\ journal[i].export = run[journal[i].slot].export
        /\ journal[i].export # 0
    BY <1>2 DEF World, ReceiptsAreTrue
  <2>2. journal[i] \in Events
    BY <1>2 DEF TypeOK
  <2>3. journal[i].slot \in Slots
    BY <2>2 DEF Events
  <2> QED
    BY <1>3, <2>1, <2>3
<1>13. Slot(g) \notin CompletedIn(journal)
  <2> SUFFICES ASSUME NEW i \in DOMAIN journal,
                      journal[i].kind = "complete", journal[i].slot = Slot(g)
               PROVE  FALSE
    BY DEF CompletedIn
  <2>1. i \in 1..Len(journal)
    BY <1>2 DEF TypeOK
  <2> QED
    BY <1>2, <2>1 DEF World, ReceiptsAreTrue
<1>14. ReportsAreTrue'
  <2> SUFFICES ASSUME NEW k \in Cases, report[k] # None
               PROVE  /\ SlotsOf(k) \subseteq CompletedIn(journal)
                      /\ report[k] = [s \in SlotsOf(k) |-> run'[s].export]
    BY DEF ReportsAreTrue, CompletedIn
  <2>1. /\ SlotsOf(k) \subseteq CompletedIn(journal)
        /\ report[k] = [s \in SlotsOf(k) |-> run[s].export]
    BY <1>2 DEF World, ReportsAreTrue
  <2>2. \A s \in SlotsOf(k) : run'[s] = run[s]
    BY <1>3, <1>13, <2>1 DEF SlotsOf
  <2> QED
    BY <2>1, <2>2
<1>15. World'
  BY <1>9, <1>10, <1>11, <1>12, <1>14 DEF World
<1> QED
  BY <1>4, <1>6, <1>7, <1>8, <1>15 DEF IInv, Inv

LEMMA CreateRunStep ==
    ASSUME NEW g \in Groups, IInv, CreateRun(g)
    PROVE  IInv'
<1>1. PICK c \in Controllers : Inv(c)
  BY DEF IInv
<1>2. group[g].leader = "engine" /\ Running(g)
  BY DEF CreateRun, Running
<1>3. /\ TypeOK /\ World /\ Works(g) /\ Alive(g)
      /\ group[g] \in Processes /\ Slot(g) \in Slots /\ run[Slot(g)] \in Runs
  BY <1>1, <1>2, AtWork
<1> DEFINE p == [group[g] EXCEPT !.bound = TRUE]
           r0 == [run[Slot(g)] EXCEPT !.directories = @ + 1]
           r == [r0 EXCEPT !.stage = "bare"]
<1>4. /\ run' = [run EXCEPT ![Slot(g)] = r]
      /\ group' = [group EXCEPT ![g] = p]
      /\ UNCHANGED <<journal, handshake, report, lease, session, faults>>
  BY <1>3 DEF CreateRun, OnRun, TypeOK, Runs
<1>5. /\ run[Slot(g)].directories = 0 /\ group[g].fitting = FALSE
      /\ run[Slot(g)].export = 0
  <2>1. run[Slot(g)].directories = 0
    BY <1>2, <1>3 DEF CreateRun, Works
  <2>2. run[Slot(g)].stage = "none"
    BY <1>3, <2>1 DEF World, RunsAreWhole
  <2> QED
    BY <1>2, <1>3, <2>1, <2>2 DEF World, RunsAreWhole, Works, Processes
<1>6. /\ p \in Processes /\ p.leader = "engine" /\ p.event = group[g].event
      /\ p.bound /\ p.fitting = FALSE
  BY <1>2, <1>3, <1>5 DEF Processes
<1>7. r0 \in Runs /\ r0.directories = 1 /\ r0.export = 0
  BY <1>3, <1>5 DEF Runs
<1> HIDE DEF r0, p
<1>8. r \in Runs /\ r.directories = 1 /\ r.export = 0
  BY <1>7 DEF Runs
<1> HIDE DEF r
<1> QED
  BY <1>1, <1>2, <1>4, <1>5, <1>6, <1>8, RunChanges

LEMMA CreateCheckpointStep ==
    ASSUME NEW g \in Groups, IInv,
           CreateCheckpoint(g) \/ CreateStore(g)
    PROVE  IInv'
<1>1. PICK c \in Controllers : Inv(c)
  BY DEF IInv
<1>2. /\ group[g].leader = "engine" /\ Running(g) /\ group[g].bound
      /\ run[Slot(g)].stage \in {"bare", "storeless"}
  BY DEF CreateCheckpoint, CreateStore, OnRun, Running
<1>3. /\ TypeOK /\ World /\ Works(g) /\ Alive(g)
      /\ group[g] \in Processes /\ Slot(g) \in Slots /\ run[Slot(g)] \in Runs
  BY <1>1, <1>2, AtWork
<1>4. PICK stage \in {"storeless", "ready"} :
        run' = [run EXCEPT ![Slot(g)] = [run[Slot(g)] EXCEPT !.stage = stage]]
  BY DEF CreateCheckpoint, CreateStore, OnRun
<1> DEFINE r == [run[Slot(g)] EXCEPT !.stage = stage]
<1>5. /\ run' = [run EXCEPT ![Slot(g)] = r]
      /\ group' = [group EXCEPT ![g] = group[g]]
      /\ UNCHANGED <<journal, handshake, report, lease, session, faults>>
  BY <1>3, <1>4 DEF CreateCheckpoint, CreateStore, OnRun, TypeOK
<1>6. /\ run[Slot(g)].directories = 1 /\ group[g].fitting = FALSE
      /\ run[Slot(g)].export = 0
  BY <1>2, <1>3 DEF World, RunsAreWhole, Works, Processes
<1>7. r \in Runs /\ r.directories = 1 /\ r.export = 0
  BY <1>3, <1>6 DEF Runs
<1> HIDE DEF r
<1> QED
  BY <1>1, <1>2, <1>3, <1>5, <1>6, <1>7, RunChanges

LEMMA CommitFitStep ==
    ASSUME NEW g \in Groups, IInv, CommitFit(g)
    PROVE  IInv'
<1>1. PICK c \in Controllers : Inv(c)
  BY DEF IInv
<1>2. group[g].leader = "engine" /\ Running(g) /\ group[g].fitting
  BY DEF CommitFit, OnRun, Running
<1>3. /\ TypeOK /\ World /\ Works(g) /\ Alive(g)
      /\ group[g] \in Processes /\ Slot(g) \in Slots /\ run[Slot(g)] \in Runs
  BY <1>1, <1>2, AtWork
<1>4. PICK failed \in BOOLEAN, spent \in BOOLEAN :
        OnRun(g, [run[Slot(g)] EXCEPT !.done = @ + 1,
                                      !.failed = @ \/ failed,
                                      !.spent = spent])
  BY DEF CommitFit
<1> DEFINE p == [group[g] EXCEPT !.fitting = FALSE]
           r0 == [run[Slot(g)] EXCEPT !.done = @ + 1]
           r1 == [r0 EXCEPT !.failed = @ \/ failed]
           r == [r1 EXCEPT !.spent = spent]
<1>5. /\ run' = [run EXCEPT ![Slot(g)] = r]
      /\ group' = [group EXCEPT ![g] = p]
      /\ UNCHANGED <<journal, handshake, report, lease, session, faults>>
  BY <1>3, <1>4 DEF CommitFit, OnRun, TypeOK, Runs
<1>6. /\ run[Slot(g)].stage = "ready" /\ run[Slot(g)].done < Budget
      /\ run[Slot(g)].directories = 1 /\ run[Slot(g)].export = 0
      /\ group[g].bound \/ Resumes(g)
  <2>1. run[Slot(g)].stage = "ready" /\ run[Slot(g)].done < Budget
    BY <1>2, <1>3 DEF Works
  <2>2. run[Slot(g)].directories = 1
    BY <1>3, <2>1 DEF World, RunsAreWhole
  <2>3. run[Slot(g)].export = 0
    BY <1>3, <2>1, PlanAssumption DEF World, RunsAreWhole, Runs
  <2>4. group[g].bound \/ Resumes(g)
    BY <1>2, <1>3, <2>2 DEF Works
  <2> QED
    BY <2>1, <2>2, <2>3, <2>4
<1>7. /\ p \in Processes /\ p.leader = "engine" /\ p.event = group[g].event
      /\ p.bound = group[g].bound /\ p.fitting = FALSE
  BY <1>2, <1>3 DEF Processes
<1>8. r0 \in Runs /\ r0.directories = 1 /\ r0.export = 0
  BY <1>3, <1>6 DEF Runs
<1> HIDE DEF r0, p
<1>9. r1 \in Runs /\ r1.directories = 1 /\ r1.export = 0
  BY <1>8 DEF Runs
<1> HIDE DEF r1
<1>10. r \in Runs /\ r.directories = 1 /\ r.export = 0
  BY <1>9 DEF Runs
<1> HIDE DEF r
<1>11. p.bound \/ Resumes(g)
  BY <1>6, <1>7
<1> QED
  BY <1>1, <1>2, <1>5, <1>6, <1>7, <1>10, <1>11, RunChanges

LEMMA ExportStep ==
    ASSUME NEW g \in Groups, IInv, Export(g)
    PROVE  IInv'
<1>1. PICK c \in Controllers : Inv(c)
  BY DEF IInv
<1>2. /\ group[g].leader = "engine" /\ Running(g) /\ ~group[g].fitting
      /\ run[Slot(g)].stage = "ready" /\ run[Slot(g)].done = Budget
      /\ run[Slot(g)].export = 0 /\ (group[g].bound \/ Resumes(g))
  BY DEF Export, Open, Running
<1>3. /\ TypeOK /\ World /\ Works(g) /\ Alive(g)
      /\ group[g] \in Processes /\ Slot(g) \in Slots /\ run[Slot(g)] \in Runs
  BY <1>1, <1>2, AtWork
<1> DEFINE r == [run[Slot(g)] EXCEPT !.export = group[g].event]
<1>4. /\ run' = [run EXCEPT ![Slot(g)] = r]
      /\ group' = [group EXCEPT ![g] = group[g]]
      /\ UNCHANGED <<journal, handshake, report, lease, session, faults>>
  BY <1>3 DEF Export, OnRun, TypeOK
<1>5. run[Slot(g)].directories = 1 /\ group[g].fitting = FALSE
  BY <1>2, <1>3 DEF World, RunsAreWhole, Processes
<1>6. /\ r \in Runs /\ r.directories = 1 /\ r.stage = "ready"
      /\ r.done = Budget
  BY <1>2, <1>3, <1>5 DEF Runs, Processes
<1> HIDE DEF r
<1> QED
  BY <1>1, <1>2, <1>3, <1>4, <1>5, <1>6, RunChanges

\* The other processes are not concerned by what one of them does to itself.
LEMMA OthersWork ==
    ASSUME NEW g \in Groups, World,
           journal' = journal, run' = run,
           \A h \in Groups \ {g} : group'[h] = group[h],
           \A h \in Groups \ {g} : Alive(h) =>
              handshake'[group[h].event] = handshake[group[h].event],
           Works(g)',
           Alive(g)' => Alive(g) /\ group'[g].event = group[g].event,
           report' = report, faults'.alarms = faults.alarms
    PROVE  World'
<1>1. \A h \in Groups \ {g} : /\ Alive(h)' <=> Alive(h)
                              /\ Running(h)' <=> Running(h)
                              /\ Slot(h)' = Slot(h)
                              /\ Resumes(h)' <=> Resumes(h)
  BY DEF Alive, Running, Slot, Resumes
<1>2. ASSUME NEW h \in Groups PROVE Works(h)'
  <2>1. CASE h = g
    BY <2>1
  <2>2. CASE h # g
    <3>1. Works(h)
      BY DEF World
    <3> QED
      BY <1>1, <2>2, <3>1 DEF Works
  <2> QED
    BY <2>1, <2>2
<1>3. Alive(g)' => Alive(g) /\ Slot(g)' = Slot(g)
  BY DEF Slot
<1>4. OneDispatchAtWork'
  BY <1>1, <1>3 DEF World, OneDispatchAtWork
<1>5. RunsAreWhole' /\ ReceiptsAreTrue' /\ EvidenceUndisputed'
  BY DEF World, RunsAreWhole, ReceiptsAreTrue, EvidenceUndisputed
<1>6. ReportsAreTrue'
  BY DEF World, ReportsAreTrue, CompletedIn
<1> QED
  BY <1>2, <1>4, <1>5, <1>6 DEF World

\* The group is published under the event that dispatched it, which no other
\* process was dispatched by.
LEMMA HandshakeStep ==
    ASSUME NEW g \in Groups, IInv, Handshake(g)
    PROVE  IInv'
<1>1. PICK c \in Controllers : Inv(c)
  BY DEF IInv
<1>2. /\ group[g].leader = "worker" /\ Running(g)
      /\ handshake' = [handshake EXCEPT ![group[g].event] = g]
      /\ group' = [group EXCEPT ![g].leader = "engine"]
      /\ journal' = journal /\ run' = run /\ report' = report
      /\ lease' = lease /\ session' = session /\ faults' = faults
  BY DEF Handshake, Running
<1>3. /\ TypeOK /\ Holds(c) /\ HasChild(c) /\ Knows(c) /\ World
      /\ group[g] \in Processes /\ Alive(g) /\ Works(g)
      /\ group[g].event \in 1..Len(journal)
      /\ \A h \in Groups \ {g} : ~Running(h)
      /\ \A h \in Groups \ {g} : Alive(h) => Slot(h) # Slot(g)
  BY <1>1, <1>2, AtWork
<1> DEFINE p == [group[g] EXCEPT !.leader = "engine"]
<1>4. group' = [group EXCEPT ![g] = p]
  BY <1>2, <1>3 DEF TypeOK
<1>5. /\ p \in Processes /\ p.leader = "engine" /\ p.event = group[g].event
      /\ p.bound = group[g].bound /\ p.fitting = FALSE
  BY <1>2, <1>3 DEF Processes, Works
<1> HIDE DEF p
<1>6. /\ group'[g] = p
      /\ \A h \in Groups \ {g} : group'[h] = group[h]
  BY <1>3, <1>4 DEF TypeOK
<1>7. group[g].event \in 1..MaxEvents
  BY <1>3, PlanAssumption DEF TypeOK
<1>8. /\ handshake' \in [1..MaxEvents -> Groups \union {None}]
      /\ handshake'[group[g].event] = g
      /\ \A i \in 1..MaxEvents :
            i # group[g].event => handshake'[i] = handshake[i]
  <2>1. handshake \in [1..MaxEvents -> Groups \union {None}]
    BY <1>3 DEF TypeOK
  <2> QED
    BY <1>2, <1>7, <2>1
<1>9. TypeOK'
  <2>1. group' \in [Groups -> Processes]
    BY <1>3, <1>4, <1>5 DEF TypeOK
  <2> QED
    BY <1>2, <1>3, <1>8, <2>1 DEF TypeOK
<1>10. \A h \in Groups : /\ Running(h)' <=> Running(h)
                         /\ group'[h].leader = "zombie" <=>
                              group[h].leader = "zombie"
                         /\ group'[h].leader = "none" <=>
                              group[h].leader = "none"
  BY <1>2, <1>5, <1>6 DEF Running
<1>11. Holds(c)'
  BY <1>2, <1>3, <1>10 DEF Holds, InSession
<1>12. HasChild(c)'
  BY <1>2, <1>3, <1>10, PlanAssumption DEF HasChild, InSession, TypeOK, Sessions
<1>13. Knows(c)'
  <2>1. session[c].pc \in {"idle", "wait"}
    BY <1>1, <1>2, AtWork
  <2> QED
    BY <1>2, <1>3, <2>1 DEF Knows, InSession, At, CompletedIn
<1>14. Works(g)'
  <2>1. Resumes(g)' <=> Resumes(g)
    BY <1>2, <1>5, <1>6 DEF Resumes
  <2>2. Slot(g)' = Slot(g)
    BY <1>2, <1>5, <1>6 DEF Slot
  <2> QED
    BY <1>2, <1>3, <1>5, <1>6, <1>8, <2>1, <2>2 DEF Works
<1>15. \A h \in Groups \ {g} : Alive(h) =>
          handshake'[group[h].event] = handshake[group[h].event]
  <2> TAKE h \in Groups \ {g}
  <2> HAVE Alive(h)
  <2>1. group[h].event \in 1..Len(journal)
    BY <1>3 DEF World, Works
  <2>2. group[h].event # group[g].event
    BY <1>3 DEF Slot
  <2>3. group[h].event \in 1..MaxEvents
    BY <1>3, <2>1, PlanAssumption DEF TypeOK
  <2> QED
    BY <1>8, <2>2, <2>3
<1>16. World'
  <2>1. Alive(g)' => Alive(g) /\ group'[g].event = group[g].event
    BY <1>3, <1>5, <1>6
  <2> QED
    BY <1>2, <1>3, <1>6, <1>14, <1>15, <2>1, OthersWork
<1> QED
  BY <1>9, <1>11, <1>12, <1>13, <1>16 DEF IInv, Inv

\* A training starts or ends without a word to anybody.
LEMMA Fits ==
    ASSUME NEW g \in Groups, NEW fitting \in BOOLEAN, IInv,
           group' = [group EXCEPT ![g].fitting = fitting],
           UNCHANGED <<disk, lease, session, faults>>,
           fitting => /\ group[g].leader = "engine"
                      /\ run[Slot(g)].stage = "ready"
                      /\ run[Slot(g)].done < Budget,
           ~fitting => group[g].fitting
    PROVE  IInv'
<1>1. PICK c \in Controllers : Inv(c)
  BY DEF IInv
<1>2. /\ TypeOK /\ Holds(c) /\ HasChild(c) /\ Knows(c) /\ World
      /\ group[g] \in Processes
  BY <1>1 DEF Inv, TypeOK
<1>3. /\ journal' = journal /\ handshake' = handshake
      /\ run' = run /\ report' = report /\ faults' = faults
      /\ lease' = lease /\ session' = session
  BY DEF disk
<1> DEFINE p == [group[g] EXCEPT !.fitting = fitting]
<1>4. group' = [group EXCEPT ![g] = p]
  BY <1>2 DEF TypeOK
<1>5. /\ p \in Processes /\ p.leader = group[g].leader
      /\ p.event = group[g].event
      /\ p.bound = group[g].bound /\ p.fitting = fitting
  BY <1>2 DEF Processes
<1> HIDE DEF p
<1>6. /\ group'[g] = p
      /\ \A h \in Groups \ {g} : group'[h] = group[h]
  BY <1>2, <1>4 DEF TypeOK
<1>7. TypeOK'
  <2>1. group' \in [Groups -> Processes]
    BY <1>2, <1>4, <1>5 DEF TypeOK
  <2> QED
    BY <1>2, <1>3, <2>1 DEF TypeOK
<1>8. \A h \in Groups : /\ Running(h)' <=> Running(h)
                        /\ group'[h].leader = group[h].leader
                        /\ Alive(h)' => Alive(h)
                        /\ Slot(h)' = Slot(h)
                        /\ Resumes(h)' <=> Resumes(h)
  BY <1>3, <1>5, <1>6 DEF Running, Alive, Slot, Resumes
<1>9. Holds(c)'
  BY <1>2, <1>3, <1>8 DEF Holds, InSession
<1>10. HasChild(c)'
  <2>1. session[c].child \in Groups \cup {None}
    BY <1>2 DEF TypeOK, Sessions
  <2>2. session[c].pc = "wait" => session[c].child \in Groups
    BY <1>2, <2>1 DEF HasChild
  <2>3. session[c].pc = "wait" => group'[session[c].child].leader # "none"
    BY <1>2, <1>8, <2>2 DEF HasChild
  <2> QED
    BY <1>2, <1>3, <1>8, <2>3 DEF HasChild, InSession
<1>11. Knows(c)'
  BY <1>2, <1>3, <1>8 DEF Knows, InSession, At, CompletedIn
<1>12. Works(g)'
  <2>1. Works(g)
    BY <1>2 DEF World
  <2>2. CASE fitting
    BY <1>3, <1>5, <1>6, <1>8, <2>1, <2>2 DEF Works
  <2>3. CASE ~fitting
    BY <1>3, <1>5, <1>6, <1>8, <2>1, <2>3 DEF Works
  <2> QED
    BY <2>2, <2>3
<1>13. World'
  <2>1. Alive(g)' => Alive(g) /\ group'[g].event = group[g].event
    BY <1>5, <1>6, <1>8
  <2> QED
    BY <1>2, <1>3, <1>6, <1>12, <2>1, OthersWork
<1> QED
  BY <1>7, <1>9, <1>10, <1>11, <1>13 DEF IInv, Inv

LEMMA FitSteps ==
    ASSUME NEW g \in Groups, IInv, StartFit(g) \/ OrphanEnds(g)
    PROVE  IInv'
<1>1. CASE StartFit(g)
  <2>1. /\ group' = [group EXCEPT ![g].fitting = TRUE]
        /\ UNCHANGED <<disk, lease, session, faults>>
        /\ group[g].leader = "engine" /\ run[Slot(g)].stage = "ready"
        /\ run[Slot(g)].done < Budget
    BY <1>1 DEF StartFit, Open
  <2> QED
    BY <2>1, Fits
<1>2. CASE OrphanEnds(g)
  <2>1. /\ group' = [group EXCEPT ![g].fitting = FALSE] /\ group[g].fitting
        /\ UNCHANGED <<disk, lease, session, faults>>
    BY <1>2 DEF OrphanEnds
  <2> QED
    BY <2>1, Fits
<1> QED
  BY <1>1, <1>2

\* A process exits: it leaves its lease, and is a zombie exactly as long as
\* somebody waits for it.
LEMMA Exits ==
    ASSUME NEW g \in Groups, NEW code \in {"ok", "failed"}, IInv,
           Exit(g, code), faults' \in Faults, faults'.alarms = faults.alarms
    PROVE  IInv'
<1>1. PICK c \in Controllers : Inv(c)
  BY DEF IInv
<1>2. /\ Running(g) /\ lease' = lease \ {g}
      /\ journal' = journal /\ handshake' = handshake
      /\ run' = run /\ report' = report /\ session' = session
  BY DEF Exit, disk
<1>3. /\ TypeOK /\ Holds(c) /\ HasChild(c) /\ Knows(c) /\ World
      /\ g # c /\ g # None /\ group[g] \in Processes /\ Alive(g) /\ Works(g)
      /\ \A h \in Groups \ {g} : ~Running(h)
      /\ session[c].pc \in {"idle", "wait"}
      /\ \A d \in Controllers \ {c} : session[d] = Idle
  BY <1>1, <1>2, AtWork
<1>4. session[c].pc = "wait" <=> session[c].child = g
  BY <1>1, <1>2, AtWork
<1>5. (\E d \in Controllers : session[d].child = g) <=> session[c].child = g
  BY <1>3, IdleTyped
<1> DEFINE leader == IF session[c].child = g THEN "zombie" ELSE "none"
           p0 == [group[g] EXCEPT !.leader = leader]
           p == [p0 EXCEPT !.code = code]
<1>6. group' = [group EXCEPT ![g] = p]
  <2>1. leader = IF \E d \in Controllers : session[d].child = g
                 THEN "zombie" ELSE "none"
    BY <1>5
  <2> HIDE DEF leader
  <2>2. group' = [group EXCEPT ![g].leader = leader, ![g].code = code]
    BY <2>1 DEF Exit
  <2> QED
    BY <1>3, <2>2 DEF TypeOK, Processes
<1>7. /\ leader \in {"zombie", "none"}
      /\ leader = "zombie" <=> session[c].child = g
  OBVIOUS
<1> HIDE DEF leader
<1>8. /\ p0 \in Processes /\ p0.leader = leader
      /\ p0.event = group[g].event
      /\ p0.fitting = group[g].fitting /\ p0.bound = group[g].bound
  BY <1>3, <1>7 DEF Processes
<1> HIDE DEF p0
<1>9. /\ p \in Processes /\ p.leader = leader /\ p.event = group[g].event
      /\ p.fitting = group[g].fitting /\ p.bound = group[g].bound
  BY <1>8 DEF Processes
<1> HIDE DEF p
<1>10. /\ group'[g] = p
       /\ \A h \in Groups \ {g} : group'[h] = group[h]
  BY <1>3, <1>6 DEF TypeOK
<1>11. TypeOK'
  <2>1. group' \in [Groups -> Processes]
    BY <1>3, <1>6, <1>9 DEF TypeOK
  <2>2. lease' \subseteq Controllers \union Groups
    BY <1>2, <1>3 DEF TypeOK
  <2> QED
    BY <1>2, <1>3, <2>1, <2>2 DEF TypeOK
<1>12. \A h \in Groups : ~Running(h)'
  BY <1>3, <1>7, <1>9, <1>10 DEF Running
<1>13. Holds(c)'
  <2>1. \A h \in Groups : h \notin lease'
    BY <1>2, <1>3 DEF Holds
  <2>2. /\ c \in lease' <=> c \in lease
        /\ lease' \intersect Controllers \subseteq {c}
    BY <1>2, <1>3 DEF Holds
  <2> QED
    BY <1>2, <1>3, <1>12, <2>1, <2>2 DEF Holds, InSession
<1>14. HasChild(c)'
  <2>1. \A h \in Groups : group'[h].leader = "zombie" => session[c].child = h
    BY <1>3, <1>7, <1>9, <1>10 DEF HasChild
  <2>2. session[c].pc = "wait" => group'[session[c].child].leader # "none"
    BY <1>4, <1>7, <1>9, <1>10
  <2> QED
    BY <1>2, <1>3, <1>12, <2>1, <2>2 DEF HasChild, InSession
<1>15. Knows(c)'
  BY <1>2, <1>3 DEF Knows, InSession, At, CompletedIn
<1>16. Works(g)'
  <2>1. Slot(g)' = Slot(g) /\ (Resumes(g)' <=> Resumes(g))
    BY <1>2, <1>9, <1>10 DEF Slot, Resumes
  <2>2. group'[g].leader \notin {"engine", "worker"}
    BY <1>7, <1>9, <1>10
  <2> QED
    BY <1>2, <1>3, <1>9, <1>10, <1>12, <2>1, <2>2 DEF Works
<1>17. World'
  <2>1. Alive(g)' => Alive(g) /\ group'[g].event = group[g].event
    BY <1>3, <1>9, <1>10
  <2> QED
    BY <1>2, <1>3, <1>10, <1>16, <2>1, OthersWork
<1> QED
  BY <1>11, <1>13, <1>14, <1>15, <1>17 DEF IInv, Inv

LEMMA ExitSteps ==
    ASSUME NEW g \in Groups, IInv,
           EngineEnds(g) \/ EngineStops(g) \/ EngineRefuses(g) \/ Dies(g)
    PROVE  IInv'
<1>1. faults \in Faults
  BY DEF IInv, Inv, TypeOK
<1>2. Exit(g, "ok") \/ Exit(g, "failed")
  BY DEF EngineEnds, EngineStops, EngineRefuses, Dies
<1>3. faults' \in Faults /\ faults'.alarms = faults.alarms
  <2>1. \/ faults' = faults
        \/ faults' = [faults EXCEPT !.pauses = @ + 1]
        \/ faults' = [faults EXCEPT !.deaths = @ + 1]
    BY DEF EngineEnds, EngineStops, EngineRefuses, Dies
  <2> QED
    BY <1>1, <2>1 DEF Faults
<1> QED
  BY <1>2, <1>3, Exits

----------------------------------------------------------------------------
(***************************************************************************)
(* The theorems                                                            *)
(***************************************************************************)
LEMMA Starts == Init => IInv
<1> SUFFICES ASSUME Init PROVE IInv
  OBVIOUS
<1>1. PICK c \in Controllers : TRUE
  BY PlanAssumption
<1>2. NoRun \in Runs /\ NoRun.directories = 0 /\ NoRun.export = 0
      /\ NoRun.stage = "none"
  BY DEF NoRun, Runs
<1>3. Free \in Processes /\ Free.leader = "none" /\ Free.fitting = FALSE
  BY DEF Free, Processes
<1>4. journal = <<>> /\ lease = {} /\ Len(journal) = 0
      /\ journal \in Seq(Events)
  BY DEF Init
<1>5. \A d \in Controllers : session[d] = Idle
  BY DEF Init
<1>6. \A g \in Groups : ~Alive(g) /\ ~Running(g) /\ group[g].leader = "none"
  BY <1>3 DEF Init, Alive, Running
<1>7. TypeOK
  <2>1. faults \in Faults /\ MaxEvents \in Nat
    BY PlanAssumption DEF Init, Faults
  <2>2. session \in [Controllers -> Sessions]
    BY IdleTyped DEF Init
  <2> QED
    BY <1>2, <1>3, <1>4, <2>1, <2>2 DEF Init, TypeOK
<1>8. Holds(c)
  BY <1>4, <1>5, <1>6, IdleTyped DEF Holds, InSession
<1>9. HasChild(c)
  BY <1>5, <1>6, IdleTyped DEF HasChild
<1>10. Knows(c)
  BY <1>5, IdleTyped DEF Knows, InSession
<1>11. World
  <2>1. (\A g \in Groups : Works(g)) /\ OneDispatchAtWork
    BY <1>6 DEF Works, OneDispatchAtWork
  <2>2. RunsAreWhole
    BY <1>2 DEF Init, RunsAreWhole
  <2>3. ReceiptsAreTrue
    BY <1>4 DEF ReceiptsAreTrue
  <2>4. ReportsAreTrue
    BY DEF Init, ReportsAreTrue
  <2>5. EvidenceUndisputed
    BY DEF Init, EvidenceUndisputed
  <2> QED
    BY <2>1, <2>2, <2>3, <2>4, <2>5 DEF World
<1> QED
  BY <1>7, <1>8, <1>9, <1>10, <1>11 DEF IInv, Inv

LEMMA Stutters ==
    ASSUME IInv, UNCHANGED vars
    PROVE  IInv'
<1>1. PICK c \in Controllers : Inv(c)
  BY DEF IInv
<1>2. /\ journal' = journal /\ handshake' = handshake /\ run' = run
      /\ report' = report /\ lease' = lease /\ session' = session
      /\ group' = group /\ faults' = faults
  BY DEF vars, disk
<1>3. TypeOK'
  BY <1>1, <1>2 DEF Inv, TypeOK
<1>4. Holds(c)' /\ HasChild(c)'
  BY <1>1, <1>2 DEF Inv, Holds, HasChild, InSession, Running
<1>5. Knows(c)'
  BY <1>1, <1>2 DEF Inv, Knows, InSession, At, Alive, Slot, CompletedIn
<1>6. World'
  BY <1>1, <1>2, WorldStands DEF Inv, disk
<1> QED
  BY <1>3, <1>4, <1>5, <1>6 DEF IInv, Inv

LEMMA Steps == IInv /\ [Next]_vars => IInv'
<1> SUFFICES ASSUME IInv, [Next]_vars PROVE IInv'
  OBVIOUS
<1>1. ASSUME NEW c \in Controllers, SessionStep(c) PROVE IInv'
  BY <1>1, AcquireStep, CheckActiveStep, AdoptRefusedStep, SkipCompletedStep,
     AdoptExportStep, BreakStep, PrepareRefusedStep, PrepareStep, ReceiptStep,
     DispatchStep, SpawnStep, ReapStep, CollectStep, PublishReportStep,
     FinishStep DEF SessionStep
<1>2. ASSUME NEW c \in Controllers, TimeOut(c) \/ Crash(c) PROVE IInv'
  BY <1>2, TimeOutStep, CrashStep
<1>3. ASSUME NEW g \in Groups, EngineStep(g) \/ Dies(g) PROVE IInv'
  BY <1>3, HandshakeStep, CreateRunStep, CreateCheckpointStep, CommitFitStep,
     ExportStep, FitSteps, ExitSteps DEF EngineStep
<1>4. CASE UNCHANGED vars
  BY <1>4, Stutters
<1> QED
  BY <1>1, <1>2, <1>3, <1>4 DEF Next

(* The inductive invariant: one session at most holds the lease, or the     *)
(* process it has dispatched does; what it knows of the journal is all of   *)
(* it, and what it found on the disk stays true until its own process       *)
(* changes it.                                                              *)
THEOREM Invariance == Spec => []IInv
BY Starts, Steps, PTL DEF Spec

(* The variables hold what run_campaign, campaign_worker and the engine may *)
(* write to them.                                                           *)
THEOREM TypeCorrectness == Spec => []TypeOK
<1>1. IInv => TypeOK
  BY DEF IInv, Inv
<1> QED
  BY <1>1, Invariance, PTL

(* However many sessions there are, and wherever they and their engines     *)
(* die, no slot has two dispatched processes at work for it.                *)
THEOREM OneDispatchAlways == Spec => []OneDispatchAtWork
<1>1. IInv => OneDispatchAtWork
  BY DEF IInv, Inv, World
<1> QED
  BY <1>1, Invariance, PTL

(* adopted, append_event, _save_completed_cases and the receipts' check     *)
(* never refuse a campaign that nobody tampered with.                       *)
THEOREM EvidenceNeverDisputed == Spec => []EvidenceUndisputed
<1>1. IInv => EvidenceUndisputed
  BY DEF IInv, Inv, World
<1> QED
  BY <1>1, Invariance, PTL

----------------------------------------------------------------------------
(* What a step writes over: only the run of the slot its engine works for,  *)
(* which has no export, and only behind the journal's last event.           *)
Rests ==
    \A s \in Slots :
         Exported(s) =>
            /\ run'[s] = run[s]
            /\ LET new == journal'[Len(journal')] IN
               Len(journal') > Len(journal) /\ new.slot = s =>
                 /\ new = Completed(s, run[s].export)
                 /\ s \notin CompletedIn(journal)

\* Most steps write neither.
LEMMA RestsUnwritten ==
    ASSUME IInv, journal' = journal, run' = run
    PROVE  Rests
<1>1. Len(journal) \in Nat
  BY DEF IInv, Inv, TypeOK
<1> QED
  BY <1>1 DEF Rests

\* An engine writes to its slot's run while that has no export.
LEMMA RestsWritten ==
    ASSUME NEW g \in Groups, NEW r, IInv, journal' = journal,
           Running(g), run' = [run EXCEPT ![Slot(g)] = r],
           run[Slot(g)].export = 0
    PROVE  Rests
<1>1. PICK c \in Controllers : Inv(c)
  BY DEF IInv
<1>2. TypeOK /\ Slot(g) \in Slots /\ Len(journal) \in Nat
  BY <1>1, AtWork DEF TypeOK
<1>3. \A s \in Slots \ {Slot(g)} : run'[s] = run[s]
  BY <1>2 DEF TypeOK
<1> QED
  BY <1>2, <1>3 DEF Rests, Exported

LEMMA RestsDispatched ==
    ASSUME NEW c \in Controllers, IInv, Dispatch(c)
    PROVE  Rests
<1>1. session[c].pc = "dispatch"
  BY DEF Dispatch
<1>2. TypeOK /\ Knows(c) /\ session[c].history = journal
  BY <1>1, Known
<1> DEFINE e == Dispatched(At(c), session[c].resumed)
<1>3. journal' = Append(journal, e) /\ run' = run
  <2>1. Len(journal) \in Nat
    BY <1>2 DEF TypeOK
  <2> QED
    BY <1>2, <2>1 DEF Dispatch, AppendEvent
<1>4. e.slot = At(c) /\ run[At(c)].export = 0
  BY <1>1, <1>2 DEF Dispatched, Knows
<1> HIDE DEF e
<1>5. journal'[Len(journal')] = e
  BY <1>2, <1>3 DEF TypeOK
<1> QED
  BY <1>3, <1>4, <1>5 DEF Rests, Exported

LEMMA RestsReceipted ==
    ASSUME NEW c \in Controllers, IInv, Receipt(c)
    PROVE  Rests
<1>1. session[c].pc = "complete"
  BY DEF Receipt
<1>2. TypeOK /\ Knows(c) /\ session[c].history = journal
  BY <1>1, Known
<1> DEFINE e == Completed(At(c), session[c].reference)
<1>3. journal' = Append(journal, e) /\ run' = run
  <2>1. Len(journal) \in Nat
    BY <1>2 DEF TypeOK
  <2> QED
    BY <1>2, <2>1 DEF Receipt, AppendEvent
<1>4. /\ e.slot = At(c) /\ e = Completed(At(c), run[At(c)].export)
      /\ At(c) \notin CompletedIn(journal)
  BY <1>1, <1>2 DEF Completed, Knows
<1> HIDE DEF e
<1>5. journal'[Len(journal')] = e
  BY <1>2, <1>3 DEF TypeOK
<1> QED
  BY <1>3, <1>4, <1>5 DEF Rests

LEMMA RestsByEngine ==
    ASSUME NEW g \in Groups, IInv, EngineStep(g) \/ Dies(g)
    PROVE  Rests
<1>1. PICK c \in Controllers : Inv(c)
  BY DEF IInv
<1>2. CASE CreateRun(g) \/ CreateCheckpoint(g) \/ CreateStore(g)
           \/ CommitFit(g) \/ Export(g)
  <2>1. PICK r : OnRun(g, r)
    BY <1>2 DEF CreateRun, CreateCheckpoint, CreateStore, CommitFit, Export
  <2>2. /\ group[g].leader = "engine" /\ Running(g) /\ journal' = journal
        /\ run' = [run EXCEPT ![Slot(g)] = r]
    BY <2>1 DEF OnRun, Running
  <2>3. /\ World /\ Works(g) /\ Alive(g) /\ Slot(g) \in Slots
        /\ run[Slot(g)] \in Runs
    BY <1>1, <2>2, AtWork
  <2>4. CASE CreateRun(g)
    <3>1. run[Slot(g)].directories = 0
      BY <2>2, <2>3, <2>4 DEF CreateRun, Works
    <3>2. run[Slot(g)].export = 0
      BY <2>3, <3>1 DEF World, RunsAreWhole
    <3> QED
      BY <2>2, <3>2, RestsWritten
  <2>5. CASE CreateCheckpoint(g) \/ CreateStore(g)
    <3>1. run[Slot(g)].export = 0
      BY <2>3, <2>5 DEF CreateCheckpoint, CreateStore, World, RunsAreWhole
    <3> QED
      BY <2>2, <3>1, RestsWritten
  <2>6. CASE CommitFit(g)
    <3>1. run[Slot(g)].done < Budget
      BY <2>2, <2>3, <2>6 DEF CommitFit, Works
    <3>2. run[Slot(g)].export = 0
      BY <2>3, <3>1, PlanAssumption DEF World, RunsAreWhole, Runs
    <3> QED
      BY <2>2, <3>2, RestsWritten
  <2>7. CASE Export(g)
    <3>1. run[Slot(g)].export = 0
      BY <2>7 DEF Export
    <3> QED
      BY <2>2, <3>1, RestsWritten
  <2> QED
    BY <1>2, <2>4, <2>5, <2>6, <2>7
<1>3. CASE Handshake(g) \/ StartFit(g) \/ OrphanEnds(g) \/ EngineEnds(g)
           \/ EngineStops(g) \/ EngineRefuses(g) \/ Dies(g)
  <2>1. journal' = journal /\ run' = run
    BY <1>3 DEF Handshake, StartFit, OrphanEnds, EngineEnds, EngineStops,
                EngineRefuses, Dies, Exit, disk
  <2> QED
    BY <2>1, RestsUnwritten
<1> QED
  BY <1>2, <1>3 DEF EngineStep

LEMMA RestsBySession ==
    ASSUME NEW c \in Controllers, IInv,
           SessionStep(c) \/ TimeOut(c) \/ Crash(c)
    PROVE  Rests
<1>1. CASE Receipt(c) \/ Dispatch(c)
  BY <1>1, RestsReceipted, RestsDispatched
<1>2. CASE Acquire(c) \/ CheckActive(c) \/ AdoptRefused(c)
           \/ SkipCompleted(c) \/ AdoptExport(c) \/ Break(c)
           \/ PrepareRefused(c) \/ Prepare(c)
  <2>1. journal' = journal /\ run' = run
    BY <1>2 DEF Acquire, CheckActive, AdoptRefused, SkipCompleted,
                AdoptExport, Break, PrepareRefused, Prepare, Refuse,
                RefuseEvidence, disk
  <2> QED
    BY <2>1, RestsUnwritten, SMTT(30)
<1>3. CASE Spawn(c) \/ Reap(c) \/ Collect(c) \/ PublishReport(c)
           \/ Finish(c) \/ TimeOut(c) \/ Crash(c)
  <2>1. journal' = journal /\ run' = run
    BY <1>3 DEF Spawn, SpawnIn, Reap, Collect, PublishReport, Finish,
                TimeOut, Crash, Refuse, RefuseEvidence, disk
  <2> QED
    BY <2>1, RestsUnwritten
<1> QED
  BY <1>1, <1>2, <1>3 DEF SessionStep

(* What a finished slot has exported is never touched again, and the        *)
(* journal's only further word on it is its receipt.                        *)
THEOREM FinishedSlotsStay == Spec => FinishedSlotsRest
<1>1. ASSUME IInv, [Next]_vars
      PROVE  [\A s \in Slots :
               Exported(s) =>
                 /\ run'[s] = run[s]
                 /\ LET new == journal'[Len(journal')] IN
                    Len(journal') > Len(journal) /\ new.slot = s =>
                      /\ new = Completed(s, run[s].export)
                      /\ s \notin CompletedIn(journal)]_vars
  <2>1. CASE Next
    BY <1>1, <2>1, RestsBySession, RestsByEngine DEF Next, Rests
  <2>2. CASE UNCHANGED vars
    BY <2>2
  <2> QED
    BY <1>1, <2>1, <2>2
<1> QED
  BY <1>1, Invariance, PTL DEF Spec, FinishedSlotsRest

=============================================================================
