------------------------------ MODULE MCResearch ------------------------------
(***************************************************************************)
(* The parts of a study that do not share state with one another, checked  *)
(* in one run: a behaviour picks a part and is a behaviour of it, and the  *)
(* variables of the other parts rest.                                      *)
(***************************************************************************)
EXTENDS MCResumableSearch, Studies, Continuations, Workspace, Training,
        Genomes, Pilot, Publication, MCContenders, InvocationClock, Journal

VARIABLE part   \* the part whose behaviour this is

ThreeArms == <<"a", "b", "c">>
AllDrivers == {"baseline", "confidence", "topograph", "stratograph", "primordia",
               "cross"}
AllFamilies == {"prism", "primordia", "topograph", "stratograph"}
TwoSlots == 1 .. 2
AllPilotArms == <<"supervised_short", "supervised_long", "reconstruction", "jepa",
                  "distillation", "jepa_transfer">>
ThreeSystems == <<"prism", "topograph", "contenders">>

Parts == {"search", "studies", "continuations", "workspace",
          "training", "hierarchies", "circuits", "blocks", "graphs", "pilot",
          "publication", "contenders", "clock", "journal"}

\* States of a search: its cache in order of use, and a dictionary.
SixFields == {"completed", "tip", "search", "a", "b", "c"}
Entries(f) == Object([k \in Fields |-> IF k \in DOMAIN f THEN f[k] ELSE NoEntry])
Search(cache, niches) ==
  Entries([a |-> List([i \in DOMAIN cache |->
                         Pair(cache[i][1], Num(cache[i][2]))]),
           b |-> Entries(niches)])
SixBodies ==
  {Search(<<>>, <<>>),
   Search(<<<<"a", 1>>>>, [a |-> Num(1)]),
   Search(<<<<"a", 1>>, <<"b", 1>>>>, [a |-> Num(1), b |-> List(<<>>)]),
   Search(<<<<"b", 1>>, <<"a", 1>>>>, [b |-> Num(1)]),
   Search(<<<<"b", 2>>, <<"c", 1>>>>, [a |-> List(<<Num(1)>>), b |-> Num(2)]),
   Search(<<<<"c", 1>>>>, [b |-> List(<<Num(1), Num(2)>>)])}

----------------------------------------------------------------------------
(* Where the behaviour is that of another part, the variables of a part    *)
(* with large tables are empty, and one of its initial states otherwise.   *)

AnyOf(S) == CHOOSE x \in S : TRUE

SearchRests ==
  /\ live = Nil /\ disk = Nil /\ twin = Nil /\ attempted = Nil
  /\ log = <<>> /\ crashes = 0
StudyRests ==
  /\ study = <<>>
  /\ slots = <<>> /\ session = Quiet /\ mishaps = <<>>
ChainRests ==
  /\ chain = [report |-> <<>>]
  /\ runs = <<>> /\ keeper = Resting /\ breaks = 0
FitRests ==
  /\ task = <<>> /\ current = <<>> /\ stored = <<>> /\ curve = NoLog
  /\ stale = 0 /\ fitting = "ready" /\ handed = <<>>
HierarchyRests == schema = 1 /\ stock = <<>> /\ misfit = FALSE /\ edits = 0
CircuitRests == course = [policy |-> "legacy", task |-> "plain"]
BlockRests == text = TRUE /\ models = <<>> /\ misdrawn = FALSE /\ rewrites = 0
GraphRests == graphs = <<>> /\ registry = <<>> /\ named = {} /\ changes = 0
PilotRests ==
  /\ jobs = <<>> /\ runner = NoRunner /\ workers = {} /\ fitted = <<>>
  /\ edited = FALSE /\ pilotHarm = 0
PublicationRests == payload = "file"
JournalRests ==
  /\ journal = <<>> /\ transaction = <<>> /\ held = <<>> /\ ahead = <<>>
  /\ reached = <<>> /\ intended = <<>>
ContendersRest == direction = AnyOf(Directions) /\ ~enhanced

ResearchInit ==
  /\ part \in Parts
  /\ IF part = "search" THEN SearchInit ELSE SearchRests
  /\ IF part = "studies" THEN StudyInit ELSE StudyRests
  /\ IF part = "continuations" THEN ChainInit ELSE ChainRests
  /\ WorkspaceInit
  /\ IF part = "training" THEN FitInit ELSE FitRests
  /\ IF part = "hierarchies" THEN HierarchyInit ELSE HierarchyRests
  /\ CircuitInit /\ (part # "circuits" => CircuitRests)
  /\ IF part = "blocks" THEN BlockInit ELSE BlockRests
  /\ IF part = "graphs" THEN GraphInit ELSE GraphRests
  /\ IF part = "pilot" THEN PilotInit ELSE PilotRests
  /\ PublicationInit /\ (part # "publication" => PublicationRests)
  /\ ContendersInit /\ (part # "contenders" => ContendersRest)
  /\ Init
  /\ IF part = "journal" THEN JournalInit ELSE JournalRests

evidenceVars == <<studyVars, chainVars, workspaceVars>>
genomeVars == <<hierarchyVars, circuitVars, blockVars, graphVars>>
costVars == <<pilotVars, publicationVars, poolVars, vars, journalVars>>

SearchStep ==
  /\ part = "search" /\ SearchNext
  /\ UNCHANGED <<part, evidenceVars, fitVars, genomeVars, costVars>>
StudiesStep ==
  /\ part = "studies" /\ StudyNext
  /\ UNCHANGED <<part, searchVars, chainVars, workspaceVars,
                 fitVars, genomeVars, costVars>>
ContinuationsStep ==
  /\ part = "continuations" /\ ChainNext
  /\ UNCHANGED <<part, searchVars, studyVars, workspaceVars,
                 fitVars, genomeVars, costVars>>
WorkspaceStep ==
  /\ part = "workspace" /\ WorkspaceNext
  /\ UNCHANGED <<part, searchVars, studyVars, chainVars,
                 fitVars, genomeVars, costVars>>
TrainingStep ==
  /\ part = "training" /\ FitNext
  /\ UNCHANGED <<part, searchVars, evidenceVars, genomeVars, costVars>>
HierarchiesStep ==
  /\ part = "hierarchies" /\ HierarchyNext
  /\ UNCHANGED <<part, searchVars, evidenceVars, fitVars, circuitVars,
                 blockVars, graphVars, costVars>>
CircuitsStep ==
  /\ part = "circuits" /\ CircuitNext
  /\ UNCHANGED <<part, searchVars, evidenceVars, fitVars, hierarchyVars,
                 blockVars, graphVars, costVars>>
BlocksStep ==
  /\ part = "blocks" /\ BlockNext
  /\ UNCHANGED <<part, searchVars, evidenceVars, fitVars, hierarchyVars,
                 circuitVars, graphVars, costVars>>
\* The bound of Propose, looked at before the edits are worked out.
GraphsStep ==
  /\ part = "graphs" /\ changes < MaxChanges /\ GraphNext
  /\ UNCHANGED <<part, searchVars, evidenceVars, fitVars, hierarchyVars,
                 circuitVars, blockVars, costVars>>
PilotStep ==
  /\ part = "pilot" /\ PilotNext
  /\ UNCHANGED <<part, searchVars, evidenceVars, fitVars, genomeVars,
                 publicationVars, poolVars, vars, journalVars>>
PublicationStep ==
  /\ part = "publication" /\ PublicationNext
  /\ UNCHANGED <<part, searchVars, evidenceVars, fitVars, genomeVars,
                 pilotVars, poolVars, vars, journalVars>>
ContendersStep ==
  /\ part = "contenders" /\ ContendersNext
  /\ UNCHANGED <<part, searchVars, evidenceVars, fitVars, genomeVars,
                 pilotVars, publicationVars, vars, journalVars>>
ClockStep ==
  /\ part = "clock" /\ Next
  /\ UNCHANGED <<part, searchVars, evidenceVars, fitVars, genomeVars,
                 pilotVars, publicationVars, poolVars, journalVars>>
JournalStep ==
  /\ part = "journal" /\ JournalNext
  /\ UNCHANGED <<part, searchVars, evidenceVars, fitVars, genomeVars,
                 pilotVars, publicationVars, poolVars, vars>>
ResearchNext ==
  \/ SearchStep
  \/ StudiesStep
  \/ ContinuationsStep
  \/ WorkspaceStep
  \/ TrainingStep
  \/ HierarchiesStep
  \/ CircuitsStep
  \/ BlocksStep
  \/ GraphsStep
  \/ PilotStep
  \/ PublicationStep
  \/ ContendersStep
  \/ ClockStep
  \/ JournalStep

researchVars == <<part, searchVars, evidenceVars, fitVars, genomeVars, costVars>>
ResearchSpec == ResearchInit /\ [][ResearchNext]_researchVars
=============================================================================
