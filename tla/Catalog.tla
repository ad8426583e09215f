------------------------------ MODULE Catalog ------------------------------
(***************************************************************************)
(* The benchmark catalog (catalog.py, active_catalog.py), read file by     *)
(* file while somebody moves the data directory from one revision to       *)
(* another.  canonical_ids.yaml lists the frozen definitions with their    *)
(* digests; the definitions and packs of the extensions are in no list.    *)
(*                                                                         *)
(* A digest is the body it is computed from.  A file is written in one     *)
(* piece, so it is absent, empty or whole.  Whatever else a path, a        *)
(* descriptor or a text of YAML may do is one failure to read.             *)
(***************************************************************************)
EXTENDS Naturals, FiniteSets

CONSTANTS
  Benchmarks,  \* numbered in the order of their identifiers
  Bodies,      \* what a definition may say of its benchmark
  SoundBodies, \* and what of it the model of a definition accepts
  Packs,       \* the names of packs
  Budgets,     \* and how many evaluations one may ask for
  Extensions,  \* phase4, breadth_v1, in this order
  Revisions,   \* what the data directory is meant to hold
  Absent, Empty,
  MaxAims      \* bound on how often the aim changes

\* canonical_ids.yaml lies among the frozen definitions.
Canonical == <<"catalog", 0, 0>>
Places == {Canonical}
  \cup {<<"catalog", k, b>> : k \in {0} \cup Extensions, b \in Benchmarks}
  \cup {<<"packs", k, p>> : k \in {0} \cup Extensions, p \in Packs}

CanonicalIds == [entries : UNION {[listed -> Bodies] : listed \in SUBSET Benchmarks}]
BenchmarkSpecs == [id : Benchmarks, body : Bodies]
BenchmarkPacks == [id : Packs, benchmarks : SUBSET Benchmarks, evaluations : Budgets]

\* What may be written at a place, and what of it its model accepts.
Texts(place) ==
  IF place = Canonical THEN CanonicalIds
  ELSE IF place[1] = "catalog" THEN BenchmarkSpecs ELSE BenchmarkPacks
Parses(place, text) ==
  /\ text \notin {Absent, Empty}
  /\ place[1] = "catalog" /\ place # Canonical => text.body \in SoundBodies
  /\ place[1] = "packs" =>
       /\ text.benchmarks # {} /\ text.evaluations > 0
       /\ text.evaluations % Cardinality(text.benchmarks) = 0

ASSUME CatalogAssumption ==
  /\ Benchmarks \subseteq Nat \ {0} /\ Packs \subseteq Nat \ {0}
  /\ Extensions \subseteq Nat \ {0} /\ Budgets \subseteq Nat
  /\ Revisions \subseteq [Places -> {Absent} \cup UNION {Texts(p) : p \in Places}]
  /\ \A r \in Revisions, p \in Places : r[p] = Absent \/ r[p] \in Texts(p)
  /\ \A p \in Places : Absent \notin Texts(p) /\ Empty \notin Texts(p)
  /\ Absent # Empty

VARIABLES
  data,   \* the data directory
  aim,    \* the revision it is on its way to
  aims,
  loader  \* the call that reads it

catalogVars == <<data, aim, aims, loader>>

\* root is what the call found of the extensions, todo what of a directory
\* tree is still to be read, names what of the directory that is open.
NoLoad == [call |-> "none", wanted |-> 0, step |-> "idle", stage |-> "frozen",
           root |-> [catalog |-> {}, packs |-> {}], todo |-> {}, names |-> {},
           found |-> {}, frozen |-> <<>>, further |-> <<>>, pack |-> <<>>]

CatalogInit ==
  /\ aim \in Revisions /\ data = aim /\ aims = 0
  /\ loader = NoLoad

----------------------------------------------------------------------------
(* who edits the data directory *)

AimAt(r) ==
  /\ aims < MaxAims /\ r # aim
  /\ aim' = r /\ aims' = aims + 1
  /\ UNCHANGED <<data, loader>>

\* A file is removed, created or cut to nothing, or replaced.
Edit(place) ==
  /\ data[place] # aim[place]
  /\ \E text \in {Absent, Empty, aim[place]} \ {data[place]} :
       /\ text = Empty => aim[place] # Absent
       /\ data' = [data EXCEPT ![place] = text]
  /\ UNCHANGED <<aim, aims, loader>>

----------------------------------------------------------------------------
(* reading a directory tree *)

Directory(stage) == IF stage = "packs" THEN "packs" ELSE "catalog"
Listing(kind, k) ==
  {p[3] : p \in {p \in Places : p[1] = kind /\ p[2] = k /\ data[p] # Absent}}
\* An extension has a directory of a kind while there is a file in it.
Extended(kind) == {k \in Extensions : Listing(kind, k) # {}}
Leads(x, S) == x \in S /\ \A y \in S : x <= y

Enter(stage, tree, l) ==
  [l EXCEPT !.step = "open", !.stage = stage, !.todo = tree, !.found = {}]
Refused(l) == [l EXCEPT !.step = "refused"]
Goes(l) == loader' = l /\ UNCHANGED <<data, aim, aims>>

\* get_benchmark, list_benchmarks, load_parity_pack and resolve_pack_path: which directories the
\* extensions have is decided here, once.
BeginLoad(call, wanted) ==
  /\ loader.step \in {"idle", "answered", "refused"}
  /\ wanted \in (CASE call = "get" -> Benchmarks [] call = "list" -> {0}
                   [] call \in {"pack", "path"} -> Packs)
  /\ LET begun == [NoLoad EXCEPT
           !.call = call, !.wanted = wanted,
           !.root = [catalog |-> Extended("catalog"), packs |-> Extended("packs")]]
     IN  Goes(IF call \in {"pack", "path"} THEN [begun EXCEPT !.step = "select"]
              ELSE Enter("frozen", {0}, begun))

\* The frozen pack of that name and, only where there is none, the others. Then
\* what it refers to is looked for, unless only its path was asked for.
ChoosePack(text) ==
  LET chosen == [loader EXCEPT !.pack = <<text>>]
  IN  IF loader.call = "path" THEN [chosen EXCEPT !.step = "answered"]
      ELSE Enter("frozen", {0}, chosen)
SelectPack ==
  /\ loader.step = "select"
  /\ LET place == <<"packs", 0, loader.wanted>>
         text == data[place]
     IN  Goes(IF ~(loader.root.packs \subseteq Extended("packs")) THEN Refused(loader)
              ELSE IF text = Absent THEN Enter("packs", loader.root.packs, loader)
              ELSE IF Parses(place, text) /\ text.id = loader.wanted
                THEN ChoosePack(text) ELSE Refused(loader))

\* The names are taken once; without canonical_ids.yaml there is no catalog.
ListDirectory ==
  /\ loader.step = "open"
  /\ \E k \in loader.todo :
       /\ Leads(k, loader.todo)
       /\ LET names == Listing(Directory(loader.stage), k)
          IN  Goes(IF loader.stage = "frozen" /\ 0 \notin names THEN Refused(loader)
                   ELSE [loader EXCEPT !.step = "read", !.names = names])

\* A name that is no longer there, or no longer whole, ends the call.
ReadFile ==
  /\ loader.step = "read"
  /\ \E k \in loader.todo, name \in loader.names :
       /\ Leads(k, loader.todo) /\ Leads(name, loader.names)
       /\ LET place == <<Directory(loader.stage), k, name>>
              text == data[place]
          IN  Goes(IF Parses(place, text)
                        /\ (loader.stage = "frozen" /\ name # 0 => text.id = name)
                     THEN [loader EXCEPT
                             !.names = @ \ {name},
                             !.found = @ \cup {[place |-> place, text |-> text]}]
                     ELSE Refused(loader))

CloseDirectory ==
  /\ loader.step = "read" /\ loader.names = {}
  /\ \E k \in loader.todo :
       /\ Leads(k, loader.todo)
       /\ Goes([loader EXCEPT !.step = "open", !.todo = @ \ {k}])

LoadFails ==
  /\ loader.step \in {"select", "open", "read"}
  /\ Goes(Refused(loader))

----------------------------------------------------------------------------
(* what was read *)

AllRead(stage) ==
  loader.step = "open" /\ loader.todo = {} /\ loader.stage = stage
\* One file for each of the things it names, and named after it.
Unambiguous(found) ==
  \A f \in found : /\ f.text.id = f.place[3]
                   /\ \A g \in found : g.text.id = f.text.id => g = f
Defined(found) ==
  [b \in {f.text.id : f \in found} |->
     (CHOOSE f \in found : f.text.id = b).text.body]
Merged(l) ==
  [b \in DOMAIN l.frozen \cup DOMAIN l.further |->
     IF b \in DOMAIN l.frozen THEN l.frozen[b] ELSE l.further[b]]

SettlePacks ==
  /\ AllRead("packs")
  /\ LET wanted == {f \in loader.found : f.text.id = loader.wanted}
     IN  IF Unambiguous(loader.found) /\ wanted # {}
           THEN \E f \in wanted : Goes(ChoosePack(f.text))
           ELSE Goes(Refused(loader))

\* Mutant of Registers: the identifiers are compared, the digests are not.
RegistersNames(registry, found) == DOMAIN registry.entries = DOMAIN Defined(found)
\* The registry names what is there, no more and no less, with its digests.
Registers(registry, found) == registry.entries = Defined(found)

\* The directories of the extensions are opened only now.
SettleFrozen ==
  /\ AllRead("frozen")
  /\ \E registry \in {f \in loader.found : f.place = Canonical} :
       LET others == loader.found \ {registry}
           settled == [loader EXCEPT !.frozen = Defined(others)]
       IN  Goes(IF ~Registers(registry.text, others)
                     \/ ~(loader.root.catalog \subseteq Extended("catalog"))
                  THEN Refused(loader)
                ELSE IF loader.call = "get" /\ loader.wanted \in DOMAIN settled.frozen
                  THEN [settled EXCEPT !.step = "answered"]
                ELSE Enter("further", loader.root.catalog, settled))

SettleFurther ==
  /\ AllRead("further")
  /\ LET settled == [loader EXCEPT !.further = Defined(loader.found)]
         known == DOMAIN Merged(settled)
     IN  Goes(IF /\ Unambiguous(loader.found)
                 /\ loader.call = "get" => loader.wanted \in known
                 /\ loader.call = "pack" => loader.pack[1].benchmarks \subseteq known
                THEN [settled EXCEPT !.step = "answered"]
                ELSE Refused(loader))

CatalogNext ==
  \/ \E r \in Revisions : AimAt(r)
  \/ \E place \in Places : Edit(place)
  \/ \E call \in {"get", "list", "pack", "path"},
        wanted \in {0} \cup Benchmarks \cup Packs :
       BeginLoad(call, wanted)
  \/ SelectPack \/ ListDirectory \/ ReadFile \/ CloseDirectory \/ LoadFails
  \/ SettlePacks \/ SettleFrozen \/ SettleFurther

CatalogSpec == CatalogInit /\ [][CatalogNext]_catalogVars

----------------------------------------------------------------------------

\* An answer never mixes two revisions of the frozen catalog, however long it was
\* read while files were exchanged: the definitions are those that the registry of
\* one revision names (catalog.py:650-660). A pack that is returned is a revision's
\* file of that name, its evaluations divide among its benchmarks, and each of
\* these is defined; what an extension defines, some revision defines there.
AnswersAreOneRevision ==
  loader.step = "answered" =>
    /\ loader.call # "path" => \E r \in Revisions : loader.frozen = r[Canonical].entries
    /\ \A b \in DOMAIN loader.further : \E r \in Revisions, k \in Extensions :
         r[<<"catalog", k, b>>] = [id |-> b, body |-> loader.further[b]]
    /\ loader.call = "get" => loader.wanted \in DOMAIN Merged(loader)
    /\ loader.call \in {"pack", "path"} =>
         LET pack == loader.pack[1] IN
         /\ \E r \in Revisions, k \in {0} \cup Extensions :
              r[<<"packs", k, loader.wanted>>] = pack
         /\ pack.evaluations % Cardinality(pack.benchmarks) = 0
         /\ loader.call = "pack" => pack.benchmarks \subseteq DOMAIN Merged(loader)
=============================================================================
