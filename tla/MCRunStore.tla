----------------------------- MODULE MCRunStore -----------------------------
(***************************************************************************)
(* What is written in one process and read back in another, checked in one *)
(* run: a behaviour is one of the run store, of the evidence registry, of  *)
(* the ledgers of the oversight, of the benchmark catalog or of the cache  *)
(* of language-model data, and the variables of the others rest.           *)
(***************************************************************************)
EXTENDS RunStore, Registry, Oversight, Catalog, LmCache, TLC

CONSTANTS w1, w2, r1, r2, v1, v2

VARIABLE part   \* the part whose behaviour this is

TwoWriters == {w1, w2}
TwoReaders == {r1, r2}
TwoValues == {v1, v2}

\* Two revisions of the catalog: both frozen definitions differ, the first
\* extension does not; a second extension defines a benchmark again, which
\* makes the later revision ambiguous; and a pack gets a frozen namesake.
Holding(texts) ==
  [p \in Places |-> IF p \in DOMAIN texts THEN texts[p] ELSE Absent]
Definition(b, body) == [id |-> b, body |-> body]
PackOf(benchmarks, n) == [id |-> 1, benchmarks |-> benchmarks, evaluations |-> n]
Both(body) ==
  (Canonical :> [entries |-> (1 :> body @@ 2 :> body)])
  @@ (<<"catalog", 0, 1>> :> Definition(1, body))
  @@ (<<"catalog", 0, 2>> :> Definition(2, body))
Earlier == Holding(
  Both("a") @@ (<<"catalog", 1, 3>> :> Definition(3, "a"))
  @@ (<<"packs", 1, 1>> :> PackOf({1, 3}, 4)))
Later == Holding(
  Both("b") @@ (<<"catalog", 1, 3>> :> Definition(3, "a"))
  @@ (<<"catalog", 2, 3>> :> Definition(3, "b"))
  @@ (<<"packs", 0, 1>> :> PackOf({1}, 3)) @@ (<<"packs", 1, 1>> :> PackOf({1, 3}, 4)))
TwoRevisions == {Earlier, Later}

StoresInit ==
  /\ part \in {"store", "registry", "oversight", "catalog", "lm_cache"}
  /\ Init /\ RegistryInit /\ OversightInit /\ CatalogInit /\ LmCacheInit
  /\ part # "catalog" => aim = Earlier
  /\ part # "lm_cache" => \A a \in 1 .. Artifacts : cache[a] = NoFile

StoreStep ==
  /\ part = "store" /\ Next
  /\ UNCHANGED <<part, registryVars, oversightVars, catalogVars, lmCacheVars>>
RegistryStep ==
  /\ part = "registry" /\ RegistryNext
  /\ UNCHANGED <<part, vars, oversightVars, catalogVars, lmCacheVars>>
OversightStep ==
  /\ part = "oversight" /\ OversightNext
  /\ UNCHANGED <<part, vars, registryVars, catalogVars, lmCacheVars>>
CatalogStep ==
  /\ part = "catalog" /\ CatalogNext
  /\ UNCHANGED <<part, vars, registryVars, oversightVars, lmCacheVars>>
LmCacheStep ==
  /\ part = "lm_cache" /\ LmCacheNext
  /\ UNCHANGED <<part, vars, registryVars, oversightVars, catalogVars>>
StoresNext ==
  StoreStep \/ RegistryStep \/ OversightStep \/ CatalogStep \/ LmCacheStep

storesVars ==
  <<part, vars, registryVars, oversightVars, catalogVars, lmCacheVars>>
StoresSpec == StoresInit /\ [][StoresNext]_storesVars
=============================================================================
