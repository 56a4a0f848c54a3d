------------------------------ MODULE Plugins -------------------------------
(***************************************************************************)
(* Plugins that depend on each other (pkg/plugins), and the lock file that *)
(* pins them in the order they are taken (pkg/lock).  Names are numbers:   *)
(* the code sorts names.                                                   *)
(***************************************************************************)
EXTENDS Naturals, FiniteSets, Sequences, SequencesExt, FiniteSetsExt

CONSTANTS Things,        \* names of plugins, and of services in Dependencies
          MaxChanges     \* bound: manifests changed

ASSUME ThingsAreNumbers == Things \subseteq Nat \ {0} /\ IsFiniteSet(Things)

VARIABLES manifest,      \* the plugins that exist: name -> [version, deps]
          active,        \* plugins the project asks for, or services it lists
          lockfile,      \* nexus.lock, or NoLock
          changes        \* counter for the bound
dependencyVars == <<manifest, active, lockfile, changes>>

Versions == {1, 2}
NoLock == [hash |-> {}, entries |-> {}]
Error == <<0>>          \* no name is 0
Deps == [n \in Things |-> IF n \in DOMAIN manifest THEN manifest[n].deps ELSE {}]

-----------------------------------------------------------------------------
(* Registry.ResolveDependencies: everything the asked plugins need, which  *)
(* takes as many rounds as there are names at most, then Kahn's algorithm, *)
(* which takes the first of those that are ready.                          *)
AddDeps(s) == s \cup UNION {Deps[n] : n \in s}

AllPlugins(asked) ==
    LET found[k \in 0 .. Cardinality(Things)] ==
          IF k = 0 THEN asked ELSE AddDeps(found[k - 1])
    IN  found[Cardinality(Things)]

Ready(all, result) == {n \in all \ ToSet(result) : Deps[n] \subseteq ToSet(result)}
TakeReady(all, result) ==
    IF Ready(all, result) = {} THEN result ELSE Append(result, Min(Ready(all, result)))

Sorted(all) ==
    LET turn[k \in 0 .. Cardinality(all)] ==
          IF k = 0 THEN << >> ELSE TakeReady(all, turn[k - 1])
    IN  turn[Cardinality(all)]

(* Mutant of ResolveDependencies: what a cycle leaves over is dropped.     *)
ResolveAcyclicPart(asked) ==
    LET all == AllPlugins(asked) IN
    IF all \subseteq DOMAIN manifest THEN Sorted(all) ELSE Error

ResolveDependencies(asked) ==
    LET all == AllPlugins(asked)
        result == Sorted(all)
    IN  IF all \subseteq DOMAIN manifest /\ Len(result) = Cardinality(all)
        THEN result ELSE Error

(* The lock file: an entry per plugin, whose SHA is taken of the whole     *)
(* manifest but its description, and a hash of names, versions and SHAs;   *)
(* here a hash is what is hashed: that no two manifests give the same text *)
(* when their fields are joined, and no two texts the same sum, is assumed.*)

(* Mutant of GeneratePluginSHA: the dependencies are not part of it.       *)
GenerateVersionSHA(n) == <<n, manifest[n].version>>

GeneratePluginSHA(n) == <<n, manifest[n].version, manifest[n].deps>>

GenerateContentHash(entries) == {<<e.name, e.version, e.sha>> : e \in entries}

GenerateLockfile(asked) ==
    LET order == ResolveDependencies(asked)
        entries == {[name |-> n, version |-> manifest[n].version,
                     deps |-> manifest[n].deps, sha |-> GeneratePluginSHA(n)]
                       : n \in ToSet(order)}
    IN  [hash |-> GenerateContentHash(entries), entries |-> entries]

VerifyIntegrity(l) == l.hash = GenerateContentHash(l.entries)

IsUpToDate(asked) ==
    /\ ResolveDependencies(asked) # Error
    /\ lockfile # NoLock
    /\ lockfile.hash = GenerateLockfile(asked).hash

-----------------------------------------------------------------------------
InitDependencies ==
    /\ manifest \in [Things -> [version : {1}, deps : SUBSET Things]]
    /\ active \in (SUBSET Things) \ {{}}
    /\ lockfile = NoLock
    /\ changes = 0

(* A manifest in .nexus/plugins is written, edited or removed.             *)
DiscoverPlugins(n, version, deps) ==
    /\ changes < MaxChanges /\ changes' = changes + 1
    /\ \/ manifest' = [m \in DOMAIN manifest \cup {n} |->
                          IF m = n THEN [version |-> version, deps |-> deps]
                          ELSE manifest[m]]
       \/ manifest' = [m \in DOMAIN manifest \ {n} |-> manifest[m]]
    /\ UNCHANGED <<active, lockfile>>

SaveLockfile ==
    /\ ResolveDependencies(active) # Error
    /\ lockfile' = GenerateLockfile(active)
    /\ UNCHANGED <<manifest, active, changes>>

NextDependencies ==
    \/ \E n \in Things, v \in Versions, d \in SUBSET Things : DiscoverPlugins(n, v, d)
    \/ SaveLockfile

-----------------------------------------------------------------------------
(* What the orders are compared with: they hold the smallest set that is   *)
(* closed under the dependencies, everything after what it depends on, if  *)
(* no set of things keeps all of its members waiting.                      *)
DepsClosed(t) == \A n \in t : Deps[n] \subseteq t
Closure(s) ==
    {n \in Things : \A t \in SUBSET Things : s \subseteq t /\ DepsClosed(t) => n \in t}
Cyclic(deps, s) == \E t \in SUBSET s : t # {} /\ \A n \in t : deps[n] \cap t # {}
DepsFirst(deps, order) ==
    \A i, j \in 1..Len(order) : order[j] \in deps[order[i]] => j < i
Orders(deps, order, s) ==
    ToSet(order) = s /\ Len(order) = Cardinality(s) /\ DepsFirst(deps, order)

(* A lock file that passes for up to date has pinned the manifests as they *)
(* are now, every one of them, whatever was edited, removed or added since *)
(* it was written (manager.go:54-103, 154-169).                            *)
UpToDateIsCurrent ==
    IsUpToDate(active) =>
        /\ VerifyIntegrity(lockfile)
        /\ lockfile.entries = {[name |-> n, version |-> manifest[n].version,
                                deps |-> manifest[n].deps, sha |-> GeneratePluginSHA(n)]
                                  : n \in Closure(active)}

(* A missing plugin is an error, and so is a cycle.                        *)
PluginsInOrder ==
    LET all == Closure(active)  order == ResolveDependencies(active) IN
    IF all \subseteq DOMAIN manifest /\ ~Cyclic(Deps, all)
    THEN Orders(Deps, order, all) ELSE order = Error
=============================================================================
