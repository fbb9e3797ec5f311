----------------------------- MODULE LayoutCache -----------------------------
(***************************************************************************)
(* The layout cache of crates/birdai-resolve (layout.rs), the package      *)
(* cache it resolves from (store.rs) and the package versions they share.  *)
(* Any number of tasks look layouts up while one noter reports the package *)
(* versions that checkpoints name and the chain upgrades packages.         *)
(*                                                                         *)
(* A package's bytecode is abstracted to a version, a layout to the        *)
(* version of each package it was resolved from.  The resolver and the     *)
(* object source are external: canonical_type fetches the packages a tag   *)
(* names and maps it to its defining packages, type_layout fetches every   *)
(* package the layout mentions; each fetch goes through the store and may  *)
(* wait for the source, or fail.                                           *)
(***************************************************************************)
EXTENDS Naturals, FiniteSets

CONSTANTS
  Package,      \* package addresses
  InPlace,      \* system packages: an upgrade changes the bytecode at their address
  Name,         \* struct tags as callers write them, possibly through an upgraded package
  Tag,          \* canonical struct tags
  Canonical,    \* the canonical tag of each name
  Names,        \* the packages a name mentions, type parameters included
  Mentions,     \* the packages the layout of a tag mentions
  Task,         \* concurrent callers of layout()
  NoEntry,      \* a cache has no entry for the key
  NoFetch,      \* the task waits for no fetch
  NoName,       \* the task looks nothing up
  MaxVersion,   \* bound of the model: the newest version of a package
  MaxLookups    \* bound of the model: how many lookups miss or hit

Versions == [Package -> Nat]
Bytecode == [recorded : Nat, content : Nat]
Layout   == [recorded : Versions, content : Versions]
Fetch    == [package : Package, live : Nat, since : Nat]

ASSUME TagAssumption ==
  /\ InPlace \subseteq Package
  /\ Canonical \in [Name -> Tag]
  /\ Names \in [Name -> SUBSET Package]
  /\ Mentions \in [Tag -> SUBSET Package]
  /\ IsFiniteSet(Tag)

ASSUME NothingAssumption ==
  /\ NoEntry \notin Bytecode \union Layout
  /\ NoFetch \notin Fetch
  /\ NoName \notin Name

ASSUME LookupBoundAssumption == MaxVersion \in Nat /\ MaxLookups \in Nat

VARIABLES
  chain,      \* the version each package has reached on the chain
  observed,   \* PackageVersions: the newest version a checkpoint named, else 0
  bytecode,   \* SourcePackageStore::cache
  layouts,    \* LayoutRegistry::cache
  noter,      \* where record_packages stands
  step,       \* where each task stands in layout()
  tag,        \* the name each task asked for
  need,       \* packages the running resolver call still has to fetch
  fetch,      \* the fetch a task waits for
  got,        \* bytecode versions the task has fetched, or its result
  deps,       \* the dependencies computed for an entry not yet inserted
  floor,      \* observed when the task called (read by properties only)
  counts      \* hits, misses, invalidated

packages == <<chain, observed>>
caches   == <<bytecode, layouts>>
calls    == <<step, tag, need, fetch, got, deps, floor>>
vars     == <<packages, caches, noter, calls, counts>>

Nothing == [p \in Package |-> 0]
\* The versions recorded for a set of packages, 0 for one not observed yet.
\* Mutant: a package not observed yet is left out.
ObservedAmong(f, S) == [p \in {q \in S : f[q] # 0} |-> f[p]]
Among(f, S) == [p \in Package |-> IF p \in S THEN f[p] ELSE 0]

\* What a fetch of p returns when p has reached version v: an ordinary upgrade
\* lives at a new address and leaves the bytecode of the old one alone.
BytecodeAt(p, v) == IF p \in InPlace THEN v ELSE 1

\* A recorded version has been superseded; 0 by the first one observed.
\* Mutant: 0 is taken for not known to have moved.
IsStaleIfSeen(g, entry) ==
  \E p \in Mentions[g] : entry.recorded[p] # 0 /\ observed[p] > entry.recorded[p]
IsStale(g, entry) == \E p \in Mentions[g] : observed[p] > entry.recorded[p]

Bump(f) == counts' = [counts EXCEPT ![f] = @ + 1]

Init ==
  /\ chain = [p \in Package |-> 1]
  /\ observed = Nothing
  /\ bytecode = [p \in Package |-> NoEntry]
  /\ layouts = [g \in Tag |-> NoEntry]
  /\ noter = "idle"
  /\ step = [t \in Task |-> "idle"]
  /\ tag = [t \in Task |-> NoName]
  /\ need = [t \in Task |-> {}]
  /\ fetch = [t \in Task |-> NoFetch]
  /\ got = [t \in Task |-> Nothing]
  /\ deps = [t \in Task |-> Nothing]
  /\ floor = [t \in Task |-> Nothing]
  /\ counts = [f \in {"hits", "misses", "invalidated"} |-> 0]

-----------------------------------------------------------------------------
(* The chain, and the hook that reports what checkpoints saw of it.        *)

Upgrade(p) ==
  /\ chain[p] < MaxVersion
  /\ chain' = [chain EXCEPT ![p] = @ + 1]
  /\ UNCHANGED <<observed, caches, noter, calls, counts>>

\* Versions only move forwards.
\* Mutant: the last observation wins.
LastSeen(old, new) == new
Newest(old, new) == IF new > old THEN new ELSE old

\* PackageVersions::observe, for any versions the chain has reached.
Observe ==
  /\ noter = "idle"
  /\ \E S \in (SUBSET Package) \ {{}} : \E seen \in [S -> 1 .. MaxVersion] :
       /\ \A p \in S : seen[p] <= chain[p]
       /\ observed' = [p \in Package |->
                         IF p \in S THEN Newest(observed[p], seen[p]) ELSE observed[p]]
  /\ noter' = "count"
  /\ UNCHANGED <<chain, caches, calls, counts>>

StaleTags == {g \in Tag : layouts[g] # NoEntry /\ IsStale(g, layouts[g])}

CountStale ==
  /\ noter = "count"
  /\ counts' = [counts EXCEPT !["invalidated"] = @ + Cardinality(StaleTags)]
  /\ noter' = "evict"
  /\ UNCHANGED <<packages, caches, calls>>

WithoutStale == [g \in Tag |-> IF g \in StaleTags THEN NoEntry ELSE layouts[g]]

Evict ==
  /\ noter = "evict"
  /\ layouts' = WithoutStale
  /\ noter' = "idle"
  /\ UNCHANGED <<packages, bytecode, calls, counts>>

\* LayoutRegistry::invalidate.
Invalidate(g) ==
  /\ layouts[g] # NoEntry
  /\ layouts' = [layouts EXCEPT ![g] = NoEntry]
  /\ UNCHANGED <<packages, bytecode, noter, calls, counts>>

-----------------------------------------------------------------------------
(* SourcePackageStore::fetch, called by both resolver calls.               *)

\* Cached bytecode is served while no newer version has been observed.
\* Mutant: it is served once cached.
IsCached(p) == bytecode[p] # NoEntry
IsCurrent(p) == bytecode[p] # NoEntry /\ bytecode[p].recorded >= observed[p]

FetchCached(t, p) ==
  /\ fetch[t] = NoFetch
  /\ p \in need[t]
  /\ IsCurrent(p)
  /\ need' = [need EXCEPT ![t] = @ \ {p}]
  /\ got' = [got EXCEPT ![t][p] = bytecode[p].content]
  /\ UNCHANGED <<packages, caches, noter, step, tag, fetch, deps, floor, counts>>

\* Otherwise ask the source; the live version is read before.
FetchFromSource(t, p) ==
  /\ fetch[t] = NoFetch
  /\ p \in need[t]
  /\ ~ IsCurrent(p)
  /\ fetch' = [fetch EXCEPT ![t] =
                 [package |-> p, live |-> observed[p], since |-> BytecodeAt(p, chain[p])]]
  /\ UNCHANGED <<packages, caches, noter, step, tag, need, got, deps, floor, counts>>

\* The version cached with fetched bytecode.
\* Mutant: the version live once the fetch has returned.
LiveAfterFetch(t) == observed[fetch[t].package]
LiveBeforeFetch(t) == fetch[t].live

\* The source answered with what the package was at some moment since.
Fetched(t) ==
  LET p == fetch[t].package IN
  /\ fetch[t] # NoFetch
  /\ \E v \in fetch[t].since .. BytecodeAt(p, chain[p]) :
       /\ bytecode' = [bytecode EXCEPT ![p] = [recorded |-> LiveBeforeFetch(t), content |-> v]]
       /\ got' = [got EXCEPT ![t][p] = v]
  /\ need' = [need EXCEPT ![t] = @ \ {p}]
  /\ fetch' = [fetch EXCEPT ![t] = NoFetch]
  /\ UNCHANGED <<packages, layouts, noter, step, tag, deps, floor, counts>>

\* The call is over, with or without a layout.
Leave(t) ==
  /\ step' = [step EXCEPT ![t] = "idle"]
  /\ tag' = [tag EXCEPT ![t] = NoName]
  /\ got' = [got EXCEPT ![t] = Nothing]
  /\ floor' = [floor EXCEPT ![t] = Nothing]

\* The source or the resolver failed: layout() returns the error.
FetchFails(t) ==
  /\ fetch[t] # NoFetch
  /\ fetch' = [fetch EXCEPT ![t] = NoFetch]
  /\ need' = [need EXCEPT ![t] = {}]
  /\ Leave(t)
  /\ UNCHANGED <<packages, caches, noter, deps, counts>>

-----------------------------------------------------------------------------
(* LayoutRegistry::layout.                                                 *)

\* The call resolves the canonical tag first.
Ask(t, n) ==
  /\ step[t] = "idle"
  /\ counts["hits"] + counts["misses"] < MaxLookups
  /\ step' = [step EXCEPT ![t] = "canonical"]
  /\ tag' = [tag EXCEPT ![t] = n]
  /\ need' = [need EXCEPT ![t] = Names[n]]
  /\ got' = [got EXCEPT ![t] = Nothing]
  /\ floor' = [floor EXCEPT ![t] = observed]
  /\ UNCHANGED <<packages, caches, noter, fetch, deps, counts>>

\* A reader serves an entry only while none of its packages moved.
ServesEntry(g) == layouts[g] # NoEntry /\ ~ IsStale(g, layouts[g])

Hit(t) ==
  LET g == Canonical[tag[t]] IN
  /\ step[t] = "canonical"
  /\ need[t] = {}
  /\ ServesEntry(g)
  /\ got' = [got EXCEPT ![t] = layouts[g].content]
  /\ step' = [step EXCEPT ![t] = "done"]
  /\ Bump("hits")
  /\ UNCHANGED <<packages, caches, noter, tag, need, fetch, deps, floor>>

Miss(t) ==
  LET g == Canonical[tag[t]] IN
  /\ step[t] = "canonical"
  /\ need[t] = {}
  /\ ~ ServesEntry(g)
  /\ need' = [need EXCEPT ![t] = Mentions[g]]
  /\ got' = [got EXCEPT ![t] = Nothing]
  /\ step' = [step EXCEPT ![t] = "resolve"]
  /\ Bump("misses")
  /\ UNCHANGED <<packages, caches, noter, tag, fetch, deps, floor>>

\* The packages whose versions are recorded with a layout.
Dependencies(t) == Mentions[Canonical[tag[t]]]

\* collect_dependencies: the live versions, read once the layout is resolved.
Collect(t) ==
  /\ step[t] = "resolve"
  /\ need[t] = {}
  /\ deps' = [deps EXCEPT ![t] = Among(observed, Dependencies(t))]
  /\ step' = [step EXCEPT ![t] = "insert"]
  /\ UNCHANGED <<packages, caches, noter, tag, need, fetch, got, floor, counts>>

Insert(t) ==
  /\ step[t] = "insert"
  /\ layouts' = [layouts EXCEPT ![Canonical[tag[t]]] = [recorded |-> deps[t], content |-> got[t]]]
  /\ deps' = [deps EXCEPT ![t] = Nothing]
  /\ step' = [step EXCEPT ![t] = "done"]
  /\ UNCHANGED <<packages, bytecode, noter, tag, need, fetch, got, floor, counts>>

Return(t) ==
  /\ step[t] = "done"
  /\ Leave(t)
  /\ UNCHANGED <<packages, caches, noter, need, fetch, deps, counts>>

-----------------------------------------------------------------------------
FetchStep(t) ==
  \/ \E p \in Package : FetchCached(t, p) \/ FetchFromSource(t, p)
  \/ Fetched(t)
  \/ FetchFails(t)

Lookup(t) ==
  \/ \E n \in Name : Ask(t, n)
  \/ FetchStep(t)
  \/ Hit(t) \/ Miss(t) \/ Collect(t) \/ Insert(t) \/ Return(t)

Caller == (\E t \in Task : Lookup(t)) \/ (\E g \in Tag : Invalidate(g))
Noter  == Observe \/ CountStale \/ Evict

Next == (\E p \in Package : Upgrade(p)) \/ Noter \/ Caller
Spec == Init /\ [][Next]_vars

\* bin/birdai and apply_checkpoint report packages and look layouts up in one
\* task: a report starts when no lookup runs, and no lookup starts before it ends.
Idle == \A t \in Task : step[t] = "idle"
SerialNext ==
  \/ \E p \in Package : Upgrade(p)
  \/ Idle /\ Noter
  \/ noter = "idle" /\ Caller
SerialSpec == Init /\ [][SerialNext]_vars

-----------------------------------------------------------------------------
(* Properties.                                                             *)

\* Every variable has the shape the code gives it.
TypeOK ==
  /\ chain \in Versions
  /\ observed \in Versions
  /\ bytecode \in [Package -> Bytecode \union {NoEntry}]
  /\ layouts \in [Tag -> Layout \union {NoEntry}]
  /\ noter \in {"idle", "count", "evict"}
  /\ step \in [Task -> {"idle", "canonical", "resolve", "insert", "done"}]
  /\ tag \in [Task -> Name \union {NoName}]
  /\ \A t \in Task : step[t] # "idle" => tag[t] \in Name
  /\ need \in [Task -> SUBSET Package]
  /\ fetch \in [Task -> Fetch \union {NoFetch}]
  /\ got \in [Task -> Versions]
  /\ deps \in [Task -> Versions]
  /\ floor \in [Task -> Versions]
  /\ counts \in [{"hits", "misses", "invalidated"} -> Nat]

\* A cached package that no observation supersedes is the one those
\* observations are about (store.rs:90-102), however fetches, upgrades and
\* reports interleave: two fetches finishing out of order included.
BytecodeFresh ==
  \A p \in Package :
    IsCurrent(p) => bytecode[p].content >= BytecodeAt(p, observed[p])

\* What a miss resolves is never older than the packages reported before the
\* call, whatever is reported, fetched and cached by others meanwhile.
ResolvedFresh ==
  \A t \in Task : step[t] = "insert" =>
    \A p \in Dependencies(t) : got[t][p] >= BytecodeAt(p, floor[t][p])

\* A lookup never returns a layout older than the packages reported before it
\* was called: cached layouts are dropped as soon as a package moves (layout.rs:13-14).
LayoutsFresh ==
  \A t \in Task : step[t] = "done" =>
    \A p \in Dependencies(t) : got[t][p] >= BytecodeAt(p, floor[t][p])

=============================================================================
