-------------------------- MODULE LayoutCacheProofs --------------------------
(***************************************************************************)
(* Theorems about LayoutCache, for any packages, tags and tasks: what the  *)
(* package cache and a miss may rely on in every interleaving, and what    *)
(* the layout cache adds when reports and lookups alternate.               *)
(***************************************************************************)
EXTENDS LayoutCalls, TLAPS, FiniteSetTheorems

\* Versions only move forwards, and so does the bytecode at an address.
LEMMA BytecodeMonotone ==
  ASSUME NEW p, NEW v \in Nat, NEW w \in Nat, v <= w
  PROVE  BytecodeAt(p, v) <= BytecodeAt(p, w) /\ BytecodeAt(p, v) \in Nat
  BY DEF BytecodeAt

-----------------------------------------------------------------------------
(* Type correctness.                                                       *)

\* Among picks versions of packages, or none.
LEMMA AmongType ==
  ASSUME NEW f \in Versions, NEW S
  PROVE  Among(f, S) \in Versions
  BY DEF Among, Versions

\* The empty record of versions is one.
LEMMA NothingType == Nothing \in Versions
  BY DEF Nothing, Versions

\* The initial caches are well typed.
LEMMA InitTypeOK == Init => TypeOK
  BY NothingType DEF Init, TypeOK, Versions

\* Every step keeps the types.
LEMMA StepTypeOK == TypeOK /\ [Next]_vars => TypeOK'
<1> SUFFICES ASSUME TypeOK, [Next]_vars
             PROVE  TypeOK'
  OBVIOUS
<1> USE NothingType, TagAssumption
<1>1. ASSUME NEW p \in Package, Upgrade(p)
      PROVE  TypeOK'
  BY <1>1 DEF Upgrade, TypeOK, Versions, caches, calls
<1>2. CASE Observe
  <2>1. observed' \in Versions
    BY <1>2 DEF Observe, Newest, TypeOK, Versions
  <2>2. QED
    BY <1>2, <2>1 DEF Observe, TypeOK, caches, calls
<1>3. CASE CountStale
  <2>1. Cardinality(StaleTags) \in Nat
    BY FS_Subset, FS_CardinalityType DEF StaleTags
  <2>2. QED
    BY <1>3, <2>1 DEF CountStale, TypeOK, packages, caches, calls
<1>4. CASE Evict
  BY <1>4 DEF Evict, WithoutStale, TypeOK, packages, calls
<1>5. ASSUME NEW g \in Tag, Invalidate(g)
      PROVE  TypeOK'
  BY <1>5 DEF Invalidate, TypeOK, packages, calls
<1>6. ASSUME NEW t \in Task, NEW n \in Name, Ask(t, n)
      PROVE  TypeOK'
  BY <1>6 DEF Ask, TypeOK, packages, caches
<1>7. ASSUME NEW t \in Task, NEW p \in Package, FetchCached(t, p)
      PROVE  TypeOK'
  <2>1. got' \in [Task -> Versions]
    BY <1>7 DEF FetchCached, IsCurrent, TypeOK, Bytecode, Versions
  <2>2. QED
    BY <1>7, <2>1 DEF FetchCached, TypeOK, packages, caches
<1>8. ASSUME NEW t \in Task, NEW p \in Package, FetchFromSource(t, p)
      PROVE  TypeOK'
  <2>1. observed[p] \in Nat /\ BytecodeAt(p, chain[p]) \in Nat
    BY DEF TypeOK, Versions, BytecodeAt
  <2>2. [package |-> p, live |-> observed[p], since |-> BytecodeAt(p, chain[p])] \in Fetch
    BY <2>1 DEF Fetch
  <2>3. QED
    BY <1>8, <2>2 DEF FetchFromSource, TypeOK, packages, caches
<1>9. ASSUME NEW t \in Task, Fetched(t)
      PROVE  TypeOK'
  <2> DEFINE p == fetch[t].package
  <2>1. p \in Package /\ fetch[t].live \in Nat /\ fetch[t].since \in Nat
    BY <1>9 DEF Fetched, TypeOK, Fetch
  <2>2. BytecodeAt(p, chain[p]) \in Nat
    BY <2>1 DEF TypeOK, Versions, BytecodeAt
  <2>3. PICK v \in fetch[t].since .. BytecodeAt(p, chain[p]) :
          /\ bytecode' = [bytecode EXCEPT ![p] = [recorded |-> fetch[t].live, content |-> v]]
          /\ got' = [got EXCEPT ![t][p] = v]
    BY <1>9 DEF Fetched, LiveBeforeFetch
  <2>4. v \in Nat
    BY <2>1, <2>2, <2>3
  <2>5. [recorded |-> fetch[t].live, content |-> v] \in Bytecode
    BY <2>1, <2>4 DEF Bytecode
  <2>6. bytecode' \in [Package -> Bytecode \union {NoEntry}]
    BY <2>3, <2>5 DEF TypeOK
  <2>7. got' \in [Task -> Versions]
    BY <2>3, <2>4 DEF TypeOK, Versions
  <2>8. QED
    BY <1>9, <2>6, <2>7 DEF Fetched, TypeOK, packages
<1>10. ASSUME NEW t \in Task, FetchFails(t) \/ Return(t)
       PROVE  TypeOK'
  BY <1>10 DEF FetchFails, Return, Leave, TypeOK, packages, caches
<1>11. ASSUME NEW t \in Task, Hit(t)
       PROVE  TypeOK'
  <2>1. Canonical[tag[t]] \in Tag
    BY <1>11 DEF Hit, TypeOK
  <2>2. layouts[Canonical[tag[t]]].content \in Versions
    BY <1>11, <2>1 DEF Hit, ServesEntry, TypeOK, Layout
  <2>3. QED
    BY <1>11, <2>2 DEF Hit, Bump, TypeOK, packages, caches
<1>12. ASSUME NEW t \in Task, Miss(t)
       PROVE  TypeOK'
  <2>1. Mentions[Canonical[tag[t]]] \subseteq Package
    BY <1>12 DEF Miss, TypeOK
  <2>2. QED
    BY <1>12, <2>1 DEF Miss, Bump, TypeOK, packages, caches
<1>13. ASSUME NEW t \in Task, Collect(t)
       PROVE  TypeOK'
  <2>1. Among(observed, Dependencies(t)) \in Versions
    BY AmongType DEF TypeOK
  <2>2. QED
    BY <1>13, <2>1 DEF Collect, TypeOK, packages, caches
<1>14. ASSUME NEW t \in Task, Insert(t)
       PROVE  TypeOK'
  <2>1. [recorded |-> deps[t], content |-> got[t]] \in Layout
    BY DEF TypeOK, Layout
  <2>2. Canonical[tag[t]] \in Tag
    BY <1>14 DEF Insert, TypeOK
  <2>3. layouts' \in [Tag -> Layout \union {NoEntry}]
    BY <1>14, <2>1, <2>2 DEF Insert, TypeOK
  <2>4. QED
    BY <1>14, <2>3 DEF Insert, TypeOK, packages
<1>15. CASE UNCHANGED vars
  BY <1>15 DEF vars, TypeOK, packages, caches, calls
<1>16. QED
  BY <1>1, <1>2, <1>3, <1>4, <1>5, <1>6, <1>7, <1>8, <1>9, <1>10, <1>11, <1>12, <1>13, <1>14,
     <1>15 DEF Next, Noter, Caller, Lookup, FetchStep

\* Every variable keeps its shape.
THEOREM LayoutTypesCorrect == Spec => []TypeOK
<1>1. QED
  BY InitTypeOK, StepTypeOK, PTL DEF Spec

-----------------------------------------------------------------------------
(* The package cache, and what a miss resolves.                            *)

\* The version recorded with bytecode was live before the bytecode was read.
StoreInv ==
  /\ \A p \in Package : observed[p] <= chain[p]
  /\ \A p \in Package : bytecode[p] # NoEntry =>
       bytecode[p].content >= BytecodeAt(p, bytecode[p].recorded)
  /\ \A t \in Task : fetch[t] # NoFetch =>
       fetch[t].since >= BytecodeAt(fetch[t].package, fetch[t].live)

\* A call waits for at most one fetch, of a package it needs, whose live version
\* is no older than the call; what it has fetched is no older either.
CallInv ==
  \A t \in Task :
    /\ step[t] \notin {"canonical", "resolve"} => need[t] = {}
    /\ fetch[t] # NoFetch =>
         /\ fetch[t].package \in need[t]
         /\ floor[t][fetch[t].package] <= fetch[t].live
    /\ step[t] # "idle" => \A p \in Package : floor[t][p] <= observed[p]
    /\ step[t] \in {"resolve", "insert"} =>
         \A p \in Dependencies(t) \ need[t] : got[t][p] >= BytecodeAt(p, floor[t][p])

\* An entry the store takes for current has content at least as new as what was reported.
LEMMA CurrentIsFresh ==
  ASSUME TypeOK, StoreInv, NEW p \in Package, IsCurrent(p)
  PROVE  bytecode[p].content \in Nat /\ bytecode[p].content >= BytecodeAt(p, observed[p])
<1>1. /\ bytecode[p].recorded \in Nat /\ bytecode[p].content \in Nat
      /\ observed[p] \in Nat /\ observed[p] <= bytecode[p].recorded
  BY DEF TypeOK, Bytecode, Versions, IsCurrent
<1>2. BytecodeAt(p, observed[p]) <= BytecodeAt(p, bytecode[p].recorded)
  BY <1>1, BytecodeMonotone
<1>3. bytecode[p].content >= BytecodeAt(p, bytecode[p].recorded)
  BY DEF StoreInv, IsCurrent
<1>4. QED
  BY <1>1, <1>2, <1>3 DEF BytecodeAt

\* What a finished fetch stores and hands on is at least as new as the version recorded with it.
LEMMA FetchedAfter ==
  ASSUME TypeOK, StoreInv, NEW t \in Task, Fetched(t)
  PROVE  LET p == fetch[t].package IN
         /\ p \in Package
         /\ \E v \in Nat :
              /\ v >= BytecodeAt(p, fetch[t].live)
              /\ bytecode' = [bytecode EXCEPT ![p] = [recorded |-> fetch[t].live, content |-> v]]
              /\ got' = [got EXCEPT ![t][p] = v]
<1> DEFINE p == fetch[t].package
<1>1. p \in Package /\ fetch[t].live \in Nat /\ fetch[t].since \in Nat
  BY DEF Fetched, TypeOK, Fetch
<1>2. BytecodeAt(p, chain[p]) \in Nat /\ BytecodeAt(p, fetch[t].live) \in Nat
  BY <1>1 DEF TypeOK, Versions, BytecodeAt
<1>3. fetch[t].since >= BytecodeAt(p, fetch[t].live)
  BY DEF Fetched, StoreInv
<1>4. PICK v \in fetch[t].since .. BytecodeAt(p, chain[p]) :
        /\ bytecode' = [bytecode EXCEPT ![p] = [recorded |-> fetch[t].live, content |-> v]]
        /\ got' = [got EXCEPT ![t][p] = v]
  BY DEF Fetched, LiveBeforeFetch
<1>5. v \in Nat /\ v >= BytecodeAt(p, fetch[t].live)
  BY <1>1, <1>2, <1>3, <1>4
<1>6. QED
  BY <1>1, <1>4, <1>5

\* Every step keeps what the store's entries promise.
LEMMA StepStoreInv == TypeOK /\ StoreInv /\ [Next]_vars => StoreInv'
<1> SUFFICES ASSUME TypeOK, StoreInv, [Next]_vars
             PROVE  StoreInv'
  OBVIOUS
<1>1. ASSUME NEW p \in Package, Upgrade(p)
      PROVE  StoreInv'
  BY <1>1 DEF Upgrade, StoreInv, TypeOK, Versions, caches, calls
<1>2. CASE Observe
  BY <1>2 DEF Observe, Newest, StoreInv, TypeOK, Versions, caches, calls
<1>3. ASSUME NEW t \in Task, NEW p \in Package, FetchFromSource(t, p)
      PROVE  StoreInv'
  <2>1. observed[p] \in Nat /\ chain[p] \in Nat /\ observed[p] <= chain[p]
    BY DEF TypeOK, Versions, StoreInv
  <2>2. BytecodeAt(p, chain[p]) >= BytecodeAt(p, observed[p])
    BY <2>1, BytecodeMonotone DEF BytecodeAt
  <2>3. QED
    BY <1>3, <2>2 DEF FetchFromSource, StoreInv, TypeOK, packages, caches
<1>4. ASSUME NEW t \in Task, Fetched(t)
      PROVE  StoreInv'
  <2> DEFINE p == fetch[t].package
  <2>1. p \in Package
    BY <1>4, FetchedAfter
  <2>2. PICK v \in Nat :
          /\ v >= BytecodeAt(p, fetch[t].live)
          /\ bytecode' = [bytecode EXCEPT ![p] = [recorded |-> fetch[t].live, content |-> v]]
    BY <1>4, FetchedAfter
  <2>3. \A q \in Package : bytecode'[q] # NoEntry =>
          bytecode'[q].content >= BytecodeAt(q, bytecode'[q].recorded)
    BY <2>1, <2>2 DEF StoreInv, TypeOK
  <2>4. \A u \in Task : fetch'[u] # NoFetch => fetch'[u] = fetch[u]
    BY <1>4 DEF Fetched, TypeOK
  <2>5. QED
    BY <1>4, <2>3, <2>4 DEF Fetched, StoreInv, packages
<1>5. ASSUME NEW t \in Task, FetchFails(t)
      PROVE  StoreInv'
  BY <1>5 DEF FetchFails, StoreInv, TypeOK, packages, caches
<1>6. CASE UNCHANGED <<chain, observed, bytecode, fetch>>
  BY <1>6 DEF StoreInv
<1>7. QED
  BY <1>1, <1>2, <1>3, <1>4, <1>5, <1>6
     DEF Next, Noter, Caller, Lookup, FetchStep, CountStale, Evict, Invalidate, Ask, FetchCached,
         Hit, Miss, Collect, Insert, Return, vars, packages, caches, calls

\* A cached package that nothing reported supersedes is as new as the reports.
THEOREM StoreFresh == Spec => []BytecodeFresh
<1>1. Init => StoreInv
  BY DEF Init, StoreInv, Nothing
<1>2. TypeOK /\ StoreInv => BytecodeFresh
  BY CurrentIsFresh DEF BytecodeFresh
<1>3. QED
  BY <1>1, <1>2, StepStoreInv, LayoutTypesCorrect, PTL DEF Spec

\* Every step keeps what a resolving call has fetched fresh.
LEMMA StepCallInv == TypeOK /\ StoreInv /\ CallInv /\ [Next]_vars => CallInv'
<1> SUFFICES ASSUME TypeOK, StoreInv, CallInv, [Next]_vars
             PROVE  CallInv'
  OBVIOUS
<1>1. CASE Observe
  <2>1. \A p \in Package : observed[p] \in Nat /\ observed'[p] \in Nat /\ observed[p] <= observed'[p]
    BY <1>1 DEF Observe, Newest, TypeOK, Versions
  <2>2. \A t \in Task, p \in Package : floor[t][p] \in Nat
    BY DEF TypeOK, Versions
  <2>3. QED
    BY <1>1, <2>1, <2>2 DEF Observe, CallInv, Dependencies, calls
<1>2. CASE UNCHANGED <<observed, calls>>
  BY <1>2 DEF CallInv, Dependencies, calls
<1>3. ASSUME NEW t \in Task, NEW n \in Name, Ask(t, n)
      PROVE  CallInv'
  <2>1. fetch[t] = NoFetch
    BY <1>3 DEF Ask, CallInv
  <2>2. \A p \in Package : observed[p] \in Nat
    BY DEF TypeOK, Versions
  <2>3. QED
    BY <1>3, <2>1, <2>2 DEF Ask, CallInv, Dependencies, TypeOK, packages, caches
<1>4. ASSUME NEW t \in Task, NEW p \in Package, FetchCached(t, p)
      PROVE  CallInv'
  <2>1. bytecode[p].content \in Nat /\ bytecode[p].content >= BytecodeAt(p, observed[p])
    BY <1>4, CurrentIsFresh DEF FetchCached
  <2>2. step[t] # "idle" /\ floor[t][p] <= observed[p]
    BY <1>4 DEF FetchCached, CallInv
  <2>3. floor[t][p] \in Nat /\ observed[p] \in Nat
    BY DEF TypeOK, Versions
  <2>4. BytecodeAt(p, floor[t][p]) <= BytecodeAt(p, observed[p])
    BY <2>2, <2>3, BytecodeMonotone
  <2>5. bytecode[p].content >= BytecodeAt(p, floor[t][p])
    BY <2>1, <2>3, <2>4 DEF BytecodeAt
  <2>6. got'[t] = [got[t] EXCEPT ![p] = bytecode[p].content] /\ got[t] \in Versions
    BY <1>4 DEF FetchCached, TypeOK
  <2>7. \A q \in Package : got'[t][q] = IF q = p THEN bytecode[p].content ELSE got[t][q]
    BY <2>6 DEF Versions
  <2>8. \A u \in Task : u # t => got'[u] = got[u] /\ need'[u] = need[u]
    BY <1>4 DEF FetchCached, TypeOK
  <2>9. Dependencies(t) \subseteq Package \/ step[t] \notin {"resolve", "insert"}
    BY TagAssumption DEF Dependencies, TypeOK
  <2>10. need'[t] = need[t] \ {p} /\ UNCHANGED <<step, tag, fetch, floor, observed>>
    BY <1>4 DEF FetchCached, TypeOK, packages
  <2>11. fetch[t] = NoFetch
    BY <1>4 DEF FetchCached
  <2>12. QED
    BY <2>2, <2>5, <2>7, <2>8, <2>9, <2>10, <2>11 DEF CallInv, Dependencies
<1>5. ASSUME NEW t \in Task, NEW p \in Package, FetchFromSource(t, p)
      PROVE  CallInv'
  <2>1. floor[t][p] <= observed[p]
    BY <1>5 DEF FetchFromSource, CallInv
  <2>2. QED
    BY <1>5, <2>1 DEF FetchFromSource, CallInv, Dependencies, TypeOK, packages, caches
<1>6. ASSUME NEW t \in Task, Fetched(t)
      PROVE  CallInv'
  <2> DEFINE p == fetch[t].package
  <2>1. p \in Package /\ fetch[t].live \in Nat
    BY <1>6 DEF Fetched, TypeOK, Fetch
  <2>2. PICK v \in Nat :
          v >= BytecodeAt(p, fetch[t].live) /\ got' = [got EXCEPT ![t][p] = v]
    BY <1>6, FetchedAfter
  <2>3. floor[t][p] <= fetch[t].live /\ floor[t][p] \in Nat
    BY <1>6, <2>1 DEF Fetched, CallInv, TypeOK, Versions
  <2>4. BytecodeAt(p, floor[t][p]) <= BytecodeAt(p, fetch[t].live)
    BY <2>1, <2>3, BytecodeMonotone
  <2>5. v >= BytecodeAt(p, floor[t][p])
    BY <2>1, <2>2, <2>3, <2>4 DEF BytecodeAt
  <2>6. \A q \in Package : got'[t][q] = IF q = p THEN v ELSE got[t][q]
    BY <2>2 DEF TypeOK, Versions
  <2>7. \A u \in Task : u # t => got'[u] = got[u] /\ need'[u] = need[u] /\ fetch'[u] = fetch[u]
    BY <1>6, <2>2 DEF Fetched, TypeOK
  <2>8. Dependencies(t) \subseteq Package \/ step[t] \notin {"resolve", "insert"}
    BY TagAssumption DEF Dependencies, TypeOK
  <2>9. /\ need'[t] = need[t] \ {p} /\ fetch'[t] = NoFetch
        /\ UNCHANGED <<step, tag, floor, observed>>
    BY <1>6 DEF Fetched, TypeOK, packages
  <2>10. QED
    BY <2>5, <2>6, <2>7, <2>8, <2>9 DEF CallInv, Dependencies
<1>7. ASSUME NEW t \in Task, FetchFails(t) \/ Return(t)
      PROVE  CallInv'
  BY <1>7 DEF FetchFails, Return, Leave, CallInv, Dependencies, TypeOK, packages, caches
<1>8. ASSUME NEW t \in Task, Hit(t) \/ Miss(t) \/ Collect(t) \/ Insert(t)
      PROVE  CallInv'
  BY <1>8 DEF Hit, Miss, Collect, Insert, CallInv, Dependencies, TypeOK, packages, caches
<1>9. QED
  BY <1>1, <1>2, <1>3, <1>4, <1>5, <1>6, <1>7, <1>8
     DEF Next, Noter, Caller, Lookup, FetchStep, Upgrade, CountStale, Evict, Invalidate, vars,
         packages

\* The three parts of the invariant together, of every behaviour.
LEMMA CallInvariant == Spec => [](TypeOK /\ StoreInv /\ CallInv)
<1>1. Init => StoreInv /\ CallInv
  BY DEF Init, StoreInv, CallInv, Nothing
<1>2. QED
  BY <1>1, InitTypeOK, StepTypeOK, StepStoreInv, StepCallInv, PTL DEF Spec

\* What a miss resolves is as new as what was reported before its call.
THEOREM MissesResolveFresh == Spec => []ResolvedFresh
<1>1. CallInv => ResolvedFresh
  BY DEF CallInv, ResolvedFresh
<1>2. QED
  BY <1>1, CallInvariant, PTL

-----------------------------------------------------------------------------
(* The layout cache, when reports and lookups alternate.                   *)

\* No report overlaps a call, and an entry was resolved from packages at least
\* as new as the versions recorded with it.
LayoutInv ==
  /\ \A t \in Task : step[t] # "idle" => floor[t] = observed
  /\ \A g \in Tag : layouts[g] # NoEntry =>
       \A p \in Mentions[g] : layouts[g].content[p] >= BytecodeAt(p, layouts[g].recorded[p])
  /\ \A t \in Task : step[t] = "insert" =>
       \A p \in Dependencies(t) : got[t][p] >= BytecodeAt(p, deps[t][p])
  /\ LayoutsFresh

\* A serial step is a step.
LEMMA SerialStep == [SerialNext]_vars => [Next]_vars
  BY DEF SerialNext, Next

\* A cached layout that is served is no older than what was reported.
LEMMA HitIsFresh ==
  ASSUME TypeOK, LayoutInv, NEW t \in Task, Hit(t), NEW p \in Dependencies(t)
  PROVE  got'[t][p] >= BytecodeAt(p, floor[t][p])
<1> DEFINE g == Canonical[tag[t]]
<1>1. g \in Tag /\ p \in Mentions[g] /\ p \in Package /\ layouts[g] # NoEntry
  BY TagAssumption DEF Hit, ServesEntry, TypeOK, Dependencies
<1>2. layouts[g] \in Layout
  BY <1>1 DEF TypeOK
<1>3. /\ observed[p] \in Nat /\ layouts[g].recorded[p] \in Nat /\ layouts[g].content[p] \in Nat
  BY <1>1, <1>2 DEF TypeOK, Layout, Versions
<1>4. observed[p] <= layouts[g].recorded[p]
  BY <1>1, <1>3 DEF Hit, ServesEntry, IsStale
<1>5. BytecodeAt(p, observed[p]) <= BytecodeAt(p, layouts[g].recorded[p])
  BY <1>3, <1>4, BytecodeMonotone
<1>6. layouts[g].content[p] >= BytecodeAt(p, layouts[g].recorded[p])
  BY <1>1 DEF LayoutInv
<1>7. layouts[g].content[p] >= BytecodeAt(p, observed[p])
  BY <1>3, <1>5, <1>6 DEF BytecodeAt
<1>8. floor[t] = observed /\ got'[t] = layouts[g].content
  BY DEF Hit, LayoutInv, TypeOK
<1>9. QED
  BY <1>7, <1>8

\* Every serial step keeps what cached layouts promise.
LEMMA StepLayoutInv ==
  TypeOK /\ CallInv /\ LayoutInv /\ [SerialNext]_vars => LayoutInv'
<1> SUFFICES ASSUME TypeOK, CallInv, LayoutInv, [SerialNext]_vars
             PROVE  LayoutInv'
  OBVIOUS
<1> USE DEF Dependencies
<1>1. CASE Idle /\ Observe
  BY <1>1 DEF Idle, Observe, LayoutInv, LayoutsFresh, caches, calls
<1>2. CASE Evict
  BY <1>2 DEF Evict, WithoutStale, LayoutInv, LayoutsFresh, packages, calls, TypeOK
<1>3. ASSUME NEW g \in Tag, Invalidate(g)
      PROVE  LayoutInv'
  BY <1>3 DEF Invalidate, LayoutInv, LayoutsFresh, packages, calls, TypeOK
<1>4. CASE UNCHANGED <<observed, layouts, calls>>
  BY <1>4 DEF LayoutInv, LayoutsFresh, calls
<1>5. ASSUME NEW t \in Task, NEW n \in Name, Ask(t, n)
      PROVE  LayoutInv'
  BY <1>5 DEF Ask, LayoutInv, LayoutsFresh, TypeOK, packages, caches
<1>6. ASSUME NEW t \in Task,
             \/ \E p \in Package : FetchCached(t, p) \/ FetchFromSource(t, p)
             \/ Fetched(t)
      PROVE  LayoutInv'
  <2>1. need[t] # {}
    BY <1>6 DEF FetchCached, FetchFromSource, Fetched, CallInv
  <2>2. step[t] \notin {"insert", "done"}
    BY <2>1 DEF CallInv
  <2>3. UNCHANGED <<observed, layouts, step, tag, deps, floor>>
    BY <1>6 DEF FetchCached, FetchFromSource, Fetched, packages, caches
  <2>4. \A u \in Task : u # t => got'[u] = got[u]
    BY <1>6 DEF FetchCached, FetchFromSource, Fetched, TypeOK
  <2>5. QED
    BY <2>2, <2>3, <2>4 DEF LayoutInv, LayoutsFresh
<1>7. ASSUME NEW t \in Task, FetchFails(t) \/ Return(t)
      PROVE  LayoutInv'
  BY <1>7 DEF FetchFails, Return, Leave, LayoutInv, LayoutsFresh, TypeOK, packages, caches
<1>8. ASSUME NEW t \in Task, Hit(t)
      PROVE  LayoutInv'
  <2>1. \A p \in Dependencies(t) : got'[t][p] >= BytecodeAt(p, floor[t][p])
    BY <1>8, HitIsFresh
  <2>2. QED
    BY <1>8, <2>1 DEF Hit, LayoutInv, LayoutsFresh, TypeOK, packages, caches
<1>9. ASSUME NEW t \in Task, Miss(t)
      PROVE  LayoutInv'
  BY <1>9 DEF Miss, LayoutInv, LayoutsFresh, TypeOK, packages, caches
<1>10. ASSUME NEW t \in Task, Collect(t)
       PROVE  LayoutInv'
  <2>1. floor[t] = observed /\ need[t] = {}
    BY <1>10 DEF Collect, LayoutInv
  <2>2. \A p \in Dependencies(t) : got[t][p] >= BytecodeAt(p, observed[p])
    BY <1>10, <2>1 DEF Collect, CallInv
  <2>3. Dependencies(t) \subseteq Package
    BY <1>10, TagAssumption DEF Collect, TypeOK
  <2>4. \A p \in Dependencies(t) : deps'[t][p] = observed[p]
    BY <1>10, <2>3 DEF Collect, Among, TypeOK
  <2>5. QED
    BY <1>10, <2>2, <2>4 DEF Collect, LayoutInv, LayoutsFresh, TypeOK, packages, caches
<1>11. ASSUME NEW t \in Task, Insert(t)
       PROVE  LayoutInv'
  <2> DEFINE g == Canonical[tag[t]]
  <2>1. g \in Tag
    BY <1>11, TagAssumption DEF Insert, TypeOK
  <2>2. layouts'[g] = [recorded |-> deps[t], content |-> got[t]]
    BY <1>11, <2>1 DEF Insert, TypeOK
  <2>3. \A p \in Mentions[g] : layouts'[g].content[p] >= BytecodeAt(p, layouts'[g].recorded[p])
    BY <1>11, <2>2 DEF Insert, LayoutInv
  <2>4. \A h \in Tag : h # g => layouts'[h] = layouts[h]
    BY <1>11 DEF Insert, TypeOK
  <2>5. \A p \in Dependencies(t) : got[t][p] >= BytecodeAt(p, floor[t][p])
    BY <1>11 DEF Insert, CallInv
  <2>6. /\ step' = [step EXCEPT ![t] = "done"]
        /\ deps' = [deps EXCEPT ![t] = Nothing]
        /\ UNCHANGED <<observed, tag, got, floor>>
    BY <1>11 DEF Insert, packages
  <2>7. \A h \in Tag : layouts'[h] # NoEntry =>
          \A p \in Mentions[h] : layouts'[h].content[p] >= BytecodeAt(p, layouts'[h].recorded[p])
    BY <2>3, <2>4 DEF LayoutInv
  <2>8. QED
    BY <1>11, <2>5, <2>6, <2>7 DEF Insert, LayoutInv, LayoutsFresh, TypeOK
<1>12. ASSUME NEW t \in Task, Lookup(t)
       PROVE  LayoutInv'
  <2>1. CASE \E n \in Name : Ask(t, n)
    BY <1>5, <2>1
  <2>2. CASE FetchStep(t)
    BY <1>6, <1>7, <2>2 DEF FetchStep
  <2>3. CASE Hit(t) \/ Miss(t) \/ Collect(t)
    BY <1>8, <1>9, <1>10, <2>3
  <2>4. CASE Insert(t) \/ Return(t)
    BY <1>7, <1>11, <2>4
  <2>5. QED
    BY <1>12, <2>1, <2>2, <2>3, <2>4 DEF Lookup
<1>13. CASE UNCHANGED vars \/ CountStale \/ \E p \in Package : Upgrade(p)
  <2>1. UNCHANGED <<observed, layouts, calls>>
    BY <1>13 DEF Upgrade, CountStale, vars, packages, caches
  <2>2. QED
    BY <1>4, <2>1
<1>14. QED
  BY <1>1, <1>2, <1>3, <1>12, <1>13 DEF SerialNext, Noter, Caller

\* No lookup returns a layout older than the packages reported before it.
THEOREM LookupsFresh == SerialSpec => []LayoutsFresh
<1>1. Init => StoreInv /\ CallInv /\ LayoutInv
  BY DEF Init, StoreInv, CallInv, LayoutInv, LayoutsFresh, Nothing
<1>2. LayoutInv => LayoutsFresh
  BY DEF LayoutInv
<1>3. QED
  BY <1>1, <1>2, InitTypeOK, StepTypeOK, StepStoreInv, StepCallInv, StepLayoutInv, SerialStep, PTL
     DEF SerialSpec

-----------------------------------------------------------------------------
(* Callers of both kinds.                                                  *)

\* A call in progress overlaps no report, and between reports no cached layout
\* is older than the versions reported so far.
QuietInv ==
  /\ (\E t \in Task : step[t] # "idle") => noter = "idle"
  /\ noter = "idle" =>
       \A g \in Tag : layouts[g] # NoEntry =>
         \A p \in Mentions[g] : layouts[g].content[p] >= BytecodeAt(p, observed[p])

\* An eviction leaves only layouts as new as the versions reported so far.
LEMMA EvictionLeavesFresh ==
  ASSUME TypeOK, LayoutInv, NEW g \in Tag, ~ IsStale(g, layouts[g]), layouts[g] # NoEntry,
         NEW p \in Mentions[g]
  PROVE  layouts[g].content[p] >= BytecodeAt(p, observed[p])
<1>1. p \in Package /\ layouts[g] \in Layout
  BY TagAssumption DEF TypeOK
<1>2. /\ observed[p] \in Nat /\ layouts[g].recorded[p] \in Nat /\ layouts[g].content[p] \in Nat
  BY <1>1 DEF TypeOK, Layout, Versions
<1>3. observed[p] <= layouts[g].recorded[p]
  BY <1>2 DEF IsStale
<1>4. BytecodeAt(p, observed[p]) <= BytecodeAt(p, layouts[g].recorded[p])
  BY <1>2, <1>3, BytecodeMonotone
<1>5. layouts[g].content[p] >= BytecodeAt(p, layouts[g].recorded[p])
  BY DEF LayoutInv
<1> QED BY <1>2, <1>4, <1>5 DEF BytecodeAt

\* Every serial step keeps the cache as new as the reports.
LEMMA StepQuietInv ==
  TypeOK /\ CallInv /\ LayoutInv /\ QuietInv /\ [SerialNext]_vars => QuietInv'
<1> SUFFICES ASSUME TypeOK, CallInv, LayoutInv, QuietInv, [SerialNext]_vars
             PROVE  QuietInv'
  OBVIOUS
<1>1. CASE Idle /\ Observe
  BY <1>1 DEF Idle, Observe, QuietInv, calls
<1>2. CASE Idle /\ CountStale
  BY <1>2 DEF Idle, CountStale, QuietInv, calls
<1>3. CASE Idle /\ Evict
  <2>1. \A g \in Tag : layouts'[g] # NoEntry =>
          ~ IsStale(g, layouts[g]) /\ layouts'[g] = layouts[g]
    BY <1>3 DEF Evict, WithoutStale, StaleTags
  <2>2. \A g \in Tag : layouts'[g] # NoEntry =>
          \A p \in Mentions[g] : layouts'[g].content[p] >= BytecodeAt(p, observed[p])
    BY <2>1, EvictionLeavesFresh
  <2>3. observed' = observed /\ \A t \in Task : step'[t] = "idle"
    BY <1>3 DEF Idle, Evict, packages, calls
  <2> QED BY <2>2, <2>3 DEF QuietInv
<1>4. ASSUME NEW g \in Tag, Invalidate(g)
      PROVE  QuietInv'
  BY <1>4 DEF Invalidate, QuietInv, packages, calls, TypeOK
<1>5. ASSUME noter = "idle", NEW t \in Task, Insert(t)
      PROVE  QuietInv'
  <2>1. Canonical[tag[t]] \in Tag
    BY <1>5, TagAssumption DEF Insert, TypeOK
  <2>2. /\ layouts'[Canonical[tag[t]]].content = got[t]
        /\ \A h \in Tag : h # Canonical[tag[t]] => layouts'[h] = layouts[h]
    BY <1>5, <2>1 DEF Insert, TypeOK
  <2>3. \A p \in Dependencies(t) : got[t][p] >= BytecodeAt(p, observed[p])
    BY <1>5 DEF Insert, CallInv, LayoutInv
  <2>4. observed' = observed /\ noter' = "idle"
    BY <1>5 DEF Insert, packages
  <2> QED BY <1>5, <2>1, <2>2, <2>3, <2>4 DEF QuietInv, Dependencies
<1>6. ASSUME noter = "idle", NEW t \in Task, Lookup(t), ~ Insert(t)
      PROVE  QuietInv'
  <2>1. UNCHANGED <<observed, layouts, noter>>
    BY <1>6 DEF Lookup, FetchStep, Ask, FetchCached, FetchFromSource, Fetched, FetchFails, Hit, Miss,
      Collect, Return, packages, caches
  <2> QED BY <1>6, <2>1 DEF QuietInv
<1>7. CASE UNCHANGED vars \/ \E p \in Package : Upgrade(p)
  <2>1. UNCHANGED <<observed, layouts, noter, step>>
    BY <1>7 DEF Upgrade, vars, packages, caches, calls
  <2> QED BY <2>1 DEF QuietInv
<1> QED BY <1>1, <1>2, <1>3, <1>4, <1>5, <1>6, <1>7 DEF SerialNext, Noter, Caller

\* A step, of whichever callers, raises the reported versions with the observed ones.
LEMMA StepReported ==
  ASSUME TypeOK, TypeOK', reported = observed, [CallsNext]_<<vars, serial, reported>>
  PROVE  reported' = observed'
<1>1. CASE UNCHANGED <<vars, serial, reported>>
  BY <1>1 DEF vars, packages
<1>2. ASSUME CallsNext
      PROVE  reported' = observed'
  <2>1. \A p \in Package : observed[p] \in Nat /\ observed'[p] \in Nat
    BY DEF TypeOK, Versions
  <2>2. \A p \in Package : observed[p] <= observed'[p]
    <3>1. CASE Observe
      BY <2>1, <3>1 DEF Observe, Newest, TypeOK, Versions
    <3>2. CASE ~ Observe
      <4>1. Next
        BY <1>2 DEF CallsNext, SerialNext, Next
      <4>2. observed' = observed
        BY <4>1, <3>2 DEF Next, Noter, Caller, Lookup, FetchStep, Upgrade, CountStale, Evict, Invalidate,
          Ask, FetchCached, FetchFromSource, Fetched, FetchFails, Hit, Miss, Collect, Insert, Return,
          packages
      <4> QED BY <2>1, <4>2
    <3> QED BY <3>1, <3>2
  <2>3. observed' = [p \in Package |-> observed'[p]]
    BY DEF TypeOK, Versions
  <2>4. \A p \in Package :
          (IF observed'[p] > reported[p] THEN observed'[p] ELSE reported[p]) = observed'[p]
    BY <2>1, <2>2
  <2>5. reported' = [p \in Package |->
                       IF observed'[p] > reported[p] THEN observed'[p] ELSE reported[p]]
    BY <1>2 DEF CallsNext
  <2> QED BY <2>3, <2>4, <2>5
<1> QED BY <1>1, <1>2

\* What holds whoever calls, and what holds when the calls come from one task.
SerialInv ==
  /\ TypeOK
  /\ reported = observed
  /\ serial => StoreInv /\ CallInv /\ LayoutInv /\ QuietInv

\* The invariant of both kinds of callers.
LEMMA SerialInvariant == CallsSpec => []SerialInv
<1>1. CallsInit => SerialInv
  BY InitTypeOK DEF CallsInit, Init, SerialInv, StoreInv, CallInv, LayoutInv, LayoutsFresh, QuietInv,
     Nothing
<1>2. SerialInv /\ [CallsNext]_<<vars, serial, reported>> => SerialInv'
  <2> SUFFICES ASSUME SerialInv, [CallsNext]_<<vars, serial, reported>> PROVE SerialInv'
    OBVIOUS
  <2>1. serial' = serial /\ [Next]_vars /\ (serial => [SerialNext]_vars)
    BY SerialStep DEF CallsNext
  <2>2. TypeOK /\ TypeOK' /\ reported' = observed'
    BY <2>1, StepTypeOK, StepReported DEF SerialInv
  <2> QED BY <2>1, <2>2, StepStoreInv, StepCallInv, StepLayoutInv, StepQuietInv DEF SerialInv
<1> QED BY <1>1, <1>2, PTL DEF CallsSpec

\* Reports and lookups from one task never leave a lookup with an older layout
\* (apply_checkpoint reports its packages before it resolves a layout).
THEOREM SerialCallersFresh == CallsSpec => []SerialLookupsFresh
<1>1. SerialInv => SerialLookupsFresh
  BY DEF SerialInv, LayoutInv, SerialLookupsFresh
<1> QED BY <1>1, SerialInvariant, PTL

\* Nor a layout in the cache, whatever was reported in between: what a capture
\* takes from cached_layouts is as new as every version a report ever named.
THEOREM SerialCachesFresh == CallsSpec => []SerialCacheFresh
<1>1. SerialInv => SerialCacheFresh
  BY DEF SerialInv, QuietInv, SerialCacheFresh
<1> QED BY <1>1, SerialInvariant, PTL

=============================================================================
