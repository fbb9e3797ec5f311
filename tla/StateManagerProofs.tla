------------------------- MODULE StateManagerProofs -------------------------
(***************************************************************************)
(* Theorems about StateManager, for every set of venues, children and      *)
(* checkpoints, every capacity and any number of dying decode tasks.       *)
(***************************************************************************)
EXTENDS ManagerCalls, TLAPS, FiniteSetTheorems

-----------------------------------------------------------------------------
(* The changes of a checkpoint.                                            *)

\* What a change names, by its kind.
LEMMA ChangeFields ==
  ASSUME NEW c \in Change
  PROVE  /\ c.kind = "venue" => c.id \in Venue /\ c.version \in Nat \ {0}
         /\ c.kind = "child" => c.id \in Child
         /\ c.kind = "removed" => c.id \in Venue \union Child
  BY DEF Change

\* Any set of positions of a checkpoint is finite.
LEMMA PositionsFinite ==
  ASSUME NEW ck \in Checkpoint, NEW kind, NEW S \in SUBSET Positions(ck, kind)
  PROVE  /\ IsFiniteSet(S)
         /\ Cardinality(S) \in Nat
<1>1. Len(ck.changes) \in Nat
  BY DEF Checkpoint
<1>2. IsFiniteSet(1 .. Len(ck.changes))
  BY <1>1, FS_Interval
<1>3. S \subseteq 1 .. Len(ck.changes)
  BY DEF Positions
<1>4. QED
  BY <1>2, <1>3, FS_Subset, FS_CardinalityType

\* A position of a kind holds a change of that kind.
LEMMA PositionFields ==
  ASSUME NEW ck \in Checkpoint, NEW kind, NEW i \in Positions(ck, kind)
  PROVE  /\ ck.changes[i] \in Change
         /\ ck.changes[i].kind = kind
  BY DEF Checkpoint, Positions

-----------------------------------------------------------------------------
(* Type correctness.                                                       *)

\* The initial manager is well typed.
LEMMA InitTypeOK == Init => TypeOK
  BY DEF Init, TypeOK, NoSlot, Slot, NoCounts, Phases

\* A call of apply_checkpoint, a duplicate or not, keeps the types.
LEMMA CallTypeOK ==
  ASSUME TypeOK, NEW ck \in Checkpoint, Call(ck)
  PROVE  TypeOK'
<1>1. CASE SkipDuplicate(ck)
  BY <1>1 DEF SkipDuplicate, TypeOK, store, progress, work, NoCounts, Positions
<1>2. CASE CollectChanges(ck)
  <2>1. Cardinality(Positions(ck, "missing")) \in Nat /\ ck.packages \in Nat
    BY PositionsFinite DEF Checkpoint
  <2>2. stats' \in [Counter -> Nat] /\ report' \in [Counter -> Nat]
    BY <1>2, <2>1 DEF CollectChanges, TypeOK, Counter, NoCounts
  <2>3. QED
    BY <1>2, <2>2 DEF CollectChanges, TypeOK, store, progress, work, Phases, Positions
<1>3. QED
  BY <1>1, <1>2 DEF Call

\* Counting n more keeps both copies of the counters natural numbers.
LEMMA CountType ==
  ASSUME TypeOK, NEW n \in Nat, NEW f \in Counter, Count(f, n)
  PROVE  stats' \in [Counter -> Nat] /\ report' \in [Counter -> Nat]
  BY DEF TypeOK, Count

\* Each step of apply_checkpoint keeps the types.
LEMMA ApplyTypeOK ==
  ASSUME TypeOK, Apply
  PROVE  TypeOK'
<1>1. CASE ResolveLayouts
  <2>1. PICK skipped \in SUBSET todo :
          todo' = todo \ skipped /\ Count("failures", Cardinality(skipped))
    BY <1>1 DEF ResolveLayouts, SkippedObjects
  <2>2. Cardinality(skipped) \in Nat
    BY <1>1, PositionsFinite DEF ResolveLayouts, TypeOK
  <2>3. stats' \in [Counter -> Nat] /\ report' \in [Counter -> Nat]
    BY <2>1, <2>2, CountType DEF Counter
  <2>4. QED
    BY <1>1, <2>1, <2>3 DEF ResolveLayouts, TypeOK, store, progress, Phases, Positions
<1>2. CASE DecodeObjects
  BY <1>2 DEF DecodeObjects, TypeOK, store, progress, Phases, Positions
<1>3. CASE DecodeAborts
  BY <1>3 DEF DecodeAborts, TypeOK, store, progress, Phases, Positions, NoCounts
<1>4. CASE FinishPublishing
  BY <1>4 DEF FinishPublishing, TypeOK, store, progress, Phases, Positions
<1>5. CASE FinishRemoving
  BY <1>5 DEF FinishRemoving, TypeOK, store, progress, Phases, Positions
<1>6. CASE Commit
  BY <1>6 DEF Commit, TypeOK, store, work, Phases, Positions, Checkpoint
<1>7. ASSUME NEW i \in todo, SkipUndecoded(i)
      PROVE  TypeOK'
  <2>1. stats' \in [Counter -> Nat] /\ report' \in [Counter -> Nat]
    BY <1>7, CountType DEF SkipUndecoded, Counter
  <2>2. QED
    BY <1>7, <2>1 DEF SkipUndecoded, Visited, TypeOK, store, progress, Positions
<1>8. ASSUME NEW i \in todo, SkipHeldVersion(i)
      PROVE  TypeOK'
  <2>1. stats' \in [Counter -> Nat] /\ report' \in [Counter -> Nat]
    BY <1>8, CountType DEF SkipHeldVersion, Counter, TypeOK
  <2>2. QED
    BY <1>8, <2>1 DEF SkipHeldVersion, Visited, TypeOK, store, progress, Positions
<1>9. ASSUME NEW i \in todo, ReadSlot(i)
      PROVE  TypeOK'
  <2>1. current.changes[i].id \in Venue
    BY <1>9, PositionFields, ChangeFields DEF ReadSlot, TypeOK
  <2>2. QED
    BY <1>9, <2>1 DEF ReadSlot, CarryOver, TypeOK, Slot, store, progress, Phases, Positions
<1>10. ASSUME NEW i \in todo, UpsertSlot(i)
       PROVE  TypeOK'
  <2>1. current.changes[i].version \in Nat
    BY <1>10, PositionFields, ChangeFields DEF UpsertSlot, TypeOK
  <2>2. slots' \in [Venue -> Slot]
    BY <1>10, <2>1 DEF UpsertSlot, TypeOK, Slot
  <2>3. stats' \in [Counter -> Nat] /\ report' \in [Counter -> Nat]
    BY <1>10, CountType DEF UpsertSlot, Counter
  <2>4. QED
    BY <1>10, <2>2, <2>3 DEF UpsertSlot, Visited, TypeOK, progress, Phases, Positions
<1>11. ASSUME NEW i \in todo, RemoveVenue(i)
       PROVE  TypeOK'
  <2>1. stats' \in [Counter -> Nat] /\ report' \in [Counter -> Nat]
    BY <1>11, CountType DEF RemoveVenue, Counter, TypeOK
  <2>2. slots' \in [Venue -> Slot]
    BY <1>11 DEF RemoveVenue, TypeOK, Slot, NoSlot
  <2>3. children' \in [Uid -> SUBSET Child]
    BY <1>11 DEF RemoveVenue, WithoutPool, TypeOK
  <2>4. QED
    BY <1>11, <2>1, <2>2, <2>3 DEF RemoveVenue, Visited, TypeOK, progress, Positions
<1>12. ASSUME NEW i \in todo, RemoveChild(i)
       PROVE  TypeOK'
  BY <1>12 DEF RemoveChild, WithoutChild, Visited, TypeOK, progress, Positions
<1>13. ASSUME NEW i \in todo, IndexChild(i)
       PROVE  TypeOK'
  <2>1. current.changes[i].id \in Child
    BY <1>13, PositionFields, ChangeFields DEF IndexChild, TypeOK
  <2>2. ParentOf[current.changes[i].id] \in Uid
    BY <2>1, IdsAssumption
  <2>3. stats' \in [Counter -> Nat] /\ report' \in [Counter -> Nat]
    BY <1>13, CountType DEF IndexChild, Counter, TypeOK
  <2>4. children' \in [Uid -> SUBSET Child] /\ childOwners' \in [Child -> Uid \union {NoOwner}]
    BY <1>13, <2>1, <2>2 DEF IndexChild, Remember, TypeOK
  <2>5. QED
    BY <1>13, <2>3, <2>4 DEF IndexChild, Visited, TypeOK, progress, Positions
<1>14. QED
  BY <1>1, <1>2, <1>3, <1>4, <1>5, <1>6, <1>7, <1>8, <1>9, <1>10, <1>11, <1>12, <1>13
     DEF Apply, VisitChange

\* What the manager does for a caller that may hand over any checkpoint.
ManagerNext == (\E ck \in Checkpoint : Call(ck)) \/ Apply \/ LoadTicks

\* A caller with a given set of checkpoints is one of them.
LEMMA NextIsManagerNext == [Next]_vars => [ManagerNext]_vars
BY CheckpointsAssumption DEF Next, ManagerNext

\* Every step keeps the types, whichever checkpoint is handed over.
LEMMA ManagerTypeOK == TypeOK /\ [ManagerNext]_vars => TypeOK'
<1> SUFFICES ASSUME TypeOK, [ManagerNext]_vars
             PROVE  TypeOK'
  OBVIOUS
<1>1. ASSUME NEW ck \in Checkpoint, Call(ck)
      PROVE  TypeOK'
  BY <1>1, CallTypeOK
<1>2. CASE Apply
  BY <1>2, ApplyTypeOK
<1>3. CASE LoadTicks
  <2>1. PICK p \in Pool, t \in TickIndex : InstallTicks(p, t)
    BY <1>3 DEF LoadTicks
  <2>2. slots' \in [Venue -> Slot]
    BY <2>1 DEF InstallTicks, TypeOK, Slot
  <2>3. QED
    BY <2>1, <2>2 DEF InstallTicks, TypeOK, progress, work, Positions
<1>4. CASE UNCHANGED vars
  BY <1>4 DEF vars, store, progress, work, TypeOK, Positions
<1>5. QED
  BY <1>1, <1>2, <1>3, <1>4 DEF ManagerNext

\* Every step keeps the types.
LEMMA StepTypeOK == TypeOK /\ [Next]_vars => TypeOK'
BY NextIsManagerNext, ManagerTypeOK

\* The type invariant: in every phase every map, counter and list of the
\* manager has its shape, and the list being walked holds changes of the kind
\* the phase handles.
THEOREM TypeCorrect == Spec => []TypeOK
<1>1. QED
  BY InitTypeOK, StepTypeOK, PTL DEF Spec

-----------------------------------------------------------------------------
(* The child index: routing, ownership by tracked pools, capacity.         *)

\* A set holds only fields of its own parent, and the fields still to be
\* indexed belong to pools tracked now.
HeldByParent == \A u \in Uid : \A c \in children[u] : ParentOf[c] = u
IndexingPriced ==
  phase = "index" => \A i \in todo : ParentOf[current.changes[i].id] \in Priced
ChildSetsFinite == \A u \in Uid : IsFiniteSet(children[u])

IndexInv ==
  /\ OwnersRouteHeld
  /\ HeldByParent
  /\ ChildSetsPriced
  /\ IndexingPriced
  /\ ChildSetsFinite
  /\ ChildSetsBounded

\* Initially no child is held, so the index invariant holds.
LEMMA InitIndexInv == Init => IndexInv
<1> SUFFICES ASSUME Init
             PROVE  IndexInv
  OBVIOUS
<1>1. \A u \in Uid : children[u] = {}
  BY DEF Init
<1>2. IsFiniteSet({}) /\ Cardinality({}) = 0
  BY FS_EmptySet
<1>3. ASSUME NEW u \in Uid
      PROVE  IsFiniteSet(children[u]) /\ Cardinality(children[u]) <= ChildCapacity
  <2>1. children[u] = {}
    BY <1>1
  <2>2. QED
    BY <1>2, <2>1, BoundAssumption
<1>4. QED
  BY <1>1, <1>3
     DEF Init, IndexInv, OwnersRouteHeld, HeldByParent, ChildSetsPriced, IndexingPriced,
         ChildSetsFinite, ChildSetsBounded

\* A step that leaves the index and the set of tracked pools alone, and moves
\* towards no new child, preserves the invariant.
LEMMA IndexUntouched ==
  ASSUME TypeOK, IndexInv,
         children' = children, childOwners' = childOwners,
         \A p \in Pool : Tracked(p) => Tracked(p)',
         phase' = "index" => phase = "index" /\ todo' \subseteq todo /\ current' = current
  PROVE  IndexInv'
<1>1. Priced \subseteq Priced'
  BY DEF Priced
<1>2. OwnersRouteHeld' /\ HeldByParent' /\ ChildSetsFinite' /\ ChildSetsBounded'
  BY DEF IndexInv, OwnersRouteHeld, HeldByParent, ChildSetsFinite, ChildSetsBounded
<1>3. ChildSetsPriced'
  BY <1>1 DEF IndexInv, ChildSetsPriced
<1>4. IndexingPriced'
  BY <1>1 DEF IndexInv, IndexingPriced
<1>5. QED
  BY <1>2, <1>3, <1>4 DEF IndexInv

\* Removing a venue with its child set keeps the index invariant.
LEMMA RemoveVenueIndexInv ==
  ASSUME TypeOK, IndexInv, NEW i \in todo, RemoveVenue(i)
  PROVE  IndexInv'
<1> DEFINE id == current.changes[i].id
<1>1. CASE ~ Tracked(id)
  BY <1>1, IndexUntouched DEF RemoveVenue, Removes, Visited, Tracked
<1>2. CASE Tracked(id)
  <2>1. /\ children' = WithoutPool(id)
        /\ childOwners' = childOwners
        /\ \A p \in Pool \ {id} : Tracked(p) => Tracked(p)'
        /\ phase' # "index"
    BY <1>2, IdsAssumption DEF RemoveVenue, Removes, Tracked, TypeOK
  <2>2. \A u \in Uid : children'[u] \in {children[u], {}}
    BY <2>1 DEF WithoutPool, TypeOK
  <2>3. OwnersRouteHeld' /\ HeldByParent'
    BY <2>1, <2>2 DEF IndexInv, OwnersRouteHeld, HeldByParent
  <2>4. ChildSetsPriced'
    BY <2>1, NodeUidAssumption DEF IndexInv, ChildSetsPriced, Priced, WithoutPool, TypeOK
  <2>5. ChildSetsFinite' /\ ChildSetsBounded'
    BY <2>2, FS_EmptySet, BoundAssumption DEF IndexInv, ChildSetsFinite, ChildSetsBounded
  <2>6. QED
    BY <2>1, <2>3, <2>4, <2>5 DEF IndexInv, IndexingPriced
<1>3. QED
  BY <1>1, <1>2

\* Removing a child keeps the index invariant.
LEMMA RemoveChildIndexInv ==
  ASSUME TypeOK, IndexInv, NEW i \in todo, RemoveChild(i)
  PROVE  IndexInv'
<1> DEFINE id == current.changes[i].id
<1>1. /\ id \in Child
      /\ childOwners' = [childOwners EXCEPT ![id] = NoOwner]
      /\ children' = WithoutChild(id)
      /\ slots' = slots
      /\ phase' # "index"
  BY DEF RemoveChild
<1>2. \A u \in Uid : children'[u] = children[u] \ {id}
  <2>1. CASE childOwners[id] = NoOwner
    BY <1>1, <2>1, SentinelAssumption DEF IndexInv, OwnersRouteHeld, WithoutChild
  <2>2. CASE childOwners[id] # NoOwner
    <3>1. children' = [children EXCEPT ![childOwners[id]] = @ \ {id}]
      BY <1>1, <2>2 DEF WithoutChild
    <3>2. QED
      BY <1>1, <3>1 DEF IndexInv, OwnersRouteHeld, TypeOK
  <2>3. QED
    BY <2>1, <2>2
<1>3. OwnersRouteHeld' /\ HeldByParent'
  BY <1>1, <1>2 DEF IndexInv, OwnersRouteHeld, HeldByParent, TypeOK
<1>4. ChildSetsPriced'
  BY <1>1, <1>2 DEF IndexInv, ChildSetsPriced, Priced, Tracked
<1>5. ChildSetsFinite' /\ ChildSetsBounded'
  <2> SUFFICES ASSUME NEW u \in Uid
               PROVE  IsFiniteSet(children'[u]) /\ Cardinality(children'[u]) <= ChildCapacity
    BY DEF ChildSetsFinite, ChildSetsBounded
  <2>1. IsFiniteSet(children[u]) /\ Cardinality(children[u]) <= ChildCapacity
    BY DEF IndexInv, ChildSetsFinite, ChildSetsBounded
  <2>2. children'[u] \subseteq children[u]
    BY <1>2
  <2>3. QED
    BY <2>1, <2>2, FS_Subset, FS_CardinalityType, BoundAssumption
<1>6. QED
  BY <1>1, <1>3, <1>4, <1>5 DEF IndexInv, IndexingPriced

\* Indexing a child keeps the index invariant, and the capacity.
LEMMA IndexChildIndexInv ==
  ASSUME TypeOK, IndexInv, NEW i \in todo, IndexChild(i)
  PROVE  IndexInv'
<1> DEFINE id  == current.changes[i].id
           uid == ParentOf[id]
<1>1. id \in Child /\ uid \in Uid /\ uid \in Priced
  BY PositionFields, ChangeFields, IdsAssumption DEF IndexChild, TypeOK, IndexInv, IndexingPriced
<1>2. slots' = slots /\ phase' = phase /\ current' = current /\ todo' = todo \ {i}
  BY DEF IndexChild, Visited
<1>3. CASE UNCHANGED <<children, childOwners>>
  BY <1>2, <1>3, IndexUntouched DEF Tracked
<1>4. CASE /\ id \notin children[uid]
           /\ HasRoom(uid)
           /\ children' = [children EXCEPT ![uid] = @ \union {id}]
           /\ childOwners' = Remember(id, uid)
  <2>1. \A u \in Uid : id \notin children[u]
    BY <1>1, <1>4 DEF IndexInv, HeldByParent
  <2>2. OwnersRouteHeld' /\ HeldByParent'
    BY <1>1, <1>4, <2>1 DEF IndexInv, OwnersRouteHeld, HeldByParent, Remember, TypeOK
  <2>3. ChildSetsPriced' /\ IndexingPriced'
    BY <1>1, <1>2, <1>4
       DEF IndexInv, ChildSetsPriced, IndexingPriced, Priced, Tracked, TypeOK
  <2>4. ChildSetsFinite' /\ ChildSetsBounded'
    <3> SUFFICES ASSUME NEW u \in Uid
                 PROVE  /\ IsFiniteSet(children'[u])
                        /\ Cardinality(children'[u]) <= ChildCapacity
      BY DEF ChildSetsFinite, ChildSetsBounded
    <3>1. IsFiniteSet(children[u]) /\ Cardinality(children[u]) <= ChildCapacity
      BY DEF IndexInv, ChildSetsFinite, ChildSetsBounded
    <3>2. CASE u # uid
      BY <1>4, <3>1, <3>2 DEF TypeOK
    <3>3. CASE u = uid
      <4>1. children'[u] = children[u] \union {id}
        BY <1>4, <3>3 DEF TypeOK
      <4>2. Cardinality(children[u]) \in Nat /\ Cardinality(children[u]) < ChildCapacity
        BY <1>4, <3>1, <3>3, FS_CardinalityType DEF HasRoom
      <4>3. IsFiniteSet(children'[u]) /\ Cardinality(children'[u]) = Cardinality(children[u]) + 1
        <5>1. id \notin children[u]
          BY <1>4, <3>3
        <5>2. /\ IsFiniteSet(children[u] \union {id})
              /\ Cardinality(children[u] \union {id}) = Cardinality(children[u]) + 1
          BY <3>1, <5>1, FS_AddElement
        <5>3. QED
          BY <4>1, <5>2
      <4>4. QED
        BY <4>2, <4>3, BoundAssumption
    <3>4. QED
      BY <3>2, <3>3
  <2>5. QED
    BY <2>2, <2>3, <2>4 DEF IndexInv
<1>5. QED
  BY <1>3, <1>4 DEF IndexChild

\* Every step keeps the index invariant, whichever checkpoint is handed over.
LEMMA ManagerIndexInv == TypeOK /\ IndexInv /\ [ManagerNext]_vars => IndexInv'
<1> SUFFICES ASSUME TypeOK, IndexInv, [ManagerNext]_vars
             PROVE  IndexInv'
  OBVIOUS
<1> USE IndexUntouched DEF Tracked
<1>1. ASSUME NEW ck \in Checkpoint, Call(ck)
      PROVE  IndexInv'
  BY <1>1 DEF Call, SkipDuplicate, CollectChanges, store, work
<1>2. CASE ResolveLayouts
  BY <1>2 DEF ResolveLayouts, store
<1>3. CASE DecodeObjects
  BY <1>3 DEF DecodeObjects, store
<1>4. CASE DecodeAborts
  BY <1>4 DEF DecodeAborts, store
<1>5. CASE FinishPublishing
  BY <1>5 DEF FinishPublishing, store
<1>6. CASE FinishRemoving
  <2>1. IndexingPriced'
    BY <1>6 DEF FinishRemoving, IndexingPriced, Priced, store
  <2>2. QED
    BY <1>6, <2>1
       DEF FinishRemoving, store, IndexInv, OwnersRouteHeld, HeldByParent, ChildSetsPriced,
           Priced, ChildSetsFinite, ChildSetsBounded
<1>7. CASE Commit
  BY <1>7 DEF Commit, store
<1>8. ASSUME NEW i \in todo, SkipUndecoded(i) \/ SkipHeldVersion(i) \/ ReadSlot(i)
      PROVE  IndexInv'
  BY <1>8 DEF SkipUndecoded, SkipHeldVersion, ReadSlot, store
<1>9. ASSUME NEW i \in todo, UpsertSlot(i)
      PROVE  IndexInv'
  <2>1. current.changes[i].version \in Nat \ {0}
    BY <1>9, PositionFields, ChangeFields DEF UpsertSlot, TypeOK
  <2>2. QED
    BY <1>9, <2>1, IdsAssumption DEF UpsertSlot, TypeOK
<1>10. CASE LoadTicks
  BY <1>10, IdsAssumption DEF LoadTicks, InstallTicks, TypeOK, Slot, work
<1>11. CASE UNCHANGED vars
  BY <1>11 DEF vars, store, work
<1>12. QED
  BY <1>1, <1>2, <1>3, <1>4, <1>5, <1>6, <1>7, <1>8, <1>9, <1>10, <1>11,
     RemoveVenueIndexInv, RemoveChildIndexInv, IndexChildIndexInv
     DEF ManagerNext, Apply, VisitChange

\* Every step keeps the index invariant.
LEMMA StepIndexInv == TypeOK /\ IndexInv /\ [Next]_vars => IndexInv'
BY NextIsManagerNext, ManagerIndexInv

\* The index invariant, of every behaviour.
LEMMA IndexInvariant == Spec => []IndexInv
<1>1. QED
  BY InitIndexInv, StepIndexInv, TypeCorrect, PTL DEF Spec

\* Every child a set holds can be routed back to that set when it is deleted,
\* whatever the order of deletions, re-creations and pool removals.
THEOREM OwnersRouted == Spec => []OwnersRouteHeld
<1>1. IndexInv => OwnersRouteHeld
  BY DEF IndexInv
<1>2. QED
  BY <1>1, IndexInvariant, PTL

\* Only inner UIDs of tracked Cetus pools have a child set.
THEOREM ChildSetsOfTrackedPools == Spec => []ChildSetsPriced
<1>1. IndexInv => ChildSetsPriced
  BY DEF IndexInv
<1>2. QED
  BY <1>1, IndexInvariant, PTL

\* No child set outgrows the capacity.
THEOREM ChildIndexBounded == Spec => []ChildSetsBounded
<1>1. IndexInv => ChildSetsBounded
  BY DEF IndexInv
<1>2. QED
  BY <1>1, IndexInvariant, PTL

-----------------------------------------------------------------------------
(* Versions.                                                               *)

\* Between the read of a slot and its upsert nothing makes the version stale:
\* ticks may be installed in between, but only the applier moves versions.
UpsertNewer ==
  phase = "upsert" =>
    \A i \in todo :
      IsNext(i) => LET change == current.changes[i]
                   IN  ShouldPublish(slots[change.id].version, change.version)

\* Every step keeps that a version about to be upserted is newer, whichever
\* checkpoint is handed over.
LEMMA ManagerUpsertNewer == TypeOK /\ UpsertNewer /\ [ManagerNext]_vars => UpsertNewer'
<1> SUFFICES ASSUME TypeOK, UpsertNewer, [ManagerNext]_vars
             PROVE  UpsertNewer'
  OBVIOUS
<1>1. ASSUME NEW i \in todo, ReadSlot(i)
      PROVE  UpsertNewer'
  <2>1. \A j \in todo' : IsNext(j)' => j = i
    BY <1>1, PositionFields DEF ReadSlot, IsNext, TypeOK, Positions
  <2>2. QED
    BY <1>1, <2>1 DEF ReadSlot, UpsertNewer, store
<1>2. CASE LoadTicks
  <2>1. PICK p \in Pool, t \in TickIndex : InstallTicks(p, t)
    BY <1>2 DEF LoadTicks
  <2>2. \A v \in Venue : slots'[v].version = slots[v].version
    BY <2>1 DEF InstallTicks, TypeOK, Slot
  <2>3. phase = "upsert" => \A i \in todo : current.changes[i].id \in Venue
    BY PositionFields, ChangeFields DEF TypeOK
  <2>4. QED
    BY <2>1, <2>2, <2>3 DEF InstallTicks, UpsertNewer, IsNext, work
<1>3. CASE UNCHANGED vars
  BY <1>3 DEF vars, store, work, UpsertNewer, IsNext
<1>4. phase' # "upsert" \/ UNCHANGED vars \/ LoadTicks \/ \E i \in todo : ReadSlot(i)
  BY DEF ManagerNext, Call, SkipDuplicate, CollectChanges, Apply, ResolveLayouts,
         DecodeObjects, DecodeAborts, VisitChange, SkipUndecoded, SkipHeldVersion, UpsertSlot,
         RemoveVenue, RemoveChild, IndexChild, FinishPublishing, FinishRemoving, Commit,
         LoadTicks
<1>5. QED
  BY <1>1, <1>2, <1>3, <1>4 DEF UpsertNewer

\* Every step keeps that a version about to be upserted is newer.
LEMMA StepUpsertNewer == TypeOK /\ UpsertNewer /\ [Next]_vars => UpsertNewer'
BY NextIsManagerNext, ManagerUpsertNewer

\* A version about to be upserted is newer, in every behaviour.
LEMMA UpsertInvariant == Spec => []UpsertNewer
<1>1. Init => UpsertNewer
  BY DEF Init, UpsertNewer
<1>2. QED
  BY <1>1, StepUpsertNewer, TypeCorrect, PTL DEF Spec

\* Any other step leaves the slots and their two counters alone.
OutsideSlots ==
  /\ slots' = slots
  /\ stats'["created"] = stats["created"]
  /\ stats'["removed"] = stats["removed"]

\* A step is one upsert, one removal, one installed index, or outside the slots.
LEMMA SlotSteps ==
  ASSUME TypeOK, [Next]_vars
  PROVE  \/ \E i \in todo : UpsertSlot(i)
         \/ \E i \in todo : RemoveVenue(i)
         \/ \E p \in Pool, t \in TickIndex : InstallTicks(p, t)
         \/ OutsideSlots
<1> USE DEF OutsideSlots, store
<1>1. ASSUME NEW ck \in Checkpoints, Call(ck)
      PROVE  OutsideSlots
  BY <1>1 DEF Call, SkipDuplicate, CollectChanges, TypeOK, Counter
<1>2. CASE ResolveLayouts
  BY <1>2 DEF ResolveLayouts, Count, TypeOK, Counter
<1>3. CASE DecodeObjects \/ DecodeAborts \/ FinishPublishing \/ FinishRemoving \/ Commit
  BY <1>3 DEF DecodeObjects, DecodeAborts, FinishPublishing, FinishRemoving, Commit
<1>4. ASSUME NEW i \in todo, SkipUndecoded(i) \/ SkipHeldVersion(i) \/ ReadSlot(i)
      PROVE  OutsideSlots
  BY <1>4 DEF SkipUndecoded, SkipHeldVersion, ReadSlot, Count, TypeOK, Counter
<1>5. ASSUME NEW i \in todo, RemoveChild(i) \/ IndexChild(i)
      PROVE  OutsideSlots
  BY <1>5 DEF RemoveChild, IndexChild, Count, TypeOK, Counter
<1>6. CASE UNCHANGED vars
  BY <1>6 DEF vars
<1>7. QED
  BY <1>1, <1>2, <1>3, <1>4, <1>5, <1>6 DEF Next, Apply, VisitChange, LoadTicks

\* While a venue stays tracked, its version never goes back.
THEOREM VersionsMonotone == Spec => VersionMonotone
<1> DEFINE Monotone ==
      \A v \in Venue : Tracked(v) /\ Tracked(v)' => slots[v].version <= slots'[v].version
<1>1. TypeOK /\ UpsertNewer /\ [Next]_vars => [Monotone]_slots
  <2> SUFFICES ASSUME TypeOK, UpsertNewer, [Next]_vars, slots' # slots, NEW v \in Venue,
                      Tracked(v), Tracked(v)'
               PROVE  slots[v].version <= slots'[v].version
    OBVIOUS
  <2> USE DEF Tracked, TypeOK, Slot
  <2>1. ASSUME NEW i \in todo, UpsertSlot(i)
        PROVE  slots[v].version <= slots'[v].version
    <3> DEFINE change == current.changes[i]
    <3>1. change.version \in Nat
      BY <2>1, PositionFields, ChangeFields DEF UpsertSlot
    <3>2. ShouldPublish(slots[change.id].version, change.version)
      BY <2>1 DEF UpsertSlot, UpsertNewer
    <3>3. CASE v = change.id
      BY <2>1, <3>1, <3>2, <3>3 DEF UpsertSlot, ShouldPublish
    <3>4. CASE v # change.id
      BY <2>1, <3>4 DEF UpsertSlot
    <3>5. QED
      BY <3>3, <3>4
  <2>2. ASSUME NEW i \in todo, RemoveVenue(i)
        PROVE  slots[v].version <= slots'[v].version
    BY <2>2 DEF RemoveVenue, NoSlot
  <2>3. ASSUME NEW p \in Pool, NEW t \in TickIndex, InstallTicks(p, t)
        PROVE  slots[v].version <= slots'[v].version
    BY <2>3 DEF InstallTicks
  <2>4. QED
    BY <2>1, <2>2, <2>3, SlotSteps DEF OutsideSlots
<1>2. QED
  BY <1>1, TypeCorrect, UpsertInvariant, PTL DEF Spec, VersionMonotone

-----------------------------------------------------------------------------
(* Accounting.                                                             *)

\* A finite set without one of its elements is one smaller.
LEMMA RemoveOne ==
  ASSUME NEW S, NEW x \in S, IsFiniteSet(S)
  PROVE  IsFiniteSet(S \ {x}) /\ Cardinality(S \ {x}) = Cardinality(S) - 1
  BY FS_RemoveElement

TrackedVenues == {v \in Venue : Tracked(v)}

AccountInv ==
  /\ IsFiniteSet(TrackedVenues)
  /\ stats["created"] = stats["removed"] + Cardinality(TrackedVenues)

\* Every step keeps the counters in line with the slots.
LEMMA StepAccountInv == TypeOK /\ AccountInv /\ [Next]_vars => AccountInv'
<1> SUFFICES ASSUME TypeOK, AccountInv, [Next]_vars
             PROVE  AccountInv'
  OBVIOUS
<1> USE DEF TypeOK, Counter
<1>1. CASE /\ \A v \in Venue : Tracked(v)' = Tracked(v)
           /\ stats'["created"] = stats["created"]
           /\ stats'["removed"] = stats["removed"]
  <2>1. TrackedVenues' = TrackedVenues
    BY <1>1 DEF TrackedVenues
  <2>2. QED
    BY <1>1, <2>1 DEF AccountInv
<1>2. ASSUME NEW i \in todo, UpsertSlot(i)
      PROVE  AccountInv'
  <2> DEFINE id == current.changes[i].id
  <2>1. id \in Venue /\ current.changes[i].version \in Nat \ {0}
    BY <1>2, PositionFields, ChangeFields DEF UpsertSlot
  <2>2. CASE Tracked(id)
    BY <1>1, <1>2, <2>1, <2>2 DEF UpsertSlot, Tracked, Slot, Count
  <2>3. CASE ~ Tracked(id)
    <3>1. TrackedVenues' = TrackedVenues \union {id}
      BY <1>2, <2>1 DEF UpsertSlot, TrackedVenues, Tracked, Slot
    <3>2. id \notin TrackedVenues
      BY <2>3 DEF TrackedVenues
    <3>3. /\ IsFiniteSet(TrackedVenues \union {id})
          /\ Cardinality(TrackedVenues \union {id}) = Cardinality(TrackedVenues) + 1
          /\ Cardinality(TrackedVenues) \in Nat
      BY <3>2, FS_AddElement, FS_CardinalityType DEF AccountInv
    <3>4. stats'["created"] = stats["created"] + 1 /\ stats'["removed"] = stats["removed"]
      BY <1>2, <2>3 DEF UpsertSlot, Count
    <3>5. QED
      BY <3>1, <3>3, <3>4 DEF AccountInv
  <2>4. QED
    BY <2>2, <2>3
<1>3. ASSUME NEW i \in todo, RemoveVenue(i)
      PROVE  AccountInv'
  <2> DEFINE id == current.changes[i].id
  <2>1. CASE ~ Tracked(id)
    BY <1>1, <1>3, <2>1 DEF RemoveVenue, Removes, Tracked
  <2>2. CASE Tracked(id)
    <3>1. TrackedVenues' = TrackedVenues \ {id}
      BY <1>3, <2>2 DEF RemoveVenue, Removes, TrackedVenues, Tracked, Slot, NoSlot
    <3>2. id \in TrackedVenues
      BY <1>3, <2>2 DEF RemoveVenue, TrackedVenues
    <3>3. /\ IsFiniteSet(TrackedVenues \ {id})
          /\ Cardinality(TrackedVenues \ {id}) = Cardinality(TrackedVenues) - 1
          /\ Cardinality(TrackedVenues) \in Nat
      <4>1. IsFiniteSet(TrackedVenues)
        BY DEF AccountInv
      <4>2. Cardinality(TrackedVenues) \in Nat
        BY <4>1, FS_CardinalityType
      <4>3. QED
        BY <3>2, <4>1, <4>2, RemoveOne
    <3>4. stats'["removed"] = stats["removed"] + 1 /\ stats'["created"] = stats["created"]
      BY <1>3, <2>2 DEF RemoveVenue, Removes, Count
    <3>5. stats["created"] \in Nat /\ stats["removed"] \in Nat
      OBVIOUS
    <3>6. stats["created"] = (stats["removed"] + 1) + (Cardinality(TrackedVenues) - 1)
      BY <3>3, <3>5 DEF AccountInv
    <3>7. QED
      BY <3>1, <3>3, <3>4, <3>6 DEF AccountInv
  <2>3. QED
    BY <2>1, <2>2
<1>4. ASSUME NEW p \in Pool, NEW t \in TickIndex, InstallTicks(p, t)
      PROVE  AccountInv'
  BY <1>1, <1>4 DEF InstallTicks, Tracked, Slot
<1>5. ASSUME OutsideSlots
      PROVE  AccountInv'
  BY <1>1, <1>5 DEF OutsideSlots, Tracked
<1>6. QED
  BY <1>2, <1>3, <1>4, <1>5, SlotSteps

\* Initially nothing is tracked and nothing counted.
LEMMA InitAccountInv == Init => AccountInv
<1> SUFFICES ASSUME Init
             PROVE  AccountInv
  OBVIOUS
<1>1. TrackedVenues = {}
  BY DEF Init, TrackedVenues, Tracked, NoSlot
<1>2. stats["created"] = 0 /\ stats["removed"] = 0
  BY DEF Init, NoCounts, Counter
<1>3. QED
  BY <1>1, <1>2, FS_EmptySet DEF AccountInv

\* The counters of created and removed venues account for the tracked venues.
THEOREM CountersAccount == Spec => []TrackedAccounted
<1>1. AccountInv => TrackedAccounted
  BY DEF AccountInv, TrackedAccounted, TrackedVenues
<1>2. QED
  BY <1>1, InitAccountInv, StepAccountInv, TypeCorrect, PTL DEF Spec

-----------------------------------------------------------------------------
(* With the serial caller the manager implements VersionedView.            *)

\* With ticks installed only between two calls, the ticks read are still the
\* slot's ticks when it is replaced.
CarriedCurrent ==
  phase = "upsert" =>
    \A i \in todo : IsNext(i) => carried = slots[current.changes[i].id].ticks

\* The checkpoint under way is above the watermark.
AboveWatermark == phase # "idle" => applied = 0 \/ lastApplied < current.seq

SerialInv == TypeOK /\ UpsertNewer /\ CarriedCurrent /\ AboveWatermark

\* A serial step is a step.
LEMMA SerialStep == [SerialNext]_vars => [Next]_vars
  BY DEF SerialNext, Next

\* Every serial step keeps the ticks read for a publish equal to the slot's.
LEMMA StepSerialInv == SerialInv /\ [SerialNext]_vars => SerialInv'
<1> SUFFICES ASSUME SerialInv, [SerialNext]_vars
             PROVE  CarriedCurrent' /\ AboveWatermark'
  BY StepTypeOK, StepUpsertNewer, SerialStep DEF SerialInv
<1>1. CarriedCurrent'
  <2>1. ASSUME NEW i \in todo, ReadSlot(i)
        PROVE  CarriedCurrent'
    <3>1. \A j \in todo' : IsNext(j)' => j = i
      BY <2>1, PositionFields DEF ReadSlot, IsNext, SerialInv, TypeOK, Positions
    <3>2. QED
      BY <2>1, <3>1 DEF ReadSlot, CarryOver, CarriedCurrent, store
  <2>2. CASE UNCHANGED vars
    BY <2>2 DEF vars, store, work, SerialInv, CarriedCurrent, IsNext
  <2>3. phase' # "upsert" \/ UNCHANGED vars \/ \E i \in todo : ReadSlot(i)
    BY DEF SerialNext, Call, SkipDuplicate, CollectChanges, Apply, ResolveLayouts,
           DecodeObjects, DecodeAborts, VisitChange, SkipUndecoded, SkipHeldVersion,
           UpsertSlot, RemoveVenue, RemoveChild, IndexChild, FinishPublishing,
           FinishRemoving, Commit, LoadTicks, InstallTicks
  <2>4. QED
    BY <2>1, <2>2, <2>3 DEF CarriedCurrent
<1>2. AboveWatermark'
  <2>1. ASSUME NEW ck \in Checkpoints, Call(ck)
        PROVE  AboveWatermark'
    BY <2>1, CheckpointsAssumption
       DEF Call, SkipDuplicate, CollectChanges, IsDuplicate, AboveWatermark, progress,
           SerialInv, TypeOK, Checkpoint
  <2>2. CASE UNCHANGED <<progress, current>> /\ (phase = "idle" => phase' = "idle")
    BY <2>2 DEF SerialInv, AboveWatermark, progress
  <2>3. CASE Apply
    <3>1. CASE Commit
      BY <3>1 DEF Commit, AboveWatermark
    <3>2. CASE ~ Commit
      BY <2>2, <2>3, <3>2
         DEF Apply, ResolveLayouts, DecodeObjects, DecodeAborts, VisitChange, SkipUndecoded,
             SkipHeldVersion, ReadSlot, UpsertSlot, RemoveVenue, RemoveChild, IndexChild,
             FinishPublishing, FinishRemoving
    <3>3. QED
      BY <3>1, <3>2
  <2>4. CASE phase = "idle" /\ LoadTicks
    BY <2>2, <2>4 DEF LoadTicks, InstallTicks, work
  <2>5. CASE UNCHANGED vars
    BY <2>2, <2>5 DEF vars, work
  <2>6. QED
    BY <2>1, <2>3, <2>4, <2>5 DEF SerialNext
<1>3. QED
  BY <1>1, <1>2

\* Every serial step is a step of the view, or a stutter.
LEMMA StepView == SerialInv /\ [SerialNext]_vars => [View!Next]_(View!vars)
<1> SUFFICES ASSUME SerialInv, [SerialNext]_vars
             PROVE  View!Next \/ UNCHANGED View!vars
  OBVIOUS
<1> USE DEF View!vars, progress, TypeOK, Slot
<1>1. TypeOK /\ UpsertNewer /\ CarriedCurrent /\ AboveWatermark
  BY DEF SerialInv
<1>2. ASSUME NEW i \in todo, UpsertSlot(i)
      PROVE  View!Next
  <2> DEFINE change == current.changes[i]
  <2>1. change.id \in Venue /\ change.version \in Nat \ {0}
    BY <1>1, <1>2, PositionFields, ChangeFields DEF UpsertSlot
  <2>2. ShouldPublish(slots[change.id].version, change.version)
    BY <1>1, <1>2 DEF UpsertSlot, UpsertNewer
  <2>3. slots' = [slots EXCEPT ![change.id] =
                    [version |-> change.version, ticks |-> slots[change.id].ticks]]
    BY <1>1, <1>2 DEF UpsertSlot, CarriedCurrent
  <2>4. slots[change.id].version < slots'[change.id].version
    BY <1>1, <2>1, <2>2, <2>3 DEF ShouldPublish
  <2>5. slots' = [slots EXCEPT ![change.id].version = slots'[change.id].version]
    BY <1>1, <2>1, <2>3
  <2>6. UNCHANGED <<applied, lastApplied>>
    BY <1>2 DEF UpsertSlot
  <2>7. View!Publish(change.id)
    BY <2>4, <2>5, <2>6 DEF View!Publish
  <2>8. QED
    BY <2>1, <2>7 DEF View!Next
<1>3. ASSUME NEW i \in todo, RemoveVenue(i)
      PROVE  View!Next \/ UNCHANGED View!vars
  BY <1>3 DEF RemoveVenue, Removes, Tracked, NoSlot, View!Next, View!Drop, View!Unseen
<1>4. ASSUME NEW p \in Pool, NEW t \in TickIndex, InstallTicks(p, t)
      PROVE  View!Next
  <2>1. View!InstallTicks(p, t)
    BY <1>4 DEF InstallTicks, Tracked, View!InstallTicks
  <2>2. QED
    BY <2>1, IdsAssumption DEF View!Next
<1>5. CASE Commit
  <2>1. View!Advance
    BY <1>1, <1>5 DEF Commit, AboveWatermark, store, View!Advance
  <2>2. QED
    BY <2>1 DEF View!Next
<1>6. \/ \E i \in todo : UpsertSlot(i) \/ RemoveVenue(i)
      \/ \E p \in Pool, t \in TickIndex : InstallTicks(p, t)
      \/ Commit
      \/ UNCHANGED View!vars
  BY DEF SerialNext, Call, SkipDuplicate, CollectChanges, Apply, ResolveLayouts, DecodeObjects,
         DecodeAborts, VisitChange, SkipUndecoded, SkipHeldVersion, ReadSlot, RemoveChild,
         IndexChild, FinishPublishing, FinishRemoving, LoadTicks, store, vars
<1>7. QED
  BY <1>2, <1>3, <1>4, <1>5, <1>6

\* Refinement: as long as ticks are installed between calls, every behaviour of
\* the manager is a behaviour of the versioned view its readers are promised.
THEOREM ManagerImplementsView == CallsSpec => ImplementsView
<1>1. CallsInit => (serial => View!Init) /\ (serial => SerialInv)
  BY InitTypeOK DEF CallsInit, Init, View!Init, View!Unseen, NoSlot,
     SerialInv, UpsertNewer, CarriedCurrent, AboveWatermark
<1>2. [CallsNext]_<<vars, serial>> => serial' = serial /\ (serial => [SerialNext]_vars)
  BY DEF CallsNext
<1>3. (serial => SerialInv) /\ [CallsNext]_<<vars, serial>>
        => (serial => SerialInv)' /\ [serial => View!Next]_(View!vars)
  BY <1>2, StepSerialInv, StepView
<1>4. QED
  BY <1>1, <1>3, PTL DEF CallsSpec, ImplementsView

-----------------------------------------------------------------------------
(* No candidate is skipped in silence.                                     *)

\* While slots are published, the candidates still to come owe nothing.
Owing == IF phase \in {"decode", "publish", "upsert"} THEN Unserved \ todo ELSE Unserved

SkipsInv ==
  /\ phase = "resolve" => todo = Positions(current, "venue")
  /\ phase \notin {"idle", "resolve"} =>
       Cardinality(Owing) <= report["failures"] + report["unrecognised"]

\* Any set of unserved positions is finite.
LEMMA OwingFinite ==
  ASSUME TypeOK, phase # "idle", NEW S \in SUBSET Unserved
  PROVE  IsFiniteSet(S) /\ Cardinality(S) \in Nat
  BY PositionsFinite DEF TypeOK, Unserved

\* A finite set with one element more is at most one larger.
LEMMA OneMore ==
  ASSUME NEW S, NEW x, IsFiniteSet(S)
  PROVE  /\ IsFiniteSet(S \union {x})
         /\ Cardinality(S \union {x}) \in Nat
         /\ Cardinality(S \union {x}) <= Cardinality(S) + 1
<1>1. Cardinality(S) \in Nat
  BY FS_CardinalityType
<1>2. CASE x \in S
  <2>1. S \union {x} = S
    BY <1>2
  <2>2. IsFiniteSet(S \union {x}) /\ Cardinality(S \union {x}) = Cardinality(S)
    BY <2>1, Zenon
  <2>3. QED
    BY <1>1, <2>2
<1>3. CASE x \notin S
  BY <1>1, <1>3, FS_AddElement
<1>4. QED
  BY <1>2, <1>3

\* Debts shrink, reports grow.
LEMMA OwingShrinks ==
  ASSUME TypeOK, SkipsInv, phase \notin {"idle", "resolve"},
         phase' # "resolve", Owing' \subseteq Owing,
         report' \in [Counter -> Nat],
         report'["failures"] >= report["failures"],
         report'["unrecognised"] >= report["unrecognised"]
  PROVE  SkipsInv'
<1>1. IsFiniteSet(Owing) /\ Cardinality(Owing) \in Nat
  BY OwingFinite DEF Owing
<1>2. Cardinality(Owing') \in Nat /\ Cardinality(Owing') <= Cardinality(Owing)
  BY <1>1, FS_Subset, FS_CardinalityType
<1>3. Cardinality(Owing) <= report["failures"] + report["unrecognised"]
  BY DEF SkipsInv
<1>4. /\ report["failures"] \in Nat /\ report["unrecognised"] \in Nat
      /\ report'["failures"] \in Nat /\ report'["unrecognised"] \in Nat
  BY DEF TypeOK, Counter
<1>5. Cardinality(Owing') <= report'["failures"] + report'["unrecognised"]
  BY <1>1, <1>2, <1>3, <1>4
<1>6. QED
  BY <1>5 DEF SkipsInv

\* Steps that leave the owing positions and the report as they are keep the invariant.
LEMMA OwingSteady ==
  ASSUME TypeOK, SkipsInv, phase \notin {"idle", "resolve"},
         phase' # "resolve", Owing' = Owing, report' = report
  PROVE  SkipsInv'
<1>1. /\ report \in [Counter -> Nat]
      /\ "failures" \in Counter /\ "unrecognised" \in Counter
  BY DEF TypeOK, Counter
<1>2. report["failures"] \in Nat /\ report["unrecognised"] \in Nat
  BY <1>1
<1>3. QED
  BY <1>1, <1>2, OwingShrinks

\* One more debt, one more count.
LEMMA OwingPaid ==
  ASSUME TypeOK, SkipsInv, phase = "publish", phase' = "publish",
         NEW i \in todo, Owing' \subseteq Owing \union {i},
         \/ Count("failures", 1)
         \/ Count("unrecognised", 1)
  PROVE  SkipsInv'
<1>1. IsFiniteSet(Owing) /\ Cardinality(Owing) \in Nat
  BY OwingFinite DEF Owing
<1>2. /\ IsFiniteSet(Owing \union {i})
      /\ Cardinality(Owing \union {i}) \in Nat
      /\ Cardinality(Owing \union {i}) <= Cardinality(Owing) + 1
  BY <1>1, OneMore
<1>3. Cardinality(Owing') \in Nat /\ Cardinality(Owing') <= Cardinality(Owing \union {i})
  BY <1>2, FS_Subset, FS_CardinalityType
<1>4. Cardinality(Owing) <= report["failures"] + report["unrecognised"]
  BY DEF SkipsInv
<1>5. /\ report["failures"] \in Nat /\ report["unrecognised"] \in Nat
      /\ report'["failures"] \in Nat /\ report'["unrecognised"] \in Nat
      /\ report'["failures"] + report'["unrecognised"]
           = report["failures"] + report["unrecognised"] + 1
  BY DEF TypeOK, Counter, Count
<1>6. Cardinality(Owing') <= report'["failures"] + report'["unrecognised"]
  BY <1>1, <1>2, <1>3, <1>4, <1>5
<1>7. QED
  BY <1>6 DEF SkipsInv

\* Resolving layouts counts every candidate it drops.
LEMMA ResolveSkipsInv ==
  ASSUME TypeOK, SkipsInv, ResolveLayouts
  PROVE  SkipsInv'
<1>1. PICK skipped \in SUBSET todo :
        todo' = todo \ skipped /\ Count("failures", Cardinality(skipped))
  BY DEF ResolveLayouts, SkippedObjects
<1>2. IsFiniteSet(skipped) /\ Cardinality(skipped) \in Nat
  BY PositionsFinite DEF ResolveLayouts, TypeOK
<1>3. Owing' \subseteq skipped
  BY <1>1 DEF ResolveLayouts, Owing, Unserved, SkipsInv, RemovedNow, store
<1>4. Cardinality(Owing') \in Nat /\ Cardinality(Owing') <= Cardinality(skipped)
  BY <1>2, <1>3, FS_Subset, FS_CardinalityType
<1>5. /\ report["failures"] \in Nat /\ report["unrecognised"] \in Nat
      /\ report'["failures"] = report["failures"] + Cardinality(skipped)
      /\ report'["unrecognised"] = report["unrecognised"]
  BY <1>1 DEF TypeOK, Counter, Count
<1>6. Cardinality(Owing') <= report'["failures"] + report'["unrecognised"]
  BY <1>2, <1>4, <1>5
<1>7. QED
  BY <1>6 DEF ResolveLayouts, SkipsInv

\* An upserted slot pays for its own candidate and for no other one's debt.
LEMMA UpsertOwing ==
  ASSUME TypeOK, UpsertNewer, NEW i \in todo, UpsertSlot(i)
  PROVE  Owing' \subseteq Owing
<1> DEFINE id == current.changes[i].id
           version == current.changes[i].version
<1>1. id \in Venue /\ version \in Nat \ {0}
  BY PositionFields, ChangeFields DEF UpsertSlot, TypeOK
<1>2. ShouldPublish(slots[id].version, version)
  BY DEF UpsertSlot, UpsertNewer
<1>3. slots[id].version \in Nat /\ slots[id].version < version
  BY <1>1, <1>2 DEF ShouldPublish, TypeOK, Slot
<1>4. slots'[id].version = version
  BY <1>1 DEF UpsertSlot, TypeOK
<1>5. \A v \in Venue : v # id => slots'[v] = slots[v]
  BY DEF UpsertSlot, TypeOK
<1>6. i \notin Unserved'
  BY <1>1, <1>4 DEF UpsertSlot, Unserved
<1>7. ASSUME NEW j \in Unserved'
      PROVE  j \in Unserved
  <2> DEFINE other == current.changes[j]
  <2>1. j \in Positions(current, "venue") /\ current' = current
    BY <1>7 DEF Unserved, UpsertSlot
  <2>2. other.id \in Venue /\ other.version \in Nat
    BY <2>1, PositionFields, ChangeFields DEF UpsertSlot, TypeOK
  <2>3. slots'[other.id].version < other.version /\ ~ RemovedNow(other.id)
    BY <1>7, <2>1 DEF Unserved, RemovedNow
  <2>4. slots[other.id].version < other.version
    BY <1>1, <1>3, <1>4, <1>5, <2>2, <2>3
  <2>5. QED
    BY <2>1, <2>3, <2>4 DEF Unserved
<1>8. QED
  BY <1>6, <1>7 DEF Owing, UpsertSlot, Visited

SameVersions == \A v \in Venue : slots'[v].version = slots[v].version

\* Steps that change no version leave the unserved as they are.
LEMMA SameUnserved ==
  ASSUME TypeOK, phase # "idle", UNCHANGED current, SameVersions
  PROVE  Unserved' = Unserved
<1>1. \A j \in Positions(current, "venue") : current.changes[j].id \in Venue
  BY PositionFields, ChangeFields DEF TypeOK
<1>2. QED
  BY <1>1 DEF Unserved, RemovedNow, SameVersions

\* Every step keeps the unserved within what was counted.
LEMMA StepSkipsInv == TypeOK /\ UpsertNewer /\ SkipsInv /\ [Next]_vars => SkipsInv'
<1> SUFFICES ASSUME TypeOK, UpsertNewer, SkipsInv, [Next]_vars
             PROVE  SkipsInv'
  OBVIOUS
<1>1. TypeOK'
  BY StepTypeOK
<1>2. report' \in [Counter -> Nat]
  BY <1>1 DEF TypeOK
<1>3. ASSUME NEW ck \in Checkpoints, Call(ck)
      PROVE  SkipsInv'
  BY <1>3 DEF Call, SkipDuplicate, CollectChanges, SkipsInv, progress
<1>4. CASE DecodeObjects
  <2>1. Owing' = Owing
    BY <1>4 DEF DecodeObjects, Owing, Unserved, RemovedNow, store
  <2>2. QED
    BY <1>4, <2>1, OwingSteady DEF DecodeObjects
<1>5. CASE DecodeAborts
  BY <1>5 DEF DecodeAborts, SkipsInv
<1>6. ASSUME NEW i \in todo, SkipUndecoded(i)
      PROVE  SkipsInv'
  <2>1. Owing' \subseteq Owing \union {i}
    BY <1>6 DEF SkipUndecoded, Visited, Owing, Unserved, RemovedNow, store
  <2>2. QED
    BY <1>6, <2>1, OwingPaid DEF SkipUndecoded
<1>7. ASSUME NEW i \in todo, SkipHeldVersion(i)
      PROVE  SkipsInv'
  <2>1. current.changes[i].id \in Venue /\ current.changes[i].version \in Nat
    BY <1>7, PositionFields, ChangeFields DEF SkipHeldVersion, TypeOK
  <2>2. slots[current.changes[i].id].version \in Nat
    BY <2>1 DEF TypeOK, Slot
  <2>3. i \notin Unserved
    BY <1>7, <2>1, <2>2 DEF SkipHeldVersion, ShouldPublish, Unserved
  <2>4. Owing' \subseteq Owing
    BY <1>7, <2>3 DEF SkipHeldVersion, Visited, Owing, Unserved, RemovedNow, store
  <2>5. /\ report'["failures"] >= report["failures"]
        /\ report'["unrecognised"] >= report["unrecognised"]
    BY <1>7 DEF SkipHeldVersion, Count, TypeOK, Counter
  <2>6. QED
    BY <1>2, <1>7, <2>4, <2>5, OwingShrinks DEF SkipHeldVersion
<1>8. ASSUME NEW i \in todo, ReadSlot(i)
      PROVE  SkipsInv'
  <2>1. Owing' = Owing
    BY <1>8 DEF ReadSlot, Owing, Unserved, RemovedNow, store
  <2>2. QED
    BY <1>8, <2>1, OwingSteady DEF ReadSlot
<1>9. ASSUME NEW i \in todo, UpsertSlot(i)
      PROVE  SkipsInv'
  <2>1. Owing' \subseteq Owing
    BY <1>9, UpsertOwing
  <2>2. /\ report'["failures"] >= report["failures"]
        /\ report'["unrecognised"] >= report["unrecognised"]
    BY <1>9 DEF UpsertSlot, Count, TypeOK, Counter
  <2>3. QED
    BY <1>2, <1>9, <2>1, <2>2, OwingShrinks DEF UpsertSlot
<1>10. CASE FinishPublishing
  <2>1. Owing' = Owing
    BY <1>10 DEF FinishPublishing, Owing, Unserved, RemovedNow, store
  <2>2. QED
    BY <1>10, <2>1, OwingSteady DEF FinishPublishing
<1>11. ASSUME NEW i \in todo, RemoveVenue(i)
       PROVE  SkipsInv'
  <2>1. RemovedNow(current.changes[i].id)
    BY <1>11 DEF RemoveVenue, RemovedNow, TypeOK
  <2>2. \A v \in Venue : v # current.changes[i].id => slots'[v] = slots[v]
    BY <1>11 DEF RemoveVenue, TypeOK
  <2>3. \A j \in Positions(current, "venue") : current.changes[j].id \in Venue
    BY <1>11, PositionFields, ChangeFields DEF RemoveVenue, TypeOK
  <2>4. Unserved' \subseteq Unserved
    BY <1>11, <2>1, <2>2, <2>3 DEF RemoveVenue, Unserved, RemovedNow
  <2>5. Owing' \subseteq Owing
    BY <1>11, <2>4 DEF RemoveVenue, Owing
  <2>6. /\ report'["failures"] >= report["failures"]
        /\ report'["unrecognised"] >= report["unrecognised"]
    BY <1>11 DEF RemoveVenue, Count, TypeOK, Counter
  <2>7. QED
    BY <1>2, <1>11, <2>5, <2>6, OwingShrinks DEF RemoveVenue
<1>12. ASSUME NEW i \in todo, RemoveChild(i)
       PROVE  SkipsInv'
  <2>1. Owing' = Owing
    BY <1>12 DEF RemoveChild, Owing, Unserved, RemovedNow
  <2>2. QED
    BY <1>12, <2>1, OwingSteady DEF RemoveChild
<1>13. CASE FinishRemoving
  <2>1. Owing' = Owing
    BY <1>13 DEF FinishRemoving, Owing, Unserved, RemovedNow, store
  <2>2. QED
    BY <1>13, <2>1, OwingSteady DEF FinishRemoving
<1>14. ASSUME NEW i \in todo, IndexChild(i)
       PROVE  SkipsInv'
  <2>1. Owing' = Owing
    BY <1>14 DEF IndexChild, Owing, Unserved, RemovedNow
  <2>2. /\ report'["failures"] >= report["failures"]
        /\ report'["unrecognised"] >= report["unrecognised"]
    BY <1>14 DEF IndexChild, Count, TypeOK, Counter
  <2>3. QED
    BY <1>2, <1>14, <2>1, <2>2, OwingShrinks DEF IndexChild
<1>15. CASE Commit
  BY <1>15 DEF Commit, SkipsInv
<1>16. CASE UNCHANGED <<phase, work, report>> /\ SameVersions
  <2>1. phase # "idle" => Unserved' = Unserved
    BY <1>16, SameUnserved DEF work
  <2>2. QED
    BY <1>16, <2>1 DEF SkipsInv, Owing, work
<1>17. ASSUME NEW p \in Pool, NEW t \in TickIndex, InstallTicks(p, t)
       PROVE  UNCHANGED <<phase, work, report>> /\ SameVersions
  BY <1>17, IdsAssumption DEF InstallTicks, SameVersions, TypeOK, Slot
<1>18. CASE UNCHANGED vars
  BY <1>16, <1>18 DEF vars, store, SameVersions
<1>19. QED
  BY <1>3, <1>4, <1>5, <1>6, <1>7, <1>8, <1>9, <1>10, <1>11, <1>12, <1>13, <1>14, <1>15,
     <1>16, <1>17, <1>18, ResolveSkipsInv DEF Next, Apply, VisitChange, LoadTicks

\* The report of a checkpoint accounts for every candidate it did not serve.
THEOREM SkipsAreCounted == Spec => []SkipsCounted
<1>1. Init => SkipsInv
  BY DEF Init, SkipsInv
<1>2. SkipsInv => SkipsCounted
  BY DEF SkipsInv, SkipsCounted, Owing
<1>3. QED
  BY <1>1, <1>2, StepSkipsInv, TypeCorrect, UpsertInvariant, PTL DEF Spec

=============================================================================
