---------------------------- MODULE StateManager ----------------------------
(***************************************************************************)
(* The in-memory venue state of crates/birdai-state/src/manager.rs.        *)
(*                                                                         *)
(* One applier runs apply_checkpoint, whose await points and per-slot map  *)
(* operations are separate steps; a tick loader may install a tick index   *)
(* on a tracked pool while it runs.  A checkpoint is a sequence of object  *)
(* changes in transaction order.  The code walks it once and sorts the     *)
(* changes into three lists (candidates, removed, child_parents) that are  *)
(* processed one list after the other; here a list is the set of positions *)
(* of its kind, taken in increasing order.                                 *)
(***************************************************************************)
EXTENDS Naturals, Sequences, FiniteSets

CONSTANTS
  Venue,          \* ids of objects whose module::name is a venue's
  Pool,           \* those of them that are Cetus pools
  Tag,            \* canonical struct tags of venues
  TagOf,          \* the tag of each venue object (a Move object never changes type)
  Child,          \* ids of dynamic-field objects
  Uid,            \* ids dynamic fields hang off
  NodeUid,        \* the skip list's inner UID of each pool
  ParentOf,       \* the UID a field belongs to (a field's id is derived from it)
  ChildCapacity,  \* child_capacity
  TickIndex,      \* tick indices a loader may install
  NoTicks,        \* the slot's `ticks: None`
  NoOwner,        \* no entry in child_owners
  NoCheckpoint,   \* no checkpoint was ever applied
  Checkpoints,    \* the checkpoints apply_checkpoint may be called with
  MaxAborts       \* bound of the model: how often the decode task may die

Change ==
  [kind : {"venue"}, id : Venue, version : Nat \ {0}]
    \union [kind : {"child"}, id : Child]
    \union [kind : {"removed"}, id : Venue \union Child]
    \union [kind : {"missing"}]

Checkpoint == [seq : Nat, packages : Nat, changes : Seq(Change)]

ASSUME IdsAssumption ==
  /\ Pool \subseteq Venue
  /\ Venue \intersect Child = {}
  /\ TagOf \in [Venue -> Tag]
  /\ ParentOf \in [Child -> Uid]

\* Two pools never share a skip list.
ASSUME NodeUidAssumption ==
  /\ NodeUid \in [Pool -> Uid]
  /\ \A p, q \in Pool : NodeUid[p] = NodeUid[q] => p = q

ASSUME SentinelAssumption == NoTicks \notin TickIndex /\ NoOwner \notin Uid

ASSUME BoundAssumption == ChildCapacity \in Nat /\ MaxAborts \in Nat

ASSUME CheckpointsAssumption ==
  Checkpoints \subseteq Checkpoint /\ NoCheckpoint \notin Checkpoint

VARIABLES
  slots,        \* slots: VenueSlot per venue, version 0 when untracked
  children,     \* children: the ChildSet of each UID, empty when absent
  childOwners,  \* child_owners: the UID a kept child is routed back to
  stats,        \* the manager's atomic counters but checkpoints
  applied,      \* checkpoints: how many were applied
  lastApplied,  \* last_applied, meaningful once applied # 0
  phase,        \* where the applier stands in apply_checkpoint
  current,      \* the checkpoint being (or last) applied
  todo,         \* positions of current.changes the current phase still has to visit
  outcome,      \* decode result of each candidate position
  carried,      \* ticks read from the slot before the upsert
  report,       \* the UpdateReport under construction, or last returned
  aborts        \* decode tasks that died so far (bounded by MaxAborts)

progress == <<applied, lastApplied>>
store == <<slots, children, childOwners>>
work  == <<current, todo, outcome, carried>>
vars  == <<store, stats, progress, phase, work, report, aborts>>

Slot     == [version : Nat, ticks : TickIndex \union {NoTicks}]
NoSlot   == [version |-> 0, ticks |-> NoTicks]
Outcome  == {"venue", "unknown", "failed"}
Phases   == {"idle", "resolve", "decode", "publish", "upsert", "remove", "index"}

\* Counters of the manager that the report of one checkpoint repeats.  The
\* report's venues_updated is the sum of updated and created here.
Counter == {"created", "updated", "removed", "indexed", "dropped",
            "packages", "failures", "unrecognised"}
NoCounts == [f \in Counter |-> 0]

Tracked(v) == slots[v].version # 0

\* The positions of a checkpoint's changes of one kind: one of the three lists.
Positions(ck, kind) == {i \in 1 .. Len(ck.changes) : ck.changes[i].kind = kind}

\* The next element of the list being walked.
IsNext(i) == i \in todo /\ \A j \in todo : i <= j

\* Bump one counter of the manager and its twin in the report.
Count(field, n) ==
  /\ stats'  = [stats EXCEPT ![field] = @ + n]
  /\ report' = [report EXCEPT ![field] = @ + n]

Init ==
  /\ slots = [v \in Venue |-> NoSlot]
  /\ children = [u \in Uid |-> {}]
  /\ childOwners = [c \in Child |-> NoOwner]
  /\ stats = NoCounts
  /\ applied = 0
  /\ lastApplied = 0
  /\ phase = "idle"
  /\ current = NoCheckpoint
  /\ todo = {}
  /\ outcome = <<>>
  /\ carried = NoTicks
  /\ report = NoCounts
  /\ aborts = 0

-----------------------------------------------------------------------------
(* Entry: the duplicate guard, package observations, and the walk.         *)

\* A checkpoint at or below last_applied is a duplicate; 0 is no exception once applied.
IsDuplicate(ck) == applied # 0 /\ ck.seq <= lastApplied

SkipDuplicate(ck) ==
  /\ phase = "idle"
  /\ IsDuplicate(ck)
  /\ report' = NoCounts
  /\ UNCHANGED <<store, stats, progress, phase, work, aborts>>

\* Packages are noted, the changes sorted, and every object the effects name
\* but the object set lacks is a failure.  Nothing awaits in between.
CollectChanges(ck) ==
  LET missing == Cardinality(Positions(ck, "missing")) IN
  /\ phase = "idle"
  /\ ~ IsDuplicate(ck)
  /\ stats'  = [stats EXCEPT !["packages"] = @ + ck.packages, !["failures"] = @ + missing]
  /\ report' = [NoCounts EXCEPT !["packages"] = ck.packages, !["failures"] = missing]
  /\ current' = ck
  /\ todo' = Positions(ck, "venue")
  /\ phase' = "resolve"
  /\ UNCHANGED <<store, progress, outcome, carried, aborts>>

-----------------------------------------------------------------------------
(* Resolve each distinct tag, then decode on the blocking pool.            *)

\* Skipped objects are counted, not the tags that failed to resolve.
\* Mutant: one failure per tag.
SkippedTags(skipped) == Cardinality({TagOf[current.changes[i].id] : i \in skipped})
SkippedObjects(skipped) == Cardinality(skipped)

\* Any tag may fail to resolve; its objects are skipped and counted.
ResolveLayouts ==
  /\ phase = "resolve"
  /\ \E unresolved \in SUBSET {TagOf[current.changes[i].id] : i \in todo} :
       LET skipped == {i \in todo : TagOf[current.changes[i].id] \in unresolved} IN
       /\ todo' = todo \ skipped
       /\ Count("failures", SkippedObjects(skipped))
  /\ phase' = "decode"
  /\ UNCHANGED <<store, progress, current, outcome, carried, aborts>>

\* Decoding yields a venue, a name collision, or an error, per object.
DecodeObjects ==
  /\ phase = "decode"
  /\ outcome' \in [todo -> Outcome]
  /\ phase' = "publish"
  /\ UNCHANGED <<store, stats, progress, current, todo, carried, report, aborts>>

\* The decode task panics or is cancelled: `.await?` returns, nothing is published.
DecodeAborts ==
  /\ phase = "decode"
  /\ aborts < MaxAborts
  /\ aborts' = aborts + 1
  /\ todo' = {}
  /\ report' = NoCounts
  /\ phase' = "idle"
  /\ UNCHANGED <<store, stats, progress, current, outcome, carried>>

-----------------------------------------------------------------------------
(* Publish, one slot at a time: a read of the slot, then an upsert.        *)

Visited(i) == todo' = todo \ {i}

\* A collision counts as unrecognised, a decode error as a failure.
SkipUndecoded(i) ==
  /\ phase = "publish"
  /\ IsNext(i)
  /\ outcome[i] # "venue"
  /\ Count(IF outcome[i] = "unknown" THEN "unrecognised" ELSE "failures", 1)
  /\ Visited(i)
  /\ UNCHANGED <<store, progress, phase, current, outcome, carried, aborts>>

\* should_publish: None and newer publish, equal is a no-op, older is OutOfOrder.
\* Mutants: publish whatever arrives; insert only when the slot is vacant.
PublishAny(held, incoming) == TRUE
InsertIfVacant(held, incoming) == held = 0
ShouldPublish(held, incoming) == held = 0 \/ incoming > held

SkipHeldVersion(i) ==
  LET change == current.changes[i] IN
  /\ phase = "publish"
  /\ IsNext(i)
  /\ outcome[i] = "venue"
  /\ ~ ShouldPublish(slots[change.id].version, change.version)
  /\ IF change.version < slots[change.id].version
       THEN Count("failures", 1)
       ELSE UNCHANGED <<stats, report>>
  /\ Visited(i)
  /\ UNCHANGED <<store, progress, phase, current, outcome, carried, aborts>>

\* Tick nodes are loaded apart from the checkpoint walk, so the slot's index is kept.
\* Mutant: the published slot starts without ticks.
FreshTicks(id) == NoTicks
CarryOver(id) == slots[id].ticks

ReadSlot(i) ==
  LET change == current.changes[i] IN
  /\ phase = "publish"
  /\ IsNext(i)
  /\ outcome[i] = "venue"
  /\ ShouldPublish(slots[change.id].version, change.version)
  /\ carried' = CarryOver(change.id)
  /\ phase' = "upsert"
  /\ UNCHANGED <<store, stats, progress, current, todo, outcome, report, aborts>>

\* The new slot replaces the old one with the ticks that ReadSlot saw.
UpsertSlot(i) ==
  LET change == current.changes[i] IN
  /\ phase = "upsert"
  /\ IsNext(i)
  /\ slots' = [slots EXCEPT ![change.id] = [version |-> change.version, ticks |-> carried]]
  /\ Count(IF Tracked(change.id) THEN "updated" ELSE "created", 1)
  /\ Visited(i)
  /\ carried' = NoTicks
  /\ phase' = "publish"
  /\ UNCHANGED <<children, childOwners, progress, current, outcome, aborts>>

FinishPublishing ==
  /\ phase = "publish"
  /\ todo = {}
  /\ todo' = Positions(current, "removed")
  /\ outcome' = <<>>
  /\ phase' = "remove"
  /\ UNCHANGED <<store, stats, progress, current, carried, report, aborts>>

-----------------------------------------------------------------------------
(* Removals, then children, then the watermark.                            *)

\* slots.remove_sync found a slot.
\* Mutants: count a removal without looking; spare what this checkpoint wrote.
RemovesBlindly(id) == TRUE
RemovesUnlessWritten(id) ==
  /\ Tracked(id)
  /\ \A j \in Positions(current, "venue") : current.changes[j].id # id
Removes(id) == Tracked(id)

\* A removed pool takes its child set with it, found under the skip list's inner UID.
\* Mutant: the set is looked up under the pool's own id.
WithoutOwnId(id) == [u \in Uid |-> IF u = id THEN {} ELSE children[u]]
WithoutPool(id) == IF id \in Pool THEN [children EXCEPT ![NodeUid[id]] = {}] ELSE children

RemoveVenue(i) ==
  LET id == current.changes[i].id IN
  /\ phase = "remove"
  /\ IsNext(i)
  /\ id \in Venue
  /\ IF Removes(id)
       THEN /\ Count("removed", 1)
            /\ slots' = [slots EXCEPT ![id] = NoSlot]
            /\ children' = WithoutPool(id)
       ELSE UNCHANGED <<stats, report, slots, children>>
  /\ Visited(i)
  /\ UNCHANGED <<childOwners, progress, phase, current, outcome, carried, aborts>>

\* A removed child is routed back to its parent's set through child_owners.
\* Mutant: the owner entry goes, the set keeps the child.
StillHeld(id) == children
WithoutChild(id) ==
  IF childOwners[id] = NoOwner THEN children
                               ELSE [children EXCEPT ![childOwners[id]] = @ \ {id}]

RemoveChild(i) ==
  LET id == current.changes[i].id IN
  /\ phase = "remove"
  /\ IsNext(i)
  /\ id \in Child
  /\ childOwners' = [childOwners EXCEPT ![id] = NoOwner]
  /\ children' = WithoutChild(id)
  /\ Visited(i)
  /\ UNCHANGED <<slots, stats, progress, phase, current, outcome, carried, report, aborts>>

\* The inner UIDs of the Cetus pools tracked now.
\* Mutant: only of pools whose ticks have been loaded.
PricedWithTicks == {NodeUid[p] : p \in {q \in Pool : Tracked(q) /\ slots[q].ticks # NoTicks}}
Priced == {NodeUid[p] : p \in {q \in Pool : Tracked(q)}}

\* `priced` is computed once; children of any other parent are ignored.
FinishRemoving ==
  /\ phase = "remove"
  /\ todo = {}
  /\ todo' = {i \in Positions(current, "child") : ParentOf[current.changes[i].id] \in Priced}
  /\ phase' = "index"
  /\ UNCHANGED <<store, stats, progress, current, outcome, carried, report, aborts>>

\* ChildSet::insert keeps a known child whatever the size, a new one only below capacity.
\* Mutant: one child too many.
HasRoomForOneMore(uid) == Cardinality(children[uid]) <= ChildCapacity
HasRoom(uid) == Cardinality(children[uid]) < ChildCapacity

\* child_owners remembers the parent of a child the set kept.
\* Mutant: the field's own id is remembered.
RememberField(id, uid) == [childOwners EXCEPT ![id] = id]
Remember(id, uid) == [childOwners EXCEPT ![id] = uid]

IndexChild(i) ==
  LET id  == current.changes[i].id
      uid == ParentOf[id]
  IN
  /\ phase = "index"
  /\ IsNext(i)
  /\ \/ /\ id \in children[uid]
        /\ UNCHANGED <<children, childOwners, stats, report>>
     \/ /\ id \notin children[uid]
        /\ HasRoom(uid)
        /\ children' = [children EXCEPT ![uid] = @ \union {id}]
        /\ childOwners' = Remember(id, uid)
        /\ Count("indexed", 1)
     \/ /\ id \notin children[uid]
        /\ ~ HasRoom(uid)
        /\ Count("dropped", 1)
        /\ UNCHANGED <<children, childOwners>>
  /\ Visited(i)
  /\ UNCHANGED <<slots, progress, phase, current, outcome, carried, aborts>>

\* The commit counter and last_applied move last.
Commit ==
  /\ phase = "index"
  /\ todo = {}
  /\ applied' = applied + 1
  /\ lastApplied' = current.seq
  /\ phase' = "idle"
  /\ UNCHANGED <<store, stats, work, report, aborts>>

-----------------------------------------------------------------------------
(* The tick loader, and the specification.                                 *)

\* install_ticks on a tracked pool; on an untracked one it is an error and changes nothing.
InstallTicks(p, t) ==
  /\ Tracked(p)
  /\ slots' = [slots EXCEPT ![p].ticks = t]
  /\ UNCHANGED <<children, childOwners, stats, progress, phase, work, report, aborts>>

VisitChange ==
  \E i \in todo :
    \/ SkipUndecoded(i) \/ SkipHeldVersion(i) \/ ReadSlot(i) \/ UpsertSlot(i)
    \/ RemoveVenue(i) \/ RemoveChild(i) \/ IndexChild(i)

\* What the applier does once apply_checkpoint has been called.
Apply ==
  \/ ResolveLayouts \/ DecodeObjects \/ DecodeAborts
  \/ VisitChange
  \/ FinishPublishing \/ FinishRemoving \/ Commit

Call(ck) == SkipDuplicate(ck) \/ CollectChanges(ck)

LoadTicks == \E p \in Pool, t \in TickIndex : InstallTicks(p, t)

\* The contract of the API: apply_checkpoint is serial, everything else may run beside it.
Next == (\E ck \in Checkpoints : Call(ck)) \/ Apply \/ LoadTicks
Spec == Init /\ [][Next]_vars

\* The caller in bin/birdai loads ticks only between two checkpoints.
SerialNext ==
  \/ \E ck \in Checkpoints : Call(ck)
  \/ Apply
  \/ phase = "idle" /\ LoadTicks

-----------------------------------------------------------------------------
(* Properties.                                                             *)

\* Every variable has the shape the code gives it, in every phase.
TypeOK ==
  /\ slots \in [Venue -> Slot]
  /\ children \in [Uid -> SUBSET Child]
  /\ childOwners \in [Child -> Uid \union {NoOwner}]
  /\ stats \in [Counter -> Nat]
  /\ applied \in Nat
  /\ lastApplied \in Nat
  /\ phase \in Phases
  /\ current \in Checkpoint \union {NoCheckpoint}
  /\ phase # "idle" => current \in Checkpoint
  /\ todo \subseteq CASE phase = "idle"   -> {}
                      [] phase = "remove" -> Positions(current, "removed")
                      [] phase = "index"  -> Positions(current, "child")
                      [] OTHER            -> Positions(current, "venue")
  /\ carried \in TickIndex \union {NoTicks}
  /\ report \in [Counter -> Nat]
  /\ aborts \in Nat

\* A child a set holds can be routed back to it when the child is deleted
\* (child_owners, manager.rs:174): whatever deletions, re-creations and pool
\* removals came before, no held child has lost its owner entry.
OwnersRouteHeld == \A u \in Uid : \A c \in children[u] : childOwners[c] = u

\* Only the inner UIDs of tracked Cetus pools have a child set: one set
\* outliving its pool, or one busy unrelated parent, would grow without bound.
ChildSetsPriced == \A u \in Uid : children[u] # {} => u \in Priced

\* No child set outgrows child_capacity, however often its children come and go.
ChildSetsBounded == \A u \in Uid : Cardinality(children[u]) <= ChildCapacity

\* The counters of created and removed venues account for exactly the venues
\* tracked now, whatever was published twice, removed twice or aborted.
TrackedAccounted == stats.created = stats.removed + Cardinality({v \in Venue : Tracked(v)})

RemovedNow(v) == \E j \in Positions(current, "removed") : current.changes[j].id = v

Unserved ==
  {i \in Positions(current, "venue") :
     LET change == current.changes[i] IN
     /\ slots[change.id].version < change.version
     /\ ~ RemovedNow(change.id)}

\* No candidate is skipped in silence: once a checkpoint's slots are published,
\* each candidate is served at its version or a later one, was removed by the
\* same checkpoint, or is in the report as a failure or as unrecognised.
SkipsCounted ==
  phase \in {"remove", "index"} =>
    Cardinality(Unserved) <= report.failures + report.unrecognised

\* While a venue stays tracked its version never goes back (should_publish).
VersionMonotone ==
  [][\A v \in Venue : Tracked(v) /\ Tracked(v)' => slots[v].version <= slots'[v].version]_slots

\* Publishing a newer version of a tracked venue carries its tick index over
\* (manager.rs:502): no step changes version and ticks of a tracked venue at once.
PublishKeepsTicks ==
  [][\A v \in Venue :
       Tracked(v) /\ Tracked(v)' /\ slots[v].version # slots'[v].version
         => slots'[v].ticks = slots[v].ticks]_slots

\* The slots and the watermark, seen by a reader, are a versioned view.
View == INSTANCE VersionedView
          WITH view <- slots, watermark <- lastApplied

=============================================================================
