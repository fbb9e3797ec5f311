# A TLA+ model of birdai-core-screen

This directory holds the specifications kept beside the code: what the program
promises, checked with TLC on small instances and, where it matters most,
proved with TLAPS for every value of the constants. All line numbers are those
of `src/`.

## The system

birdai keeps priced venue state (Cetus pools, Volo, Navi) current from the
checkpoints of the Sui chain, and quotes swaps from it.

| component | state | operations | talks to |
|---|---|---|---|
| state manager, `birdai-state/manager.rs` | slots per venue, child sets per inner UID, `child_owners`, counters, `last_applied` | `apply_checkpoint`, `set_ticks`, `install_ticks`, reads | asks the layout source; called by `follow` |
| layout cache, `birdai-resolve/layout.rs` | `PackageVersions`, cached layouts with the versions they depend on | `note_packages`, `layout`, `invalidate` | resolver, package store |
| package store, `birdai-resolve/store.rs` | bytecode with the version recorded at the fetch | `fetch` | object source |
| object source, `birdai-resolve/object.rs` | two endpoints | `object`, `objects`, `dynamic_fields`, `checkpoint` | the network |
| swap walk, `birdai-amm/swap.rs`, `checked.rs` | none across calls; price, liquidity, tick, input left inside one | `swap_exact_in` | a `TickSource` |
| tick index, `birdai-tick/index.rs` | nodes by tick and by score | `new`, `from_children`, `validate`, neighbours | swap walk, manager |
| tick price math, `birdai-amm/tick.rs` | none; the two ends of a search inside one | `sqrt_price_at_tick`, `tick_at_sqrt_price` | index validation, venue |
| tick loading, `bin/birdai/ticks.rs` | none; cursor, ids and nodes inside one load | page the fields, fetch the nodes | object source, index |
| venues, `birdai-venue` | none | gate by tag and layout shape, decode, quote, classify | manager, swap walk |
| move values, `birdai-move` | none; a driver per struct inside one decode | layout-driven decoding and printing | venues, tick index |
| fixtures, `birdai-resolve/fixture.rs` | six files of recorded objects | capture, save, load, replay | stands in for the object source |
| commands, `bin/birdai` | a session | `follow`, `classify`, `fetch`, `reproduce`, `calibrate`, `decode` | everything above |

How they meet. `follow` receives checkpoints from an ordered stream and calls
`apply_checkpoint` for each; that reports package versions to the layout cache,
asks it for one layout per distinct tag (an await), decodes on the blocking
pool (an await), then publishes slot by slot, processes removals, indexes
children and moves the watermark. Between checkpoints `follow` loads the ticks
of pools that have none and installs them. The manager's maps are concurrent
maps: readers and a tick loader may run beside `apply_checkpoint`, another
`apply_checkpoint` may not (manager.rs:316). The layout cache and the package
store share one `PackageVersions`; any number of tasks may be inside `layout`.

What is hard, and what makes each component right:

- **State manager.** Interleavings of the loader with a publish that reads a
  slot and upserts it later; duplicates, retries after a dead decode task,
  gaps; layouts that fail for some tags only; several changes of one object in
  one checkpoint, and lists processed one after the other rather than in
  transaction order. It is right if versions only grow, deleted venues are not
  served, children can be routed back to their sets, sets stay bounded, and
  nothing is skipped without being counted.
- **Caches.** Versions read before or after an await, fetches finishing out of
  order, evictions from one snapshot counted from another. They are right if
  nothing older than what was reported is passed off as current.
- **Swap walk.** Four roundings in two directions, coincidences of boundary,
  limit and reached price, foreign or stale boundaries, empty ranges. It is
  right if each step is priced with the liquidity of the range it moves
  through, the pool never pays for a move more than it earned, and no source
  can make it overrun its limit or loop.
- **Tick loading and index.** Listing pages and batches of reads, with a
  fallback to single reads, while positions open and close ticks; a validation
  that follows forward links only; loads that fail beside a loop that goes on.
  It is right if an accepted index misses no tick it could be asked about, and
  if every load ends and every quiet pool gets its ticks.
- **Tick price math.** A search with a fixed number of halvings and two ends
  that clamp. It is right if it answers the floor tick of every price.
- **Decoding.** Layouts drift with package upgrades, while the gate, the
  decoders and what a price needs are three lists kept by hand. It is right if
  whatever is typed was read wherever its price comes from.
- **Classification.** A verdict joins evidence of different strictness read at
  different places, some of which may be missing. It is right if what it calls
  price discovery traded the way the price moved.
- **Fixtures.** Six files replaced one by one, a process that may die between
  any two, another that may be loading. They are right if nothing torn is read
  and a replay serves what its capture recorded.

## Modules

| module | models |
|---|---|
| `VersionedView` | abstract: what readers of the manager are promised |
| `StateManager` | `apply_checkpoint` step by step, with the tick loader beside it |
| `ManagerCalls` | the two ways `StateManager` is called: ticks installed between checkpoints, or at any time |
| `Ingest` | `StateManager` fed by the checkpoints of a coherent chain, with retries and duplicates |
| `StateManagerProofs` | theorems about `StateManager` and `ManagerCalls` |
| `IngestProofs` | theorems about `Ingest` |
| `LayoutCache` | layout cache, package store and the versions they share |
| `LayoutCalls` | the two ways `LayoutCache` is called: from one task, or from tasks that race |
| `LayoutCacheProofs` | theorems about `LayoutCache` and `LayoutCalls` |
| `Swap` | `swap_exact_in` over a tick index, or over any source; the shortcut of a quote |
| `SwapProofs` | theorems about `Swap` |
| `TickIndex` | building, validating and looking up a tick index; no state of its own |
| `TickLoad` | one load of a pool's ticks, call by call, while the pool keeps trading |
| `Follow` | the follow loop, and the other commands' retried load, around `TickLoad` |
| `FollowProofs` | theorems about `Follow`, its loads and the indices they build |
| `TickMath` | the price of a tick and the search for the tick of a price |
| `TickMathProofs` | theorem about `TickMath` |
| `Decoding` | the venue gate and the layout-driven decoders |
| `Classify` | the price-discovery test |
| `Fixtures` | capture, save, load and replay of a fixture set |
| `FixturesProofs` | theorems about `Fixtures` |
| `Commands` | `Swap`, `TickMath`, `Decoding`, `Classify`, `Fixtures` as the commands run them |
| `CommandsProofs` | theorems about `Classify`, `Decoding` and `Commands` |
| `MC...` | constants for TLC, one module per specification; `MCTickMoments` adds a history |

What composes what: `Ingest` extends `StateManager` and instances
`VersionedView`; `Follow` extends `TickLoad`, which extends `TickIndex`;
`Commands` extends the five modules whose computations share no state, with a
variable that says which of them a behaviour is about; `ManagerCalls` and `LayoutCalls` extend
`StateManager` and `LayoutCache` with the choice between two kinds of caller.

### StateManager

`phase` says where the applier stands; each phase is the code between two
points at which another thread can act. `slots` keeps of a `VenueSlot` the
version and the ticks, the two fields publishing has to keep together.
`SkipDuplicate` and `CollectChanges` are lines 332-391 (nothing awaits in
them); `ResolveLayouts` fails any subset of the tags (393-430);
`DecodeObjects` gives each candidate an outcome, `DecodeAborts` is the `?` on
the join handle (471). Publishing is two steps, `ReadSlot` and `UpsertSlot`,
since a loader can come in between (477 and 512). The code sorts the changes
of a checkpoint into three lists; a list is the set of positions of its kind,
walked in increasing order. The counters an `UpdateReport` repeats are kept
twice, as in the code: `stats` for the manager, `report` for the call.

Simplifications: removing one id, and indexing one child, is one step although
the code touches two maps, because no other writer touches `children` or
`child_owners`; a Move object's type never changes and a field's parent is
fixed by its id, so `TagOf` and `ParentOf` are constants; the fingerprint
comparison at 504 only logs; `layouts_invalidated` (120) is never assigned.
A missing object (`missing`) is one the effects name and the object set lacks.

`Spec` is the documented contract: serial calls of `apply_checkpoint` with any
checkpoints, ticks installed at any time. `ManagerCalls` has behaviours of that
kind and, told apart by `serial`, behaviours that install ticks only between
calls, as `follow` does.

### Ingest

The chain executes changes into an open checkpoint; `Deliver` seals it and
hands it over, `Redeliver` hands the last one over again, after a failure or
as a duplicate. A deleted venue never comes back, a field may. The properties
compare the manager with the chain at the watermark, the only moment at which
they should agree.

### LayoutCache

A package's bytecode is a version, a layout the version of each package it was
resolved from. An upgrade of an ordinary package lives at a new address, so
only system packages (`InPlace`) change content. `fetch[t]` is a request on
its way: the answer is any version the package had while it was. Reading the
live versions of all dependencies (377-390) is one step, and so is the pair of
reads in `fetch` (92-95). `record_packages` is three steps: observe, count,
evict. `floor[t]` records what had been reported when the call began; only
properties read it.

`Spec` lets everything interleave. `SerialSpec` is `apply_checkpoint`'s use:
reports and lookups in one task. `LayoutCalls` has behaviours of either kind,
so that one run can ask of both. Its `reported` is the newest version any
report ever named, kept beside `observed`, which is what the code made of the
reports; only a property reads it.

### Swap

One behaviour is one call. `Scale` stands for 2^64 and fixes the widths:
`Max128 = Scale^2 - 1`, `Max256 = Scale^4 - 1`; each checked operation that can
fail is a guard, its failure an `Overflow`. One turn of the loop is one step,
with an action per exit: `MeetGap`, `OverflowReach`, `Stall`, `OverflowStep`,
`StepAndStop`, `StepAndCross`, `CrossTooMany`, `OverflowCrossing`. The source
is the pool's tick index (the neighbours of `birdai-tick`, strictly above and
strictly below the tick), or anything at all. A pool asked about over its own
index keeps the books a Cetus pool keeps: the tick is the floor of the price
among the prices the pool stores (`StoredTick`), the liquidity the sum of
`liquidity_net` up to it. An index has finitely many ticks (`TickAssumption`),
as a map in memory does. Pools that keep another tick, such as one whose price
rests on a boundary with the tick one less, are not among these starts; they are
among those of the source that answers anything.

A tick has two prices. `PriceAt` is what the pool stores, hence what boundaries
carry; `ComputedAt` is `sqrt_price_at_tick`, by which `stays_inside_current_range`
floors (`FloorTick`). Validation accepts a node whose two prices differ by less
than what separates neighbouring ticks, and the captured pools have such nodes
(src/README.md:241-246); `ComputedAssumption` says no more than that.

Two exits worth knowing of, both modelled as the code has them. Crossing into
a range without liquidity ends the quote with `ZeroLiquidity`, although ranges
with liquidity may lie beyond. Input left over that cannot move the price by
one unit ends it with `NoProgress`, although most of it may have been priced.

### TickIndex, TickLoad, Follow

A node is its key, tick, stored price and level-0 link. A pool's list on the
chain is a set of ticks; `NodeOf` is what the dynamic field of one of them
holds at a moment. A load is the code's calls one after the other: `ListPage`
(46-56 of ticks.rs), `FetchedTogether` or `BatchRefused` with single reads
(`SpawnReads`, `ReadFinished`; object.rs 311-383), `Build`. Between any two,
`OpenTick` and `CloseTick` change the list. `LossyListing` lets a listing skip
entries, as `dynamic_fields` does with those that have no field id. A failure
ends the load; `load_tick_index` starts it once more (`FailRetrying`), the
follow loop does not.

`Settle` is the environment's: a settled pool is no longer traded on and its
reads succeed. No step has to settle a pool. It is what the liveness property
is conditional on.

`Follow` reduces the manager to whether a pool is untracked, tracked, or
tracked with ticks (`slots`). `install_ticks` finds its slot, since only this
task changes slots. The order in which `manager.venues()` yields pools is left
open.

### TickMath

`PriceOf` multiplies the table's factors bit by bit and inverts for positive
ticks; the search is `Enter`, `Halve`, `Answered`, with `Clamp` at the ends.
Table, widths and grid are constants; what the search needs of the table, that
prices grow with the tick and the ends are the two named prices, is assumed,
as the tests of tick.rs claim it, and evaluated by TLC on the table of the run.

### Decoding

A layout is a sequence of named, typed fields for each struct. The decoders
are data: what each reads by name, with which visitor, and what it cannot do
without. The pass over an object is a stack of drivers, one per nested struct,
as `visitor.rs` has it. The layouts the decoders were written against and what
an upgrade may make of one (`Known`, `Drift`) are constants. A value is the path
it was read from, so that what a price needs can be stated as a set of paths. A
vector of the wrong element type
passes if it is empty, unless it is read as raw bytes, where the layout itself is
asked (visitor.rs:110).

### Classify

A signature is a sequence of arguments, each a reference mode, a type and its
type arguments; names matter only where they name a price feed. Transaction T
is external: a sequence of calls, each with what it does to price and
reserves, and the feed it reads, if any, which may be a module no heuristic
knows by name. The code is lenient with calls that were executed and strict with
the static scan, and both tests are modelled (`ObservedShape`,
`ScannedShape`).

### Fixtures

A capture keeps the transactions that touch the watched pool, the versions
their effects name as far as the checkpoint has them, and the types and
packages seen. Each file is written beside its place and renamed into it, in
the order of the code; `Crash` may come before any of these steps. A reader
loads the files in the same order at any time. The contents of a file are the
number of its capture: serialisation is not modelled, its interruption is.
A checkpoint is a sequence of transactions, each a set of changes. What a
capture keeps and what a replay serves are filtered sequences; `Only` is their
loop, written as a recursive function so that it can be reasoned about.

## Runs

| run | shows | bounds |
|---|---|---|
| `manager_any_order` | types, routing, bounded sets, counters, skips, monotone versions under `Spec`, with hand-made checkpoints in any order, any number of times; with ticks installed between calls, the manager implements `VersionedView` | one pool, one Navi storage, three fields, `ChildCapacity` 1, `MaxAborts` 1 |
| `ticks_lost_in_publish` | violation: a tick index installed between read and upsert is lost | the same |
| `ingest_follows_chain` | at the watermark the manager serves the chain's state; deleted venues are gone, live children indexed | `MaxSeq` 3, `MaxChanges` 2, `ChildCapacity` 2 |
| `ingest_dead_child_stays` | violation: a child written and deleted in one checkpoint stays | the same |
| `layout_cache_races` | store and misses stay fresh under all interleavings; lookups and what is cached stay fresh when serial | two tasks, two tags, one system package, versions up to 3, two lookups counted |
| `layout_stale_insert` | violation: a report during a resolve stamps an old layout as new | two lookups |
| `follow_loads_ticks` | no standing tick is missed, lookups agree, loads end, settled pools get their ticks | two pools of up to one and three ticks, pages of one, two pages, batches of two |
| `torn_tick_snapshot` | violation: an accepted index that was the list of no moment | one pool of up to three ticks, pages of two, nothing lost |
| `commands_compute` | roundings, ranges, fee, limits, bounded walk; floor ticks; drifted layouts; verdicts; captures | below |
| `swap_skips_current_tick` | violation: an initialised current tick is skipped when selling A | those of the swaps |
| `shortcut_misses_node` | violation: a move called inside the current tick crosses a node | those of the swaps |
| `fixture_fallback_without_bytecode` | violation: a layout not captured is not resolved from the captured packages | those of the fixtures |

Why the bounds are enough.

- The manager's interesting cases need one object written twice, one deletion,
  and a set that is full: the hand-made checkpoints hold each combination,
  among them a pool and its child created, deleted and re-created; capacity 1
  with three fields fills and empties a set.
- In `Ingest` three checkpoints of two changes hold create, update and delete
  of one object with a retry in between.
- `MaxLookups` counts lookups that got past their canonical tag; the second
  task is still resolving beside the one counted, and three in-place versions
  let two reports overtake one fetch. What the racing behaviours are checked
  for is stated package by package, so they look up a system package alone; the
  serial ones also have a pool's own package beside it.
- Swaps: prices 4 to 16 at scale 8 (square-root prices 1/2 to 2) over five
  ticks, liquidity up to 11 and inputs up to 40 reach every exit of the loop,
  two crossings and the third refused; pools have adjacent, nested and
  separate positions. One tick stores a price above the computed one, another
  below. Small scale makes rounding coarse, which is what the
  rounding properties want.
- Loads: one pool's list fits the page walk and the other's longest does not;
  fields are not listed in tick order; a batch of two can lose one of its
  objects; three ticks are what a skipped link needs.
- The grid of `TickMath` has fifteen ticks of ratio two, negative and positive,
  and every price from zero to beyond the highest is asked for; the steps
  allowed are exactly enough.
- `Decoding` changes one field of one struct of each kind of object: dropped,
  moved to the end, or given another type.
- `Classify` scans every package of two modules of one function out of eleven
  signatures, and runs every transaction of up to three of eight calls,
  two of which read a feed, one by a name the heuristic knows and one by a name
  it does not.
- `Fixtures` captures twice into one directory, each time with a node that
  answers everything or has lost the foreign pool's package and version; the
  two captures differ, so a set that mixes them is told from either.

`CHECK_DEADLOCK FALSE` stands where a behaviour ends: a swap returns, a
command stops, and the bounded numbers of lookups, checkpoints, aborts,
calls and captures run out.

Fairness. `Follow` alone states it: the steps of a load, the steps of the loop
between loads, and `ReceiveVenues` are weakly fair. The first two say that the
runtime polls the one task there is and that every call is answered, if with
an error; the third that some venue is written again and again, which is what
brings the loop round to a pool whose ticks failed to load (commands.rs 599).
Nothing is assumed of the chain beyond that: a pool may trade forever, its
reads may fail forever, the stream may end. `LoadsEnd` then rests on the caps
on pages and retries, `SettledPoolsLoaded` on the loop visiting every pool
without ticks after each checkpoint that updated a venue. The other
specifications have no fairness conjunct: in them every await may fail and
nothing retries by itself.

### What the violations are

1. **Ticks lost in a publish** (manager.rs:477, 512). `set_ticks` between the
   read and the upsert of a publish is overwritten by the ticks read before.
   `bin/birdai` never does this; the API allows it.
2. **A dead child stays** (manager.rs:540, 564). Removals come before
   indexing, so a field created and deleted in one checkpoint is inserted
   after its removal. `LaterDeadChildrenLeave` shows that this is the only way.
3. **A stale layout stamped fresh** (layout.rs:327). The versions are read
   after the await. The package store reads before it, and is right. The
   serial caller is not affected.
4. **The current tick skipped** (swap.rs:322). Selling A asks for a tick
   strictly below the current one, which may be initialised and below the
   price. `StepsInOneRange` shows that, for pools whose tick is the floor tick of
   their price, every other start is right.
5. **A torn snapshot accepted** (index.rs:328). Validation follows the links
   of the nodes it has. An index that lacks the first nodes of the list, or one
   with a tick opened after its predecessor was listed and a link that still
   leads on, closes although it was the list at no moment, so the retry of
   `load_tick_index` never starts. `StandingTicksIndexed` is what the link
   check does give: above its lowest tick, an accepted index has every tick
   that stood throughout.
6. **A fallback without bytecode** (fixture.rs:624). The resolver a replay
   falls back to reads packages from a source that serves only recorded
   objects; captured packages are kept elsewhere. `CapturedTyped` shows that a
   complete capture does not need the fallback.
7. **A node the shortcut does not see** (cetus.rs:163). `stays_inside_current_range`
   floors prices among computed tick prices, the walk stops at stored ones. A move
   up that ends at or above the stored price of the next tick's node, and below
   the computed one, is called inside its tick; the walk crosses that node, and
   input left over behind it may even end in `NoProgress`.
   `StaysExactOutsideGap` shows that, of the quotes that return, no other differs
   from the one step, and `InNodeGap` how narrow the gap is: the few units by
   which a node is low.

### Where a comment and the code part, and no run is needed

- swap.rs:196 calls the fee of a result "floored, proportional on truncation".
  What is floored is the refund (405-418), so the fee is the consumed share
  rounded up; `FeeProportional` states the code's rounding.
- swap.rs:274-275 names a third reason to stop early, "when the next boundary
  cannot be resolved". There is none: without a boundary the walk goes on to
  the limit, and stops for one of the two reasons in `InputSpent`.
- cetus.rs:166 says "at or above `self.tick`"; `next_grid_tick` answers a tick
  strictly above. `LookupsAgree` states what the code does.
- commands.rs:601-603 says ticks are loaded "on first sight" and a churning pool
  is not "retried forever"; the loop visits every pool without ticks after each
  checkpoint that updated a venue. `SettledPoolsLoaded` depends on it.
- venue.rs:203-204 says the required fields and the decoders "can never
  disagree"; for Navi the list is longer than what the decoder requires, which
  `DriftFailsClosed` makes an exception of.

## What is proved

`StateManagerProofs`, for any venues, pools, fields, capacity and checkpoints:

- `TypeCorrect`, by induction on its own.
- `OwnersRouted`, `ChildSetsOfTrackedPools`, `ChildIndexBounded`: one
  inductive invariant for the child index. A set is non-empty only at the inner
  UID of a tracked pool or, while children are indexed, of one in the list being
  walked; every held child has its owner entry. Distinct pools having distinct
  inner UIDs (`NodeUidAssumption`) is what makes removing one pool's set safe.
- `VersionsMonotone`: needs that between `ReadSlot` and `UpsertSlot` the held
  version does not change, i.e. the applier is the only one to write versions.
- `CountersAccount`: the set of tracked venues is finite because checkpoints
  are, and each created or removed slot changes its size by one.
- `SkipsAreCounted`: the positions not served, among those already visited,
  are at most the failures and unrecognised counted so far.
- `ManagerImplementsView`, of `ManagerCalls`: initial states map to initial
  states, each step of a serial caller to a step of the view or a stutter. The carried ticks equal the
  slot's between read and upsert, which holds since no loader runs there.

`IngestProofs`, for any venues, pools, fields and capacity, whatever the chain
does and however its checkpoints are repeated:

- `ManagerServesChain`, `RetiredVenuesGone`, `LiveChildrenHeld` and
  `LaterDeadChildrenGone` come from one inductive invariant (`IngestInv`). Each
  of the four speaks of the watermark, which most states are not at; so the
  invariant says, in every state, where the difference between manager and
  chain is: among the changes not sealed yet (`open`), or at a position the
  apply in hand has still to visit (`VenuesLeft`, `RemovalsLeft`,
  `ChildrenLeft`). A decode that dies puts every position back, which is why a
  retry loses nothing. `ChainInv` is the chain's own part: a venue is removed in
  the checkpoint that last writes it or a later one, no version is handed over
  that the chain has not reached, a live field that was removed is written
  again in the same checkpoint or the open one.
- Three facts of `StateManagerProofs` are used, for whatever checkpoint is
  handed over: `TypeOK`, `IndexInv` (a held child can be routed back) and
  `UpsertNewer` (what is upserted is newer than what it replaces).

`LayoutCacheProofs`, for any packages, names, tasks:

- `LayoutTypesCorrect`.
- `StoreFresh`: an entry's content is at least as new as its recorded version
  tells, since the version is read before the request is sent.
- `MissesResolveFresh`: everything a resolving task has fetched is at least as
  new as its `floor`; cached answers by `StoreFresh`, source answers because
  the chain had reached the floor before the call.
- `LookupsFresh`, for serial callers: while a task is inside a lookup nothing
  is reported, so versions read after the resolve are those before it.
  `SerialCallersFresh` is the same of `LayoutCalls`, as the run states it.
- `SerialCachesFresh`: between two reports no cached layout is older than any
  version ever reported. `observed` is the newest of all reports (`StepReported`,
  in whatever order they come); no report overlaps a lookup, so what a
  lookup inserts is as new as `observed`; and an eviction keeps only entries
  whose versions are (`EvictionLeavesFresh`).

`SwapProofs`, for any scale, fee denominator, tick index, pool and limit, and
any source:

- `TypeCorrect`, `LimitHolds`, `WalkIsBounded`, `InputIsSpent`,
  `MovesPaidFor`, `RoundTripsCost`, `FeeOfConsumedShare` and
  `PriceMovesForward` come from one inductive invariant (`IInv`). Its centre is
  `LandingFacts`: wherever a turn lands lies strictly or weakly ahead of the
  price, not past the limit, and costs no more than the input left.
- The cost is arithmetic: from what `next_sqrt_price_up` and `_down` round to,
  `UpPaid` and `DownPaid` bound the cost of any price short of the one reached;
  `UpBack` and `DownBack` undo a move and compare. `FeeShare` bounds the
  refund. They rest on four facts about a quotient rounded down or up.
- `WalkIsBounded` counts: while the walk goes on every step was a crossing, and
  a crossing is refused at `max_crossings`.

- `StepsStayInRange` and `LiquidityOfRange`, over the pool's own index, have a
  second invariant (`IndexInv`): the ticks the lookups can still answer
  (strictly beyond the stored tick) are those whose price lies ahead, and the
  liquidity is the sum of `liquidity_net` of those behind. Both speak of the
  price, while the code keeps a tick; they agree because a tick and the floor
  of a price are ordered as their prices are (`FloorAmongFacts`, for stored
  prices `StoredTickFacts`, for computed ones `FloorTickFacts`). A crossing
  moves one tick from ahead to behind, so one term joins the sum. It starts true for
  a pool that keeps its books, unless it starts on a tick when selling A: that
  is violation 4.
- `ShortcutExact`: where `stays_inside_current_range` says yes and the price
  reached is not in the gap of the node just above, no boundary lies between the
  price and what one step with the whole input reaches (`ShortInv`); so the
  walk is that one step. That stored and computed prices interleave is what
  keeps any boundary further off out of reach.

The sums are over finite sets, by a recursive function on their subsets. That
taking one tick out of a sum takes its term out, whichever tick `CHOOSE` would
have picked, is proved by a smallest counterexample (`FiniteSetTheorems` and
`WellFoundedInduction` give a smallest set among any sets that refute it).

The type invariant is also the claim that the checks made in the code suffice:
no unchecked subtraction or conversion of the walk leaves u128.

`FollowProofs`, for any pools, ticks, listing order, page and batch sizes:

- `StandingIndexed`. The inductive invariant says of every node read that its
  link skips no tick standing throughout: true when it is read, since the
  link leads to the next tick of the list, and kept since standing ticks only
  leave. If a standing tick above some indexed one were missing, the largest
  indexed tick below it would have a link, the link check would give it an
  indexed target, and that target would lie between the two.
- `LookupsRight`. An accepted index is a finite set of ticks with distinct
  keys, so its greatest at or below and its least above are the two neighbours
  of a tick, and the nearest is one of them (`Neighbours`, `NearestIsNearest`).
  The next grid tick is at most any grid tick above, negative ones included
  (`NextGridIsNext`), so it never skips one of the index.
- `LoadTypesCorrect`, with the facts about batches it needs: no batch exceeds
  its size, single reads are under way only in a refetch.

`TickMathProofs`, for any grid, factor table and price:

- `FloorFound`. While the search runs the price lies between its two ends, and
  the halvings left suffice for the range left (`Power` of them); so it
  ends on a range of one, whose lower end is the floor tick.

`CommandsProofs`, for any subjects, calls, amounts and layouts:

- `TradedVerdict`. The inductive invariant follows the price through the
  transaction: it went in no direction that no call moved it in, a single call
  is the whole change, and a verdict holds the price probe exactly when the
  change is endogenous. Two arguments give the trade. When every feed that was
  read is seen, an endogenous change read none, so a call that moved the price
  that way swapped. When one was not seen but no call added liquidity, the asset
  that came in was sold by some call, in the direction the probe compares with
  the price. What a call may do to price and reserves is
  `CallsAssumption`, since transactions are external.
- `ScanIsRight`. While the scan runs an entry has been found exactly if one of
  the modules behind it has a function of the shape (`ScanInv`); and for a
  function that borrows one venue, the shape the code tests, by counting and
  by legs, is an exchange of two assets (`ScanIsExchange`).
- `PricedWasRead`. The invariant (`TypingInv`) is about the stack of drivers:
  each has read every field behind it that its decoder knows, and what it has
  read is complete down to the scalars, or is being read by the driver above
  it (`StackOK`). A driver returns only at the end of its layout with all it
  requires read, and everything a price needs is required by some decoder on
  the way to it (`NeedsMet`). `DecodingTypesCorrect` follows too.
- `OneCommandRuns`: a behaviour of the binary is one of the part it runs; so
  `CommandsKeepPromises` has every property the run checks of the commands,
  for every value of the constants, and `CommandsTypesCorrect` the types of
  all parts (`AtWork`, the invariants of the parts side by side).

`FixturesProofs`, for any objects, types, checkpoints, answers of the node and
number of captures, with a crash between any two steps of a save:

- `NeverTorn`, `CaptureTypesItself`. The inductive invariant (`DirectoryInv`)
  says that every file in its place, and all that was loaded, is missing or of
  a capture made: a file is torn only beside its place, and whole when it is
  renamed. A capture is determined by what the node still had, so a set all of
  one capture has the layout of every type it can be asked for.
- `ReplayIsWhole`. From what `Only` returns for a sequence with one transaction
  more (`OnlyLaw`) follow the laws of what is kept and of what is replayed;
  a transaction that is not kept has no change of a watched pool, so leaving
  it out changes no replay (`KeptReplaysAll`, by a shortest counterexample).

What the proofs assume is only what the ASSUMEs of the modules state, and TLC
evaluates those on every run.

Every invariant and action property of the passing runs is proved. Only
model-checked are the two liveness properties, `LoadsEnd` and
`SettledPoolsLoaded`: liveness under fairness is out of this prover's reach.
So is induction with a predicate as parameter; where a fact is about a
sequence or a finite set of any size, the proofs take a smallest
counterexample instead. The properties of the violation runs are false, and
each has a proved neighbour that says what holds instead: serial installs
(`ManagerImplementsView`), later deletions (`LaterDeadChildrenGone`), serial
callers (`SerialCallersFresh`), every other start (`StepsStayInRange`), every
move that ends outside a node's gap (`ShortcutExact`), standing ticks
(`StandingIndexed`), complete captures (`CaptureTypesItself`).

## Not modelled

- Formatting, logging, and what `decode`, `reproduce`, `calibrate` and the
  summary of `follow` print: no state changes there. The swaps and ticks they
  compute with are those of `Swap` and `TickMath`.
- The printed dump and the text of tags in `birdai-move`, byte offsets, and
  the BCS, JSON and base64 encodings of fixtures: conversions of data without
  control.
- The fingerprint hash, which is only logged, and the fee-growth and reward
  fields of nodes and pools, which nothing computes with.
- A second endpoint that lags (object.rs:217): reads may fail, but none
  answers something older than the chain had when it was asked.
- The strict constructor of `Ticks`, which the program does not call.
- The factor table of `sqrt_price_at_tick`: its decomposition is modelled, the
  accuracy of its twenty constants is a matter of numerics.
- The vendored `third-party/allocative`.
