------------------------------ MODULE TickLoad ------------------------------
(***************************************************************************)
(* Reading a pool's tick skip list while the pool keeps trading:           *)
(* load_tick_nodes (bin/birdai/src/ticks.rs) over the gRPC object source   *)
(* (crates/birdai-resolve/src/object.rs), and the index built from what it *)
(* read.  The listing is paged and each batch of objects is a later call,  *)
(* so positions opened and closed in between change what the next call     *)
(* sees.  load_tick_index of commands.rs reads once more when the index    *)
(* was refused; the follow loop does not (RetriesLeft).                    *)
(*                                                                         *)
(* The chain is external: a pool's list is the set of its ticks, the       *)
(* level-0 link of a node leads to the next higher one, and a node's       *)
(* dynamic field has a fixed place in the listing order.                   *)
(***************************************************************************)
EXTENDS TickIndex

CONSTANTS
  Pool,              \* Cetus pools
  NoPool,            \* no load is under way
  TicksOf,           \* the ticks positions may open on each pool
  Spacing,           \* tick_spacing
  Place,             \* where a tick's dynamic field stands in the listing
  PageSize,          \* DYNAMIC_FIELD_PAGE_SIZE
  MaxPages,          \* MAX_PAGES
  FetchBatch,        \* FETCH_BATCH
  FetchConcurrency,  \* FETCH_CONCURRENCY
  LossyListing       \* whether a listing entry may come without its field id

Tick == UNION {TicksOf[p] : p \in Pool}

ASSUME PoolAssumption == NoPool \notin Pool

ASSUME TicksAssumption ==
  /\ TicksOf \in [Pool -> SUBSET Int]
  /\ Tick \subseteq DOMAIN GridPrice
  /\ \A t \in Tick : HasScore(t) /\ OnGrid({[index |-> t]}, Spacing)

\* Ticks are i32s, so any of them have a lowest and a highest.
ASSUME RangeAssumption ==
  \A S \in SUBSET Tick : S # {} =>
    /\ \E m \in S : \A t \in S : m <= t
    /\ \E m \in S : \A t \in S : t <= m

ASSUME PlaceAssumption ==
  Place \in [Tick -> Nat \ {0}] /\ \A t, u \in Tick : Place[t] = Place[u] => t = u

ASSUME SizesAssumption ==
  /\ PageSize \in Nat \ {0} /\ MaxPages \in Nat \ {0}
  /\ FetchBatch \in Nat \ {0} /\ FetchConcurrency \in Nat \ {0}
  /\ LossyListing \in BOOLEAN
  /\ Spacing \in Nat

VARIABLES
  list,      \* the chain: the initialised ticks of each pool now
  settled,   \* the pools nobody trades on any more, and whose reads succeed
  phase,     \* where the load stands
  target,    \* the pool being read
  cursor,    \* place of the last entry listed
  pages,     \* pages read
  wanted,    \* field_ids: listed and not fetched or given up
  chunk,     \* of them, the batch being refetched object by object
  inFlight,  \* of them, the single reads under way
  nodes,     \* nodes decoded so far
  retries,   \* fresh snapshots the caller will still ask for
  standing   \* history: the ticks that stood in the list ever since this snapshot began

chain == <<list, settled>>
read  == <<cursor, pages, wanted, chunk, inFlight, nodes>>
load  == <<phase, target, read, retries, standing>>
loadVars == <<chain, load>>

Reading == {"listing", "fetching", "refetching", "building"}
Phase == Reading \union {"idle", "loaded", "failed"}

Node ==
  [index : Tick, score : {Score(t) : t \in Tick}, sqrtPrice : {GridPrice[t] : t \in Tick},
   next : {Score(t) : t \in Tick} \union {NoLink}]

-----------------------------------------------------------------------------
\* The chain.

\* What the dynamic field of tick t of a list holds.
NodeOf(t, ticks) ==
  LET above == {u \in ticks : u > t}
  IN  [index |-> t, score |-> Score(t), sqrtPrice |-> GridPrice[t],
       next |-> IF above = {} THEN NoLink
                ELSE Score(CHOOSE u \in above : \A v \in above : u <= v)]

OpenTick(p, t) ==
  /\ p \notin settled
  /\ t \in TicksOf[p] \ list[p]
  /\ list' = [list EXCEPT ![p] = @ \union {t}]
  /\ UNCHANGED <<settled, load>>

CloseTick(p, t) ==
  /\ p \notin settled
  /\ t \in list[p]
  /\ list' = [list EXCEPT ![p] = @ \ {t}]
  /\ standing' = IF p = target THEN standing \ {t} ELSE standing
  /\ UNCHANGED <<settled, phase, target, read, retries>>

Settle(p) ==
  /\ settled' = settled \union {p}
  /\ UNCHANGED <<list, load>>

-----------------------------------------------------------------------------
\* Listing.

\* The first n of a set of ticks in listing order.
FirstOf(S, n) == {t \in S : Cardinality({u \in S : Place[u] < Place[t]}) < n}

LastPlace(S) == CHOOSE c \in {Place[t] : t \in S} : \A t \in S : Place[t] <= c

\* load_tick_nodes is called for pool p, by a caller that retries n times.
Begin(p, n) ==
  /\ phase' = "listing"
  /\ target' = p
  /\ cursor' = 0 /\ pages' = 0
  /\ wanted' = {} /\ chunk' = {} /\ inFlight' = {} /\ nodes' = {}
  /\ retries' = n
  /\ standing' = list[p]
  /\ UNCHANGED chain

\* Entries without a field id are skipped.
Named(entries) == IF LossyListing /\ target \notin settled THEN SUBSET entries ELSE {entries}

\* Mutant: the walk is cut one page too late.
WalksOneMore(kept, more) == kept = {} \/ ~more \/ pages = MaxPages

\* The walk ends on an empty page, on a page without a successor, or at the cap.
WalkEnds(kept, more) == kept = {} \/ ~more \/ pages + 1 = MaxPages

ListPage ==
  LET rest == {t \in list[target] : Place[t] > cursor}
      entries == FirstOf(rest, PageSize)
  IN
  /\ phase = "listing"
  /\ \E kept \in Named(entries) :
       /\ wanted' = wanted \union kept
       /\ IF WalkEnds(kept, entries # rest)
          THEN phase' = "fetching" /\ pages' = 0 /\ cursor' = 0
          ELSE phase' = phase /\ pages' = pages + 1 /\ cursor' = LastPlace(entries)
  /\ UNCHANGED <<chain, target, chunk, inFlight, nodes, retries, standing>>

-----------------------------------------------------------------------------
\* Fetching.

Batch == FirstOf(wanted, FetchBatch)

\* batch_get_objects answers with every object asked for, in order.
FetchedTogether ==
  /\ phase = "fetching"
  /\ wanted # {}
  /\ Batch \subseteq list[target]
  /\ nodes' = nodes \union {NodeOf(t, list[target]) : t \in Batch}
  /\ wanted' = wanted \ Batch
  /\ UNCHANGED <<chain, phase, target, cursor, pages, chunk, inFlight, retries, standing>>

\* It fails, or answers with fewer or other objects: one object that is gone is
\* enough.  Each object is then read on its own.
BatchRefused ==
  /\ phase = "fetching"
  /\ wanted # {}
  /\ target \in settled => ~(Batch \subseteq list[target])
  /\ phase' = "refetching"
  /\ chunk' = Batch
  /\ UNCHANGED <<chain, target, cursor, pages, wanted, inFlight, nodes, retries, standing>>

\* At most FetchConcurrency reads at once, and all answered before the next ones.
SpawnReads ==
  /\ phase = "refetching"
  /\ inFlight = {} /\ chunk # {}
  /\ inFlight' = FirstOf(chunk, FetchConcurrency)
  /\ chunk' = chunk \ inFlight'
  /\ UNCHANGED <<chain, phase, target, cursor, pages, wanted, nodes, retries, standing>>

\* Reads finish in any order; an object that is NotFound is left out.
ReadFinished(t) ==
  /\ phase = "refetching"
  /\ t \in inFlight
  /\ inFlight' = inFlight \ {t}
  /\ wanted' = wanted \ {t}
  /\ nodes' = IF t \in list[target] THEN nodes \union {NodeOf(t, list[target])} ELSE nodes
  /\ UNCHANGED <<chain, phase, target, cursor, pages, chunk, retries, standing>>

RefetchDone ==
  /\ phase = "refetching"
  /\ inFlight = {} /\ chunk = {}
  /\ phase' = "fetching"
  /\ UNCHANGED <<chain, target, read, retries, standing>>

AllFetched ==
  /\ phase = "fetching"
  /\ wanted = {}
  /\ phase' = "building"
  /\ UNCHANGED <<chain, target, read, retries, standing>>

-----------------------------------------------------------------------------
\* Building, and what a caller does with a failure.

\* Order does not matter to the index: validate sorts the nodes.
Accepted == FromChildren(nodes) /\ OnGrid(nodes, Spacing)

Build ==
  /\ phase = "building"
  /\ Accepted
  /\ phase' = "loaded"
  /\ UNCHANGED <<chain, target, read, retries, standing>>

\* A listing, a read, a layout or a decoding fails, or the index is refused.
Fails ==
  \/ phase = "building" /\ ~Accepted
  \/ phase \in Reading \ {"building"} /\ target \notin settled

\* Mutant: the retries are not counted.
RetriesUncounted == retries

RetriesLeft == retries - 1

FailRetrying == Fails /\ retries > 0 /\ Begin(target, RetriesLeft)

FailForGood ==
  /\ Fails
  /\ retries = 0
  /\ phase' = "failed"
  /\ UNCHANGED <<chain, target, read, retries, standing>>

LoadStep ==
  \/ ListPage \/ FetchedTogether \/ BatchRefused \/ SpawnReads
  \/ \E t \in Tick : ReadFinished(t)
  \/ RefetchDone \/ AllFetched \/ Build \/ FailRetrying \/ FailForGood

Churn ==
  \E p \in Pool : (\E t \in Tick : OpenTick(p, t) \/ CloseTick(p, t)) \/ Settle(p)

=============================================================================
