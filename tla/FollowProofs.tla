---------------------------- MODULE FollowProofs ----------------------------
(***************************************************************************)
(* What a loaded tick index is worth, for every set of pools, every        *)
(* listing order and all page and batch sizes: whatever was opened and     *)
(* closed while it was read and whatever was lost, no tick that stood      *)
(* throughout is missing above the index's lowest tick.                    *)
(*                                                                         *)
(* The inductive invariant says of every node read so far that its link    *)
(* skips no tick still standing: true when the node is read, because the   *)
(* link is to the next tick of the list and the standing ticks are in it,  *)
(* and kept because standing ticks only leave.  Validation then leaves no  *)
(* gap: the largest indexed tick below a missing standing tick would link  *)
(* to an indexed tick between the two.                                     *)
(***************************************************************************)
EXTENDS Follow, TLAPS, FiniteSetTheorems

\* Every tick is an integer with a key, and keys are never NoLink.
LEMMA TickFacts ==
  /\ Tick \subseteq Int
  /\ \A p \in Pool : TicksOf[p] \subseteq Tick
  /\ \A t \in Tick : Score(t) \in Nat /\ Score(t) # NoLink
  /\ \A t, u \in Tick : Score(t) = Score(u) => t = u
<1>1. Tick \subseteq Int /\ \A p \in Pool : TicksOf[p] \subseteq Tick
  BY TicksAssumption DEF Tick
<1>2. ASSUME NEW t \in Tick PROVE Score(t) \in Nat /\ Score(t) # NoLink
  <2>1. t \in Int /\ HasScore(t)
    BY <1>1, TicksAssumption
  <2>2. Score(t) \in Nat
    BY <2>1, BiasAssumption DEF HasScore, Score
  <2> QED BY <2>2, LinkAssumption
<1>3. ASSUME NEW t \in Tick, NEW u \in Tick, Score(t) = Score(u) PROVE t = u
  <2>1. t \in Int /\ u \in Int
    BY <1>1
  <2> QED BY <2>1, <1>3, BiasAssumption DEF Score
<1> QED BY <1>1, <1>2, <1>3

-----------------------------------------------------------------------------
\* The invariant.

\* A node is keyed by its tick, and its link skips none of the ticks of S.
SkipsNone(n, S) ==
  /\ n.index \in Tick
  /\ n.score = Score(n.index)
  /\ \A t \in S : t > n.index => \E u \in Tick : u <= t /\ n.next = Score(u)

ListTyped == list \in [Pool -> SUBSET Tick]

\* Ticks that stood throughout still stand.
StandingStands ==
  /\ standing \subseteq Tick
  /\ target \in Pool => standing \subseteq list[target]

TargetSet == phase # "idle" => target \in Pool

LinksSkipNone == \A n \in nodes : SkipsNone(n, standing)

LoadedAccepted == phase = "loaded" => Accepted

TodoPools == todo \subseteq Pool

LoadInv == ListTyped /\ StandingStands /\ TargetSet /\ LinksSkipNone /\ LoadedAccepted

IInv == LoadInv /\ TodoPools

-----------------------------------------------------------------------------
\* Nodes as they are read.

\* A node read off the list skips none of the list's ticks.
LEMMA NodeSkipsNone ==
  ASSUME NEW ticks \in SUBSET Tick, NEW t \in ticks
  PROVE  SkipsNone(NodeOf(t, ticks), ticks)
<1> DEFINE above == {u \in ticks : u > t}
<1>1. NodeOf(t, ticks).index = t /\ NodeOf(t, ticks).score = Score(t)
  BY DEF NodeOf
<1>2. ASSUME NEW v \in ticks, v > t
      PROVE  \E u \in Tick : u <= v /\ NodeOf(t, ticks).next = Score(u)
  <2>1. v \in above
    BY <1>2
  <2>2. \E u \in above : \A w \in above : u <= w
    BY <2>1, RangeAssumption, above \subseteq Tick
  <2>3. PICK u \in above : u = CHOOSE x \in above : \A w \in above : x <= w
    BY <2>2
  <2>4. \A w \in above : u <= w
    BY <2>2, <2>3
  <2>5. NodeOf(t, ticks).next = Score(u)
    BY <2>1, <2>3 DEF NodeOf
  <2> QED BY <2>1, <2>4, <2>5
<1> QED BY <1>1, <1>2 DEF SkipsNone

\* And still skips none once fewer ticks stand.
LEMMA FewerSkipped ==
  ASSUME NEW n, NEW S, NEW R \in SUBSET S, SkipsNone(n, S)
  PROVE  SkipsNone(n, R)
BY DEF SkipsNone

-----------------------------------------------------------------------------
\* The invariant.

\* Initially nothing is read, so the invariant holds.
THEOREM InitIInv == Init => IInv
BY DEF Init, NothingRead, IInv, LoadInv, TodoPools, ListTyped, StandingStands, TargetSet, LinksSkipNone,
       LoadedAccepted

\* Opening and closing ticks leaves what was read, and only takes from standing.
LEMMA ChurnKeeps == ASSUME LoadInv, Churn PROVE LoadInv'
<1>1. ASSUME NEW p \in Pool, NEW t \in Tick, OpenTick(p, t) PROVE LoadInv'
  <2>1. list[p] \subseteq list'[p] /\ \A q \in Pool : q # p => list'[q] = list[q]
    BY <1>1 DEF OpenTick, LoadInv, ListTyped
  <2>2. ListTyped'
    BY <1>1 DEF OpenTick, LoadInv, ListTyped
  <2>3. StandingStands'
    BY <1>1, <2>1 DEF OpenTick, load, LoadInv, StandingStands
  <2>4. (TargetSet /\ LinksSkipNone /\ LoadedAccepted)'
    BY <1>1 DEF OpenTick, load, read, LoadInv, TargetSet, LinksSkipNone, LoadedAccepted, Accepted
  <2> QED BY <2>2, <2>3, <2>4 DEF LoadInv
<1>2. ASSUME NEW p \in Pool, NEW t \in Tick, CloseTick(p, t) PROVE LoadInv'
  <2>1. standing' \subseteq standing
    BY <1>2 DEF CloseTick
  <2>2. ListTyped'
    BY <1>2 DEF CloseTick, LoadInv, ListTyped
  <2>3. StandingStands'
    <3>1. \A q \in Pool : list'[q] = IF q = p THEN list[q] \ {t} ELSE list[q]
      BY <1>2 DEF CloseTick, LoadInv, ListTyped
    <3> QED BY <1>2, <2>1, <3>1 DEF CloseTick, LoadInv, StandingStands
  <2>4. LinksSkipNone'
    BY <1>2, <2>1, FewerSkipped DEF CloseTick, read, LoadInv, LinksSkipNone
  <2>5. (TargetSet /\ LoadedAccepted)'
    BY <1>2 DEF CloseTick, read, LoadInv, TargetSet, LoadedAccepted, Accepted
  <2> QED BY <2>2, <2>3, <2>4, <2>5 DEF LoadInv
<1>3. ASSUME NEW p \in Pool, Settle(p) PROVE LoadInv'
  BY <1>3 DEF Settle, load, read, LoadInv, ListTyped, StandingStands, TargetSet, LinksSkipNone,
    LoadedAccepted, Accepted
<1> QED BY <1>1, <1>2, <1>3 DEF Churn

\* A load begins with nothing read, and everything listed standing.
LEMMA BeginKeeps == ASSUME LoadInv, NEW p \in Pool, NEW n, Begin(p, n) PROVE LoadInv'
<1>1. list[p] \subseteq Tick
  BY DEF LoadInv, ListTyped
<1> QED
  BY <1>1 DEF Begin, chain, LoadInv, ListTyped, StandingStands, TargetSet, LinksSkipNone,
    LoadedAccepted

\* A step that adds only nodes read off the list as it stands.
LEMMA NodesReadKeeps ==
  ASSUME LoadInv, NEW S \in SUBSET Tick, target \in Pool, S \subseteq list[target],
         nodes' = nodes \union {NodeOf(t, list[target]) : t \in S},
         phase' = phase, phase # "loaded", UNCHANGED <<chain, target, standing>>
  PROVE  LoadInv'
<1>1. list[target] \in SUBSET Tick /\ standing \subseteq list[target]
  BY DEF LoadInv, ListTyped, StandingStands
<1>2. \A t \in S : SkipsNone(NodeOf(t, list[target]), standing)
  BY <1>1, NodeSkipsNone, FewerSkipped
<1>3. LinksSkipNone'
  BY <1>2 DEF LoadInv, LinksSkipNone
<1> QED
  BY <1>3 DEF chain, LoadInv, ListTyped, StandingStands, TargetSet, LoadedAccepted

\* A step that reads nothing and does not finish the load.
LEMMA NothingReadKeeps ==
  ASSUME LoadInv, target \in Pool, phase' # "loaded", nodes' = nodes,
         UNCHANGED <<chain, target, standing>>
  PROVE  LoadInv'
BY DEF chain, LoadInv, ListTyped, StandingStands, TargetSet, LinksSkipNone, LoadedAccepted

\* Each step of a load keeps the invariant: nodes are added only as read off the list.
LEMMA LoadStepKeeps == ASSUME LoadInv, LoadStep PROVE LoadInv'
<1>1. CASE ListPage
  BY <1>1, NothingReadKeeps DEF ListPage, LoadInv, TargetSet
<1>2. CASE FetchedTogether
  <2>1. Batch \subseteq Tick /\ target \in Pool
    BY <1>2 DEF FetchedTogether, LoadInv, TargetSet, ListTyped
  <2> QED BY <1>2, <2>1, NodesReadKeeps DEF FetchedTogether, chain
<1>3. CASE BatchRefused
  BY <1>3, NothingReadKeeps DEF BatchRefused, LoadInv, TargetSet
<1>4. CASE SpawnReads
  BY <1>4, NothingReadKeeps DEF SpawnReads, LoadInv, TargetSet
<1>5. ASSUME NEW t \in Tick, ReadFinished(t) PROVE LoadInv'
  <2>1. target \in Pool
    BY <1>5 DEF ReadFinished, LoadInv, TargetSet
  <2>2. CASE t \in list[target]
    <3> DEFINE S == {t}
    <3>1. S \in SUBSET Tick /\ S \subseteq list[target]
      BY <2>2
    <3>2. nodes' = nodes \union {NodeOf(u, list[target]) : u \in S}
      BY <1>5, <2>2 DEF ReadFinished
    <3>3. phase' = phase /\ phase # "loaded" /\ UNCHANGED <<chain, target, standing>>
      BY <1>5 DEF ReadFinished, chain
    <3> HIDE DEF S
    <3> QED BY <2>1, <3>1, <3>2, <3>3, NodesReadKeeps
  <2>3. CASE t \notin list[target]
    BY <1>5, <2>1, <2>3, NothingReadKeeps DEF ReadFinished
  <2> QED BY <2>2, <2>3
<1>6. CASE RefetchDone
  BY <1>6, NothingReadKeeps DEF RefetchDone, read, LoadInv, TargetSet
<1>7. CASE AllFetched
  BY <1>7, NothingReadKeeps DEF AllFetched, read, LoadInv, TargetSet
<1>8. CASE Build
  BY <1>8 DEF Build, chain, read, LoadInv, ListTyped, StandingStands, TargetSet, LinksSkipNone,
    LoadedAccepted, Accepted
<1>9. CASE FailRetrying
  <2>1. target \in Pool
    BY <1>9 DEF FailRetrying, Fails, Reading, LoadInv, TargetSet
  <2> QED BY <1>9, <2>1, BeginKeeps DEF FailRetrying
<1>10. CASE FailForGood
  <2>1. target \in Pool
    BY <1>10 DEF FailForGood, Fails, Reading, LoadInv, TargetSet
  <2> QED BY <1>10, <2>1, NothingReadKeeps DEF FailForGood, read
<1> QED
  BY <1>1, <1>2, <1>3, <1>4, <1>5, <1>6, <1>7, <1>8, <1>9, <1>10 DEF LoadStep

\* When a load is over nothing of it is left.
LEMMA ForgetKeeps == ASSUME LoadInv, Forget PROVE LoadInv'
BY PoolAssumption DEF Forget, chain, LoadInv, ListTyped, StandingStands, TargetSet,
  LinksSkipNone, LoadedAccepted

\* So does a step that leaves the load alone.
LEMMA SameLoadKeeps == ASSUME LoadInv, UNCHANGED loadVars PROVE LoadInv'
BY DEF loadVars, chain, load, read, LoadInv, ListTyped, StandingStands, TargetSet,
  LinksSkipNone, LoadedAccepted, Accepted

\* Every step of the specification keeps the invariant.
THEOREM StepIInv == IInv /\ [Next]_vars => IInv'
<1> SUFFICES ASSUME IInv, [Next]_vars PROVE IInv'
  OBVIOUS
<1>1. LoadInv /\ TodoPools
  BY DEF IInv
<1>2. CASE UNCHANGED vars
  BY <1>1, <1>2, SameLoadKeeps DEF vars, followVars, TodoPools, IInv
<1>3. CASE LoadStep /\ UNCHANGED followVars
  BY <1>1, <1>3, LoadStepKeeps DEF followVars, TodoPools, IInv
<1>4. CASE Churn /\ UNCHANGED followVars
  BY <1>1, <1>4, ChurnKeeps DEF followVars, TodoPools, IInv
<1>5. CASE ReceiveVenues
  BY <1>1, <1>5, SameLoadKeeps DEF ReceiveVenues, WithoutTicks, TodoPools, IInv
<1>6. CASE ReceiveOther \/ StreamEnds \/ Visited
  BY <1>1, <1>6, SameLoadKeeps DEF ReceiveOther, StreamEnds, Visited, TodoPools, IInv
<1>7. CASE LoadNext
  <2>1. PICK p \in todo : Begin(p, 0)
    BY <1>7 DEF LoadNext
  <2>2. LoadInv'
    BY <1>1, <2>1, BeginKeeps DEF TodoPools
  <2> QED BY <1>1, <1>7, <2>2 DEF LoadNext, followVars, TodoPools, IInv
<1>8. CASE QuoteBegins
  BY <1>1, <1>8, BeginKeeps DEF QuoteBegins, TodoPools, IInv
<1>9. CASE Installed \/ NotInstalled \/ QuoteEnds
  BY <1>1, <1>9, ForgetKeeps DEF Installed, NotInstalled, QuoteEnds, TodoPools, IInv
<1> QED
  BY <1>2, <1>3, <1>4, <1>5, <1>6, <1>7, <1>8, <1>9 DEF Next, LoopStep

-----------------------------------------------------------------------------
\* The theorem.

\* What validation makes of links that skip nothing: no gap.
LEMMA NoGap ==
  ASSUME LoadInv, phase = "loaded", NEW t \in standing, NEW n \in nodes, n.index < t
  PROVE  \E m \in nodes : m.index = t
<1> SUFFICES ASSUME \A m \in nodes : m.index # t PROVE FALSE
  OBVIOUS
<1> DEFINE below == {u \in Tick : u < t /\ \E m \in nodes : m.index = u}
<1>1. \A m \in nodes : SkipsNone(m, standing)
  BY DEF LoadInv, LinksSkipNone
<1>2. n.index \in below
  BY <1>1 DEF SkipsNone
<1>3. PICK u \in below : \A v \in below : v <= u
  BY <1>2, RangeAssumption, below \subseteq Tick
<1>4. PICK m \in nodes : m.index = u
  BY <1>3
<1>5. PICK w \in Tick : w <= t /\ m.next = Score(w)
  BY <1>1, <1>3, <1>4 DEF SkipsNone
<1>6. m.next # NoLink
  BY <1>5, TickFacts
<1>7. PICK k \in nodes : k.score = m.next /\ k.index > m.index
  BY <1>6 DEF LoadInv, LoadedAccepted, Accepted, FromChildren, Validates, LinkAhead
<1>8. k.index = w
  <2>1. k.index \in Tick /\ k.score = Score(k.index)
    BY <1>1, <1>7 DEF SkipsNone
  <2>2. Score(k.index) = Score(w)
    BY <1>5, <1>7, <2>1
  <2> QED BY <2>1, <2>2, TickFacts
<1>9. k.index # t /\ k.index \in Int /\ t \in Int /\ u \in Int
  BY <1>8, TickFacts DEF LoadInv, StandingStands
<1>10. k.index \in below
  BY <1>5, <1>8, <1>9
<1> QED BY <1>3, <1>4, <1>7, <1>9, <1>10

\* Every accepted index has all the ticks that stood in the list while it was
\* read and lie above its lowest tick, whatever else changed or was lost.
THEOREM StandingIndexed == Spec => []StandingTicksIndexed
<1>1. IInv => StandingTicksIndexed
  BY NoGap DEF StandingTicksIndexed, IInv
<1> QED BY <1>1, InitIInv, StepIInv, PTL DEF Spec


-----------------------------------------------------------------------------
\* Type correctness.

\* A non-empty finite set of numbers has a largest: take the smallest of its
\* non-empty subsets that have none, and leave one element out.
LEMMA FiniteMax ==
  ASSUME NEW T \in SUBSET Nat, IsFiniteSet(T), T # {}
  PROVE  \E m \in T : \A k \in T : k <= m
<1> DEFINE Topless == {U \in SUBSET T : U # {} /\ \A m \in U : \E k \in U : ~ (k <= m)}
<1>1. SUFFICES ASSUME Topless # {} PROVE FALSE
  OBVIOUS
<1>2. Topless \subseteq FiniteSubsetsOf(T)
  BY FS_Subset DEF FiniteSubsetsOf
<1>3. PICK U \in Topless : \A V \in Topless : ~ (<<V, U>> \in StrictSubsetOrdering(T))
  <2> HIDE DEF Topless
  <2> QED BY <1>1, <1>2, FS_StrictSubsetOrderingWellFounded, WFMin
<1>4. PICK x \in U : TRUE
  OBVIOUS
<1> DEFINE V == U \ {x}
<1>5. V \notin Topless
  <2>1. <<V, U>> \in StrictSubsetOrdering(T)
    BY <1>4 DEF StrictSubsetOrdering
  <2> QED BY <1>3, <2>1
<1>6. CASE V = {}
  <2>1. x \in Nat /\ \A k \in U : k = x
    BY <1>6
  <2> QED BY <2>1
<1>7. CASE V # {}
  <2>1. PICK m \in V : \A k \in V : k <= m
    BY <1>5, <1>7
  <2>2. x \in Nat /\ m \in Nat
    OBVIOUS
  <2>3. \A k \in U : k = x \/ k <= m
    BY <2>1
  <2>4. CASE x <= m
    <3>1. \A k \in U : k <= m
      BY <2>3, <2>4
    <3> QED BY <3>1
  <2>5. CASE m <= x
    <3>1. \A k \in U : k <= x
      <4> TAKE k \in U
      <4>1. k \in Nat
        OBVIOUS
      <4> QED BY <2>2, <2>3, <2>5, <4>1
    <3> QED BY <3>1
  <2> QED BY <2>2, <2>4, <2>5
<1> QED BY <1>6, <1>7

\* Ticks are as many as integers between the lowest and the highest.
LEMMA TicksFinite ==
  ASSUME NEW S \in SUBSET Tick
  PROVE  IsFiniteSet(S)
<1>1. CASE Tick = {}
  BY <1>1, FS_EmptySet
<1>2. CASE Tick # {}
  <2>1. PICK low \in Tick, high \in Tick : \A t \in Tick : low <= t /\ t <= high
    BY <1>2, RangeAssumption
  <2>2. IsFiniteSet(low .. high)
    BY <2>1, TickFacts, FS_Interval
  <2>3. S \subseteq low .. high
    BY <2>1, TickFacts
  <2> QED BY <2>2, <2>3, FS_Subset
<1> QED BY <1>1, <1>2

\* A page that lists anything has a last place.
LEMMA LastPlaceIsNat ==
  ASSUME NEW S \in SUBSET Tick, S # {}
  PROVE  LastPlace(S) \in Nat
<1> DEFINE Places == {Place[t] : t \in S}
           f == [t \in S |-> Place[t]]
<1>1. Places \in SUBSET Nat /\ Places # {}
  BY PlaceAssumption
<1>2. f \in Surjection(S, Places)
  BY DEF Surjection
<1>3. IsFiniteSet(Places)
  BY <1>2, TicksFinite, FS_Surjection
<1>4. \E m \in Places : \A k \in Places : k <= m
  <2> HIDE DEF Places
  <2> QED BY <1>1, <1>3, FiniteMax
<1>5. \E c \in Places : \A t \in S : Place[t] <= c
  BY <1>4
<1> QED BY <1>1, <1>5 DEF LastPlace

\* What is read off a list is a node.
LEMMA NodeTyped ==
  ASSUME NEW ticks \in SUBSET Tick, NEW t \in ticks
  PROVE  NodeOf(t, ticks) \in Node
<1> DEFINE above == {u \in ticks : u > t}
           next == IF above = {} THEN NoLink
                   ELSE Score(CHOOSE u \in above : \A v \in above : u <= v)
<1>1. above # {} => (CHOOSE u \in above : \A v \in above : u <= v) \in above
  BY RangeAssumption, above \subseteq Tick
<1>2. next \in {Score(u) : u \in Tick} \union {NoLink}
  BY <1>1
<1>3. NodeOf(t, ticks) = [index |-> t, score |-> Score(t), sqrtPrice |-> GridPrice[t],
                          next |-> next]
  BY DEF NodeOf
<1> HIDE DEF next
<1> QED BY <1>2, <1>3 DEF Node

\* The part of the types that is the load's: single reads are under way only
\* while a refused batch is refetched, each of them once.
LoadTyped ==
  /\ phase \in Phase /\ target \in Pool \union {NoPool}
  /\ cursor \in Nat /\ pages \in 0 .. MaxPages - 1
  /\ wanted \subseteq Tick /\ chunk \subseteq wanted /\ inFlight \subseteq wanted
  /\ chunk \intersect inFlight = {}
  /\ phase \in {"listing", "fetching", "building"} => chunk = {} /\ inFlight = {}
  /\ nodes \subseteq Node
  /\ retries \in {0, 1} /\ standing \subseteq Tick

\* A load begins with nothing read.
LEMMA BeginTyped ==
  ASSUME ListTyped, NEW p \in Pool, NEW n \in {0, 1}, Begin(p, n)
  PROVE  LoadTyped'
BY SizesAssumption DEF Begin, ListTyped, LoadTyped, Phase, Reading

\* Every step of a load keeps its types.
LEMMA LoadStepTyped ==
  ASSUME LoadTyped, LoadInv, LoadStep
  PROVE  LoadTyped'
<1> USE DEF LoadTyped, Phase, Reading
<1>0. phase # "idle" => target \in Pool /\ list[target] \in SUBSET Tick
  BY DEF LoadInv, TargetSet, ListTyped
<1>1. CASE ListPage
  <2> DEFINE rest == {t \in list[target] : Place[t] > cursor}
             entries == FirstOf(rest, PageSize)
  <2>1. PICK kept \in Named(entries) :
          /\ wanted' = wanted \union kept
          /\ IF WalkEnds(kept, entries # rest)
             THEN phase' = "fetching" /\ pages' = 0 /\ cursor' = 0
             ELSE phase' = phase /\ pages' = pages + 1 /\ cursor' = LastPlace(entries)
    BY <1>1 DEF ListPage
  <2>2. phase = "listing" /\ UNCHANGED <<chain, target, chunk, inFlight, nodes, retries, standing>>
    BY <1>1 DEF ListPage
  <2>3. entries \subseteq Tick
    BY <1>0, <2>2 DEF FirstOf
  <2>4. kept \subseteq entries
    BY DEF Named
  <2> HIDE DEF entries, rest
  <2>5. CASE WalkEnds(kept, entries # rest)
    BY <2>1, <2>2, <2>3, <2>4, <2>5, SizesAssumption
  <2>6. CASE ~ WalkEnds(kept, entries # rest)
    <3>1. kept # {} /\ pages + 1 # MaxPages
      BY <2>6 DEF WalkEnds
    <3>2. cursor' \in Nat
      BY <2>1, <2>3, <2>4, <2>6, <3>1, LastPlaceIsNat
    <3>3. pages' \in 0 .. MaxPages - 1
      BY <2>1, <2>6, <3>1, SizesAssumption
    <3> QED BY <2>1, <2>2, <2>3, <2>4, <2>6, <3>2, <3>3
  <2> QED BY <2>5, <2>6
<1>2. CASE FetchedTogether
  <2>1. \A t \in Batch : NodeOf(t, list[target]) \in Node
    BY <1>0, <1>2, NodeTyped DEF FetchedTogether
  <2>2. phase = "fetching"
    BY <1>2 DEF FetchedTogether
  <2> QED BY <1>2, <2>1, <2>2 DEF FetchedTogether
<1>3. CASE BatchRefused
  BY <1>3 DEF BatchRefused, Batch, FirstOf
<1>4. CASE SpawnReads
  BY <1>4 DEF SpawnReads, FirstOf
<1>5. ASSUME NEW t \in Tick, ReadFinished(t) PROVE LoadTyped'
  <2>1. t \in list[target] => NodeOf(t, list[target]) \in Node
    BY <1>0, <1>5, NodeTyped DEF ReadFinished
  <2> QED BY <1>5, <2>1 DEF ReadFinished
<1>6. CASE RefetchDone \/ AllFetched \/ Build \/ FailForGood
  BY <1>6 DEF RefetchDone, AllFetched, Build, FailForGood, read
<1>7. CASE FailRetrying
  <2>1. target \in Pool /\ RetriesLeft \in {0, 1}
    BY <1>0, <1>7 DEF FailRetrying, Fails, RetriesLeft
  <2> QED BY <1>7, <2>1, BeginTyped DEF FailRetrying, LoadInv
<1> QED BY <1>1, <1>2, <1>3, <1>4, <1>5, <1>6, <1>7 DEF LoadStep

\* The rest of the types.
CommandTyped ==
  /\ command \in Command /\ step \in {"receiving", "loading", "stopped"}
  /\ slots \in [Pool -> SlotState] /\ settled \subseteq Pool

TypedInv == IInv /\ LoadTyped /\ CommandTyped

\* A step that leaves the load alone, or ends it, keeps its types.
LEMMA IdleTyped ==
  ASSUME LoadTyped, UNCHANGED loadVars \/ Forget
  PROVE  LoadTyped'
BY SizesAssumption DEF LoadTyped, loadVars, chain, load, read, Forget, Phase, Reading

\* So does what the chain does.
LEMMA ChurnTyped ==
  ASSUME LoadTyped, CommandTyped, Churn, UNCHANGED followVars
  PROVE  LoadTyped' /\ CommandTyped'
<1>1. /\ UNCHANGED <<phase, target, read, retries>> /\ standing' \subseteq standing
      /\ settled' \subseteq Pool
  BY DEF Churn, OpenTick, CloseTick, Settle, load, CommandTyped
<1> QED BY <1>1 DEF LoadTyped, CommandTyped, read, followVars

\* Every step keeps the types.
LEMMA StepTyped == TypedInv /\ [Next]_vars => TypedInv'
<1> SUFFICES ASSUME TypedInv, [Next]_vars PROVE LoadTyped' /\ CommandTyped'
  BY StepIInv DEF TypedInv
<1>1. LoadTyped /\ CommandTyped /\ LoadInv /\ todo \subseteq Pool /\ ListTyped
  BY DEF TypedInv, IInv, TodoPools, LoadInv
<1>2. ASSUME UNCHANGED followVars, settled' = settled PROVE CommandTyped'
  BY <1>1, <1>2 DEF followVars, CommandTyped
<1>3. CASE UNCHANGED vars
  BY <1>1, <1>2, <1>3, IdleTyped DEF vars, loadVars, chain
<1>4. CASE LoadStep /\ UNCHANGED followVars
  <2>1. settled' = settled
    BY <1>4 DEF LoadStep, ListPage, FetchedTogether, BatchRefused, SpawnReads, ReadFinished,
                RefetchDone, AllFetched, Build, FailRetrying, FailForGood, Begin, chain
  <2> QED BY <1>1, <1>2, <1>4, <2>1, LoadStepTyped
<1>5. CASE Churn /\ UNCHANGED followVars
  BY <1>1, <1>5, ChurnTyped
<1>6. CASE ReceiveVenues \/ ReceiveOther
  <2>1. \A written, gone \in SUBSET Pool : AfterCheckpoint(written, gone) \in [Pool -> SlotState]
    BY <1>1 DEF CommandTyped, AfterCheckpoint, SlotState
  <2>2. slots' \in [Pool -> SlotState]
    BY <1>6, <2>1 DEF ReceiveVenues, ReceiveOther
  <2>3. UNCHANGED loadVars /\ command' = command
        /\ step' \in {"receiving", "loading", "stopped"}
    BY <1>1, <1>6 DEF ReceiveVenues, ReceiveOther, CommandTyped
  <2> QED BY <1>1, <2>2, <2>3, IdleTyped DEF CommandTyped, loadVars, chain
<1>7. CASE StreamEnds \/ Visited
  BY <1>1, <1>7, IdleTyped DEF StreamEnds, Visited, CommandTyped, loadVars, chain
<1>8. CASE LoadNext
  <2>1. PICK p \in Pool : Begin(p, 0)
    BY <1>1, <1>8 DEF LoadNext
  <2> QED BY <1>1, <1>2, <1>8, <2>1, BeginTyped DEF LoadNext, Begin, chain
<1>9. CASE QuoteBegins
  <2>1. PICK p \in Pool : Begin(p, 1)
    BY <1>9 DEF QuoteBegins
  <2>2. LoadTyped' /\ settled' = settled
    BY <1>1, <2>1, BeginTyped DEF Begin, chain
  <2> QED BY <1>1, <1>9, <2>2 DEF QuoteBegins, CommandTyped
<1>10. CASE Installed \/ NotInstalled \/ QuoteEnds
  <2>1. Forget
    BY <1>10 DEF Installed, NotInstalled, QuoteEnds
  <2>2. slots' \in [Pool -> SlotState]
    BY <1>1, <1>10 DEF Installed, NotInstalled, QuoteEnds, CommandTyped, SlotState
  <2>3. command' = command /\ step' \in {"receiving", "loading", "stopped"} /\ settled' = settled
    BY <1>1, <1>10, <2>1
       DEF Installed, NotInstalled, QuoteEnds, CommandTyped, Forget, chain
  <2> QED BY <1>1, <2>1, <2>2, <2>3, IdleTyped DEF CommandTyped
<1> QED BY <1>3, <1>4, <1>5, <1>6, <1>7, <1>8, <1>9, <1>10 DEF Next, LoopStep

\* The types hold in every behaviour.
LEMMA TypedInvariant == Spec => []TypedInv
<1>1. Init => TypedInv
  <2> SUFFICES ASSUME Init PROVE LoadTyped /\ CommandTyped
    BY InitIInv DEF TypedInv
  <2> QED BY SizesAssumption DEF Init, NothingRead, LoadTyped, CommandTyped, Phase, SlotState
<1> QED BY <1>1, StepTyped, PTL DEF Spec

\* A load reads at most MAX_PAGES pages (ticks.rs 46-56), fetches only what it
\* listed, and is retried at most once (commands.rs 152-169), in any behaviour.
THEOREM LoadTypesCorrect == Spec => []TypeOK
<1>1. TypedInv => TypeOK
  BY DEF TypedInv, IInv, TodoPools, LoadInv, ListTyped, LoadTyped, CommandTyped, TypeOK
<1> QED BY <1>1, TypedInvariant, PTL

-----------------------------------------------------------------------------
\* Lookups.

\* The nodes read, and the two neighbours of a tick: all of an index's nodes at
\* the highest tick not above it, and at the lowest above it.
LEMMA Neighbours ==
  ASSUME nodes \subseteq Node, NEW t \in Int
  PROVE  /\ \A n \in nodes : n.index \in Tick /\ n.index \in Int
         /\ \A n \in nodes : n.index <= t => \E l \in NextAtOrBelow(nodes, t) : n.index <= l.index
         /\ \A n \in nodes : n.index > t => \E h \in NextAbove(nodes, t) : h.index <= n.index
<1>1. \A n \in nodes : n.index \in Tick /\ n.index \in Int
  BY TickFacts DEF Node
<1>2. ASSUME NEW n \in nodes, n.index <= t
      PROVE  \E l \in NextAtOrBelow(nodes, t) : n.index <= l.index
  <2> DEFINE below == {u \in Tick : u <= t /\ \E m \in nodes : m.index = u}
  <2>1. n.index \in below
    BY <1>1, <1>2
  <2>2. PICK u \in below : \A v \in below : v <= u
    BY <2>1, RangeAssumption, below \subseteq Tick
  <2>3. PICK l \in nodes : l.index = u
    BY <2>2
  <2>4. \A m \in nodes : m.index <= t => m.index \in below
    BY <1>1
  <2>5. l \in NextAtOrBelow(nodes, t)
    BY <2>2, <2>3, <2>4 DEF NextAtOrBelow
  <2> QED BY <2>1, <2>2, <2>3, <2>5
<1>3. ASSUME NEW n \in nodes, n.index > t
      PROVE  \E h \in NextAbove(nodes, t) : h.index <= n.index
  <2> DEFINE above == {u \in Tick : u > t /\ \E m \in nodes : m.index = u}
  <2>1. n.index \in above
    BY <1>1, <1>3
  <2>2. PICK u \in above : \A v \in above : u <= v
    BY <2>1, RangeAssumption, above \subseteq Tick
  <2>3. PICK h \in nodes : h.index = u
    BY <2>2
  <2>4. \A m \in nodes : m.index > t => m.index \in above
    BY <1>1
  <2>5. h \in NextAbove(nodes, t)
    BY <2>2, <2>3, <2>4 DEF NextAbove
  <2> QED BY <2>1, <2>2, <2>3, <2>5
<1> QED BY <1>1, <1>2, <1>3

\* Nearest answers with a node than which no other is nearer, and prefers the
\* lower one of two as near.
LEMMA NearestIsNearest ==
  ASSUME nodes \subseteq Node, NEW t \in Int, NEW n \in Nearest(nodes, t), NEW m \in nodes
  PROVE  LET Distance(k) == IF k.index > t THEN k.index - t ELSE t - k.index
         IN  \/ Distance(n) < Distance(m)
             \/ Distance(n) = Distance(m) /\ n.index <= m.index
<1> DEFINE low == NextAtOrBelow(nodes, t)
           high == NextAbove(nodes, t)
           Nearer == \A l \in low, h \in high : h.index - t < t - l.index
<1>1. \A k \in nodes : k.index \in Int
  BY Neighbours
<1>2. \A l \in low : l \in nodes /\ l.index <= t /\ \A k \in nodes : k.index <= t => k.index <= l.index
  BY DEF NextAtOrBelow
<1>3. \A h \in high : h \in nodes /\ h.index > t /\ \A k \in nodes : k.index > t => h.index <= k.index
  BY DEF NextAbove
<1>4. /\ m.index <= t => \E l \in low : m.index <= l.index
      /\ m.index > t => \E h \in high : h.index <= m.index
  BY Neighbours
<1>5. n \in IF low = {} THEN high ELSE IF high # {} /\ Nearer THEN high ELSE low
  BY DEF Nearest
<1> HIDE DEF low, high
<1>6. CASE low = {}
  <2>1. n \in high /\ m.index > t
    BY <1>1, <1>4, <1>5, <1>6
  <2> QED BY <1>1, <1>3, <2>1
<1>7. CASE low # {} /\ high # {} /\ Nearer
  <2>1. n \in high
    BY <1>5, <1>7
  <2>2. PICK l \in low : n.index - t < t - l.index
    BY <1>7, <2>1
  <2> QED BY <1>1, <1>2, <1>3, <2>1, <2>2
<1>8. CASE low # {} /\ ~ (high # {} /\ Nearer)
  <2>1. n \in low
    BY <1>5, <1>8
  <2>2. CASE m.index <= t
    BY <1>1, <1>2, <2>1, <2>2
  <2>3. CASE m.index > t
    <3>1. PICK l \in low, h \in high : ~ (h.index - t < t - l.index)
      BY <1>4, <1>8, <2>3
    <3>2. l.index = n.index
      BY <1>1, <1>2, <2>1, <3>1
    <3> QED BY <1>1, <1>2, <1>3, <2>1, <2>3, <3>1, <3>2
  <2> QED BY <1>1, <2>2, <2>3
<1> QED BY <1>6, <1>7, <1>8

\* The next grid tick is at most any grid tick above.
LEMMA NextGridIsNext ==
  ASSUME NEW t \in Int, NEW h \in Int, h > t, NEW s \in Nat, s # 0 => h % s = 0
  PROVE  NextGridTick(t, s) <= h
<1>1. CASE s = 0 \/ s > MaxInt
  BY <1>1 DEF NextGridTick
<1>2. CASE s # 0 /\ ~ (s > MaxInt)
  <2> DEFINE q == t \div s
             k == h \div s
  <2>1. q \in Int /\ k \in Int /\ s > 0
    BY <1>2
  <2>2. s * q <= t /\ h = s * k
    BY <1>2
  <2>3. NextGridTick(t, s) = (q + 1) * s
    BY <1>2 DEF NextGridTick
  <2> HIDE DEF q, k
  <2>4. q < k
    <3>1. CASE k <= q
      <4>1. s * k <= s * q
        BY <2>1, <3>1
      <4> QED BY <2>1, <2>2, <4>1
    <3> QED BY <2>1, <3>1
  <2>5. (q + 1) * s <= k * s
    BY <2>1, <2>4
  <2>6. k * s = s * k
    BY <2>1
  <2> QED BY <2>1, <2>2, <2>3, <2>5, <2>6
<1> QED BY <1>1, <1>2

\* The lookups of an accepted index agree with the set of its nodes (index.rs
\* 443-526): nearest, get, bracketing and next_below, and the grid tick that
\* stands in for the index skips none of its ticks (cetus.rs 166-180).
THEOREM LookupsRight == Spec => []LookupsAgree
<1>1. ASSUME TypedInv, phase = "loaded", NEW t \in -Bias .. Bias
      PROVE  LET Distance(n) == IF n.index > t THEN n.index - t ELSE t - n.index
                 below == Bracketing(nodes, t)[1]
                 above == Bracketing(nodes, t)[2]
             IN /\ Nearest(nodes, t) = {} <=> nodes = {}
                /\ \A n \in Nearest(nodes, t), m \in nodes :
                     Distance(n) < Distance(m) \/ (Distance(n) = Distance(m) /\ n.index <= m.index)
                /\ Get(nodes, t) # {} => Nearest(nodes, t) = Get(nodes, t)
                /\ \A n \in nodes : n \in below \union above
                     \/ (\E l \in below : n.index < l.index) \/ (\E h \in above : n.index > h.index)
                /\ \A l \in NextBelow(nodes, t), m \in nodes : m.index < t => m.index <= l.index
                /\ \A h \in above : NextGridTick(t, Spacing) <= h.index
  <2> DEFINE low == NextAtOrBelow(nodes, t)
             high == NextAbove(nodes, t)
  <2>1. t \in Int /\ nodes \subseteq Node /\ Spacing \in Nat
    BY <1>1, BiasAssumption, SizesAssumption DEF TypedInv, LoadTyped
  <2>2. \A n \in nodes : n.index \in Tick /\ n.index \in Int
    BY <2>1, Neighbours
  <2>3. \A n \in nodes : n.index <= t => \E l \in low : n.index <= l.index
    BY <2>1, Neighbours
  <2>4. \A n \in nodes : n.index > t => \E h \in high : h.index <= n.index
    BY <2>1, Neighbours
  <2>5. low \subseteq nodes /\ \A l \in low : l.index <= t /\ \A k \in nodes : k.index <= t => k.index <= l.index
    BY DEF NextAtOrBelow
  <2>6. high \subseteq nodes /\ \A h \in high : h.index > t /\ \A k \in nodes : k.index > t => h.index <= k.index
    BY DEF NextAbove
  <2>7. Bracketing(nodes, t)[1] = low /\ Bracketing(nodes, t)[2] = high
    BY DEF Bracketing
  <2>8. Nearest(nodes, t) =
          IF low = {} THEN high
          ELSE IF high # {} /\ \A l \in low, h \in high : h.index - t < t - l.index THEN high ELSE low
    BY DEF Nearest
  <2>9. \A n \in nodes : Spacing # 0 => n.index % Spacing = 0
    BY <1>1 DEF TypedInv, IInv, LoadInv, LoadedAccepted, Accepted, OnGrid
  <2>10. ASSUME Get(nodes, t) # {} PROVE low = Get(nodes, t)
    <3>1. PICK g \in nodes : g.index = t
      BY <2>10 DEF Get
    <3>2. \A l \in low : l.index = t
      BY <2>1, <2>2, <2>5, <3>1
    <3>3. \A k \in nodes : k.index = t => k \in low
      BY <2>1, <2>2 DEF NextAtOrBelow
    <3> QED BY <2>5, <3>2, <3>3 DEF Get
  <2> HIDE DEF low, high
  <2>11. Nearest(nodes, t) = {} <=> nodes = {}
    BY <2>1, <2>2, <2>3, <2>4, <2>5, <2>6, <2>8
  <2>12. \A n \in Nearest(nodes, t), m \in nodes :
           LET Distance(k) == IF k.index > t THEN k.index - t ELSE t - k.index
           IN  Distance(n) < Distance(m) \/ (Distance(n) = Distance(m) /\ n.index <= m.index)
    BY <2>1, NearestIsNearest
  <2>13. ASSUME Get(nodes, t) # {} PROVE Nearest(nodes, t) = Get(nodes, t)
    <3>1. PICK g \in low : g.index = t
      BY <2>10, <2>13 DEF Get
    <3>2. \A h \in high : ~ (h.index - t < t - g.index)
      BY <2>1, <2>2, <2>6, <3>1
    <3> QED BY <2>8, <2>10, <2>13, <3>1, <3>2
  <2>14. \A n \in nodes : \/ n \in low \union high
                          \/ \E l \in low : n.index < l.index
                          \/ \E h \in high : n.index > h.index
    <3> TAKE n \in nodes
    <3>1. CASE n.index <= t
      <4>1. PICK l \in low : n.index <= l.index
        BY <2>3, <3>1
      <4>2. n.index = l.index => n \in low
        BY <2>1, <2>2, <2>5, <3>1, <4>1 DEF low, NextAtOrBelow
      <4> QED BY <2>2, <2>5, <4>1, <4>2
    <3>2. CASE n.index > t
      <4>1. PICK h \in high : h.index <= n.index
        BY <2>4, <3>2
      <4>2. n.index = h.index => n \in high
        BY <2>1, <2>2, <2>6, <3>2, <4>1 DEF high, NextAbove
      <4> QED BY <2>2, <2>6, <4>1, <4>2
    <3> QED BY <2>1, <2>2, <3>1, <3>2
  <2>15. \A l \in NextBelow(nodes, t), m \in nodes : m.index < t => m.index <= l.index
    BY DEF NextBelow
  <2>16. \A h \in high : NextGridTick(t, Spacing) <= h.index
    BY <2>1, <2>2, <2>6, <2>9, NextGridIsNext
  <2> QED BY <2>7, <2>11, <2>12, <2>13, <2>14, <2>15, <2>16
<1>2. TypedInv => LookupsAgree
  BY <1>1 DEF LookupsAgree
<1> QED BY <1>2, TypedInvariant, PTL

=============================================================================
