---------------------------- MODULE IngestProofs ----------------------------
(***************************************************************************)
(* Theorems about Ingest: what the manager serves once it has caught up    *)
(* with the chain, for any venues, pools, children and capacity, whatever  *)
(* the chain does and however often a checkpoint is retried or repeated.   *)
(*                                                                         *)
(* The watermark is rarely reached, so each property is carried by an      *)
(* inductive invariant that also says, between two watermarks, where the   *)
(* difference between manager and chain still is: among the changes the    *)
(* chain has not sealed, or among those of the checkpoint in hand that     *)
(* have yet to be visited.                                                 *)
(***************************************************************************)
EXTENDS Ingest, StateManagerProofs

-----------------------------------------------------------------------------
(* What is under way.                                                      *)

\* A list of changes names an object in a change of a kind.
Has(changes, kind, id) ==
  \E i \in 1 .. Len(changes) : changes[i].kind = kind /\ changes[i].id = id

\* The changes of the checkpoint in hand, or handed over last.
Sealed == IF current = NoCheckpoint THEN <<>> ELSE current.changes

Publishing == {"resolve", "decode", "publish", "upsert"}

\* The positions of that checkpoint that are yet to be visited, by kind: those of
\* the list being walked, and every one of a list that comes later.
VenuesLeft ==
  IF Applied THEN {}
  ELSE CASE phase = "idle" -> Positions(current, "venue")
         [] phase \in Publishing -> todo
         [] OTHER -> {}

RemovalsLeft ==
  IF Applied THEN {}
  ELSE CASE phase = "remove" -> todo
         [] phase = "index" -> {}
         [] OTHER -> Positions(current, "removed")

ChildrenLeft ==
  IF Applied THEN {} ELSE IF phase = "index" THEN todo ELSE Positions(current, "child")

\* An object is named at one of these positions.
Names(positions, id) == \E i \in positions : current.changes[i].id = id

-----------------------------------------------------------------------------
(* The chain and its stream.                                               *)

ChainTyped ==
  /\ chain \in [version : [Venue -> Nat], retired : SUBSET Venue, live : SUBSET Child,
                 seen : [Venue -> Nat], wrote : [Child -> Nat], died : [Child -> Nat]]
  /\ open \in Seq(Change)

\* A checkpoint is in hand only while it is not applied; what was applied last is
\* the checkpoint handed over last or an earlier one.
StreamInv ==
  /\ current = NoCheckpoint => applied = 0 /\ phase = "idle"
  /\ applied # 0 => lastApplied <= current.seq
  /\ phase # "idle" => ~ Applied

\* A venue is written before it is removed, once and for all, and never at a
\* version the chain has not reached.
VenuesStreamed ==
  \A v \in Venue :
    /\ v \notin chain.retired => ~ Has(open, "removed", v) /\ ~ Has(Sealed, "removed", v)
    /\ v \in chain.retired /\ ~ Has(open, "removed", v) =>
         /\ ~ Has(open, "venue", v)
         /\ Has(Sealed, "venue", v) => Has(Sealed, "removed", v)
    /\ chain.seen[v] = 0 => ~ Has(open, "venue", v) /\ ~ Has(Sealed, "venue", v)
    /\ chain.seen[v] <= OpenSeq
    /\ chain.seen[v] = OpenSeq => Has(open, "venue", v)

VersionsReached ==
  \A changes \in {open, Sealed} : \A i \in 1 .. Len(changes) :
    changes[i].kind = "venue" => changes[i].version <= chain.version[changes[i].id]

\* A field lives as its last change says.
FieldsStreamed ==
  \A c \in Child :
    /\ chain.wrote[c] <= OpenSeq
    /\ chain.wrote[c] = OpenSeq <=> Has(open, "child", c)
    /\ c \notin chain.live /\ Has(open, "child", c) => chain.died[c] = OpenSeq
    /\ c \notin chain.live /\ Has(Sealed, "child", c) =>
         Has(open, "removed", c) \/ chain.wrote[c] = chain.died[c]
    /\ c \in chain.live /\ Has(open, "removed", c) => Has(open, "child", c)
    /\ c \in chain.live /\ Has(Sealed, "removed", c) =>
         Has(open, "child", c) \/ Has(Sealed, "child", c)

ChainInv == ChainTyped /\ StreamInv /\ VenuesStreamed /\ VersionsReached /\ FieldsStreamed

-----------------------------------------------------------------------------
(* The manager and the chain.                                              *)

\* A retired venue is gone, or its removal is under way.
RetiredInv ==
  \A v \in chain.retired : Tracked(v) => Has(open, "removed", v) \/ Names(RemovalsLeft, v)

\* Nothing is served that the chain has not reached.
ServedReached ==
  \A v \in Venue :
    /\ slots[v].version <= chain.version[v]
    /\ chain.seen[v] = 0 => ~ Tracked(v)

\* As long as nothing failed, a streamed venue is served at its latest version,
\* or that version is under way.
Reaches(changes, positions, v) ==
  \E i \in positions :
    /\ changes[i].kind = "venue" /\ changes[i].id = v
    /\ changes[i].version = chain.version[v]

LatestInv ==
  Clean =>
    \A v \in Venue \ chain.retired :
      chain.seen[v] # 0 =>
        \/ slots[v].version = chain.version[v]
        \/ Reaches(open, 1 .. Len(open), v)
        \/ Reaches(current.changes, VenuesLeft, v)

\* Likewise, one streamed before the open checkpoint is tracked, or about to be.
TrackedInv ==
  Clean =>
    \A v \in Venue \ chain.retired :
      chain.seen[v] # 0 /\ chain.seen[v] # OpenSeq => Tracked(v) \/ Names(VenuesLeft, v)

\* As long as nothing failed or was dropped, a live child of a streamed pool is
\* in its set, or is under way.
IndexedInv ==
  Clean /\ stats.dropped = 0 =>
    \A p \in Pool \ chain.retired : \A c \in chain.live :
      /\ chain.seen[p] # 0
      /\ ParentOf[c] = NodeUid[p]
      /\ chain.wrote[c] >= chain.seen[p]
      => \/ c \in children[NodeUid[p]]
         \/ Has(open, "child", c)
         \/ Names(ChildrenLeft, c)

\* A dead child a set holds was written and deleted in one checkpoint, or its
\* removal is under way.
DeadInv ==
  \A u \in Uid : \A c \in children[u] \ chain.live :
    \/ chain.wrote[c] = chain.died[c]
    \/ Has(open, "removed", c)
    \/ Names(RemovalsLeft, c)

ServedInv == RetiredInv /\ ServedReached /\ LatestInv /\ TrackedInv /\ IndexedInv /\ DeadInv

IngestInv == TypeOK /\ IndexInv /\ UpsertNewer /\ ChainInv /\ ServedInv

-----------------------------------------------------------------------------
(* Steps of the chain.                                                     *)

\* A step of the chain adds one change and leaves the manager alone.
Appends(change) ==
  /\ phase = "idle"
  /\ open' = Append(open, change)
  /\ UNCHANGED vars

\* What each step of the chain does to it.
LEMMA ChainSteps ==
  ASSUME ChainTyped, ChainStep
  PROVE  \/ \E v \in Venue \ chain.retired :
              /\ Appends([kind |-> "venue", id |-> v, version |-> chain.version[v] + 1])
              /\ chain'.version = [chain.version EXCEPT ![v] = @ + 1]
              /\ chain'.seen = [chain.seen EXCEPT ![v] = IF @ = 0 THEN OpenSeq ELSE @]
              /\ chain'.retired = chain.retired /\ chain'.live = chain.live
              /\ chain'.wrote = chain.wrote /\ chain'.died = chain.died
         \/ \E v \in Venue \ chain.retired :
              /\ Appends([kind |-> "removed", id |-> v])
              /\ chain'.retired = chain.retired \union {v}
              /\ chain'.version = chain.version /\ chain'.seen = chain.seen
              /\ chain'.live = chain.live
              /\ chain'.wrote = chain.wrote /\ chain'.died = chain.died
         \/ \E c \in Child :
              /\ Appends([kind |-> "child", id |-> c])
              /\ chain'.live = chain.live \union {c}
              /\ chain'.wrote = [chain.wrote EXCEPT ![c] = OpenSeq]
              /\ chain'.died = chain.died
              /\ chain'.version = chain.version /\ chain'.seen = chain.seen
              /\ chain'.retired = chain.retired
         \/ \E c \in chain.live :
              /\ Appends([kind |-> "removed", id |-> c])
              /\ chain'.live = chain.live \ {c}
              /\ chain'.died = [chain.died EXCEPT ![c] = OpenSeq]
              /\ chain'.wrote = chain.wrote
              /\ chain'.version = chain.version /\ chain'.seen = chain.seen
              /\ chain'.retired = chain.retired
<1>1. CASE \E v \in Venue : WriteVenue(v)
  BY <1>1 DEF WriteVenue, Execute, Appends, ChainTyped
<1>2. CASE \E v \in Venue : DeleteVenue(v)
  BY <1>2 DEF DeleteVenue, Execute, Appends, ChainTyped
<1>3. CASE \E c \in Child : WriteField(c)
  BY <1>3 DEF WriteField, Execute, Appends, ChainTyped
<1>4. CASE \E c \in Child : DeleteField(c)
  BY <1>4 DEF DeleteField, Execute, Appends, ChainTyped
<1> QED BY <1>1, <1>2, <1>3, <1>4 DEF ChainStep

\* The open checkpoint's number, and what is named after one more change.
LEMMA Opened ==
  ASSUME TypeOK
  PROVE  /\ OpenSeq \in Nat \ {0}
         /\ Sealed \in Seq(Change)
BY DEF TypeOK, OpenSeq, Sealed, Checkpoint

\* One more change names one more object.
LEMMA HasAppend ==
  ASSUME NEW changes \in Seq(Change), NEW change \in Change, NEW kind, NEW id
  PROVE  Has(Append(changes, change), kind, id)
           <=> Has(changes, kind, id) \/ (change.kind = kind /\ change.id = id)
<1> DEFINE longer == Append(changes, change)
<1>1. /\ Len(changes) \in Nat /\ Len(longer) = Len(changes) + 1
      /\ longer[Len(changes) + 1] = change
      /\ \A i \in 1 .. Len(changes) : longer[i] = changes[i]
  OBVIOUS
<1> HIDE DEF longer
<1>2. ASSUME Has(longer, kind, id)
      PROVE  Has(changes, kind, id) \/ (change.kind = kind /\ change.id = id)
  <2>1. PICK i \in 1 .. Len(longer) : longer[i].kind = kind /\ longer[i].id = id
    BY <1>2 DEF Has
  <2>2. i \in 1 .. Len(changes) \/ i = Len(changes) + 1
    BY <2>1, <1>1
  <2> QED BY <1>1, <2>1, <2>2 DEF Has
<1>3. ASSUME Has(changes, kind, id) PROVE Has(longer, kind, id)
  <2>1. PICK i \in 1 .. Len(changes) : changes[i].kind = kind /\ changes[i].id = id
    BY <1>3 DEF Has
  <2>2. i \in 1 .. Len(longer)
    BY <1>1
  <2> QED BY <2>1, <2>2, <1>1 DEF Has
<1>4. ASSUME change.kind = kind, change.id = id PROVE Has(longer, kind, id)
  <2>1. Len(changes) + 1 \in 1 .. Len(longer)
    BY <1>1
  <2> QED BY <2>1, <1>1, <1>4 DEF Has
<1> QED BY <1>2, <1>3, <1>4 DEF longer

\* Appending a change of the kinds the chain makes.
LEMMA AppendFacts ==
  ASSUME TypeOK, ChainTyped, NEW change \in Change, Appends(change)
  PROVE  /\ open' \in Seq(Change)
         /\ OpenSeq' = OpenSeq /\ Sealed' = Sealed /\ current' = current
         /\ \A kind, id : Has(open', kind, id)
              <=> Has(open, kind, id) \/ (change.kind = kind /\ change.id = id)
         /\ \A kind, id : Has(Sealed', kind, id) <=> Has(Sealed, kind, id)
BY HasAppend DEF ChainTyped, Appends, vars, work, OpenSeq, Sealed

\* A step of the chain keeps the manager's progress through the stream.
LEMMA AppendStream ==
  ASSUME StreamInv, UNCHANGED vars
  PROVE  StreamInv'
BY DEF StreamInv, Applied, vars, progress, work

\* What was reached stays reached, and the change added is.
LEMMA AppendVersions ==
  ASSUME TypeOK, ChainTyped, ChainTyped', VersionsReached, NEW change \in Change, Appends(change),
         \A w \in Venue : chain.version[w] <= chain'.version[w],
         change.kind = "venue" => change.version <= chain'.version[change.id]
  PROVE  VersionsReached'
<1> SUFFICES ASSUME NEW changes \in {open', Sealed'}, NEW i \in 1 .. Len(changes),
                    changes[i].kind = "venue"
             PROVE  changes[i].version <= chain'.version[changes[i].id]
  BY DEF VersionsReached
<1>1. ASSUME NEW old \in {open, Sealed}, NEW j \in 1 .. Len(old), old[j].kind = "venue"
      PROVE  old[j].version <= chain'.version[old[j].id]
  <2> DEFINE id == old[j].id
  <2>1. old \in Seq(Change)
    BY <1>1, Opened DEF ChainTyped
  <2>2. id \in Venue /\ old[j].version \in Nat
    BY <2>1, <1>1, ChangeFields
  <2>3. old[j].version <= chain.version[id]
    BY <1>1 DEF VersionsReached
  <2>4. chain.version[id] \in Nat /\ chain'.version[id] \in Nat
    BY <2>2 DEF ChainTyped
  <2>5. chain.version[id] <= chain'.version[id]
    BY <2>2
  <2> HIDE DEF id
  <2> QED BY <2>2, <2>3, <2>4, <2>5 DEF id
<1>2. CASE changes = Sealed'
  BY <1>1, <1>2, AppendFacts
<1>3. CASE changes = open' /\ i \in 1 .. Len(open)
  BY <1>3, <1>1 DEF Appends, ChainTyped
<1>4. CASE changes = open' /\ i \notin 1 .. Len(open)
  <2>1. changes[i] = change
    BY <1>4 DEF Appends, ChainTyped
  <2> QED BY <2>1
<1> QED BY <1>2, <1>3, <1>4

\* The chain keeps its own book: what it writes is reached, what it retires was
\* not retired before.
LEMMA ChainStepChainInv ==
  ASSUME TypeOK, ChainInv, ChainStep
  PROVE  ChainInv'
<1> USE DEF ChainInv
<1>1. ASSUME NEW v \in Venue \ chain.retired,
             Appends([kind |-> "venue", id |-> v, version |-> chain.version[v] + 1]),
             chain'.version = [chain.version EXCEPT ![v] = @ + 1],
             chain'.seen = [chain.seen EXCEPT ![v] = IF @ = 0 THEN OpenSeq ELSE @],
             chain'.retired = chain.retired, chain'.live = chain.live,
             chain'.wrote = chain.wrote, chain'.died = chain.died, ChainTyped'
      PROVE  ChainInv'
  <2> DEFINE change == [kind |-> "venue", id |-> v, version |-> chain.version[v] + 1]
  <2>1. /\ change \in Change /\ change.kind = "venue" /\ change.id = v
        /\ change.version = chain.version[v] + 1
    BY DEF Change, ChainTyped
  <2>2. Appends(change)
    BY <1>1
  <2>3. \A w \in Venue : chain.version[w] <= chain'.version[w]
    BY <1>1 DEF ChainTyped
  <2>4. change.version <= chain'.version[change.id]
    BY <1>1, <2>1 DEF ChainTyped
  <2> HIDE DEF change
  <2>5. VenuesStreamed'
    <3>1. /\ OpenSeq' = OpenSeq /\ OpenSeq \in Nat
          /\ \A kind, id : Has(open', kind, id)
               <=> Has(open, kind, id) \/ ("venue" = kind /\ v = id)
          /\ \A kind, id : Has(Sealed', kind, id) <=> Has(Sealed, kind, id)
      BY <2>1, <2>2, AppendFacts, Opened
    <3>2. /\ chain'.retired = chain.retired /\ v \notin chain.retired
          /\ chain'.seen[v] \in {OpenSeq, chain.seen[v]} /\ chain'.seen[v] # 0
          /\ \A w \in Venue \ {v} : chain'.seen[w] = chain.seen[w]
      <4>1. chain.seen \in [Venue -> Nat] /\ v \in Venue
        BY DEF ChainTyped
      <4>2. chain'.seen = [chain.seen EXCEPT ![v] = IF @ = 0 THEN OpenSeq ELSE @]
        BY <1>1
      <4>3. OpenSeq \in Nat \ {0}
        BY Opened
      <4>4. chain'.retired = chain.retired /\ v \notin chain.retired
        BY <1>1
      <4> QED BY ONLY <4>1, <4>2, <4>3, <4>4
    <3>3. ASSUME NEW w \in Venue
          PROVE  /\ w \notin chain'.retired => ~ Has(open', "removed", w) /\ ~ Has(Sealed', "removed", w)
                 /\ w \in chain'.retired /\ ~ Has(open', "removed", w) =>
                      /\ ~ Has(open', "venue", w)
                      /\ Has(Sealed', "venue", w) => Has(Sealed', "removed", w)
                 /\ chain'.seen[w] = 0 => ~ Has(open', "venue", w) /\ ~ Has(Sealed', "venue", w)
                 /\ chain'.seen[w] <= OpenSeq'
                 /\ chain'.seen[w] = OpenSeq' => Has(open', "venue", w)
      <4>1. /\ \A kind, id : Has(open', kind, id)
                  <=> Has(open, kind, id) \/ ("venue" = kind /\ v = id)
            /\ \A kind, id : Has(Sealed', kind, id) <=> Has(Sealed, kind, id)
        BY <3>1
      <4>2. /\ w \notin chain.retired => ~ Has(open, "removed", w) /\ ~ Has(Sealed, "removed", w)
            /\ w \in chain.retired /\ ~ Has(open, "removed", w) =>
                 /\ ~ Has(open, "venue", w)
                 /\ Has(Sealed, "venue", w) => Has(Sealed, "removed", w)
            /\ chain.seen[w] = 0 => ~ Has(open, "venue", w) /\ ~ Has(Sealed, "venue", w)
            /\ chain.seen[w] <= OpenSeq
            /\ chain.seen[w] = OpenSeq => Has(open, "venue", w)
        BY DEF VenuesStreamed
      <4>3. /\ chain'.retired = chain.retired /\ v \notin chain.retired
            /\ OpenSeq' = OpenSeq /\ OpenSeq \in Nat
        BY <3>1, <3>2
      <4>4. CASE w = v
        <5>1. chain'.seen[w] \in {OpenSeq, chain.seen[w]} /\ chain'.seen[w] # 0
          BY <3>2, <4>4
        <5> QED BY ONLY <4>1, <4>2, <4>3, <4>4, <5>1
      <4>5. CASE w # v
        <5>1. chain'.seen[w] = chain.seen[w]
          BY <3>2, <4>5
        <5> QED BY ONLY <4>1, <4>2, <4>3, <4>5, <5>1
      <4> QED BY <4>4, <4>5
    <3> QED BY <3>3 DEF VenuesStreamed
  <2>6. FieldsStreamed'
    BY <1>1, <2>1, <2>2, AppendFacts, Opened DEF FieldsStreamed
  <2>7. VersionsReached'
    BY <1>1, <2>1, <2>2, <2>3, <2>4, AppendVersions
  <2> QED BY <1>1, <2>2, <2>5, <2>6, <2>7, AppendStream DEF Appends
<1>2. ASSUME NEW v \in Venue \ chain.retired,
             Appends([kind |-> "removed", id |-> v]),
             chain'.retired = chain.retired \union {v},
             chain'.version = chain.version, chain'.seen = chain.seen,
             chain'.live = chain.live,
             chain'.wrote = chain.wrote, chain'.died = chain.died, ChainTyped'
      PROVE  ChainInv'
  <2> DEFINE change == [kind |-> "removed", id |-> v]
  <2>1. change \in Change /\ change.kind = "removed" /\ change.id = v
    BY DEF Change
  <2>2. Appends(change)
    BY <1>2
  <2>3. \A w \in Venue : chain.version[w] <= chain'.version[w]
    BY <1>2 DEF ChainTyped
  <2> HIDE DEF change
  <2>5. VenuesStreamed'
    BY <1>2, <2>1, <2>2, AppendFacts DEF VenuesStreamed
  <2>6. FieldsStreamed'
    BY <1>2, <2>1, <2>2, AppendFacts, IdsAssumption DEF FieldsStreamed
  <2>7. VersionsReached'
    BY <1>2, <2>1, <2>2, <2>3, AppendVersions
  <2> QED BY <1>2, <2>2, <2>5, <2>6, <2>7, AppendStream DEF Appends
<1>3. ASSUME NEW c \in Child,
             Appends([kind |-> "child", id |-> c]),
             chain'.live = chain.live \union {c},
             chain'.wrote = [chain.wrote EXCEPT ![c] = OpenSeq],
             chain'.died = chain.died,
             chain'.version = chain.version, chain'.seen = chain.seen,
             chain'.retired = chain.retired, ChainTyped'
      PROVE  ChainInv'
  <2> DEFINE change == [kind |-> "child", id |-> c]
  <2>1. change \in Change /\ change.kind = "child" /\ change.id = c
    BY DEF Change
  <2>2. Appends(change)
    BY <1>3
  <2>3. \A w \in Venue : chain.version[w] <= chain'.version[w]
    BY <1>3 DEF ChainTyped
  <2> HIDE DEF change
  <2>5. VenuesStreamed'
    BY <1>3, <2>1, <2>2, AppendFacts DEF VenuesStreamed
  <2>6. FieldsStreamed'
    BY <1>3, <2>1, <2>2, AppendFacts, Opened DEF FieldsStreamed, ChainTyped
  <2>7. VersionsReached'
    BY <1>3, <2>1, <2>2, <2>3, AppendVersions
  <2> QED BY <1>3, <2>2, <2>5, <2>6, <2>7, AppendStream DEF Appends
<1>4. ASSUME NEW c \in chain.live,
             Appends([kind |-> "removed", id |-> c]),
             chain'.live = chain.live \ {c},
             chain'.died = [chain.died EXCEPT ![c] = OpenSeq],
             chain'.wrote = chain.wrote,
             chain'.version = chain.version, chain'.seen = chain.seen,
             chain'.retired = chain.retired, ChainTyped'
      PROVE  ChainInv'
  <2> DEFINE change == [kind |-> "removed", id |-> c]
  <2>1. change \in Change /\ change.kind = "removed" /\ change.id = c /\ c \in Child
    BY DEF Change, ChainTyped
  <2>2. Appends(change)
    BY <1>4
  <2>3. \A w \in Venue : chain.version[w] <= chain'.version[w]
    BY <1>4 DEF ChainTyped
  <2> HIDE DEF change
  <2>5. VenuesStreamed'
    BY <1>4, <2>1, <2>2, AppendFacts, IdsAssumption DEF VenuesStreamed
  <2>6. FieldsStreamed'
    BY <1>4, <2>1, <2>2, AppendFacts, Opened DEF FieldsStreamed, ChainTyped
  <2>7. VersionsReached'
    BY <1>4, <2>1, <2>2, <2>3, AppendVersions
  <2> QED BY <1>4, <2>2, <2>5, <2>6, <2>7, AppendStream DEF Appends
<1>5. ChainTyped'
  <2>1. OpenSeq \in Nat
    BY Opened
  <2>2. open' \in Seq(Change)
    <3>1. \A v \in Venue : /\ [kind |-> "venue", id |-> v, version |-> chain.version[v] + 1] \in Change
                          /\ [kind |-> "removed", id |-> v] \in Change
      BY DEF Change, ChainTyped
    <3>2. \A c \in Child : /\ [kind |-> "child", id |-> c] \in Change
                          /\ [kind |-> "removed", id |-> c] \in Change
      BY DEF Change
    <3>3. \E change \in Change : open' = Append(open, change)
      BY <3>1, <3>2 DEF ChainStep, WriteVenue, DeleteVenue, WriteField, DeleteField, Execute
    <3> QED BY <3>3 DEF ChainTyped
  <2>3. ASSUME NEW v \in Venue, WriteVenue(v) PROVE ChainTyped'
    <3> DEFINE version == [chain.version EXCEPT ![v] = @ + 1]
               seen == [chain.seen EXCEPT ![v] = IF @ = 0 THEN OpenSeq ELSE @]
    <3>1. version \in [Venue -> Nat] /\ seen \in [Venue -> Nat]
      BY <2>1 DEF ChainTyped
    <3>2. chain' = [[chain EXCEPT !.version = version] EXCEPT !.seen = seen]
      BY <2>3 DEF WriteVenue, ChainTyped
    <3> HIDE DEF version, seen
    <3> QED BY <2>2, <3>1, <3>2 DEF ChainTyped
  <2>4. ASSUME NEW v \in Venue, DeleteVenue(v) PROVE ChainTyped'
    <3> DEFINE retired == chain.retired \union {v}
    <3>1. retired \in SUBSET Venue
      BY DEF ChainTyped
    <3>2. chain' = [chain EXCEPT !.retired = retired]
      BY <2>4 DEF DeleteVenue, ChainTyped
    <3> HIDE DEF retired
    <3> QED BY <2>2, <3>1, <3>2 DEF ChainTyped
  <2>5. ASSUME NEW c \in Child, WriteField(c) PROVE ChainTyped'
    BY <2>1, <2>2, <2>5 DEF WriteField, ChainTyped
  <2>6. ASSUME NEW c \in Child, DeleteField(c) PROVE ChainTyped'
    BY <2>1, <2>2, <2>6 DEF DeleteField, ChainTyped
  <2> QED BY <2>3, <2>4, <2>5, <2>6 DEF ChainStep
<1> QED BY <1>1, <1>2, <1>3, <1>4, <1>5, ChainSteps

-----------------------------------------------------------------------------
(* Handing a checkpoint over.                                              *)

\* A call that is no duplicate puts the checkpoint in hand and touches nothing else.
TakesUp(ck) ==
  /\ phase = "idle" /\ phase' = "resolve"
  /\ current' = ck
  /\ todo' = Positions(ck, "venue")
  /\ \A f \in Counter : stats'[f] >= stats[f]
  /\ UNCHANGED <<store, progress, chain, outcome>>

\* A call that is no duplicate takes the checkpoint up.
LEMMA CollectTakesUp ==
  ASSUME TypeOK, NEW ck \in Checkpoint, CollectChanges(ck), UNCHANGED chain
  PROVE  TakesUp(ck)
<1>1. Cardinality(Positions(ck, "missing")) \in Nat /\ ck.packages \in Nat
  BY PositionsFinite DEF Checkpoint
<1>2. \A f \in Counter : stats[f] \in Nat
  BY DEF TypeOK
<1>3. \A f \in Counter : stats'[f] >= stats[f]
  BY <1>1, <1>2 DEF CollectChanges, TypeOK, Counter
<1> QED BY <1>3 DEF CollectChanges, TakesUp, store, progress

\* The open checkpoint is sealed and handed over as the next one: it is no
\* duplicate, because what was applied last is the checkpoint before it.
LEMMA DeliverTakesUp ==
  ASSUME TypeOK, ChainInv, Deliver
  PROVE  \E ck \in Checkpoint :
           /\ ck.seq = OpenSeq /\ ck.changes = open
           /\ TakesUp(ck) /\ Call(ck)
           /\ open' = <<>> /\ ~ Applied' /\ Sealed' = open /\ OpenSeq' = OpenSeq + 1
<1> DEFINE ck == [seq |-> OpenSeq, packages |-> 0, changes |-> open]
<1>1. ck \in Checkpoint /\ ck.seq = OpenSeq /\ ck.changes = open
  BY Opened DEF Checkpoint, ChainInv, ChainTyped
<1>2. Call(ck) /\ open' = <<>> /\ UNCHANGED chain
  BY DEF Deliver
<1> HIDE DEF ck
<1>3. applied # 0 => lastApplied < OpenSeq
  BY DEF Deliver, Applied, ChainInv, StreamInv, OpenSeq, TypeOK, Checkpoint
<1>4. ~ IsDuplicate(ck)
  BY <1>1, <1>3, Opened DEF IsDuplicate, TypeOK
<1>5. CollectChanges(ck)
  BY <1>2, <1>4 DEF Call, SkipDuplicate
<1>6. TakesUp(ck)
  BY <1>1, <1>2, <1>5, CollectTakesUp
<1>7. ck # NoCheckpoint
  BY <1>1, CheckpointsAssumption
<1>8. ~ Applied'
  BY <1>1, <1>3, <1>6, <1>7, Opened DEF TakesUp, Applied, progress, TypeOK
<1>9. Sealed' = open /\ OpenSeq' = OpenSeq + 1
  BY <1>1, <1>6, <1>7 DEF TakesUp, Sealed, OpenSeq
<1> QED BY <1>1, <1>2, <1>6, <1>8, <1>9

\* A repeated checkpoint is a duplicate when it is applied, and taken up again
\* when it is not.
LEMMA RedeliverTakesUp ==
  ASSUME TypeOK, ChainInv, Redeliver
  PROVE  /\ current \in Checkpoint /\ Call(current)
         /\ open' = open /\ chain' = chain /\ current' = current /\ Applied' = Applied
         /\ \/ UNCHANGED <<store, stats, progress, phase, work>>
            \/ ~ Applied /\ TakesUp(current)
<1>1. current \in Checkpoint /\ current # NoCheckpoint /\ Call(current)
  BY DEF Redeliver, TypeOK
<1>2. CASE SkipDuplicate(current)
  <2>1. UNCHANGED <<store, stats, progress, phase, work>>
    BY <1>2 DEF SkipDuplicate
  <2>2. Applied' = Applied /\ current' = current
    BY <2>1 DEF Applied, work, progress
  <2>3. open' = open /\ chain' = chain
    BY DEF Redeliver
  <2> QED BY <1>1, <2>1, <2>2, <2>3
<1>3. CASE CollectChanges(current)
  <2>1. TakesUp(current)
    BY <1>1, <1>3, CollectTakesUp DEF Redeliver
  <2>2. ~ Applied
    BY <1>1, <1>3 DEF CollectChanges, IsDuplicate, Applied, TypeOK, Checkpoint
  <2> QED BY <1>1, <2>1, <2>2 DEF TakesUp, Redeliver, Applied, progress
<1> QED BY <1>1, <1>2, <1>3 DEF Call

-----------------------------------------------------------------------------
(* The stream, whatever the manager does.                                  *)

\* What concerns the chain and the checkpoint in hand is left alone by the steps
\* that leave both alone.
LEMMA SameStream ==
  ASSUME ChainInv, current' = current, UNCHANGED <<chain, open>>, StreamInv'
  PROVE  ChainInv'
<1>1. OpenSeq' = OpenSeq /\ Sealed' = Sealed
  BY DEF OpenSeq, Sealed
<1>2. ChainTyped' /\ VenuesStreamed' /\ VersionsReached' /\ FieldsStreamed'
  BY <1>1 DEF ChainInv, ChainTyped, VenuesStreamed, VersionsReached, FieldsStreamed, Has
<1> QED BY <1>2 DEF ChainInv

\* Once sealed, the changes that were open are those of the checkpoint in hand.
LEMMA DeliverChainInv ==
  ASSUME TypeOK, ChainInv, Deliver
  PROVE  ChainInv'
<1>1. PICK ck \in Checkpoint :
        /\ ck.seq = OpenSeq /\ ck.changes = open
        /\ TakesUp(ck) /\ Call(ck)
        /\ open' = <<>> /\ ~ Applied' /\ Sealed' = open /\ OpenSeq' = OpenSeq + 1
  BY DeliverTakesUp
<1>2. chain' = chain /\ OpenSeq \in Nat
  BY <1>1, Opened DEF TakesUp
<1>3. \A kind, id : ~ Has(open', kind, id)
  BY <1>1 DEF Has
<1>4. \A kind, id : Has(Sealed', kind, id) <=> Has(open, kind, id)
  BY <1>1
<1> USE DEF ChainInv
<1>5. ChainTyped'
  BY <1>1, <1>2 DEF ChainTyped
<1>6. StreamInv'
  <2>1. current' # NoCheckpoint
    BY <1>1, CheckpointsAssumption DEF TakesUp
  <2>2. applied' # 0 => lastApplied' <= current'.seq
    BY <1>1, Opened DEF TakesUp, progress, Deliver, Applied, StreamInv, OpenSeq, TypeOK, Checkpoint
  <2> QED BY <1>1, <2>1, <2>2 DEF StreamInv
<1>7. VenuesStreamed'
  BY <1>1, <1>2, <1>3, <1>4 DEF VenuesStreamed, ChainTyped
<1>8. VersionsReached'
  BY <1>1, <1>2 DEF VersionsReached
<1>9. FieldsStreamed'
  BY <1>1, <1>2, <1>3, <1>4 DEF FieldsStreamed, ChainTyped
<1> QED BY <1>5, <1>6, <1>7, <1>8, <1>9

\* Until the watermark moves, no step of apply_checkpoint ends the checkpoint.
LEMMA ApplyFrame ==
  ASSUME TypeOK, Apply
  PROVE  /\ current' = current
         /\ Commit \/ UNCHANGED progress
BY DEF Apply, VisitChange, ResolveLayouts, DecodeObjects, DecodeAborts, SkipUndecoded,
       SkipHeldVersion, ReadSlot, UpsertSlot, RemoveVenue, RemoveChild, IndexChild,
       FinishPublishing, FinishRemoving, Commit, work

\* apply_checkpoint leaves the chain and the stream alone.
LEMMA ApplyChainInv ==
  ASSUME TypeOK, ChainInv, Apply, UNCHANGED <<chain, open>>
  PROVE  ChainInv'
<1>1. current' = current
  BY ApplyFrame
<1>2. CASE Commit
  BY <1>1, <1>2, SameStream DEF Commit, ChainInv, StreamInv, TypeOK, Checkpoint
<1>3. CASE UNCHANGED progress
  <2>1. Applied' = Applied
    BY <1>1, <1>3 DEF progress, Applied
  <2>2. phase # "idle"
    BY DEF Apply, VisitChange, ResolveLayouts, DecodeObjects, DecodeAborts, SkipUndecoded,
           SkipHeldVersion, ReadSlot, UpsertSlot, RemoveVenue, RemoveChild, IndexChild,
           FinishPublishing, FinishRemoving, Commit
  <2>3. StreamInv'
    BY <1>1, <1>3, <2>1, <2>2 DEF ChainInv, StreamInv, progress
  <2> QED BY <1>1, <2>3, SameStream
<1> QED BY <1>2, <1>3, ApplyFrame

\* Every step keeps the chain's book.
LEMMA StepChainInv == TypeOK /\ ChainInv /\ [IngestNext]_ingestVars => ChainInv'
<1> SUFFICES ASSUME TypeOK, ChainInv, [IngestNext]_ingestVars PROVE ChainInv'
  OBVIOUS
<1>1. CASE Redeliver
  <2>1. StreamInv'
    BY <1>1, RedeliverTakesUp, CheckpointsAssumption
       DEF TakesUp, ChainInv, StreamInv, progress, work
  <2> QED BY <1>1, <2>1, RedeliverTakesUp, SameStream
<1>2. CASE UNCHANGED ingestVars
  <2>1. StreamInv'
    BY <1>2 DEF ingestVars, vars, work, progress, ChainInv, StreamInv, Applied
  <2> QED BY <1>2, <2>1, SameStream DEF ingestVars, vars, work
<1> QED BY <1>1, <1>2, ChainStepChainInv, DeliverChainInv, ApplyChainInv DEF IngestNext

-----------------------------------------------------------------------------
(* What is left to visit.                                                  *)

\* The checkpoint in hand, and the change at the position visited.
LEMMA InHand ==
  ASSUME TypeOK, ChainInv, phase # "idle"
  PROVE  current \in Checkpoint /\ Sealed = current.changes /\ ~ Applied
BY CheckpointsAssumption DEF TypeOK, Sealed, ChainInv, StreamInv

\* A position of the list being walked is one of the checkpoint in hand, and its
\* change has the kind of that list.
LEMMA Visits ==
  ASSUME TypeOK, ChainInv, NEW i \in todo, NEW kind,
         \/ kind = "venue" /\ phase \in Publishing
         \/ kind = "removed" /\ phase = "remove"
         \/ kind = "child" /\ phase = "index"
  PROVE  /\ i \in 1 .. Len(Sealed) /\ current.changes[i] \in Change
         /\ current.changes[i] = Sealed[i] /\ Sealed[i].kind = kind
         /\ Has(Sealed, kind, current.changes[i].id)
<1>1. phase # "idle" /\ current \in Checkpoint /\ Sealed = current.changes
  BY InHand DEF Publishing
<1>2. i \in Positions(current, kind)
  BY <1>1 DEF TypeOK, Publishing, Phases
<1> QED BY <1>1, <1>2, PositionFields DEF Positions, Has

\* Every position of a checkpoint just taken up is left to visit.
LEMMA TakenUp ==
  ASSUME NEW ck \in Checkpoint, TakesUp(ck), ~ Applied'
  PROVE  /\ VenuesLeft' = Positions(ck, "venue")
         /\ RemovalsLeft' = Positions(ck, "removed")
         /\ ChildrenLeft' = Positions(ck, "child")
         /\ \A id : /\ Names(VenuesLeft, id)' <=> Has(ck.changes, "venue", id)
                    /\ Names(RemovalsLeft, id)' <=> Has(ck.changes, "removed", id)
                    /\ Names(ChildrenLeft, id)' <=> Has(ck.changes, "child", id)
<1>1. phase' = "resolve" /\ todo' = Positions(ck, "venue") /\ current' = ck
  BY DEF TakesUp
<1>2. VenuesLeft' = Positions(ck, "venue")
  BY <1>1 DEF VenuesLeft, Publishing
<1>3. RemovalsLeft' = Positions(ck, "removed") /\ ChildrenLeft' = Positions(ck, "child")
  BY <1>1 DEF RemovalsLeft, ChildrenLeft
<1> QED BY <1>1, <1>2, <1>3 DEF Names, Has, Positions

\* Nothing is left of an applied checkpoint.
LEMMA NothingLeft ==
  ASSUME Applied
  PROVE  VenuesLeft = {} /\ RemovalsLeft = {} /\ ChildrenLeft = {}
BY DEF VenuesLeft, RemovalsLeft, ChildrenLeft

\* A repeated call leaves what was left.
LEMMA RedeliverLeft ==
  ASSUME TypeOK, ChainInv, Redeliver
  PROVE  /\ VenuesLeft' = VenuesLeft /\ RemovalsLeft' = RemovalsLeft
         /\ ChildrenLeft' = ChildrenLeft
         /\ current' = current /\ UNCHANGED <<chain, open, slots, children>>
         /\ \A f \in Counter : stats'[f] >= stats[f]
<1> USE RedeliverTakesUp
<1>1. CASE UNCHANGED <<store, stats, progress, phase, work>>
  <2>1. /\ current' = current /\ phase' = phase /\ todo' = todo /\ (Applied <=> Applied')
        /\ stats' = stats /\ slots' = slots /\ children' = children
    BY <1>1 DEF work, progress, store, Applied
  <2> QED BY <2>1 DEF VenuesLeft, RemovalsLeft, ChildrenLeft, Positions, TypeOK
<1>2. CASE ~ Applied /\ TakesUp(current)
  <2>1. VenuesLeft = Positions(current, "venue") /\ RemovalsLeft = Positions(current, "removed")
        /\ ChildrenLeft = Positions(current, "child")
    <3>1. phase = "idle" /\ ~ Applied
      BY <1>2 DEF TakesUp
    <3> QED BY <3>1 DEF VenuesLeft, RemovalsLeft, ChildrenLeft, Publishing
  <2> QED BY <1>2, <2>1, TakenUp DEF TakesUp, store
<1> QED BY <1>1, <1>2

\* Whether a checkpoint is applied changes only when it is committed.
LEMMA ApplyApplied ==
  ASSUME TypeOK, ChainInv, Apply
  PROVE  /\ current' = current /\ phase # "idle" /\ ~ Applied
         /\ Applied' <=> Commit
<1>1. phase # "idle"
  BY DEF Apply, VisitChange, ResolveLayouts, DecodeObjects, DecodeAborts, SkipUndecoded,
         SkipHeldVersion, ReadSlot, UpsertSlot, RemoveVenue, RemoveChild, IndexChild,
         FinishPublishing, FinishRemoving, Commit
<1>2. ~ Applied /\ current' = current
  BY <1>1, ApplyFrame, InHand
<1>3. CASE Commit
  BY <1>1, <1>2, <1>3 DEF Commit, Applied, TypeOK
<1>4. CASE ~ Commit
  BY <1>1, <1>2, <1>4, ApplyFrame DEF Applied, progress
<1> QED BY <1>1, <1>2, <1>3, <1>4

\* Removals are left until each is visited.
LEMMA RemovalsSteps ==
  ASSUME TypeOK, ChainInv, Apply
  PROVE  \/ RemovalsLeft' = RemovalsLeft
         \/ \E i \in todo : /\ RemoveVenue(i) \/ RemoveChild(i)
                            /\ RemovalsLeft' = RemovalsLeft \ {i}
<1> USE ApplyApplied
<1>1. Positions(current, "removed")' = Positions(current, "removed")
  BY DEF Positions
<1>2. ASSUME NEW i \in todo, RemoveVenue(i) \/ RemoveChild(i)
      PROVE  RemovalsLeft' = RemovalsLeft \ {i}
  BY <1>2 DEF RemoveVenue, RemoveChild, RemovalsLeft, Visited, Commit
<1>3. CASE FinishPublishing
  <2>1. phase = "publish" /\ phase' = "remove" /\ todo' = Positions(current, "removed")
    BY <1>3 DEF FinishPublishing
  <2>2. ~ Applied /\ ~ Applied'
    BY <2>1 DEF Commit
  <2> QED BY <2>1, <2>2 DEF RemovalsLeft
<1>7. CASE FinishRemoving
  BY <1>7 DEF FinishRemoving, Commit, RemovalsLeft
<1>8. CASE Commit
  BY <1>8 DEF Commit, RemovalsLeft
<1>4. CASE ResolveLayouts \/ DecodeObjects \/ DecodeAborts
  BY <1>1, <1>4 DEF ResolveLayouts, DecodeObjects, DecodeAborts, RemovalsLeft, Commit
<1>5. ASSUME NEW i \in todo, SkipUndecoded(i) \/ SkipHeldVersion(i) \/ ReadSlot(i) \/ UpsertSlot(i)
      PROVE  RemovalsLeft' = RemovalsLeft
  BY <1>1, <1>5 DEF SkipUndecoded, SkipHeldVersion, ReadSlot, UpsertSlot, RemovalsLeft, Commit
<1>6. ASSUME NEW i \in todo, IndexChild(i)
      PROVE  RemovalsLeft' = RemovalsLeft
  BY <1>6 DEF IndexChild, RemovalsLeft, Commit
<1> QED BY <1>2, <1>3, <1>4, <1>5, <1>6, <1>7, <1>8 DEF Apply, VisitChange

\* Venues are left until each is visited; a tag that does not resolve drops its
\* objects, and a decode that dies puts the whole list back.
LEMMA VenuesSteps ==
  ASSUME TypeOK, ChainInv, Apply
  PROVE  \/ VenuesLeft \subseteq VenuesLeft'
         \/ ResolveLayouts /\ VenuesLeft = todo /\ VenuesLeft' = todo'
         \/ \E i \in todo : /\ SkipUndecoded(i) \/ SkipHeldVersion(i) \/ UpsertSlot(i)
                            /\ VenuesLeft' = VenuesLeft \ {i}
<1> USE ApplyApplied
<1>1. CASE ResolveLayouts
  BY <1>1 DEF ResolveLayouts, VenuesLeft, Publishing, Commit
<1>2. CASE DecodeObjects
  BY <1>2 DEF DecodeObjects, VenuesLeft, Publishing, Commit
<1>3. CASE DecodeAborts
  <2>1. phase = "decode" /\ phase' = "idle" /\ todo \subseteq Positions(current, "venue")
    BY <1>3 DEF DecodeAborts, TypeOK
  <2>2. Positions(current, "venue")' = Positions(current, "venue") /\ ~ Applied'
    BY <2>1 DEF Positions, Commit
  <2> QED BY <2>1, <2>2 DEF VenuesLeft, Publishing
<1>4. ASSUME NEW i \in todo, SkipUndecoded(i) \/ SkipHeldVersion(i) \/ UpsertSlot(i)
      PROVE  VenuesLeft' = VenuesLeft \ {i}
  BY <1>4 DEF SkipUndecoded, SkipHeldVersion, UpsertSlot, Visited, VenuesLeft, Publishing, Commit
<1>5. ASSUME NEW i \in todo, ReadSlot(i)
      PROVE  VenuesLeft' = VenuesLeft
  BY <1>5 DEF ReadSlot, VenuesLeft, Publishing, Commit
<1>6. CASE FinishPublishing
  BY <1>6 DEF FinishPublishing, VenuesLeft, Publishing
<1>7. CASE phase \in {"remove", "index"}
  BY <1>7 DEF VenuesLeft, Publishing
<1> QED BY <1>1, <1>2, <1>3, <1>4, <1>5, <1>6, <1>7
        DEF Apply, VisitChange, RemoveVenue, RemoveChild, IndexChild, FinishRemoving, Commit

\* Children are left until each is visited, but those of parents not tracked when
\* the removals end.
LEMMA ChildrenSteps ==
  ASSUME TypeOK, ChainInv, Apply
  PROVE  \/ ChildrenLeft \subseteq ChildrenLeft'
         \/ /\ FinishRemoving
            /\ ChildrenLeft = Positions(current, "child") /\ ChildrenLeft' = todo'
         \/ \E i \in todo : IndexChild(i) /\ ChildrenLeft' = ChildrenLeft \ {i}
<1> USE ApplyApplied
<1>1. Positions(current, "child")' = Positions(current, "child")
  BY DEF Positions
<1>2. ASSUME NEW i \in todo, IndexChild(i)
      PROVE  ChildrenLeft' = ChildrenLeft \ {i}
  BY <1>2 DEF IndexChild, Visited, ChildrenLeft, Commit
<1>3. CASE FinishRemoving
  BY <1>3 DEF FinishRemoving, ChildrenLeft, Commit
<1>4. CASE Commit
  BY <1>4 DEF Commit, ChildrenLeft
<1>5. CASE phase # "index" /\ phase' # "index"
  BY <1>1, <1>5 DEF ChildrenLeft, Commit
<1> QED BY <1>2, <1>3, <1>4, <1>5
        DEF Apply, VisitChange, ResolveLayouts, DecodeObjects, DecodeAborts, SkipUndecoded,
            SkipHeldVersion, ReadSlot, UpsertSlot, RemoveVenue, RemoveChild, FinishPublishing

\* Slots change by an upsert or a removal, child sets by a removal or by indexing.
LEMMA StoreSteps ==
  ASSUME Apply
  PROVE  /\ \/ slots' = slots
            \/ \E i \in todo : UpsertSlot(i) \/ RemoveVenue(i)
         /\ \/ children' = children
            \/ \E i \in todo : RemoveVenue(i) \/ RemoveChild(i) \/ IndexChild(i)
BY DEF Apply, VisitChange, ResolveLayouts, DecodeObjects, DecodeAborts, SkipUndecoded,
       SkipHeldVersion, ReadSlot, UpsertSlot, RemoveVenue, RemoveChild, IndexChild,
       FinishPublishing, FinishRemoving, Commit, store

\* Counters never go down.
LEMMA CountGrows ==
  ASSUME TypeOK, NEW f \in Counter, NEW n \in Nat, Count(f, n)
  PROVE  \A g \in Counter : stats'[g] >= stats[g]
BY DEF Count, TypeOK

\* No step of apply_checkpoint lowers one.
LEMMA StatsGrow ==
  ASSUME TypeOK, Apply
  PROVE  \A f \in Counter : stats'[f] >= stats[f]
<1> DEFINE Grows == \A f \in Counter : stats'[f] >= stats[f]
<1>1. stats' = stats => Grows
  BY DEF TypeOK
<1>2. ASSUME NEW f \in Counter, NEW n \in Nat, Count(f, n) PROVE Grows
  BY <1>2, CountGrows
<1> HIDE DEF Grows
<1>3. {"failures", "unrecognised", "updated", "created", "removed", "indexed", "dropped"}
        \subseteq Counter
  BY DEF Counter
<1>4. ASSUME ResolveLayouts PROVE Grows
  <2>1. PICK skipped \in SUBSET todo : Count("failures", Cardinality(skipped))
    BY <1>4 DEF ResolveLayouts, SkippedObjects
  <2>2. Cardinality(skipped) \in Nat
    BY <1>4, PositionsFinite, FS_Subset, FS_CardinalityType DEF ResolveLayouts, TypeOK
  <2>3. "failures" \in Counter
    BY <1>3
  <2> QED BY <2>1, <2>2, <2>3, <1>2
<1>5. ASSUME DecodeObjects \/ DecodeAborts \/ FinishPublishing \/ FinishRemoving \/ Commit
      PROVE  Grows
  BY <1>5, <1>1 DEF DecodeObjects, DecodeAborts, FinishPublishing, FinishRemoving, Commit
<1>6. ASSUME NEW i \in todo, SkipUndecoded(i) PROVE Grows
  BY <1>6, <1>2, <1>3 DEF SkipUndecoded
<1>7. ASSUME NEW i \in todo, SkipHeldVersion(i) \/ ReadSlot(i) PROVE Grows
  BY <1>7, <1>1, <1>2, <1>3 DEF SkipHeldVersion, ReadSlot
<1>8. ASSUME NEW i \in todo, UpsertSlot(i) PROVE Grows
  BY <1>8, <1>2, <1>3 DEF UpsertSlot
<1>9. ASSUME NEW i \in todo, RemoveVenue(i) \/ RemoveChild(i) PROVE Grows
  BY <1>9, <1>1, <1>2, <1>3 DEF RemoveVenue, RemoveChild
<1>10. ASSUME NEW i \in todo, IndexChild(i) PROVE Grows
  BY <1>10, <1>1, <1>2, <1>3 DEF IndexChild
<1>11. Grows
  BY <1>4, <1>5, <1>6, <1>7, <1>8, <1>9, <1>10 DEF Apply, VisitChange
<1> QED BY <1>11 DEF Grows

\* Once something failed or was dropped it is never forgotten.
LEMMA CleanBefore ==
  ASSUME TypeOK, TypeOK', \A f \in Counter : stats'[f] >= stats[f]
  PROVE  /\ Clean' => Clean
         /\ stats'.dropped = 0 => stats.dropped = 0
BY DEF Clean, TypeOK, Counter


-----------------------------------------------------------------------------
(* The manager and the chain: steps that leave the store alone.            *)

\* One more change keeps what is reached, and reaches what it writes.
LEMMA AppendReaches ==
  ASSUME TypeOK, ChainTyped, NEW change \in Change, Appends(change), NEW v,
         \/ chain'.version[v] = chain.version[v] /\ Reaches(open, 1 .. Len(open), v)
         \/ change.kind = "venue" /\ change.id = v /\ change.version = chain'.version[v]
  PROVE  Reaches(open, 1 .. Len(open), v)'
<1>1. /\ Len(open) \in Nat /\ Len(open') = Len(open) + 1
      /\ open'[Len(open) + 1] = change
      /\ \A i \in 1 .. Len(open) : open'[i] = open[i]
  BY DEF ChainTyped, Appends
<1>2. CASE chain'.version[v] = chain.version[v] /\ Reaches(open, 1 .. Len(open), v)
  <2>1. PICK i \in 1 .. Len(open) : /\ open[i].kind = "venue" /\ open[i].id = v
                                   /\ open[i].version = chain.version[v]
    BY <1>2 DEF Reaches
  <2>2. i \in 1 .. Len(open')
    BY <1>1
  <2> QED BY <1>1, <1>2, <2>1, <2>2 DEF Reaches
<1>3. CASE change.kind = "venue" /\ change.id = v /\ change.version = chain'.version[v]
  <2>1. Len(open) + 1 \in 1 .. Len(open')
    BY <1>1
  <2> QED BY <1>1, <1>3, <2>1 DEF Reaches
<1> QED BY <1>2, <1>3

\* The manager has not moved.
LEMMA AppendLeft ==
  ASSUME NEW change, Appends(change)
  PROVE  /\ slots' = slots /\ children' = children /\ stats' = stats
         /\ current' = current /\ VenuesLeft' = VenuesLeft
         /\ RemovalsLeft' = RemovalsLeft /\ ChildrenLeft' = ChildrenLeft
         /\ \A v : chain'.version[v] = chain.version[v]
              => (Reaches(current.changes, VenuesLeft, v)'
                    <=> Reaches(current.changes, VenuesLeft, v))
<1>1. /\ slots' = slots /\ children' = children /\ stats' = stats /\ current' = current
      /\ applied' = applied /\ lastApplied' = lastApplied /\ phase' = phase /\ todo' = todo
  BY DEF Appends, vars, store, progress, work
<1>2. /\ VenuesLeft' = VenuesLeft /\ RemovalsLeft' = RemovalsLeft
      /\ ChildrenLeft' = ChildrenLeft
  BY <1>1 DEF VenuesLeft, RemovalsLeft, ChildrenLeft, Applied, Positions
<1> QED BY <1>1, <1>2 DEF Reaches

\* What the chain does is under way until it is sealed.
LEMMA ChainStepServedInv ==
  ASSUME TypeOK, ChainInv, ChainInv', ServedInv, ChainStep
  PROVE  ServedInv'
<1> USE DEF ChainInv, ServedInv
<1>1. ASSUME NEW v \in Venue \ chain.retired,
             Appends([kind |-> "venue", id |-> v, version |-> chain.version[v] + 1]),
             chain'.version = [chain.version EXCEPT ![v] = @ + 1],
             chain'.seen = [chain.seen EXCEPT ![v] = IF @ = 0 THEN OpenSeq ELSE @],
             chain'.retired = chain.retired, chain'.live = chain.live,
             chain'.wrote = chain.wrote, chain'.died = chain.died
      PROVE  ServedInv'
  <2> DEFINE change == [kind |-> "venue", id |-> v, version |-> chain.version[v] + 1]
  <2>1. /\ change \in Change /\ change.kind = "venue" /\ change.id = v
        /\ change.version = chain'.version[v]
    BY <1>1 DEF Change, ChainTyped
  <2>2. Appends(change)
    BY <1>1
  <2> HIDE DEF change
  <2>3. /\ \A w \in Venue : w # v => /\ chain'.version[w] = chain.version[w]
                                     /\ chain'.seen[w] = chain.seen[w]
        /\ chain'.version[v] = chain.version[v] + 1
        /\ chain'.seen[v] = (IF chain.seen[v] = 0 THEN OpenSeq ELSE chain.seen[v])
    BY <1>1 DEF ChainTyped
  <2>4. RetiredInv' /\ DeadInv'
    BY <1>1, <2>1, <2>2, AppendLeft, AppendFacts DEF RetiredInv, DeadInv, Tracked, Names
  <2>5. ServedReached'
    <3>1. \A w \in Venue : slots[w].version \in Nat /\ chain.version[w] \in Nat
      BY DEF TypeOK, Slot, ChainTyped
    <3> QED BY <3>1, <2>2, <2>3, AppendLeft, Opened DEF ServedReached, Tracked
  <2>6. LatestInv'
    BY <1>1, <2>1, <2>2, <2>3, AppendLeft, AppendReaches DEF LatestInv, Clean
  <2>7. TrackedInv'
    BY <1>1, <2>1, <2>2, <2>3, AppendLeft, AppendFacts DEF TrackedInv, Clean, Tracked, Names
  <2>8. IndexedInv'
    <3> SUFFICES ASSUME Clean', stats'.dropped = 0, NEW p \in Pool \ chain.retired,
                        NEW c \in chain.live, chain'.seen[p] # 0, ParentOf[c] = NodeUid[p],
                        chain.wrote[c] >= chain'.seen[p], ~ Has(open', "child", c)
                 PROVE  c \in children[NodeUid[p]] \/ Names(ChildrenLeft, c)
      BY <1>1, <2>2, AppendLeft DEF IndexedInv, Names
    <3>1. p \in Venue /\ c \in Child /\ ~ Has(open, "child", c)
      BY <2>1, <2>2, AppendFacts, IdsAssumption DEF ChainTyped
    <3>2. chain.seen[p] # 0
      <4>1. chain.wrote[c] \in Nat /\ chain.wrote[c] < OpenSeq
        BY <3>1, Opened DEF FieldsStreamed, ChainTyped
      <4> QED BY <4>1, <3>1, <2>3, Opened
    <3>3. chain'.seen[p] = chain.seen[p]
      BY <3>1, <3>2, <2>3
    <3> QED BY <2>2, <3>1, <3>2, <3>3, AppendLeft DEF IndexedInv, Clean
  <2> QED BY <2>4, <2>5, <2>6, <2>7, <2>8
<1>2. ASSUME NEW v \in Venue \ chain.retired,
             Appends([kind |-> "removed", id |-> v]),
             chain'.retired = chain.retired \union {v},
             chain'.version = chain.version, chain'.seen = chain.seen,
             chain'.live = chain.live,
             chain'.wrote = chain.wrote, chain'.died = chain.died
      PROVE  ServedInv'
  <2> DEFINE change == [kind |-> "removed", id |-> v]
  <2>1. change \in Change /\ change.kind = "removed" /\ change.id = v
    BY DEF Change
  <2>2. Appends(change)
    BY <1>2
  <2> HIDE DEF change
  <2>4. RetiredInv' /\ DeadInv'
    BY <1>2, <2>1, <2>2, AppendLeft, AppendFacts DEF RetiredInv, DeadInv, Tracked, Names
  <2>5. ServedReached'
    BY <1>2, <2>2, AppendLeft DEF ServedReached, Tracked
  <2>6. LatestInv'
    BY <1>2, <2>1, <2>2, AppendLeft, AppendReaches DEF LatestInv, Clean
  <2>7. TrackedInv'
    BY <1>2, <2>1, <2>2, AppendLeft, AppendFacts DEF TrackedInv, Clean, Tracked, Names
  <2>8. IndexedInv'
    BY <1>2, <2>1, <2>2, AppendLeft, AppendFacts DEF IndexedInv, Clean, Names
  <2> QED BY <2>4, <2>5, <2>6, <2>7, <2>8
<1>3. ASSUME NEW c \in Child,
             Appends([kind |-> "child", id |-> c]),
             chain'.live = chain.live \union {c},
             chain'.wrote = [chain.wrote EXCEPT ![c] = OpenSeq],
             chain'.died = chain.died,
             chain'.version = chain.version, chain'.seen = chain.seen,
             chain'.retired = chain.retired
      PROVE  ServedInv'
  <2> DEFINE change == [kind |-> "child", id |-> c]
  <2>1. change \in Change /\ change.kind = "child" /\ change.id = c
    BY DEF Change
  <2>2. Appends(change)
    BY <1>3
  <2> HIDE DEF change
  <2>3. \A d \in Child \ {c} : chain'.wrote[d] = chain.wrote[d]
    BY <1>3 DEF ChainTyped
  <2>4. RetiredInv'
    BY <1>3, <2>1, <2>2, AppendLeft, AppendFacts DEF RetiredInv, Tracked, Names
  <2>5. ServedReached'
    BY <1>3, <2>2, AppendLeft DEF ServedReached, Tracked
  <2>6. LatestInv'
    BY <1>3, <2>1, <2>2, AppendLeft, AppendReaches DEF LatestInv, Clean
  <2>7. TrackedInv'
    BY <1>3, <2>1, <2>2, AppendLeft, AppendFacts DEF TrackedInv, Clean, Tracked, Names
  <2>8. IndexedInv'
    <3> SUFFICES ASSUME Clean', stats'.dropped = 0, NEW p \in Pool \ chain.retired,
                        NEW d \in chain'.live, chain.seen[p] # 0, ParentOf[d] = NodeUid[p],
                        chain'.wrote[d] >= chain.seen[p], ~ Has(open', "child", d)
                 PROVE  d \in children[NodeUid[p]] \/ Names(ChildrenLeft, d)
      BY <1>3, <2>2, AppendLeft DEF IndexedInv, Names
    <3>1. d # c /\ ~ Has(open, "child", d)
      BY <2>1, <2>2, AppendFacts
    <3>2. d \in chain.live /\ chain'.wrote[d] = chain.wrote[d]
      BY <1>3, <2>3, <3>1 DEF ChainTyped
    <3> QED BY <2>2, <3>1, <3>2, AppendLeft DEF IndexedInv, Clean
  <2>9. DeadInv'
    BY <1>3, <2>1, <2>2, <2>3, AppendLeft, AppendFacts DEF DeadInv, Names, TypeOK
  <2> QED BY <2>4, <2>5, <2>6, <2>7, <2>8, <2>9
<1>4. ASSUME NEW c \in chain.live,
             Appends([kind |-> "removed", id |-> c]),
             chain'.live = chain.live \ {c},
             chain'.died = [chain.died EXCEPT ![c] = OpenSeq],
             chain'.wrote = chain.wrote,
             chain'.version = chain.version, chain'.seen = chain.seen,
             chain'.retired = chain.retired
      PROVE  ServedInv'
  <2> DEFINE change == [kind |-> "removed", id |-> c]
  <2>1. change \in Change /\ change.kind = "removed" /\ change.id = c /\ c \in Child
    BY DEF Change, ChainTyped
  <2>2. Appends(change)
    BY <1>4
  <2> HIDE DEF change
  <2>3. \A d \in Child \ {c} : chain'.died[d] = chain.died[d]
    BY <1>4 DEF ChainTyped
  <2>4. RetiredInv'
    BY <1>4, <2>1, <2>2, AppendLeft, AppendFacts DEF RetiredInv, Tracked, Names
  <2>5. ServedReached'
    BY <1>4, <2>2, AppendLeft DEF ServedReached, Tracked
  <2>6. LatestInv'
    BY <1>4, <2>1, <2>2, AppendLeft, AppendReaches DEF LatestInv, Clean
  <2>7. TrackedInv'
    BY <1>4, <2>1, <2>2, AppendLeft, AppendFacts DEF TrackedInv, Clean, Tracked, Names
  <2>8. IndexedInv'
    <3> SUFFICES ASSUME Clean', stats'.dropped = 0, NEW p \in Pool \ chain.retired,
                        NEW d \in chain.live, chain.seen[p] # 0, ParentOf[d] = NodeUid[p],
                        chain.wrote[d] >= chain.seen[p], ~ Has(open', "child", d)
                 PROVE  d \in children[NodeUid[p]] \/ Names(ChildrenLeft, d)
      BY <1>4, <2>2, AppendLeft DEF IndexedInv, Names
    <3>1. ~ Has(open, "child", d)
      BY <2>1, <2>2, AppendFacts
    <3>2. Clean /\ stats.dropped = 0
      BY <2>2, AppendLeft DEF Clean
    <3> QED BY <3>1, <3>2 DEF IndexedInv
  <2>9. DeadInv'
    <3>1. \A u \in Uid : children[u] \subseteq Child
      BY DEF TypeOK
    <3> QED BY <1>4, <2>1, <2>2, <2>3, <3>1, AppendLeft, AppendFacts DEF DeadInv, Names
  <2> QED BY <2>4, <2>5, <2>6, <2>7, <2>8, <2>9
<1> QED BY <1>1, <1>2, <1>3, <1>4, ChainSteps


\* What was open is left to visit, and nothing else was.
LEMMA DeliverLeft ==
  ASSUME TypeOK, ChainInv, Deliver
  PROVE  /\ UNCHANGED <<chain, slots, children>>
         /\ \A f \in Counter : stats'[f] >= stats[f]
         /\ OpenSeq' = OpenSeq + 1 /\ OpenSeq \in Nat
         /\ VenuesLeft = {} /\ RemovalsLeft = {} /\ ChildrenLeft = {}
         /\ \A id : /\ Names(VenuesLeft, id)' <=> Has(open, "venue", id)
                    /\ Names(RemovalsLeft, id)' <=> Has(open, "removed", id)
                    /\ Names(ChildrenLeft, id)' <=> Has(open, "child", id)
         /\ \A v : Reaches(open, 1 .. Len(open), v) => Reaches(current.changes, VenuesLeft, v)'
<1>1. PICK ck \in Checkpoint :
        /\ ck.seq = OpenSeq /\ ck.changes = open
        /\ TakesUp(ck) /\ Call(ck)
        /\ open' = <<>> /\ ~ Applied' /\ Sealed' = open /\ OpenSeq' = OpenSeq + 1
  BY DeliverTakesUp
<1>2. VenuesLeft = {} /\ RemovalsLeft = {} /\ ChildrenLeft = {}
  BY NothingLeft DEF Deliver
<1>3. UNCHANGED <<chain, slots, children>> /\ current' = ck
      /\ \A f \in Counter : stats'[f] >= stats[f]
  BY <1>1 DEF TakesUp, store
<1>4. \A id : /\ Names(VenuesLeft, id)' <=> Has(open, "venue", id)
              /\ Names(RemovalsLeft, id)' <=> Has(open, "removed", id)
              /\ Names(ChildrenLeft, id)' <=> Has(open, "child", id)
  BY <1>1, TakenUp
<1>5. VenuesLeft' = Positions(ck, "venue")
  BY <1>1, TakenUp
<1>6. \A v : Reaches(open, 1 .. Len(open), v) => Reaches(current.changes, VenuesLeft, v)'
  BY <1>1, <1>3, <1>5 DEF Reaches, Positions
<1> QED BY <1>1, <1>2, <1>3, <1>4, <1>6, Opened

\* Handing the open checkpoint over leaves it all to be visited.
LEMMA DeliverServedInv ==
  ASSUME TypeOK, TypeOK', ChainInv, ServedInv, Deliver
  PROVE  ServedInv'
<1> USE DeliverLeft DEF ServedInv
<1>1. /\ chain' = chain /\ slots' = slots /\ children' = children
      /\ Clean' => Clean
      /\ stats'.dropped = 0 => stats.dropped = 0
  BY CleanBefore
<1>2. \A id : ~ Names(VenuesLeft, id) /\ ~ Names(RemovalsLeft, id) /\ ~ Names(ChildrenLeft, id)
  BY DEF Names
<1>3. RetiredInv'
  BY <1>1, <1>2 DEF RetiredInv, Tracked
<1>4. ServedReached'
  BY <1>1 DEF ServedReached, Tracked
<1>5. LatestInv'
  BY <1>1 DEF LatestInv, Reaches
<1>6. TrackedInv'
  BY <1>1, <1>2 DEF TrackedInv, Tracked, ChainInv, VenuesStreamed
<1>7. IndexedInv'
  BY <1>1, <1>2 DEF IndexedInv
<1>8. DeadInv'
  BY <1>1, <1>2 DEF DeadInv
<1> QED BY <1>3, <1>4, <1>5, <1>6, <1>7, <1>8

\* Nothing is lost when a checkpoint comes again.
LEMMA RedeliverServedInv ==
  ASSUME TypeOK, TypeOK', ChainInv, ServedInv, Redeliver
  PROVE  ServedInv'
<1> USE RedeliverLeft DEF ServedInv
<1>1. /\ chain' = chain /\ open' = open /\ slots' = slots /\ children' = children
      /\ current' = current /\ OpenSeq' = OpenSeq
      /\ Clean' => Clean
      /\ stats'.dropped = 0 => stats.dropped = 0
  BY CleanBefore DEF OpenSeq
<1>2. RetiredInv' /\ ServedReached'
  BY <1>1 DEF RetiredInv, ServedReached, Tracked, Names
<1>3. LatestInv'
  BY <1>1 DEF LatestInv, Reaches
<1>4. TrackedInv'
  BY <1>1 DEF TrackedInv, Tracked, Names
<1>5. IndexedInv' /\ DeadInv'
  BY <1>1 DEF IndexedInv, DeadInv, Names
<1> QED BY <1>2, <1>3, <1>4, <1>5


-----------------------------------------------------------------------------
(* The manager and the chain: steps of apply_checkpoint.                   *)

\* A venue that is not retired is never removed: its slot changes by an upsert.
LEMMA LiveSlots ==
  ASSUME TypeOK, ChainInv, Apply, NEW v \in Venue \ chain.retired
  PROVE  \/ slots'[v] = slots[v]
         \/ \E i \in todo : /\ UpsertSlot(i) /\ current.changes[i].id = v
                            /\ slots'[v].version = current.changes[i].version
<1>1. ASSUME NEW i \in todo, UpsertSlot(i)
      PROVE  \/ slots'[v] = slots[v]
             \/ /\ current.changes[i].id = v
                /\ slots'[v].version = current.changes[i].version
  BY <1>1 DEF UpsertSlot, TypeOK
<1>2. ASSUME NEW i \in todo, RemoveVenue(i)
      PROVE  slots'[v] = slots[v]
  <2>1. phase = "remove"
    BY <1>2 DEF RemoveVenue
  <2>2. Has(Sealed, "removed", current.changes[i].id)
    BY <2>1, Visits
  <2>3. current.changes[i].id # v
    BY <2>2 DEF ChainInv, VenuesStreamed
  <2> QED BY <1>2, <2>3 DEF RemoveVenue, TypeOK
<1> QED BY <1>1, <1>2, StoreSteps

\* A slot appears only by an upsert.
LEMMA SlotAppears ==
  ASSUME TypeOK, Apply, NEW v \in Venue, Tracked(v)', ~ Tracked(v)
  PROVE  \E i \in todo : UpsertSlot(i) /\ current.changes[i].id = v
<1>1. ASSUME NEW i \in todo, UpsertSlot(i) PROVE current.changes[i].id = v
  BY <1>1 DEF UpsertSlot, TypeOK, Tracked
<1>2. ASSUME NEW i \in todo, RemoveVenue(i) PROVE FALSE
  BY <1>2 DEF RemoveVenue, TypeOK, Tracked, NoSlot
<1> QED BY <1>1, <1>2, StoreSteps DEF Tracked

\* A venue streamed for the last time is removed in the same checkpoint.
LEMMA ApplyRetiredInv ==
  ASSUME TypeOK, ChainInv, RetiredInv, Apply, UNCHANGED <<chain, open>>
  PROVE  RetiredInv'
<1> SUFFICES ASSUME NEW v \in chain.retired, Tracked(v)', ~ Has(open, "removed", v)
             PROVE  Names(RemovalsLeft, v)'
  BY DEF RetiredInv
<1>1. v \in Venue
  BY DEF ChainInv, ChainTyped
<1>2. Names(RemovalsLeft, v)
  <2>1. CASE Tracked(v)
    BY <2>1 DEF RetiredInv
  <2>2. CASE ~ Tracked(v)
    <3>1. PICK i \in todo : UpsertSlot(i) /\ current.changes[i].id = v
      BY <1>1, <2>2, SlotAppears
    <3>2. phase = "upsert" /\ phase # "idle"
      BY <3>1 DEF UpsertSlot
    <3>3. Has(Sealed, "venue", v)
      BY <3>1, <3>2, Visits DEF Publishing
    <3>4. Has(Sealed, "removed", v)
      BY <1>1, <3>3 DEF ChainInv, VenuesStreamed
    <3>5. RemovalsLeft = Positions(current, "removed") /\ Sealed = current.changes
      BY <3>2, InHand DEF RemovalsLeft
    <3> QED BY <3>4, <3>5 DEF Names, Has, Positions
  <2> QED BY <2>1, <2>2
<1>3. PICK j \in RemovalsLeft : current.changes[j].id = v
  BY <1>2 DEF Names
<1>4. current' = current
  BY ApplyFrame
<1>5. j \in RemovalsLeft'
  <2>1. ~ RemoveVenue(j)
    BY <1>1, <1>3 DEF RemoveVenue, Removes, Tracked, TypeOK, NoSlot
  <2>2. ~ RemoveChild(j)
    BY <1>1, <1>3, IdsAssumption DEF RemoveChild
  <2> QED BY <2>1, <2>2, RemovalsSteps
<1> QED BY <1>3, <1>4, <1>5 DEF Names

\* What is upserted has been streamed.
LEMMA ApplyServedReached ==
  ASSUME TypeOK, TypeOK', ChainInv, ServedReached, Apply, UNCHANGED <<chain, open>>
  PROVE  ServedReached'
<1> SUFFICES ASSUME NEW v \in Venue
             PROVE  /\ slots'[v].version <= chain.version[v]
                    /\ chain.seen[v] = 0 => slots'[v].version = 0
  BY DEF ServedReached, Tracked
<1>1. CASE slots'[v] = slots[v]
  BY <1>1 DEF ServedReached, Tracked
<1>2. ASSUME NEW i \in todo, UpsertSlot(i), slots'[v] # slots[v]
      PROVE  /\ slots'[v].version <= chain.version[v]
             /\ chain.seen[v] # 0
  <2>1. current.changes[i].id = v /\ slots'[v].version = current.changes[i].version
    BY <1>2 DEF UpsertSlot, TypeOK
  <2>2. phase \in Publishing
    BY <1>2 DEF UpsertSlot, Publishing
  <2>3. /\ i \in 1 .. Len(Sealed) /\ Sealed[i] = current.changes[i]
        /\ Sealed[i].kind = "venue" /\ Has(Sealed, "venue", v)
    BY <2>1, <2>2, Visits
  <2> QED BY <2>1, <2>3 DEF ChainInv, VersionsReached, VenuesStreamed
<1>3. ASSUME NEW i \in todo, RemoveVenue(i), slots'[v] # slots[v]
      PROVE  slots'[v].version = 0 /\ slots'[v].version <= chain.version[v]
  <2>1. slots'[v] = NoSlot
    BY <1>3 DEF RemoveVenue, TypeOK
  <2>2. chain.version[v] \in Nat
    BY DEF ChainInv, ChainTyped
  <2> QED BY <2>1, <2>2 DEF NoSlot
<1> QED BY <1>1, <1>2, <1>3, StoreSteps

\* When nothing failed, no candidate is skipped but for a version it does not
\* need.
LEMMA VenueVisited ==
  ASSUME TypeOK, TypeOK', ChainInv, Apply, Clean', NEW i \in VenuesLeft
  PROVE  \/ i \in VenuesLeft'
         \/ i \in todo /\ phase \in Publishing /\ (SkipHeldVersion(i) \/ UpsertSlot(i))
<1>1. CASE VenuesLeft \subseteq VenuesLeft'
  BY <1>1
<1>2. CASE ResolveLayouts /\ VenuesLeft = todo /\ VenuesLeft' = todo'
  <2>1. PICK skipped \in SUBSET todo :
          todo' = todo \ skipped /\ Count("failures", Cardinality(skipped))
    BY <1>2 DEF ResolveLayouts, SkippedObjects
  <2>2. IsFiniteSet(skipped) /\ Cardinality(skipped) \in Nat
    BY <1>2, <2>1, PositionsFinite, FS_Subset DEF ResolveLayouts, TypeOK
  <2>3. "failures" \in Counter
    BY DEF Counter
  <2>4. stats'["failures"] = stats["failures"] + Cardinality(skipped)
        /\ stats["failures"] \in Nat
    BY <2>1, <2>3 DEF Count, TypeOK
  <2>5. stats'["failures"] = 0
    BY DEF Clean
  <2>6. Cardinality(skipped) = 0
    BY <2>2, <2>4, <2>5
  <2>7. skipped = {}
    BY <2>2, <2>6, FS_EmptySet
  <2> QED BY <1>2, <2>1, <2>7
<1>3. ASSUME NEW j \in todo, SkipUndecoded(j) \/ SkipHeldVersion(j) \/ UpsertSlot(j),
             VenuesLeft' = VenuesLeft \ {j}
      PROVE  \/ i \in VenuesLeft'
             \/ i \in todo /\ phase \in Publishing /\ (SkipHeldVersion(i) \/ UpsertSlot(i))
  <2>1. ~ SkipUndecoded(j)
    <3>1. ASSUME SkipUndecoded(j)
          PROVE  stats'["failures"] = stats["failures"] + 1
                 \/ stats'["unrecognised"] = stats["unrecognised"] + 1
      BY <3>1 DEF SkipUndecoded, Count, TypeOK, Counter
    <3>2. stats["failures"] \in Nat /\ stats["unrecognised"] \in Nat
      BY DEF TypeOK, Counter
    <3>3. stats'["failures"] = 0 /\ stats'["unrecognised"] = 0
      BY DEF Clean
    <3> QED BY <3>1, <3>2, <3>3
  <2>2. phase \in Publishing
    BY <1>3 DEF SkipUndecoded, SkipHeldVersion, UpsertSlot, Publishing
  <2> QED BY <1>3, <2>1, <2>2
<1> QED BY <1>1, <1>2, <1>3, VenuesSteps


\* A version that is needed is published.
LEMMA ApplyLatestInv ==
  ASSUME TypeOK, TypeOK', ChainInv, UpsertNewer, ServedReached, LatestInv, Apply,
         UNCHANGED <<chain, open>>
  PROVE  LatestInv'
<1> SUFFICES ASSUME Clean', NEW v \in Venue \ chain.retired, chain.seen[v] # 0,
                    ~ Reaches(open, 1 .. Len(open), v)
             PROVE  \/ slots'[v].version = chain.version[v]
                    \/ Reaches(current.changes, VenuesLeft, v)'
  BY DEF LatestInv, Reaches
<1>1. Clean /\ current' = current
  BY StatsGrow, CleanBefore, ApplyFrame
<1>2. slots[v].version \in Nat /\ chain.version[v] \in Nat /\ slots[v].version <= chain.version[v]
  BY DEF TypeOK, Slot, ChainInv, ChainTyped, ServedReached
<1>3. CASE slots[v].version = chain.version[v]
  <2>1. ASSUME NEW i \in todo, UpsertSlot(i), current.changes[i].id = v
        PROVE  FALSE
    <3>1. phase = "upsert" /\ IsNext(i)
      BY <2>1 DEF UpsertSlot
    <3>2. /\ i \in 1 .. Len(Sealed) /\ Sealed[i] = current.changes[i]
          /\ Sealed[i].kind = "venue" /\ current.changes[i] \in Change
      BY <3>1, Visits DEF Publishing
    <3>3. current.changes[i].version <= chain.version[v]
      BY <2>1, <3>2 DEF ChainInv, VersionsReached
    <3>4. current.changes[i].version \in Nat \ {0}
      BY <3>2, ChangeFields
    <3>5. ShouldPublish(slots[v].version, current.changes[i].version)
      BY <2>1, <3>1 DEF UpsertNewer
    <3> QED BY <1>2, <1>3, <3>3, <3>4, <3>5 DEF ShouldPublish
  <2> QED BY <1>3, <2>1, LiveSlots
<1>4. CASE Reaches(current.changes, VenuesLeft, v)
  <2>1. PICK i \in VenuesLeft : /\ current.changes[i].kind = "venue"
                                /\ current.changes[i].id = v
                                /\ current.changes[i].version = chain.version[v]
    BY <1>4 DEF Reaches
  <2>2. CASE i \in VenuesLeft'
    BY <1>1, <2>1, <2>2 DEF Reaches
  <2>3. CASE i \in todo /\ SkipHeldVersion(i)
    <3>1. ~ ShouldPublish(slots[v].version, chain.version[v]) /\ slots' = slots
      BY <2>1, <2>3 DEF SkipHeldVersion, store
    <3> QED BY <1>2, <3>1 DEF ShouldPublish
  <2>4. CASE i \in todo /\ UpsertSlot(i)
    BY <2>1, <2>4 DEF UpsertSlot, TypeOK
  <2> QED BY <2>2, <2>3, <2>4, VenueVisited
<1> QED BY <1>1, <1>3, <1>4 DEF LatestInv

\* A venue that is needed is tracked.
LEMMA ApplyTrackedInv ==
  ASSUME TypeOK, TypeOK', ChainInv, TrackedInv, Apply, UNCHANGED <<chain, open>>
  PROVE  TrackedInv'
<1>1. OpenSeq' = OpenSeq /\ current' = current
  BY ApplyFrame DEF OpenSeq
<1> SUFFICES ASSUME Clean', NEW v \in Venue \ chain.retired,
                    chain.seen[v] # 0, chain.seen[v] # OpenSeq
             PROVE  slots'[v].version # 0 \/ Names(VenuesLeft, v)'
  BY <1>1 DEF TrackedInv, Tracked
<1>2. Clean
  BY StatsGrow, CleanBefore
<1>3. ASSUME NEW i \in todo, UpsertSlot(i), current.changes[i].id = v
      PROVE  slots'[v].version # 0
  <2>1. phase \in Publishing
    BY <1>3 DEF UpsertSlot, Publishing
  <2>2. current.changes[i].version # 0
    BY <2>1, Visits, ChangeFields
  <2> QED BY <1>3, <2>2 DEF UpsertSlot, TypeOK
<1>4. CASE Tracked(v)
  BY <1>3, <1>4, LiveSlots DEF Tracked
<1>5. CASE Names(VenuesLeft, v)
  <2>1. PICK i \in VenuesLeft : current.changes[i].id = v
    BY <1>5 DEF Names
  <2>2. CASE i \in VenuesLeft'
    BY <1>1, <2>1, <2>2 DEF Names
  <2>3. CASE i \in todo /\ phase \in Publishing /\ SkipHeldVersion(i)
    <3>1. current.changes[i] \in Change /\ current.changes[i].kind = "venue"
      BY <2>3, Visits
    <3>2. ~ ShouldPublish(slots[v].version, current.changes[i].version) /\ slots' = slots
      BY <2>1, <2>3 DEF SkipHeldVersion, store
    <3> QED BY <3>2 DEF ShouldPublish
  <2>4. CASE i \in todo /\ UpsertSlot(i)
    BY <1>3, <2>1, <2>4
  <2> QED BY <2>2, <2>3, <2>4, VenueVisited
<1> QED BY <1>2, <1>4, <1>5 DEF TrackedInv

\* A live child leaves its set only to be indexed again by the same checkpoint.
LEMMA ApplyKeepsLive ==
  ASSUME TypeOK, ChainInv, Apply, NEW p \in Pool \ chain.retired, NEW c \in chain.live,
         c \in children[NodeUid[p]], ~ Has(open, "child", c)
  PROVE  c \in children'[NodeUid[p]] \/ Names(ChildrenLeft, c)'
<1>1. p \in Venue \ chain.retired /\ NodeUid[p] \in Uid /\ c \in Child /\ current' = current
  BY IdsAssumption, NodeUidAssumption, ApplyFrame DEF ChainInv, ChainTyped
<1>2. ASSUME NEW i \in todo, RemoveVenue(i)
      PROVE  c \in children'[NodeUid[p]]
  <2> DEFINE q == current.changes[i].id
  <2>1. phase = "remove" /\ q \in Venue
    BY <1>2 DEF RemoveVenue
  <2>2. q # p
    BY <1>1, <2>1, Visits DEF ChainInv, VenuesStreamed
  <2>3. q \in Pool => NodeUid[q] # NodeUid[p]
    BY <2>2, NodeUidAssumption
  <2>4. children' = children \/ children' = WithoutPool(q)
    BY <1>2 DEF RemoveVenue
  <2> HIDE DEF q
  <2> QED BY <1>1, <2>3, <2>4 DEF WithoutPool, TypeOK
<1>3. ASSUME NEW i \in todo, RemoveChild(i), c \notin children'[NodeUid[p]]
      PROVE  Names(ChildrenLeft, c)'
  <2>1. phase = "remove" /\ phase' = "remove"
    BY <1>3 DEF RemoveChild
  <2>2. current.changes[i].id = c
    BY <1>1, <1>3 DEF RemoveChild, WithoutChild, TypeOK
  <2>3. Has(Sealed, "removed", c)
    BY <2>1, <2>2, Visits
  <2>4. Has(Sealed, "child", c)
    BY <1>1, <2>3 DEF ChainInv, FieldsStreamed
  <2>5. Sealed = current.changes /\ ~ Applied'
    BY <2>1, InHand, ApplyApplied DEF Commit
  <2>6. ChildrenLeft' = Positions(current, "child")
    BY <1>1, <2>1, <2>5 DEF ChildrenLeft
  <2> QED BY <1>1, <2>4, <2>5, <2>6 DEF Names, Has, Positions
<1>4. ASSUME NEW i \in todo, IndexChild(i)
      PROVE  c \in children'[NodeUid[p]]
  BY <1>1, <1>4 DEF IndexChild, TypeOK
<1> QED BY <1>2, <1>3, <1>4, StoreSteps


\* A live child that is under way ends in its set, if nothing is dropped.
LEMMA ApplyIndexesLive ==
  ASSUME TypeOK, TypeOK', ChainInv, TrackedInv, Apply, Clean, stats'.dropped = 0,
         NEW p \in Pool \ chain.retired, NEW c \in chain.live,
         chain.seen[p] # 0, ParentOf[c] = NodeUid[p], chain.wrote[c] >= chain.seen[p],
         ~ Has(open, "child", c), Names(ChildrenLeft, c)
  PROVE  c \in children'[NodeUid[p]] \/ Names(ChildrenLeft, c)'
<1>1. p \in Venue \ chain.retired /\ NodeUid[p] \in Uid /\ c \in Child /\ current' = current
  BY IdsAssumption, NodeUidAssumption, ApplyFrame DEF ChainInv, ChainTyped
<1>2. PICK i \in ChildrenLeft : current.changes[i].id = c
  BY DEF Names
<1>3. CASE i \in ChildrenLeft'
  BY <1>1, <1>2, <1>3 DEF Names
<1>4. CASE FinishRemoving /\ ChildrenLeft = Positions(current, "child") /\ ChildrenLeft' = todo'
  <2>1. chain.seen[p] # OpenSeq
    BY <1>1, Opened DEF ChainInv, ChainTyped, FieldsStreamed
  <2>2. VenuesLeft = {}
    BY <1>4, ApplyApplied DEF FinishRemoving, VenuesLeft, Publishing
  <2>3. Tracked(p)
    BY <1>1, <2>1, <2>2 DEF TrackedInv, Names
  <2>4. ParentOf[c] \in Priced
    BY <2>3 DEF Priced
  <2>5. i \in todo'
    BY <1>2, <1>4, <2>4 DEF FinishRemoving
  <2> QED BY <1>3, <1>4, <2>5
<1>5. ASSUME NEW j \in todo, IndexChild(j), ChildrenLeft' = ChildrenLeft \ {j}
      PROVE  i \in ChildrenLeft' \/ c \in children'[NodeUid[p]]
  <2>1. CASE j # i
    BY <1>5, <2>1
  <2>2. CASE j = i
    <3>1. ~ Count("dropped", 1)
      BY DEF Count, TypeOK, Counter
    <3> QED BY <1>1, <1>2, <1>5, <2>2, <3>1 DEF IndexChild, TypeOK
  <2> QED BY <2>1, <2>2
<1> QED BY <1>2, <1>3, <1>4, <1>5, ChildrenSteps

\* A live child that is in its set or under way ends up there.
LEMMA ApplyIndexedInv ==
  ASSUME TypeOK, TypeOK', ChainInv, TrackedInv, IndexedInv, Apply, UNCHANGED <<chain, open>>
  PROVE  IndexedInv'
<1> SUFFICES ASSUME Clean', stats'.dropped = 0, NEW p \in Pool \ chain.retired,
                    NEW c \in chain.live, chain.seen[p] # 0, ParentOf[c] = NodeUid[p],
                    chain.wrote[c] >= chain.seen[p], ~ Has(open, "child", c)
             PROVE  c \in children'[NodeUid[p]] \/ Names(ChildrenLeft, c)'
  BY DEF IndexedInv
<1>1. Clean /\ stats.dropped = 0
  BY StatsGrow, CleanBefore
<1>2. c \in children[NodeUid[p]] \/ Names(ChildrenLeft, c)
  BY <1>1 DEF IndexedInv
<1> QED BY <1>1, <1>2, ApplyKeepsLive, ApplyIndexesLive

\* A dead child is indexed only if the same checkpoint deleted it, and otherwise
\* leaves its set.
LEMMA ApplyDeadInv ==
  ASSUME TypeOK, ChainInv, OwnersRouteHeld, DeadInv, Apply, UNCHANGED <<chain, open>>
  PROVE  DeadInv'
<1> SUFFICES ASSUME NEW u \in Uid, NEW c \in children'[u] \ chain.live,
                    chain.wrote[c] # chain.died[c], ~ Has(open, "removed", c)
             PROVE  Names(RemovalsLeft, c)'
  BY DEF DeadInv
<1>1. c \in children[u]
  <2>1. ASSUME NEW i \in todo, IndexChild(i), c \notin children[u]
        PROVE  FALSE
    <3>1. phase = "index"
      BY <2>1 DEF IndexChild
    <3>2. current.changes[i].id = c /\ Has(Sealed, "child", c)
      <4>1. current.changes[i].id = c
        BY <2>1 DEF IndexChild, TypeOK
      <4> QED BY <3>1, <4>1, Visits
    <3>3. c \in Child
      BY <3>1, <3>2, Visits, ChangeFields
    <3> QED BY <3>2, <3>3 DEF ChainInv, FieldsStreamed
  <2>2. ASSUME NEW i \in todo, RemoveVenue(i) \/ RemoveChild(i), c \notin children[u]
        PROVE  FALSE
    BY <2>2, NodeUidAssumption DEF RemoveVenue, RemoveChild, WithoutPool, WithoutChild, TypeOK
  <2> QED BY <2>1, <2>2, StoreSteps
<1>2. c \in Child
  BY <1>1 DEF TypeOK
<1>3. PICK j \in RemovalsLeft : current.changes[j].id = c
  BY <1>1 DEF DeadInv, Names
<1>4. ~ RemoveVenue(j)
  BY <1>2, <1>3, IdsAssumption DEF RemoveVenue
<1>5. ~ RemoveChild(j)
  <2>1. childOwners[c] = u
    BY <1>1 DEF OwnersRouteHeld
  <2> QED BY <1>3, <2>1, SentinelAssumption DEF RemoveChild, WithoutChild, TypeOK
<1>6. j \in RemovalsLeft' /\ current' = current
  BY <1>4, <1>5, RemovalsSteps, ApplyFrame
<1> QED BY <1>3, <1>6 DEF Names

-----------------------------------------------------------------------------
(* The invariant.                                                          *)

\* Nothing has been streamed or tracked at the start.
LEMMA InitIngestInv == IngestInit => IngestInv
<1> SUFFICES ASSUME IngestInit PROVE IngestInv
  OBVIOUS
<1>1. TypeOK /\ IndexInv /\ UpsertNewer
  BY InitTypeOK, InitIndexInv DEF IngestInit, Init, UpsertNewer
<1>2. /\ open = <<>> /\ current = NoCheckpoint /\ applied = 0 /\ phase = "idle" /\ OpenSeq = 1
      /\ \A kind, id : ~ Has(open, kind, id) /\ ~ Has(Sealed, kind, id)
      /\ Sealed = <<>>
  BY DEF IngestInit, Init, OpenSeq, Sealed, Has
<1>3. PICK old \in SUBSET Venue, oldFields \in SUBSET Child :
        chain = [version |-> [v \in Venue |-> IF v \in old THEN 1 ELSE 0],
                 retired |-> {},
                 live    |-> oldFields,
                 seen    |-> [v \in Venue |-> 0],
                 wrote   |-> [c \in Child |-> 0],
                 died    |-> [c \in Child |-> 0]]
  BY DEF IngestInit
<1>4. /\ ChainTyped /\ chain.retired = {}
      /\ \A v \in Venue : chain.seen[v] = 0 /\ chain.version[v] >= 0
      /\ \A c \in Child : chain.wrote[c] = 0 /\ chain.died[c] = 0
  BY <1>2, <1>3 DEF ChainTyped
<1>5. \A v \in Venue : slots[v].version = 0
  BY DEF IngestInit, Init, NoSlot
<1>6. \A u \in Uid : children[u] = {}
  BY DEF IngestInit, Init
<1>7. ChainInv
  BY <1>2, <1>4 DEF ChainInv, StreamInv, VenuesStreamed, VersionsReached, FieldsStreamed
<1>8. RetiredInv /\ ServedReached /\ LatestInv /\ TrackedInv /\ DeadInv
  BY <1>4, <1>5, <1>6 DEF RetiredInv, ServedReached, LatestInv, TrackedInv, DeadInv, Tracked
<1>9. IndexedInv
  BY <1>4, IdsAssumption DEF IndexedInv
<1> QED BY <1>1, <1>7, <1>8, <1>9 DEF IngestInv, ServedInv

\* A step of the stream is a step the manager knows, or none of its.
LEMMA IngestIsManagerStep ==
  ASSUME TypeOK, ChainInv, [IngestNext]_ingestVars
  PROVE  [ManagerNext]_vars
<1>1. CASE ChainStep
  BY <1>1 DEF ChainStep, WriteVenue, DeleteVenue, WriteField, DeleteField, Execute
<1>2. CASE Deliver
  BY <1>2, DeliverTakesUp DEF ManagerNext
<1>3. CASE Redeliver
  BY <1>3, RedeliverTakesUp DEF ManagerNext
<1> QED BY <1>1, <1>2, <1>3 DEF IngestNext, ingestVars, ManagerNext

\* Every step keeps manager and chain together.
LEMMA StepIngestInv == IngestInv /\ [IngestNext]_ingestVars => IngestInv'
<1> SUFFICES ASSUME IngestInv, [IngestNext]_ingestVars PROVE IngestInv'
  OBVIOUS
<1>1. TypeOK /\ IndexInv /\ UpsertNewer /\ ChainInv /\ ServedInv /\ OwnersRouteHeld
  BY DEF IngestInv, IndexInv
<1>2. TypeOK' /\ IndexInv' /\ UpsertNewer'
  BY <1>1, IngestIsManagerStep, ManagerTypeOK, ManagerIndexInv, ManagerUpsertNewer
<1>3. ChainInv'
  BY <1>1, StepChainInv
<1>4. ASSUME Apply, UNCHANGED <<chain, open>> PROVE ServedInv'
  BY <1>1, <1>2, <1>4, ApplyRetiredInv, ApplyServedReached, ApplyLatestInv, ApplyTrackedInv,
     ApplyIndexedInv, ApplyDeadInv DEF ServedInv
<1>5. ASSUME UNCHANGED ingestVars PROVE ServedInv'
  <2>1. /\ chain' = chain /\ open' = open /\ slots' = slots /\ children' = children
        /\ stats' = stats /\ current' = current /\ OpenSeq' = OpenSeq
        /\ VenuesLeft' = VenuesLeft /\ RemovalsLeft' = RemovalsLeft
        /\ ChildrenLeft' = ChildrenLeft
    BY <1>5 DEF ingestVars, vars, store, progress, work, VenuesLeft, RemovalsLeft, ChildrenLeft,
                Applied, OpenSeq, Positions
  <2> QED BY <1>1, <2>1 DEF ServedInv, RetiredInv, ServedReached, LatestInv, TrackedInv,
                           IndexedInv, DeadInv, Clean, Tracked, Names, Reaches, Has
<1>6. ServedInv'
  BY <1>1, <1>2, <1>3, <1>4, <1>5, ChainStepServedInv, DeliverServedInv, RedeliverServedInv
     DEF IngestNext
<1> QED BY <1>2, <1>3, <1>6 DEF IngestInv

\* Manager and chain agree but for what is under way, in every behaviour.
LEMMA IngestInvariant == IngestSpec => []IngestInv
<1> QED BY InitIngestInv, StepIngestInv, PTL DEF IngestSpec

-----------------------------------------------------------------------------
(* At the watermark nothing is under way.                                  *)

\* Between two calls, the last checkpoint applied and none open.
LEMMA NothingUnderWay ==
  ASSUME AtWatermark
  PROVE  /\ VenuesLeft = {} /\ RemovalsLeft = {} /\ ChildrenLeft = {}
         /\ \A kind, id : ~ Has(open, kind, id)
         /\ \A id : /\ ~ Names(VenuesLeft, id)
                    /\ ~ Names(RemovalsLeft, id)
                    /\ ~ Names(ChildrenLeft, id)
         /\ \A v : /\ ~ Reaches(open, 1 .. Len(open), v)
                   /\ ~ Reaches(current.changes, VenuesLeft, v)
<1>1. Applied /\ Len(open) = 0 /\ 1 .. Len(open) = {}
  BY DEF AtWatermark
<1>2. VenuesLeft = {} /\ RemovalsLeft = {} /\ ChildrenLeft = {}
  BY <1>1, NothingLeft
<1> QED BY <1>1, <1>2 DEF Has, Names, Reaches

\* As long as nothing failed the manager serves exactly the chain's state at its
\* watermark, whatever is retried, repeated or written several times in one
\* checkpoint (apply_checkpoint, should_publish): every streamed venue at its
\* latest version and no other venue.
THEOREM ManagerServesChain == IngestSpec => []ServedIsChain
<1>1. ASSUME IngestInv PROVE ServedIsChain
  <2> USE <1>1 DEF IngestInv, ServedInv
  <2> SUFFICES ASSUME AtWatermark, Clean, NEW v \in Venue
               PROVE  slots[v].version = IF v \in chain.retired \/ chain.seen[v] = 0
                                           THEN 0 ELSE chain.version[v]
    BY DEF ServedIsChain
  <2>1. CASE v \in chain.retired
    BY <2>1, NothingUnderWay DEF RetiredInv, Tracked
  <2>2. CASE chain.seen[v] = 0
    BY <2>2 DEF ServedReached, Tracked
  <2>3. CASE v \notin chain.retired /\ chain.seen[v] # 0
    BY <2>3, NothingUnderWay DEF LatestInv
  <2> QED BY <2>1, <2>2, <2>3
<1> QED BY <1>1, IngestInvariant, PTL

\* A deleted venue is never served past its checkpoint, even when its last
\* versions failed to decode or its checkpoint had to be retried: the removals
\* run after every upsert of the checkpoint (manager.rs:540).
THEOREM RetiredVenuesGone == IngestSpec => []RetiredNotServed
<1>1. ASSUME IngestInv PROVE RetiredNotServed
  BY <1>1, NothingUnderWay DEF IngestInv, ServedInv, RetiredInv, RetiredNotServed
<1> QED BY <1>1, IngestInvariant, PTL

\* As long as nothing failed or was dropped, a live child written since its pool
\* was first streamed is in the pool's set (manager.rs:564): the children are
\* indexed once the pools of the checkpoint are published.
THEOREM LiveChildrenHeld == IngestSpec => []LiveChildrenIndexed
<1>1. ASSUME IngestInv PROVE LiveChildrenIndexed
  <2> USE <1>1 DEF IngestInv, ServedInv
  <2> SUFFICES ASSUME AtWatermark, Clean, stats.dropped = 0, NEW p \in Pool,
                      NEW c \in chain.live, Tracked(p), ParentOf[c] = NodeUid[p],
                      chain.wrote[c] >= chain.seen[p]
               PROVE  c \in children[NodeUid[p]]
    BY DEF LiveChildrenIndexed
  <2>1. p \in Venue /\ p \notin chain.retired
    BY NothingUnderWay, IdsAssumption DEF RetiredInv
  <2>2. chain.seen[p] # 0
    BY <2>1 DEF ServedReached
  <2> QED BY <2>1, <2>2, NothingUnderWay DEF IndexedInv
<1> QED BY <1>1, IngestInvariant, PTL

\* A child deleted in a later checkpoint than the one that last wrote it has left
\* every set: child_owners routes its deletion to the set that holds it
\* (manager.rs:555).
THEOREM LaterDeadChildrenGone == IngestSpec => []LaterDeadChildrenLeave
<1>1. ASSUME IngestInv PROVE LaterDeadChildrenLeave
  BY <1>1, NothingUnderWay DEF IngestInv, ServedInv, DeadInv, LaterDeadChildrenLeave
<1> QED BY <1>1, IngestInvariant, PTL

=============================================================================
