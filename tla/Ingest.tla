------------------------------- MODULE Ingest -------------------------------
(***************************************************************************)
(* The state manager fed by the checkpoint stream of a chain: an ordered   *)
(* stream that may deliver the last checkpoint again, as a retry or as a   *)
(* duplicate.  The chain is external; it is modelled as far as             *)
(* apply_checkpoint reads it: object versions grow, a deleted venue never  *)
(* comes back, a dynamic field may be deleted and re-created.              *)
(***************************************************************************)
EXTENDS StateManager

CONSTANTS
  MaxSeq,      \* bound of the model: checkpoints the chain seals
  MaxChanges   \* bound of the model: object changes in one checkpoint

ASSUME IngestBounds == MaxSeq \in Nat /\ MaxChanges \in Nat

VARIABLES
  chain,  \* the objects after the last executed change, and when each last changed
  open    \* the changes of the checkpoint the chain has not sealed yet

ingestVars == <<vars, chain, open>>

\* The sequence number of the open checkpoint; the stream starts at 1.
OpenSeq == IF current = NoCheckpoint THEN 1 ELSE current.seq + 1

\* Objects that existed before the stream began have a version but were never streamed.
IngestInit ==
  /\ Init
  /\ \E old \in SUBSET Venue, oldFields \in SUBSET Child :
       chain = [version |-> [v \in Venue |-> IF v \in old THEN 1 ELSE 0],
                retired |-> {},
                live    |-> oldFields,
                seen    |-> [v \in Venue |-> 0],
                wrote   |-> [c \in Child |-> 0],
                died    |-> [c \in Child |-> 0]]
  /\ open = <<>>

\* The applier cannot tell when the chain moved, so it moves between two calls.
Execute(change) ==
  /\ phase = "idle"
  /\ OpenSeq <= MaxSeq
  /\ Len(open) < MaxChanges
  /\ open' = Append(open, change)
  /\ UNCHANGED vars

WriteVenue(v) ==
  /\ v \notin chain.retired
  /\ Execute([kind |-> "venue", id |-> v, version |-> chain.version[v] + 1])
  /\ chain' = [chain EXCEPT !.version[v] = @ + 1,
                            !.seen[v] = IF @ = 0 THEN OpenSeq ELSE @]

DeleteVenue(v) ==
  /\ v \notin chain.retired
  /\ chain.version[v] # 0
  /\ Execute([kind |-> "removed", id |-> v])
  /\ chain' = [chain EXCEPT !.retired = @ \union {v}]

WriteField(c) ==
  /\ Execute([kind |-> "child", id |-> c])
  /\ chain' = [chain EXCEPT !.live = @ \union {c}, !.wrote[c] = OpenSeq]

DeleteField(c) ==
  /\ c \in chain.live
  /\ Execute([kind |-> "removed", id |-> c])
  /\ chain' = [chain EXCEPT !.live = @ \ {c}, !.died[c] = OpenSeq]

ChainStep ==
  \/ \E v \in Venue : WriteVenue(v) \/ DeleteVenue(v)
  \/ \E c \in Child : WriteField(c) \/ DeleteField(c)

\* The last checkpoint handed over has been applied.
Applied == current = NoCheckpoint \/ (applied # 0 /\ lastApplied = current.seq)

Deliver ==
  /\ Applied
  /\ OpenSeq <= MaxSeq
  /\ Call([seq |-> OpenSeq, packages |-> 0, changes |-> open])
  /\ open' = <<>>
  /\ UNCHANGED chain

\* A retry of a checkpoint whose decode died, or a duplicate of an applied one.
\* The chain has not moved on for the manager: what is open stays undelivered.
Redeliver ==
  /\ current # NoCheckpoint
  /\ Call(current)
  /\ UNCHANGED <<chain, open>>

IngestNext ==
  \/ ChainStep
  \/ Deliver
  \/ Redeliver
  \/ Apply /\ UNCHANGED <<chain, open>>

IngestSpec == IngestInit /\ [][IngestNext]_ingestVars

-----------------------------------------------------------------------------
(* Properties.  The manager is compared with the chain at the watermark:   *)
(* between two calls, the last checkpoint applied, none open.              *)

AtWatermark == phase = "idle" /\ Applied /\ open = <<>>

Clean == stats.failures = 0 /\ stats.unrecognised = 0

\* As long as nothing failed, the manager serves exactly the chain's state at
\* its watermark: every streamed venue at its latest version, no other venue,
\* through retries, duplicates and several writes of one object in a checkpoint.
ServedIsChain ==
  AtWatermark /\ Clean =>
    \A v \in Venue :
      slots[v].version = IF v \in chain.retired \/ chain.seen[v] = 0 THEN 0
                                                                    ELSE chain.version[v]

\* A deleted venue is never served past its checkpoint, even when its last
\* versions failed to decode or its checkpoint had to be retried.
RetiredNotServed == AtWatermark => \A v \in chain.retired : ~ Tracked(v)

\* A live child written since its pool was first streamed is in the pool's set,
\* unless the set had to drop children or the pool itself failed to decode.
LiveChildrenIndexed ==
  AtWatermark /\ Clean /\ stats.dropped = 0 =>
    \A p \in Pool : \A c \in chain.live :
      /\ Tracked(p)
      /\ ParentOf[c] = NodeUid[p]
      /\ chain.wrote[c] >= chain.seen[p]
      => c \in children[NodeUid[p]]

\* A deleted child leaves its parent's set (README.md:265, docs/design.md:774).
DeadChildrenLeave == AtWatermark => \A u \in Uid : children[u] \subseteq chain.live

\* It does so at least when it was last written in an earlier checkpoint than
\* the one that deleted it.
LaterDeadChildrenLeave ==
  AtWatermark =>
    \A u \in Uid : \A c \in children[u] \ chain.live : chain.wrote[c] = chain.died[c]

=============================================================================
