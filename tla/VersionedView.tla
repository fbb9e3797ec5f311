---------------------------- MODULE VersionedView ----------------------------
(***************************************************************************)
(* What the state manager promises its readers: one immutable slot per     *)
(* venue, each replaced on its own by a newer version that keeps the tick  *)
(* index, and a monotone "checkpoints applied" watermark.                  *)
(***************************************************************************)
EXTENDS Naturals

CONSTANTS Venue, TickIndex, NoTicks

VARIABLES
  view,       \* version and ticks of each venue, version 0 when not served
  applied,    \* how many checkpoints were applied
  watermark   \* the sequence number of the last one

vars == <<view, applied, watermark>>

Unseen == [version |-> 0, ticks |-> NoTicks]

Init ==
  /\ view = [v \in Venue |-> Unseen]
  /\ applied = 0
  /\ watermark = 0

\* A newer version replaces the slot and nothing else; a first sight has no ticks.
Publish(v) ==
  /\ view[v].version < view'[v].version
  /\ view' = [view EXCEPT ![v].version = view'[v].version]
  /\ UNCHANGED <<applied, watermark>>

Drop(v) ==
  /\ view[v].version # 0
  /\ view' = [view EXCEPT ![v] = Unseen]
  /\ UNCHANGED <<applied, watermark>>

InstallTicks(v, t) ==
  /\ view[v].version # 0
  /\ view' = [view EXCEPT ![v].ticks = t]
  /\ UNCHANGED <<applied, watermark>>

Advance ==
  /\ applied = 0 \/ watermark < watermark'
  /\ applied' = applied + 1
  /\ UNCHANGED view

Next ==
  \/ \E v \in Venue : Publish(v) \/ Drop(v) \/ (\E t \in TickIndex : InstallTicks(v, t))
  \/ Advance

Spec == Init /\ [][Next]_vars

=============================================================================
