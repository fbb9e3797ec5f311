------------------------------- MODULE Follow -------------------------------
(***************************************************************************)
(* The follow loop of bin/birdai/src/commands.rs over the tick loading of  *)
(* TickLoad, and the other commands' single, retried load of a pool's      *)
(* ticks.  Checkpoints arrive one by one; after each that updated a venue, *)
(* every tracked pool without ticks is read once.                          *)
(*                                                                         *)
(* The state manager is reduced to what the loop asks of it: a pool is     *)
(* untracked, tracked without ticks, or tracked with ticks (StateManager   *)
(* has the rest).                                                          *)
(***************************************************************************)
EXTENDS TickLoad

VARIABLES
  command,  \* which command runs
  step,     \* where it stands
  slots,    \* the manager's slot of each pool
  todo      \* slots of manager.venues() the loop still has to visit

followVars == <<command, step, slots, todo>>
vars == <<loadVars, followVars>>

SlotState == {"untracked", "bare", "ticked"}

\* `follow`, or a command that calls load_tick_index on one pool.
Command == {"follow", "quote"}

NothingRead ==
  /\ cursor = 0 /\ pages = 0
  /\ wanted = {} /\ chunk = {} /\ inFlight = {} /\ nodes = {}

Init ==
  /\ command \in Command
  /\ step = "receiving"
  /\ slots = [p \in Pool |-> "untracked"]
  /\ todo = {}
  /\ list \in [Pool -> SUBSET Tick] /\ \A p \in Pool : list[p] \subseteq TicksOf[p]
  /\ settled = {}
  /\ phase = "idle" /\ target = NoPool
  /\ NothingRead
  /\ retries = 0
  /\ standing = {}

-----------------------------------------------------------------------------
\* The loop.

\* apply_checkpoint: pools written are tracked, pools deleted are not.
AfterCheckpoint(written, gone) ==
  [p \in Pool |-> IF p \in gone THEN "untracked"
                  ELSE IF p \in written /\ slots[p] = "untracked" THEN "bare" ELSE slots[p]]

\* Mutant: ticks are loaded only when the checkpoint has just made the pool known.
OnFirstSight(view) == {p \in Pool : view[p] = "bare" /\ slots[p] = "untracked"}

\* The slots the loop body does not skip.
WithoutTicks(view) == {p \in Pool : view[p] = "bare"}

\* A checkpoint that updated some venue, a pool or another one.
ReceiveVenues ==
  /\ command = "follow" /\ step = "receiving"
  /\ \E written, gone \in SUBSET Pool :
       /\ slots' = AfterCheckpoint(written, gone)
       /\ todo' = WithoutTicks(slots')
  /\ step' = "loading"
  /\ UNCHANGED <<loadVars, command>>

\* One that updated none; it may still have deleted some.
ReceiveOther ==
  /\ command = "follow" /\ step = "receiving"
  /\ \E gone \in SUBSET Pool : slots' = AfterCheckpoint({}, gone)
  /\ UNCHANGED <<loadVars, command, step, todo>>

\* The stream is closed, or apply_checkpoint failed and ends the command.
StreamEnds ==
  /\ command = "follow" /\ step = "receiving"
  /\ step' = "stopped"
  /\ UNCHANGED <<loadVars, command, slots, todo>>

LoadNext ==
  /\ command = "follow" /\ step = "loading" /\ phase = "idle"
  /\ \E p \in todo : Begin(p, 0)
  /\ UNCHANGED followVars

\* The load is over and its locals are dropped.
Forget ==
  /\ phase' = "idle"
  /\ cursor' = 0 /\ pages' = 0
  /\ wanted' = {} /\ chunk' = {} /\ inFlight' = {} /\ nodes' = {}
  /\ standing' = {}
  /\ target' = NoPool
  /\ retries' = 0
  /\ UNCHANGED chain

\* install_ticks: the slot is still there, only this task changes slots.
Installed ==
  /\ command = "follow" /\ phase = "loaded"
  /\ slots' = [slots EXCEPT ![target] = "ticked"]
  /\ todo' = todo \ {target}
  /\ Forget
  /\ UNCHANGED <<command, step>>

\* The failure is printed and the slot keeps no ticks.
NotInstalled ==
  /\ command = "follow" /\ phase = "failed"
  /\ todo' = todo \ {target}
  /\ Forget
  /\ UNCHANGED <<command, step, slots>>

\* applied >= count may end the loop after any venue checkpoint.
Visited ==
  /\ command = "follow" /\ step = "loading" /\ phase = "idle" /\ todo = {}
  /\ step' \in {"receiving", "stopped"}
  /\ UNCHANGED <<loadVars, command, slots, todo>>

-----------------------------------------------------------------------------
\* The other commands.

QuoteBegins ==
  /\ command = "quote" /\ step = "receiving"
  /\ \E p \in Pool : Begin(p, 1)
  /\ step' = "loading"
  /\ UNCHANGED <<command, slots, todo>>

QuoteEnds ==
  /\ command = "quote" /\ step = "loading" /\ phase \in {"loaded", "failed"}
  /\ step' = "stopped"
  /\ Forget
  /\ UNCHANGED <<command, slots, todo>>

LoopStep == LoadNext \/ Installed \/ NotInstalled \/ Visited \/ QuoteEnds

Next ==
  \/ (LoadStep \/ Churn) /\ UNCHANGED followVars
  \/ ReceiveVenues \/ ReceiveOther \/ StreamEnds \/ QuoteBegins
  \/ LoopStep

\* The task is polled, the node answers every call, if with an error, and
\* venues keep being written; nothing makes a pool settle.
Fairness ==
  /\ WF_vars(LoadStep /\ UNCHANGED followVars)
  /\ WF_vars(LoopStep)
  /\ WF_vars(ReceiveVenues)

Spec == Init /\ [][Next]_vars /\ Fairness

-----------------------------------------------------------------------------
\* Properties.

\* The types of the state; a load follows at most MAX_PAGES pages, and what it
\* still has to fetch it has listed.
TypeOK ==
  /\ command \in Command /\ step \in {"receiving", "loading", "stopped"}
  /\ slots \in [Pool -> SlotState] /\ todo \subseteq Pool
  /\ list \in [Pool -> SUBSET Tick] /\ settled \subseteq Pool
  /\ phase \in Phase /\ target \in Pool \union {NoPool}
  /\ cursor \in Nat /\ pages \in 0 .. MaxPages - 1
  /\ wanted \subseteq Tick /\ chunk \subseteq wanted /\ inFlight \subseteq wanted
  /\ nodes \subseteq Node
  /\ retries \in {0, 1} /\ standing \subseteq Tick

\* Whatever is opened, closed, left out of a listing or gone before its read: an
\* index that is accepted has every tick that stood in the list throughout and
\* lies above the index's lowest tick (index.rs 353-371, the link check).  Ticks
\* below its lowest one may be missing.
StandingTicksIndexed ==
  phase = "loaded" =>
    \A t \in standing : (\E n \in nodes : n.index < t) => \E n \in nodes : n.index = t

\* The lookups of an accepted index, from any tick a pool may store: no
\* other tick is nearer, nor as near and lower, the bracket has no tick inside, and
\* no initialised tick above lies before the next grid tick, so that one is a safe
\* stand-in for the index (index.rs 443-526, cetus.rs 166-180).  The grid tick is
\* strictly above the pool's: its doc says "at or above" (cetus.rs:166), and a pool
\* on a grid tick would tell the two apart.
LookupsAgree ==
  phase = "loaded" =>
    \A t \in -Bias .. Bias :
      LET Distance(n) == IF n.index > t THEN n.index - t ELSE t - n.index
          below == Bracketing(nodes, t)[1]
          above == Bracketing(nodes, t)[2]
      IN /\ Nearest(nodes, t) = {} <=> nodes = {}
         /\ \A n \in Nearest(nodes, t), m \in nodes :
              Distance(n) < Distance(m) \/ (Distance(n) = Distance(m) /\ n.index <= m.index)
         /\ Get(nodes, t) # {} => Nearest(nodes, t) = Get(nodes, t)
         /\ \A n \in nodes : n \in below \union above
              \/ (\E l \in below : n.index < l.index) \/ (\E h \in above : n.index > h.index)
         /\ \A l \in NextBelow(nodes, t), m \in nodes : m.index < t => m.index <= l.index
         /\ \A h \in above : NextGridTick(t, Spacing) <= h.index

\* A load always ends, however the pool churns: pages and retries are bounded
\* (ticks.rs 46-56, commands.rs 152-169).
LoadsEnd == (phase \in Reading) ~> (phase \notin Reading)

\* The page walk reaches every tick of the pool.
Listable(p) == Cardinality(list[p]) <= PageSize * MaxPages

\* A tracked pool that settled gets its ticks while the follow loop runs, though
\* another pool churns or fails forever and its own first loads failed
\* (commands.rs 599-632).  It is tried again after every later checkpoint that
\* updated a venue, where the comment of the loop says "on first sight" and "rather
\* than retried forever" (commands.rs:601-603).
SettledPoolsLoaded ==
  \A p \in Pool :
    (Listable(p) /\ p \in settled /\ slots[p] = "bare") ~> (slots[p] # "bare" \/ step = "stopped")

=============================================================================
