----------------------------- MODULE TickIndex -----------------------------
(***************************************************************************)
(* A pool's tick index: Ticks of crates/birdai-tick/src/index.rs.          *)
(*                                                                         *)
(* A decoded node is a record of its skip-list key, its tick, its stored   *)
(* price and its level-0 forward link; `prev`, the higher links and the    *)
(* growth counters never decide anything.  The nodes come as a sequence,   *)
(* in the order they were read; the index keeps them in tick order, so it  *)
(* is the set of them.  The strict constructor, which also wants the       *)
(* declared number of nodes, is not used by the program and is left out.   *)
(***************************************************************************)
EXTENDS Integers, Sequences, FiniteSets

CONSTANTS
  Bias,            \* CETUS_TICK_BIAS: the key of a tick is tick + Bias
  MaxInt,          \* i32::MAX
  GridPrice,       \* sqrt_price_at_tick, on the ticks it accepts
  ToleranceScale,  \* 2^TICK_PRICE_TOLERANCE_BITS
  NoLink           \* a node without a forward link

ASSUME BiasAssumption == Bias \in Nat /\ MaxInt \in Nat

ASSUME ToleranceAssumption == ToleranceScale \in Nat \ {0}

ASSUME LinkAssumption == NoLink \notin Nat

-----------------------------------------------------------------------------
\* Keys.

Score(t) == t + Bias

\* checked_score_from_tick is Some: the biased tick is a non-negative i32.
HasScore(t) == Score(t) >= 0 /\ Score(t) <= MaxInt

-----------------------------------------------------------------------------
\* Building.

\* Ticks::insert, for every node in turn: the key encodes the tick.  The key is a
\* function of the tick, so a set of nodes whose keys match repeats none.
KeyEncodesTick(n) == HasScore(n.index) /\ n.score = Score(n.index)

\* Mutant: some node ahead is enough, whichever the link names.
LinkAnywhere(n, nodes) == n.next # NoLink => \E m \in nodes : m.index > n.index

\* A level-0 link resolves to a node that is present and ahead.  A link that
\* does not is DanglingLink or Unordered; both reject the whole index.
LinkAhead(n, nodes) ==
  n.next # NoLink => \E m \in nodes : m.score = n.next /\ m.index > n.index

\* tick_price_tolerance: relative, but never less than one unit.
Tolerance(price) ==
  LET scaled == price \div ToleranceScale IN IF scaled = 0 THEN 1 ELSE scaled

\* stored - computed, the key of the price_deviations histogram.
Deviation(n) == n.sqrtPrice - GridPrice[n.index]

PriceClose(n) ==
  /\ n.index \in DOMAIN GridPrice
  /\ Deviation(n) <= Tolerance(GridPrice[n.index])
  /\ -Deviation(n) <= Tolerance(GridPrice[n.index])

\* Ticks::validate, without the size check of the strict constructor.
Validates(nodes) == \A n \in nodes : LinkAhead(n, nodes) /\ PriceClose(n)

\* Ticks::from_children: every node inserted, then validated; any number is accepted.
FromChildren(nodes) == (\A n \in nodes : KeyEncodesTick(n)) /\ Validates(nodes)

\* Ticks::validate_spacing: every tick on the pool's grid; spacing 0 has none.
OnGrid(nodes, spacing) == spacing # 0 => \A n \in nodes : n.index % spacing = 0

-----------------------------------------------------------------------------
\* Looking up.  An answer is the set of the one node found, or empty.

NextAbove(nodes, t) ==
  {n \in nodes : n.index > t /\ \A m \in nodes : m.index > t => n.index <= m.index}

NextAtOrBelow(nodes, t) ==
  {n \in nodes : n.index <= t /\ \A m \in nodes : m.index <= t => m.index <= n.index}

NextBelow(nodes, t) ==
  {n \in nodes : n.index < t /\ \A m \in nodes : m.index < t => m.index <= n.index}

Get(nodes, t) == {n \in nodes : n.index = t}

\* The lower neighbour, unless the upper one is strictly nearer.
Nearest(nodes, t) ==
  LET low == NextAtOrBelow(nodes, t)
      high == NextAbove(nodes, t)
      Nearer == \A l \in low, h \in high : h.index - t < t - l.index
  IN  IF low = {} THEN high ELSE IF high # {} /\ Nearer THEN high ELSE low

Bracketing(nodes, t) == <<NextAtOrBelow(nodes, t), NextAbove(nodes, t)>>

\* Mutant: division that truncates towards zero.
GridTickTruncated(t, spacing) ==
  IF spacing = 0 \/ spacing > MaxInt THEN t
  ELSE ((IF t < 0 THEN -((-t) \div spacing) ELSE t \div spacing) + 1) * spacing

\* CetusClmm::next_grid_tick, from the tick the pool stores.  A spacing that does
\* not fit an i32 reads as negative; no tick of a pool makes it saturate.
NextGridTick(t, spacing) ==
  IF spacing = 0 \/ spacing > MaxInt THEN t ELSE (t \div spacing + 1) * spacing

=============================================================================
