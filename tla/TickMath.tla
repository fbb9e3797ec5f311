------------------------------- MODULE TickMath -------------------------------
(***************************************************************************)
(* Tick index to square-root price and back: crates/birdai-amm/src/tick.rs.*)
(* A tick's price is a product of table entries, one for each bit of the   *)
(* tick; the tick of a price is found by a bounded binary search over it,  *)
(* each halving a step.                                                    *)
(***************************************************************************)
EXTENDS Integers, Sequences

CONSTANTS
  MinTick, MaxTick,            \* MIN_TICK, MAX_TICK
  Factor,                      \* TICK_FACTORS
  Unit,                        \* 2^128: 1.0 of the table's fixed point
  Narrow,                      \* 2^64: what a price keeps less of it
  MinSqrtPrice, MaxSqrtPrice,  \* MIN_SQRT_PRICE, MAX_SQRT_PRICE
  MaxSearchSteps,              \* MAX_SEARCH_STEPS
  Power,                       \* powers of two, for the steps the search needs
  Query,                       \* prices asked for
  NoTick                       \* no answer yet

GridTick == MinTick .. MaxTick

\* The entry at index i is a factor exactly when bit i of the magnitude is set.
Product(magnitude) ==
  LET ratio[i \in 0 .. Len(Factor)] ==
        IF i = 0 THEN Unit
        ELSE IF (magnitude \div 2^(i - 1)) % 2 = 1 THEN (ratio[i - 1] * Factor[i]) \div Unit
             ELSE ratio[i - 1]
  IN  ratio[Len(Factor)]

\* sqrt_price_at_tick.  The table holds negative powers: a positive tick inverts,
\* against 2^256 - 1.
PriceOf(t) ==
  IF t > 0 THEN ((Unit * Unit - 1) \div Product(t)) \div Narrow ELSE Product(-t) \div Narrow

TickPrice == [t \in GridTick |-> PriceOf(t)]

ASSUME TickRangeAssumption == MinTick \in Int /\ MaxTick \in Int /\ MinTick < MaxTick

\* Higher ticks have higher prices (is_strictly_monotone_across_the_grid).
ASSUME MonotoneAssumption ==
  /\ TickPrice \in [GridTick -> Nat]
  /\ \A t, u \in GridTick : t < u => TickPrice[t] < TickPrice[u]

\* anchored_at_zero_and_the_extremes.
ASSUME EndsAssumption ==
  MinSqrtPrice = TickPrice[MinTick] /\ MaxSqrtPrice = TickPrice[MaxTick]

ASSUME QueryAssumption == Query \subseteq Nat /\ NoTick \notin Int

\* n halvings make a range of at most Power[n] one of at most 1, and the steps
\* allowed are enough for the whole grid.
ASSUME StepsAssumption ==
  /\ MaxSearchSteps \in Nat
  /\ Power \in [0 .. MaxSearchSteps -> Nat]
  /\ Power[0] = 1
  /\ \A n \in 1 .. MaxSearchSteps : Power[n] = 2 * Power[n - 1]
  /\ MaxTick - MinTick <= Power[MaxSearchSteps]

VARIABLES
  query,      \* sqrt_price
  low, high,  \* low, high
  halvings,   \* turns of the loop
  search,     \* "asked", "halving", "found" or "InvalidSqrtPrice"
  found       \* what was returned

searchVars == <<query, low, high, halvings, search, found>>

NothingSearched ==
  /\ low = MinTick /\ high = MaxTick /\ halvings = 0
  /\ search = "asked" /\ found = NoTick

SearchInit == query \in Query /\ NothingSearched

-----------------------------------------------------------------------------
RejectZero ==
  /\ search = "asked"
  /\ query = 0
  /\ search' = "InvalidSqrtPrice"
  /\ UNCHANGED <<query, low, high, halvings, found>>

\* Mutant: a price of the highest tick is left to the search.
BeyondHighest == query > MaxSqrtPrice

AtHighest == query >= MaxSqrtPrice

\* Prices beyond the grid are its ends.
Clamp ==
  /\ search = "asked"
  /\ query # 0
  /\ \/ query < MinSqrtPrice /\ found' = MinTick
     \/ query >= MinSqrtPrice /\ AtHighest /\ found' = MaxTick
  /\ search' = "found"
  /\ UNCHANGED <<query, low, high, halvings>>

Enter ==
  /\ search = "asked"
  /\ query >= MinSqrtPrice /\ query # 0 /\ ~AtHighest
  /\ search' = "halving"
  /\ UNCHANGED <<query, low, high, halvings, found>>

Middle == low + (high - low) \div 2

Halves == halvings < MaxSearchSteps /\ high - low > 1

Halve ==
  /\ search = "halving"
  /\ Halves
  /\ IF TickPrice[Middle] <= query
     THEN low' = Middle /\ high' = high
     ELSE low' = low /\ high' = Middle
  /\ halvings' = halvings + 1
  /\ UNCHANGED <<query, search, found>>

Answered ==
  /\ search = "halving"
  /\ ~Halves
  /\ found' = low
  /\ search' = "found"
  /\ UNCHANGED <<query, low, high, halvings>>

SearchNext == RejectZero \/ Clamp \/ Enter \/ Halve \/ Answered

SearchSpec == SearchInit /\ [][SearchNext]_searchVars

-----------------------------------------------------------------------------
\* Properties.

SearchTypeOK ==
  /\ query \in Nat
  /\ low \in GridTick /\ high \in GridTick
  /\ halvings \in 0 .. MaxSearchSteps
  /\ search \in {"asked", "halving", "found", "InvalidSqrtPrice"}
  /\ found \in GridTick \union {NoTick}

\* The largest tick whose price is at or below p, MinTick when there is none.
IsFloorTick(t, p) ==
  /\ t \in GridTick
  /\ TickPrice[t] <= p \/ t = MinTick
  /\ \A u \in GridTick : u > t => p < TickPrice[u]

\* The bounded search ends on the floor tick of the price, for every price and
\* on both sides of zero (tick.rs 120-158).
SearchFindsFloor == search = "found" => IsFloorTick(found, query)

=============================================================================
