---------------------------- MODULE TickMathProofs ----------------------------
(***************************************************************************)
(* The bounded search of TickMath answers the floor tick, for every grid,  *)
(* table and price: while it runs the price lies between its two ends, and *)
(* the halvings left are enough for the range left.                        *)
(***************************************************************************)
EXTENDS TickMath, TLAPS

\* The invariant the code states (tick.rs:138), and the steps it has left.
Bracketed ==
  search = "halving" =>
    /\ low < high
    /\ TickPrice[low] <= query /\ query < TickPrice[high]
    /\ high - low <= Power[MaxSearchSteps - halvings]

SearchInv == SearchTypeOK /\ Bracketed /\ SearchFindsFloor

\* The ends of the grid are ticks, and their prices are the constants.
LEMMA GridEnds ==
  /\ MinTick \in GridTick /\ MaxTick \in GridTick
  /\ MinSqrtPrice = TickPrice[MinTick] /\ MaxSqrtPrice = TickPrice[MaxTick]
  /\ \A t \in GridTick : MinTick <= t /\ t <= MaxTick /\ t \in Int /\ TickPrice[t] \in Nat
BY TickRangeAssumption, EndsAssumption, MonotoneAssumption DEF GridTick

\* Prices of higher ticks are higher.
LEMMA HigherTick ==
  \A t, u \in GridTick : t <= u => TickPrice[t] <= TickPrice[u]
<1> SUFFICES ASSUME NEW t \in GridTick, NEW u \in GridTick, t <= u
             PROVE  TickPrice[t] <= TickPrice[u]
  OBVIOUS
<1>1. CASE t = u
  BY <1>1, GridEnds
<1>2. CASE t < u
  BY <1>2, MonotoneAssumption, GridEnds
<1> QED
  BY <1>1, <1>2, GridEnds

\* A tick at or below a price whose successor is above it is its floor tick.
LEMMA FloorBetween ==
  ASSUME NEW t \in GridTick, NEW u \in GridTick, NEW p \in Nat,
         u - t <= 1, TickPrice[t] <= p, p < TickPrice[u]
  PROVE  IsFloorTick(t, p)
<1> SUFFICES ASSUME NEW w \in GridTick, w > t
             PROVE  p < TickPrice[w]
  BY DEF IsFloorTick
<1>1. u <= w
  BY GridEnds
<1>2. TickPrice[u] <= TickPrice[w]
  BY <1>1, HigherTick
<1> QED
  BY <1>2, GridEnds

\* Halving: the middle lies inside, and either part fits the steps left.
LEMMA Halving ==
  ASSUME NEW a \in Int, NEW b \in Int, b - a > 1, NEW r \in Nat, b - a <= 2 * r
  PROVE  LET m == a + (b - a) \div 2 IN m \in Int /\ a < m /\ m < b /\ m - a <= r /\ b - m <= r
OBVIOUS

\* The invariant holds before the search.
LEMMA InitSearchInv == SearchInit => SearchInv
BY GridEnds, StepsAssumption, QueryAssumption
   DEF SearchInit, NothingSearched, SearchInv, SearchTypeOK, Bracketed, SearchFindsFloor

\* The ends of the grid answer for the prices beyond it.
LEMMA ClampKeeps == SearchInv /\ Clamp => SearchInv'
<1> SUFFICES ASSUME SearchInv, Clamp
             PROVE  SearchInv'
  OBVIOUS
<1>1. query \in Nat
  BY DEF SearchInv, SearchTypeOK
<1>2. IsFloorTick(found', query)
  <2>1. CASE query < MinSqrtPrice /\ found' = MinTick
    <3>1. \A u \in GridTick : query < TickPrice[u]
      BY <1>1, <2>1, GridEnds, HigherTick
    <3> QED
      BY <2>1, <3>1, GridEnds DEF IsFloorTick
  <2>2. CASE AtHighest /\ found' = MaxTick
    BY <1>1, <2>2, GridEnds DEF IsFloorTick, AtHighest
  <2> QED
    BY <2>1, <2>2 DEF Clamp
<1> QED
  BY <1>2, GridEnds DEF SearchInv, SearchTypeOK, Bracketed, SearchFindsFloor, Clamp, IsFloorTick

\* The search starts with the whole grid, whose highest price is above the query.
LEMMA EnterKeeps ==
  ASSUME SearchInv, Enter, low = MinTick, high = MaxTick, halvings = 0
  PROVE  SearchInv'
BY GridEnds, StepsAssumption, TickRangeAssumption
   DEF SearchInv, SearchTypeOK, Bracketed, SearchFindsFloor, Enter, AtHighest

\* Each halving keeps the price between the ends.
LEMMA HalveKeeps == SearchInv /\ Halve => SearchInv'
<1> SUFFICES ASSUME SearchInv, Halve
             PROVE  SearchInv'
  OBVIOUS
<1>1. /\ query \in Nat /\ low \in GridTick /\ high \in GridTick
      /\ halvings \in 0 .. MaxSearchSteps /\ halvings < MaxSearchSteps
      /\ high - low > 1 /\ search = "halving"
      /\ TickPrice[low] <= query /\ query < TickPrice[high]
      /\ high - low <= Power[MaxSearchSteps - halvings]
  BY DEF SearchInv, SearchTypeOK, Bracketed, Halve, Halves
<1> DEFINE left == MaxSearchSteps - halvings
<1>2. left \in 1 .. MaxSearchSteps /\ left - 1 = MaxSearchSteps - (halvings + 1)
  BY <1>1, StepsAssumption
<1>3. Power[left] = 2 * Power[left - 1] /\ Power[left - 1] \in Nat
  BY <1>2, StepsAssumption
<1>4. /\ Middle \in Int /\ low < Middle /\ Middle < high
      /\ Middle - low <= Power[left - 1] /\ high - Middle <= Power[left - 1]
  <2> HIDE DEF left
  <2>1. low \in Int /\ high \in Int
    BY <1>1, GridEnds
  <2>2. high - low <= 2 * Power[left - 1]
    BY <1>1, <1>3 DEF left
  <2> QED
    BY <1>1, <1>3, <2>1, <2>2, Halving DEF Middle
<1>5. Middle \in GridTick
  <2>1. /\ MinTick \in Int /\ MaxTick \in Int /\ low \in Int /\ high \in Int
        /\ MinTick <= low /\ high <= MaxTick
    BY <1>1, GridEnds, TickRangeAssumption
  <2>2. MinTick <= Middle /\ Middle <= MaxTick
    BY <1>4, <2>1
  <2> QED
    BY <1>4, <2>1, <2>2 DEF GridTick
<1>6. SearchTypeOK'
  BY <1>1, <1>5, StepsAssumption DEF SearchInv, SearchTypeOK, Halve
<1>7. Bracketed'
  <2>1. /\ halvings' = halvings + 1 /\ query' = query
        /\ \/ TickPrice[Middle] <= query /\ low' = Middle /\ high' = high
           \/ ~(TickPrice[Middle] <= query) /\ low' = low /\ high' = Middle
    BY DEF Halve
  <2>2. TickPrice[Middle] \in Nat
    BY <1>5, GridEnds
  <2>3. Power[MaxSearchSteps - halvings'] = Power[left - 1]
    BY <1>2, <2>1
  <2>4. CASE TickPrice[Middle] <= query /\ low' = Middle /\ high' = high
    BY <1>1, <1>4, <2>1, <2>3, <2>4 DEF Bracketed
  <2>5. CASE ~(TickPrice[Middle] <= query) /\ low' = low /\ high' = Middle
    <3>1. query < TickPrice[Middle]
      BY <1>1, <2>2, <2>5
    <3> QED
      BY <1>1, <1>4, <2>1, <2>3, <2>5, <3>1 DEF Bracketed
  <2> QED
    BY <2>1, <2>4, <2>5
<1>8. SearchFindsFloor'
  BY <1>1 DEF Halve, SearchFindsFloor
<1> QED
  BY <1>6, <1>7, <1>8 DEF SearchInv

\* The loop ends on a range of one: no steps left means nothing left to halve.
LEMMA AnsweredKeeps == SearchInv /\ Answered => SearchInv'
<1> SUFFICES ASSUME SearchInv, Answered
             PROVE  SearchInv'
  OBVIOUS
<1>1. /\ query \in Nat /\ low \in GridTick /\ high \in GridTick
      /\ halvings \in 0 .. MaxSearchSteps
      /\ low < high /\ TickPrice[low] <= query /\ query < TickPrice[high]
      /\ high - low <= Power[MaxSearchSteps - halvings]
  BY DEF SearchInv, SearchTypeOK, Bracketed, Answered
<1>2. high - low <= 1
  <2>1. CASE halvings < MaxSearchSteps
    BY <1>1, <2>1, GridEnds DEF Answered, Halves
  <2>2. CASE halvings = MaxSearchSteps
    BY <1>1, <2>2, StepsAssumption
  <2> QED
    BY <1>1, <2>1, <2>2, StepsAssumption
<1>3. IsFloorTick(low, query)
  BY <1>1, <1>2, FloorBetween
<1> QED
  BY <1>1, <1>3 DEF SearchInv, SearchTypeOK, Bracketed, SearchFindsFloor, Answered

\* Until the search begins its range is the whole grid.
Untouched == search = "asked" => low = MinTick /\ high = MaxTick /\ halvings = 0

\* Every step keeps the invariant.
LEMMA StepSearchInv ==
  SearchInv /\ Untouched /\ [SearchNext]_searchVars => SearchInv' /\ Untouched'
<1> SUFFICES ASSUME SearchInv, Untouched, [SearchNext]_searchVars
             PROVE  SearchInv' /\ Untouched'
  OBVIOUS
<1>1. CASE RejectZero
  BY <1>1 DEF SearchInv, SearchTypeOK, Bracketed, SearchFindsFloor, Untouched, RejectZero
<1>2. CASE Clamp
  BY <1>2, ClampKeeps DEF Untouched, Clamp
<1>3. CASE Enter
  BY <1>3, EnterKeeps DEF Untouched, Enter
<1>4. CASE Halve
  BY <1>4, HalveKeeps DEF Untouched, Halve
<1>5. CASE Answered
  BY <1>5, AnsweredKeeps DEF Untouched, Answered
<1>6. CASE UNCHANGED searchVars
  BY <1>6 DEF SearchInv, SearchTypeOK, Bracketed, SearchFindsFloor, Untouched, searchVars
<1> QED
  BY <1>1, <1>2, <1>3, <1>4, <1>5, <1>6 DEF SearchNext

\* For every grid, every table whose prices grow with the tick, and every price,
\* the bounded search answers the floor tick (tick.rs 120-158).
THEOREM FloorFound == SearchSpec => []SearchFindsFloor
<1>1. SearchInit => SearchInv /\ Untouched
  BY InitSearchInv DEF SearchInit, NothingSearched, Untouched
<1>2. SearchInv => SearchFindsFloor
  BY DEF SearchInv
<1> QED
  BY <1>1, <1>2, StepSearchInv, PTL DEF SearchSpec

=============================================================================
