--------------------------------- MODULE Swap ---------------------------------
(***************************************************************************)
(* swap_exact_in of crates/birdai-amm/src/swap.rs over a TickSource: one   *)
(* call, each turn of its loop a step.  Prices are fixed-point, with Scale *)
(* for 2^64; the machine widths follow from it.  An operation that does    *)
(* not fit is the error the checked arithmetic reports, never a wrap.      *)
(*                                                                         *)
(* The source is an index of initialised ticks (the neighbour lookups of   *)
(* birdai-tick) or, for what must hold whatever it answers, any boundary.  *)
(***************************************************************************)
EXTENDS Integers, Sequences, FiniteSetsExt

CONSTANTS
  Scale,           \* 2^64
  FeeDenominator,  \* FEE_DENOMINATOR
  MaxCrossings,    \* max_crossings
  Price,           \* sqrt prices a pool or a limit may have
  Amount,          \* gross inputs
  FeeRate,         \* fee rates
  PriceAt,         \* the sqrt price the pool stores for each tick, in its node once it has one
  ComputedAt,      \* sqrt_price_at_tick: the closed form, close to PriceAt but not equal to it
  Book,            \* tick indices: liquidity_net of each initialised tick
  Answer,          \* boundaries a stale or foreign source may answer
  Stray,           \* pools such a source is asked about
  NoBoundary       \* the source knows no tick in that direction

Max128 == Scale * Scale - 1
Max127 == (Scale * Scale) \div 2 - 1
Max256 == Scale * Scale * Scale * Scale - 1

Tick      == DOMAIN PriceAt
Direction == {"AtoB", "BtoA"}
Amounts   == 0 .. Max128
Int128    == -(Max127 + 1) .. Max127
Boundary  == [tick : Tick, sqrtPrice : Amounts, net : Int128]
PoolState == [sqrtPrice : Price, liquidity : Amounts, tick : Tick, feeRate : FeeRate]
AmmError  == {"InvalidSqrtPrice", "ZeroLiquidity", "UnreachablePriceLimit", "InvalidFeeRate",
              "Overflow", "NoProgress", "TooManyCrossings"}

ASSUME WidthAssumption == Scale \in Nat \ {0, 1} /\ FeeDenominator \in Nat \ {0}

ASSUME InputAssumption ==
  /\ Price \subseteq Amounts /\ Amount \subseteq Amounts /\ FeeRate \subseteq Nat
  /\ MaxCrossings \in Nat
  /\ Answer \subseteq Boundary /\ NoBoundary \notin Boundary /\ Stray \subseteq PoolState

\* The price of a tick grows with it; a tick index names ticks of the pool.
ASSUME TickAssumption ==
  /\ Tick \subseteq Int /\ IsFiniteSet(Tick) /\ PriceAt \in [Tick -> Price \ {0}]
  /\ \A t, u \in Tick : t .. u \subseteq Tick
  /\ \A t, u \in Tick : t < u => PriceAt[t] < PriceAt[u]
  /\ \A b \in Book : DOMAIN b \subseteq Tick /\ b \in [DOMAIN b -> Int128]

\* A stored price is accepted a little off the computed one, by less than what
\* separates neighbouring ticks (TICK_PRICE_TOLERANCE_BITS).
ASSUME ComputedAssumption ==
  /\ ComputedAt \in [Tick -> Nat]
  /\ \A t, u \in Tick : t < u =>
       ComputedAt[t] < ComputedAt[u] /\ PriceAt[t] < ComputedAt[u] /\ ComputedAt[t] < PriceAt[u]

VARIABLES
  source,     \* "index" when the source is the pool's tick index, "any" when it is not
  book,       \* the tick index of the pool
  call,       \* the arguments: pool state, direction, amount_in, price_limit
  status,     \* "called", "running", "stopped", "done", or the AmmError returned
  net,        \* net_input
  fee,        \* the fee of the whole input, at the end the fee charged
  sqrtPrice,  \* sqrt_price
  liquidity,  \* liquidity
  tick,       \* tick
  remaining,  \* remaining
  amountOut,  \* amount_out
  steps,      \* steps
  crossings   \* crossings

pool == <<sqrtPrice, liquidity, tick>>
walk == <<pool, remaining, amountOut, steps, crossings>>
vars == <<source, book, call, status, net, fee, walk>>

Up == call.direction = "BtoA"

\* a lies strictly ahead of b in the direction of travel (is_ahead).
Ahead(a, b) == IF Up THEN a > b ELSE a < b

-----------------------------------------------------------------------------
(* The arithmetic.                                                         *)

Fits128(x) == x <= Max128
Fits256(x) == x <= Max256

DivDown(x, y) == x \div y
DivUp(x, y) == (x + y - 1) \div y
Div(x, y, roundUp) == IF roundUp THEN DivUp(x, y) ELSE DivDown(x, y)

\* take_fee: the fee of a gross input, rounded down.
FeeOf(amount, rate) == (amount * rate) \div FeeDenominator

\* delta_a and delta_b between two prices, rounded the given way.
DeltaA(low, high, l, roundUp) ==
  IF low = high THEN 0 ELSE Div(Div(l * Scale * (high - low), high, roundUp), low, roundUp)
DeltaB(low, high, l, roundUp) == Div(l * (high - low), Scale, roundUp)

\* The price that selling `amount` reaches, never further than it pays for:
\* next_sqrt_price_up rounds down, next_sqrt_price_down rounds up.
\* Mutant: both round down.
PriceUp(p, l, amount) == p + DivDown(amount * Scale, l)
PriceDownFloored(p, l, amount) == DivDown(l * Scale * p, l * Scale + amount * p)
PriceDown(p, l, amount) == DivUp(l * Scale * p, l * Scale + amount * p)

\* What the trader owes for a move from p to q, and what the pool pays out.
\* Mutant: the payout rounds up.
Owed(up, p, q, l) == IF up THEN DeltaB(p, q, l, TRUE) ELSE DeltaA(q, p, l, TRUE)
OutUp(up, p, q, l) == IF up THEN DeltaA(p, q, l, TRUE) ELSE DeltaB(q, p, l, TRUE)
Out(up, p, q, l) == IF up THEN DeltaA(p, q, l, FALSE) ELSE DeltaB(q, p, l, FALSE)

\* The price the whole remaining input would reach, and whether computing it overflows.
Reach == IF Up THEN PriceUp(sqrtPrice, liquidity, remaining)
               ELSE PriceDown(sqrtPrice, liquidity, remaining)
ReachFits ==
  IF Up THEN Fits128(Reach)
        ELSE /\ Fits256(liquidity * Scale + remaining * sqrtPrice)
             /\ Fits256(liquidity * Scale * sqrtPrice)

-----------------------------------------------------------------------------
(* The tick source: birdai-tick's neighbours of the current tick.          *)

\* The initialised ticks strictly beyond the current one, and the nearest of them.
Beyond == {t \in DOMAIN book : Ahead(t, tick)}
NextBoundary == {[tick |-> t, sqrtPrice |-> PriceAt[t], net |-> book[t]] :
                   t \in {u \in Beyond : \A v \in Beyond \ {u} : Ahead(v, u)}}

\* What next_boundary_up or next_boundary_down may return.
Answers ==
  IF source = "any" THEN Answer \union {NoBoundary}
  ELSE IF Beyond = {} THEN {NoBoundary} ELSE NextBoundary

\* The liquidity of a range, from the ticks below it.
LiquidityOf(b, below) == MapThenSumSet(LAMBDA t : b[t], below)

-----------------------------------------------------------------------------
(* The call.                                                               *)

\* The floor of a price among the prices of the ticks; the lowest tick when there is none.
FloorAmong(prices, p) ==
  LET below == {t \in Tick : prices[t] <= p} IN IF below = {} THEN Min(Tick) ELSE Max(below)

\* The tick the pool keeps for a price, from the prices the pool stores.
StoredTick(p) == FloorAmong(PriceAt, p)

\* The state of a pool, as the pool keeps it: the active liquidity is that of
\* the ticks at or below the price, the tick is the floor tick of the price.
PoolsOf(b) ==
  {[sqrtPrice |-> p, tick |-> StoredTick(p), feeRate |-> r,
    liquidity |-> LiquidityOf(b, {t \in DOMAIN b : PriceAt[t] <= p})] : p \in Price, r \in FeeRate}

\* A pool's active liquidity is a u128.
ASSUME PoolAssumption == \A b \in Book : PoolsOf(b) \subseteq PoolState

NothingStepped ==
  /\ status = "called"
  /\ net = 0 /\ fee = 0 /\ remaining = 0 /\ amountOut = 0 /\ crossings = 0
  /\ steps = <<>>
  /\ sqrtPrice = call.pool.sqrtPrice
  /\ liquidity = call.pool.liquidity
  /\ tick = call.pool.tick

Called(pools) ==
  /\ call \in [pool : pools, direction : Direction, amountIn : Amount, limit : Price]
  /\ NothingStepped

\* The pool's own index, or a source that is stale or another pool's.
Init ==
  \/ source = "index" /\ book \in Book /\ Called(PoolsOf(book))
  \/ source = "any" /\ book = <<>> /\ Called(Stray)

\* The call returns an error and its locals are gone.
Error(e) ==
  /\ status' = e
  /\ UNCHANGED <<source, book, call, net, fee, walk>>

\* The checks up front, in the order of the code.
RejectPrice == sqrtPrice = 0 /\ Error("InvalidSqrtPrice")
RejectLiquidity == sqrtPrice # 0 /\ liquidity = 0 /\ Error("ZeroLiquidity")
Steppable == sqrtPrice # 0 /\ liquidity # 0
RejectLimit == Steppable /\ Ahead(sqrtPrice, call.limit) /\ Error("UnreachablePriceLimit")
RejectFeeRate ==
  /\ Steppable
  /\ ~ Ahead(sqrtPrice, call.limit)
  /\ call.pool.feeRate >= FeeDenominator
  /\ Error("InvalidFeeRate")

Reject == status = "called" /\ (RejectPrice \/ RejectLiquidity \/ RejectLimit \/ RejectFeeRate)

Start ==
  /\ status = "called"
  /\ Steppable
  /\ ~ Ahead(sqrtPrice, call.limit)
  /\ call.pool.feeRate < FeeDenominator
  /\ fee' = FeeOf(call.amountIn, call.pool.feeRate)
  /\ net' = call.amountIn - fee'
  /\ remaining' = net'
  /\ status' = "running"
  /\ UNCHANGED <<source, book, call, pool, amountOut, steps, crossings>>

-----------------------------------------------------------------------------
(* One turn of the loop, with the boundary b the source answered.          *)

Walking == status = "running" /\ remaining > 0 /\ sqrtPrice # call.limit

\* The loop ends before another turn.
Stop ==
  /\ status = "running"
  /\ remaining = 0 \/ sqrtPrice = call.limit
  /\ status' = "stopped"
  /\ UNCHANGED <<source, book, call, net, fee, walk>>

\* A boundary that is not ahead of the price is ignored.
\* Mutant: it is trusted.
Trusted(b) == b
Usable(b) == IF b # NoBoundary /\ Ahead(b.sqrtPrice, sqrtPrice) THEN b ELSE NoBoundary

\* The step's target: the boundary, clamped to the price limit.
\* Mutant: it is not clamped.
Unclamped(b) == IF Usable(b) = NoBoundary THEN call.limit ELSE Usable(b).sqrtPrice
Target(b) ==
  IF Usable(b) = NoBoundary \/ Ahead(Usable(b).sqrtPrice, call.limit) THEN call.limit
                                                                      ELSE Usable(b).sqrtPrice

\* next_price: where the turn lands.
Reached(b) == ~ Ahead(Target(b), Reach)
Landing(b) == IF Reached(b) THEN Target(b) ELSE Reach

OwedAt(b) == Owed(Up, sqrtPrice, Landing(b), liquidity)
OutAt(b) == Out(Up, sqrtPrice, Landing(b), liquidity)
Consumed(b) == IF Reached(b) /\ OwedAt(b) < remaining THEN OwedAt(b) ELSE remaining

\* The turn's checks, in the order of the code.
Priced(b) == Walking /\ liquidity # 0 /\ ReachFits
Moves(b) == Priced(b) /\ Landing(b) # sqrtPrice
Fitting(b) ==
  /\ Fits256(liquidity * Scale * (IF Up THEN Landing(b) - sqrtPrice ELSE sqrtPrice - Landing(b)))
  /\ Fits128(OwedAt(b)) /\ Fits128(OutAt(b)) /\ Fits128(amountOut + OutAt(b))

MeetGap == Walking /\ liquidity = 0 /\ Error("ZeroLiquidity")
OverflowReach == Walking /\ liquidity # 0 /\ ~ ReachFits /\ Error("Overflow")
Stall(b) == Priced(b) /\ Landing(b) = sqrtPrice /\ Error("NoProgress")
OverflowStep(b) == Moves(b) /\ ~ Fitting(b) /\ Error("Overflow")

\* The step itself: price, input, output and its record.
Step(b) ==
  /\ Moves(b) /\ Fitting(b)
  /\ sqrtPrice' = Landing(b)
  /\ remaining' = remaining - Consumed(b)
  /\ amountOut' = amountOut + OutAt(b)
  /\ steps' = Append(steps, [amountIn |-> Consumed(b), amountOut |-> OutAt(b),
                             start |-> sqrtPrice, end |-> Landing(b),
                             liquidity |-> liquidity, crossed |-> Reached(b)])
  /\ UNCHANGED <<source, book, call, net, fee>>

\* Landing on the price limit is not crossing a tick.
\* Mutants: any target is a crossing; only a boundary beyond the landing is one.
CrossesAnyTarget(b) == Reached(b) /\ Usable(b) # NoBoundary
CrossesBeyond(b) == CrossesAnyTarget(b) /\ Ahead(Usable(b).sqrtPrice, Landing(b))
Crosses(b) == Reached(b) /\ Usable(b) # NoBoundary /\ Usable(b).sqrtPrice = Landing(b)

StepAndStop(b) ==
  /\ Step(b)
  /\ ~ Crosses(b)
  /\ status' = "stopped"
  /\ UNCHANGED <<liquidity, tick, crossings>>

\* Mutant: one crossing too many.
RoomForOneMore == crossings <= MaxCrossings
RoomToCross == crossings < MaxCrossings

\* liquidity_net is defined upwards; crossing downwards applies its negation.
\* Mutant: the sign of an upward crossing, both ways.
UnsignedNet(b) == b.net
SignedNet(b) == IF Up THEN b.net ELSE - b.net
\* Mutant: the sum is not checked.
UncheckedNet(b) == TRUE
NetFits(b) == SignedNet(b) <= Max127 /\ liquidity + SignedNet(b) \in 0 .. Max128

StepAndCross(b) ==
  /\ Step(b)
  /\ Crosses(b)
  /\ RoomToCross
  /\ NetFits(b)
  /\ crossings' = crossings + 1
  /\ liquidity' = liquidity + SignedNet(b)
  /\ tick' = b.tick
  /\ status' = "running"

CrossTooMany(b) ==
  Moves(b) /\ Fitting(b) /\ Crosses(b) /\ ~ RoomToCross /\ Error("TooManyCrossings")

OverflowCrossing(b) ==
  Moves(b) /\ Fitting(b) /\ Crosses(b) /\ RoomToCross /\ ~ NetFits(b) /\ Error("Overflow")

Turn(b) ==
  \/ MeetGap \/ OverflowReach \/ Stall(b) \/ OverflowStep(b)
  \/ StepAndStop(b) \/ StepAndCross(b)
  \/ CrossTooMany(b) \/ OverflowCrossing(b)

\* The fee of the input left over is refunded, rounded down.
\* Mutant: rounded up.
RefundUp == IF net = 0 THEN 0 ELSE DivUp(fee * remaining, net)
Refund == IF net = 0 THEN 0 ELSE DivDown(fee * remaining, net)

Finish ==
  /\ status = "stopped"
  /\ fee' = fee - Refund
  /\ status' = "done"
  /\ UNCHANGED <<source, book, call, net, walk>>

Next == Reject \/ Start \/ Stop \/ (\E b \in Answers : Turn(b)) \/ Finish
Spec == Init /\ [][Next]_vars

-----------------------------------------------------------------------------
(* stays_inside_current_range of crates/birdai-venue/src/cetus.rs: whether *)
(* one step prices the whole call, without asking the tick index.          *)

\* The price the whole input would reach if no boundary lay in between.
WholeReach ==
  LET input == call.amountIn - FeeOf(call.amountIn, call.pool.feeRate)
  IN  IF Up THEN PriceUp(call.pool.sqrtPrice, call.pool.liquidity, input)
            ELSE PriceDown(call.pool.sqrtPrice, call.pool.liquidity, input)

\* tick_at_sqrt_price, the answer of the search in TickMath: the floor among the
\* computed prices, while boundaries carry stored ones.
FloorTick(p) == FloorAmong(ComputedAt, p)

\* Mutant: any price less than a grid step away is taken to be inside.
StaysNear ==
  /\ call.pool.liquidity # 0
  /\ FloorTick(WholeReach) - call.pool.tick \in -1 .. 1

\* A pool whose stored tick is not the floor tick of its price gets no shortcut.
StaysInside ==
  /\ call.pool.liquidity # 0
  /\ FloorTick(call.pool.sqrtPrice) = call.pool.tick
  /\ FloorTick(WholeReach) = call.pool.tick

-----------------------------------------------------------------------------
(* Properties.                                                             *)

\* Every variable has the type the code gives it: in particular no sum or
\* difference of prices, amounts and liquidity leaves u128 (swap.rs:437-447).
TypeOK ==
  /\ status \in {"called", "running", "stopped", "done"} \union AmmError
  /\ \A x \in {net, fee, sqrtPrice, liquidity, remaining, amountOut} : x \in Amounts
  /\ tick \in Tick
  /\ crossings \in Nat
  /\ steps \in Seq([amountIn : Amounts, amountOut : Amounts, start : Amounts, end : Amounts,
                    liquidity : Amounts, crossed : BOOLEAN])

LastStep == steps[Len(steps)]

\* A step takes the pool no further than its input pays for, whether it is cut
\* short at a boundary or the limit or spends the input (swap.rs:12-16).
PaysForMove ==
  steps # <<>> =>
    LastStep.amountIn >= Owed(Up, LastStep.start, LastStep.end, LastStep.liquidity)

\* Selling a step's output straight back, fee aside, neither takes the price past
\* where the step began nor returns more than was paid: every rounding is the pool's.
NoFreeRoundTrip ==
  steps # <<>> =>
    LET s    == LastStep
        back == IF Up THEN PriceDown(s.end, s.liquidity, s.amountOut)
                      ELSE PriceUp(s.end, s.liquidity, s.amountOut)
    IN /\ ~ Ahead(s.start, back)
       /\ Out(~ Up, s.end, back, s.liquidity) <= s.amountIn

\* The fee charged is that of the share of the input consumed, rounded up by
\* less than one unit, and never more than the fee of the whole input: what is
\* rounded down is the refund (swap.rs:405-418).  The doc of the field calls the
\* fee itself "floored, proportional on truncation" (swap.rs:196), which is one
\* unit less than the code charges whenever the share is not whole.
FeeProportional ==
  status = "done" =>
    LET whole == FeeOf(call.amountIn, call.pool.feeRate)
        spent == net - remaining
    IN /\ fee <= whole
       /\ fee * net >= whole * spent
       /\ net # 0 => (fee - 1) * net < whole * spent

\* The source answers ticks strictly below the current one, so a swap selling A
\* from an initialised current tick starts past a boundary it never sees.
StartsOnTick == ~ Up /\ call.pool.tick \in DOMAIN book

InOneRange(s) ==
  LET low  == Min({s.start, s.end})
      high == Max({s.start, s.end})
  IN /\ \A t \in DOMAIN book : ~ (low < PriceAt[t] /\ PriceAt[t] < high)
     /\ s.liquidity = LiquidityOf(book, {t \in DOMAIN book : PriceAt[t] <= low})

\* Each step stays inside one range of the pool and is priced with that range's
\* liquidity ("constant while the price stays inside one tick range", swap.rs:7):
\* no boundary is skipped, applied twice or with the wrong sign.
StepsInOneRange ==
  source = "index" /\ steps # <<>> /\ ~ StartsOnTick => InOneRange(LastStep)

\* The same without the exception, for a pool whose price lies above its current
\* tick: what "walking tick boundaries" promises (swap.rs:268).
StepsWalkBoundaries ==
  /\ source = "index"
  /\ steps # <<>>
  /\ call.pool.sqrtPrice > PriceAt[call.pool.tick]
  => InOneRange(LastStep)

\* Between steps and at the end, the liquidity reported is that of the range
\* ahead: stopping at a limit short of a tick has not applied that tick (swap.rs:375-377).
RangeLiquidity ==
  source = "index" /\ ~ StartsOnTick =>
    liquidity = LiquidityOf(book, {t \in DOMAIN book :
                  PriceAt[t] < sqrtPrice \/ (Up /\ PriceAt[t] = sqrtPrice)})

\* The price never passes the limit, whatever boundaries the source answers (swap.rs:327).
PriceWithinLimit == status \in {"running", "stopped", "done"} => ~ Ahead(sqrtPrice, call.limit)

\* No step moves the price backwards or leaves it, whatever the source answers (swap.rs:323).
PriceForward == [][Ahead(sqrtPrice', sqrtPrice)]_sqrtPrice

\* max_crossings bounds the walk whatever the source answers (swap.rs:271).
BoundedWalk == Len(steps) <= MaxCrossings + 1

\* A swap that returns stopped for one of two reasons: its input was spent or its
\* limit reached; no input is left behind at a boundary, nor where no boundary is
\* known.  The doc names a third, "the next boundary cannot be resolved"
\* (swap.rs:274-275): the code has no such stop, it walks on to the limit.
InputSpent == status = "done" => remaining = 0 \/ sqrtPrice = call.limit

\* One step with the whole input is what the walk over the real index does.
OneStepDoes == crossings = 0 /\ Len(steps) <= 1 /\ sqrtPrice = WholeReach

Shortcut == source = "index" /\ StaysInside /\ ~ Ahead(WholeReach, call.limit)

\* The tick above the pool's has a node, and the price reached lies in the gap
\* between the price that node stores and the one computed for its tick.
InNodeGap ==
  LET above == call.pool.tick + 1
  IN  Up /\ above \in DOMAIN book /\ PriceAt[above] <= WholeReach /\ WholeReach < ComputedAt[above]

\* When the shortcut answers true, the walk over the pool's real index takes the
\* one step it promises: no boundary is crossed and the price ends where the whole
\* input takes it, stored tick prices that differ from computed ones included
\* (cetus.rs 130-164), unless the price ends in the gap of a node just above.
StaysExactOutsideGap ==
  status = "done" /\ Shortcut /\ ~ InNodeGap => OneStepDoes

\* The same without the exception: the check "makes a single-step quote exact
\* without consulting the tick index", as "no boundary lies between the two
\* prices" that floor to the same tick (cetus.rs:132-135).
StaysExact == status = "done" /\ Shortcut => OneStepDoes

=============================================================================
