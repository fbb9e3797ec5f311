------------------------------ MODULE SwapProofs ------------------------------
(***************************************************************************)
(* Theorems about Swap, for every Scale, fee denominator, tick index, pool *)
(* and limit, and whatever boundaries the source answers.  Over the pool's *)
(* own index, the ticks ahead of the walk are those its lookups can answer *)
(* and its liquidity is the sum of those behind.                           *)
(***************************************************************************)
EXTENDS Swap, TLAPS, FiniteSetTheorems

-----------------------------------------------------------------------------
(* Integer arithmetic the provers lack.                                    *)

\* Multiplying by a natural keeps the order.
LEMMA ProductOrder ==
  ASSUME NEW x \in Int, NEW y \in Int, NEW k \in Nat, x <= y
  PROVE  x * k <= y * k
  BY SMT

\* And a strict order of products comes from one of the factors.
LEMMA ProductOrderStrict ==
  ASSUME NEW x \in Int, NEW y \in Int, NEW k \in Nat, x * k < y * k
  PROVE  x < y
  BY SMT

-----------------------------------------------------------------------------
(* The rounded divisions.                                                  *)

\* A floored quotient lies within one divisor below its dividend.
LEMMA DivDownBounds ==
  ASSUME NEW x \in Nat, NEW y \in Nat \ {0}
  PROVE  /\ DivDown(x, y) \in Nat
         /\ DivDown(x, y) * y <= x
         /\ x < (DivDown(x, y) + 1) * y
  BY SMT DEF DivDown

\* A quotient is at most any multiple the dividend does not exceed.
LEMMA DivDownUpper ==
  ASSUME NEW x \in Nat, NEW y \in Nat \ {0}, NEW z \in Nat, x <= z * y
  PROVE  DivDown(x, y) <= z
<1> DEFINE q == DivDown(x, y)
<1>1. q \in Nat /\ q * y <= x
  BY DivDownBounds
<1> HIDE DEF q
<1>2. q * y < (z + 1) * y
  BY <1>1
<1>3. q < z + 1
  BY <1>1, <1>2, ProductOrderStrict
<1>4. q <= z
  BY <1>1, <1>3
<1>5. QED
  BY <1>4 DEF q

\* A quotient rounded up is never short of its dividend.
LEMMA DivUpBounds ==
  ASSUME NEW x \in Nat, NEW y \in Nat \ {0}
  PROVE  /\ DivUp(x, y) \in Nat
         /\ x <= DivUp(x, y) * y
<1> DEFINE q == (x + y - 1) \div y
<1>1. x + y - 1 \in Nat
  OBVIOUS
<1>2. q \in Nat /\ x + y - 1 < (q + 1) * y
  BY <1>1, DivDownBounds DEF DivDown
<1> HIDE DEF q
<1>3. x <= q * y
  BY <1>2
<1>4. QED
  BY <1>2, <1>3 DEF q, DivUp

\* Nor more than any multiple that covers it.
LEMMA DivUpUpper ==
  ASSUME NEW x \in Nat, NEW y \in Nat \ {0}, NEW z \in Nat, x <= z * y
  PROVE  DivUp(x, y) <= z
<1> DEFINE q == (x + y - 1) \div y
<1>1. q \in Nat /\ q * y <= x + y - 1
  BY DivDownBounds DEF DivDown
<1> HIDE DEF q
<1>2. q * y < (z + 1) * y
  BY <1>1
<1>3. q < z + 1
  BY <1>1, <1>2, ProductOrderStrict
<1>4. q <= z
  BY <1>1, <1>3
<1>5. QED
  BY <1>4 DEF q, DivUp

\* A positive number divided and rounded up is positive.
LEMMA DivUpPositive ==
  ASSUME NEW x \in Nat \ {0}, NEW y \in Nat \ {0}
  PROVE  DivUp(x, y) \in Nat \ {0}
<1>1. DivUp(x, y) \in Nat /\ x <= DivUp(x, y) * y
  BY DivUpBounds
<1>2. CASE DivUp(x, y) = 0
  BY <1>1, <1>2
<1>3. QED
  BY <1>1, <1>2

\* Products of naturals are naturals, positive when both factors are.
LEMMA ProductNat ==
  ASSUME NEW x \in Nat, NEW y \in Nat
  PROVE  /\ x * y \in Nat
         /\ x # 0 /\ y # 0 => x * y # 0
  BY SMT

-----------------------------------------------------------------------------
(* Where an amount takes the price, and what a move costs.                 *)

\* The scale is a positive natural.
LEMMA ScaleNat == Scale \in Nat \ {0}
  BY WidthAssumption

\* next_sqrt_price_up never goes back nor further than the amount pays for.
LEMMA PriceUpBounds ==
  ASSUME NEW p \in Nat, NEW l \in Nat \ {0}, NEW amount \in Nat
  PROVE  /\ PriceUp(p, l, amount) \in Nat
         /\ p <= PriceUp(p, l, amount)
         /\ l * (PriceUp(p, l, amount) - p) <= amount * Scale
<1>1. amount * Scale \in Nat
  BY ScaleNat, ProductNat
<1> DEFINE d == DivDown(amount * Scale, l)
<1>2. d \in Nat /\ d * l <= amount * Scale
  BY <1>1, DivDownBounds
<1>3. PriceUp(p, l, amount) = p + d
  BY DEF PriceUp
<1> HIDE DEF d
<1>4. l * d = d * l
  BY <1>2
<1>5. (p + d) - p = d
  BY <1>2
<1>6. QED
  BY <1>2, <1>3, <1>4, <1>5

\* next_sqrt_price_down stays between zero and the price, and pays for its way.
LEMMA PriceDownBounds ==
  ASSUME NEW p \in Nat \ {0}, NEW l \in Nat \ {0}, NEW amount \in Nat
  PROVE  /\ PriceDown(p, l, amount) \in Nat \ {0}
         /\ PriceDown(p, l, amount) <= p
         /\ l * Scale * p <= PriceDown(p, l, amount) * (l * Scale + amount * p)
<1> DEFINE x == l * Scale
           y == x + amount * p
<1>1. x \in Nat \ {0}
  BY ScaleNat, ProductNat
<1>2. amount * p \in Nat
  BY ProductNat
<1>3. PriceDown(p, l, amount) = DivUp(x * p, y)
  BY DEF PriceDown
<1> HIDE DEF x
<1>4. y \in Nat \ {0} /\ x <= y
  BY <1>1, <1>2
<1> HIDE DEF y
<1>5. x * p \in Nat \ {0}
  BY <1>1, ProductNat
<1>6. DivUp(x * p, y) \in Nat \ {0} /\ x * p <= DivUp(x * p, y) * y
  BY <1>4, <1>5, DivUpBounds, DivUpPositive
<1>7. x * p <= y * p /\ y * p = p * y
  BY <1>1, <1>4, ProductOrder
<1>8. DivUp(x * p, y) <= p
  BY <1>4, <1>5, <1>7, DivUpUpper
<1>9. QED
  BY <1>3, <1>6, <1>8 DEF x, y

\* Quotients, either way rounded, are naturals.
LEMMA DivType ==
  ASSUME NEW x \in Nat, NEW y \in Nat \ {0}, NEW r \in BOOLEAN
  PROVE  Div(x, y, r) \in Nat
  BY DivDownBounds, DivUpBounds DEF Div

\* The amounts of a range are never negative.
LEMMA DeltaType ==
  ASSUME NEW low \in Nat \ {0}, NEW high \in Nat, low <= high, NEW l \in Nat, NEW r \in BOOLEAN
  PROVE  /\ DeltaA(low, high, l, r) \in Nat
         /\ DeltaB(low, high, l, r) \in Nat
<1> DEFINE n == high - low
<1>1. n \in Nat
  OBVIOUS
<1> HIDE DEF n
<1>2. l * n \in Nat /\ l * Scale * n \in Nat
  BY <1>1, ScaleNat, ProductNat
<1>3. DeltaB(low, high, l, r) \in Nat
  BY <1>2, ScaleNat, DivType DEF DeltaB, n
<1>4. Div(l * Scale * n, high, r) \in Nat
  BY <1>2, DivType
<1>5. Div(Div(l * Scale * n, high, r), low, r) \in Nat
  BY <1>4, DivType
<1>6. DeltaA(low, high, l, r) \in Nat
  BY <1>5 DEF DeltaA, n
<1>7. QED
  BY <1>3, <1>6

-----------------------------------------------------------------------------
(* A move costs no more than the amount that reaches it.                   *)

\* A price short of the one reached by `amount` costs no more than that.
LEMMA UpPaid ==
  ASSUME NEW p \in Nat, NEW l \in Nat \ {0}, NEW amount \in Nat,
         NEW t \in Nat, p <= t, t <= PriceUp(p, l, amount)
  PROVE  DeltaB(p, t, l, TRUE) <= amount
<1> DEFINE q == PriceUp(p, l, amount)
           n == t - p
           m == q - p
<1>a. q \in Nat /\ t <= q /\ l * (q - p) <= amount * Scale
  BY PriceUpBounds
<1> HIDE DEF q
<1>1. n \in Nat /\ m \in Nat /\ n <= m /\ l * m <= amount * Scale
  BY <1>a
<1> HIDE DEF n, m
<1>2. l * n <= l * m
  BY <1>1, ProductOrder
<1>3. l * n \in Nat /\ l * m \in Nat /\ amount * Scale \in Nat
  BY <1>1, ScaleNat, ProductNat
<1>4. l * n <= amount * Scale
  BY <1>1, <1>2, <1>3
<1>5. DivUp(l * n, Scale) <= amount
  BY <1>3, <1>4, ScaleNat, DivUpUpper
<1>6. QED
  BY <1>5 DEF DeltaB, Div, n

\* A move down, no further than the amount reaches, costs no more than it.
LEMMA DownPaid ==
  ASSUME NEW p \in Nat \ {0}, NEW l \in Nat \ {0}, NEW amount \in Nat,
         NEW t \in Nat, t <= p, PriceDown(p, l, amount) <= t
  PROVE  DeltaA(t, p, l, TRUE) <= amount
<1>1. t \in Nat \ {0}
  BY PriceDownBounds
<1> DEFINE x == l * Scale
           d == PriceDown(p, l, amount)
           n == p - t
<1>2. x \in Nat \ {0}
  BY ScaleNat, ProductNat
<1>3. d \in Nat /\ d <= t /\ x * p <= d * (x + amount * p)
  BY PriceDownBounds
<1> HIDE DEF x, d
<1>4. x + amount * p \in Nat
  BY <1>2, ProductNat
<1>5. d * (x + amount * p) <= t * (x + amount * p)
  BY <1>3, <1>4, ProductOrder
<1>6. x * p <= t * (x + amount * p)
  BY <1>2, <1>3, <1>4, <1>5, ProductNat
<1>7. t * (x + amount * p) = x * t + (amount * t) * p
  BY <1>1, <1>2
<1>8. x * n = x * p - x * t
  BY <1>1, <1>2
<1>9. n \in Nat
  OBVIOUS
<1> HIDE DEF n
<1>10. x * n \in Nat /\ x * p \in Nat /\ x * t \in Nat /\ amount * t \in Nat /\ (amount * t) * p \in Nat
  BY <1>1, <1>2, <1>9, ProductNat
<1>11. x * n <= (amount * t) * p
  BY <1>6, <1>7, <1>8, <1>10
<1>12. DivUp(x * n, p) \in Nat /\ DivUp(x * n, p) <= amount * t
  BY <1>10, <1>11, DivUpBounds, DivUpUpper
<1>13. DivUp(DivUp(x * n, p), t) <= amount
  BY <1>1, <1>12, DivUpUpper
<1>14. QED
  BY <1>13 DEF DeltaA, Div, x, n

-----------------------------------------------------------------------------
(* A move undone returns no more than it cost.                             *)

\* Selling back what a move up paid out stops short of where the move began.
LEMMA UpBack ==
  ASSUME NEW p \in Nat \ {0}, NEW e \in Nat, p < e, NEW l \in Nat \ {0},
         NEW o \in Nat, o = DivDown(DivDown(l * Scale * (e - p), e), p),
         NEW back \in Nat, back = PriceDown(e, l, o)
  PROVE  /\ p <= back
         /\ DivDown(l * (e - back), Scale) <= DivUp(l * (e - p), Scale)
<1> DEFINE x == l * Scale
           n == e - p
           h == DivDown(x * n, e)
<1>1. x \in Nat \ {0} /\ n \in Nat /\ e \in Nat \ {0}
  BY ScaleNat, ProductNat
<1>2. o = DivDown(h, p)
  OBVIOUS
<1> HIDE DEF x
<1>3. x * n \in Nat /\ x * n = x * e - x * p /\ x * e \in Nat /\ x * p \in Nat
  BY <1>1, ProductNat
<1> HIDE DEF n
<1>4. h \in Nat /\ h * e <= x * n
  BY <1>1, <1>3, DivDownBounds
<1> HIDE DEF h
<1>5. o \in Nat /\ o * p <= h
  BY <1>2, <1>4, DivDownBounds
<1>6. o * p \in Nat /\ (o * p) * e <= h * e
  BY <1>4, <1>5, ProductNat, ProductOrder
<1>7. back \in Nat \ {0} /\ back <= e /\ x * e <= back * (x + o * e)
  BY <1>1, <1>5, PriceDownBounds DEF x
<1>8. o * e \in Nat /\ x + o * e \in Nat
  BY <1>1, <1>5, ProductNat
<1>9. p * (x + o * e) = x * p + (o * p) * e
  BY <1>1, <1>5
<1>10. h * e \in Nat /\ (o * p) * e \in Nat
  BY <1>1, <1>4, <1>6, ProductNat
<1>11. p * (x + o * e) <= x * e
  BY <1>3, <1>4, <1>6, <1>9, <1>10
<1>12. p <= back
  <2>1. SUFFICES ASSUME back < p PROVE FALSE
    BY <1>7
  <2>2. back + 1 <= p
    BY <1>7, <2>1
  <2>3. (back + 1) * (x + o * e) <= p * (x + o * e)
    BY <1>7, <1>8, <2>2, ProductOrder
  <2>4. (back + 1) * (x + o * e) = back * (x + o * e) + (x + o * e)
    BY <1>7, <1>8
  <2>5. back * (x + o * e) \in Nat /\ p * (x + o * e) \in Nat
    BY <1>7, <1>8, ProductNat
  <2>6. QED
    BY <1>1, <1>3, <1>7, <1>8, <1>11, <2>3, <2>4, <2>5
<1> DEFINE m == e - back
<1>13. m \in Nat /\ n \in Nat /\ m <= n
  BY <1>7, <1>12 DEF n
<1> HIDE DEF m
<1>14. l * m \in Nat /\ l * n \in Nat /\ l * m <= l * n
  BY <1>13, ProductNat, ProductOrder
<1>15. DivUp(l * n, Scale) \in Nat /\ l * n <= DivUp(l * n, Scale) * Scale
  BY <1>14, ScaleNat, DivUpBounds
<1>16. DivUp(l * n, Scale) * Scale \in Nat
  BY <1>15, ScaleNat, ProductNat
<1>17. l * m <= DivUp(l * n, Scale) * Scale
  BY <1>14, <1>15, <1>16
<1>18. DivDown(l * m, Scale) <= DivUp(l * n, Scale)
  BY <1>14, <1>15, <1>17, ScaleNat, DivDownUpper
<1>19. QED
  BY <1>12, <1>18 DEF m, n

\* And so does selling back what a move down paid out.
LEMMA DownBack ==
  ASSUME NEW p \in Nat \ {0}, NEW e \in Nat \ {0}, e < p, NEW l \in Nat \ {0},
         NEW o \in Nat, o = DivDown(l * (p - e), Scale),
         NEW back \in Nat, back = PriceUp(e, l, o)
  PROVE  /\ back <= p
         /\ DivDown(DivDown(l * Scale * (back - e), back), e)
            <= DivUp(DivUp(l * Scale * (p - e), p), e)
<1> DEFINE x == l * Scale
           n == p - e
           m == back - e
<1>1. x \in Nat \ {0} /\ n \in Nat
  BY ScaleNat, ProductNat
<1>2. o = DivDown(l * n, Scale)
  OBVIOUS
<1> HIDE DEF x
<1>3. l * n \in Nat
  BY <1>1, ProductNat
<1>4. o \in Nat /\ o * Scale <= l * n
  BY <1>2, <1>3, ScaleNat, DivDownBounds
<1>5. back \in Nat /\ e <= back /\ l * m <= o * Scale
  BY <1>4, PriceUpBounds
<1>6. m \in Nat /\ o * Scale \in Nat /\ l * m \in Nat
  BY <1>4, <1>5, ScaleNat, ProductNat
<1> HIDE DEF m, n
<1>7. m * l <= n * l /\ m * l \in Nat /\ n * l \in Nat
  BY <1>1, <1>3, <1>4, <1>5, <1>6
<1>8. m <= n
  <2>1. SUFFICES ASSUME n < m PROVE FALSE
    BY <1>1, <1>6
  <2>2. (n + 1) * l <= m * l
    BY <1>1, <1>6, <2>1, ProductOrder
  <2>3. (n + 1) * l = n * l + l
    BY <1>1
  <2>4. QED
    BY <1>7, <2>2, <2>3
<1>9. back <= p
  BY <1>5, <1>8 DEF m, n
<1> DEFINE u == DivDown(x * m, back)
           w == DivUp(x * n, p)
<1>10. x * m \in Nat /\ x * n \in Nat /\ back \in Nat \ {0}
  BY <1>1, <1>5, <1>6, ProductNat
<1>11. u \in Nat /\ w \in Nat /\ x * n <= w * p
  BY <1>10, DivDownBounds, DivUpBounds
<1>12. u <= w
  <2> HIDE DEF w
  <2>1. w * back \in Nat /\ w * p \in Nat
    BY <1>10, <1>11, ProductNat
  <2>2. (x * n) * back <= (w * p) * back
    BY <1>10, <1>11, <2>1, ProductOrder
  <2>3. n * back = m * p + e * n - e * m
    BY <1>5 DEF m, n
  <2>4. e * m <= e * n
    BY <1>1, <1>6, <1>8, ProductOrder
  <2>5. n * back \in Nat /\ m * p \in Nat /\ e * m \in Nat /\ e * n \in Nat
    BY <1>1, <1>6, <1>10, ProductNat
  <2>6. m * p <= n * back
    BY <2>3, <2>4, <2>5
  <2>7. (m * p) * x <= (n * back) * x
    BY <1>1, <2>5, <2>6, ProductOrder
  <2>8. (m * p) * x = (x * m) * p /\ (n * back) * x = (x * n) * back /\ (w * p) * back = (w * back) * p
    BY <1>1, <1>6, <1>10, <1>11
  <2>9. (x * m) * p \in Nat /\ (x * n) * back \in Nat /\ (w * back) * p \in Nat
    BY <1>10, <2>1, ProductNat
  <2>10. (x * m) * p <= (w * back) * p
    BY <2>2, <2>7, <2>8, <2>9
  <2>11. x * m <= w * back
    <3>1. SUFFICES ASSUME w * back < x * m PROVE FALSE
      BY <1>10, <2>1
    <3>2. (w * back + 1) * p <= (x * m) * p
      BY <1>10, <2>1, <3>1, ProductOrder
    <3>3. (w * back + 1) * p = (w * back) * p + p
      BY <2>1
    <3>4. QED
      BY <2>9, <2>10, <3>2, <3>3
  <2>12. QED
    BY <1>10, <1>11, <2>11, DivDownUpper
<1>13. DivUp(w, e) \in Nat /\ w <= DivUp(w, e) * e
  BY <1>11, DivUpBounds
<1>14. DivUp(w, e) * e \in Nat
  BY <1>13, ProductNat
<1>15. u <= DivUp(w, e) * e
  BY <1>11, <1>12, <1>13, <1>14
<1>16. DivDown(u, e) <= DivUp(w, e)
  BY <1>11, <1>13, <1>15, DivDownUpper
<1>17. QED
  BY <1>9, <1>16 DEF x, m, n

-----------------------------------------------------------------------------
(* The inductive invariant.                                                *)

\* u128 holds the naturals up to Max128.
LEMMA Widths ==
  /\ Max128 \in Nat /\ Max127 \in Nat
  /\ Amounts \subseteq Nat
  /\ \A x \in Nat : Fits128(x) <=> x \in Amounts
<1>1. Scale * Scale \in Nat \ {0}
  BY ScaleNat, ProductNat
<1>2. Max128 \in Nat
  BY <1>1 DEF Max128
<1>3. Scale >= 2
  BY WidthAssumption
<1>4. Scale * Scale >= 2
  <2>1. 2 * Scale <= Scale * Scale
    BY <1>3, ScaleNat, ProductOrder
  <2>2. QED
    BY <1>1, <1>3, <2>1, ScaleNat
<1>5. (Scale * Scale) \div 2 \in Nat /\ (Scale * Scale) \div 2 >= 1
  BY <1>1, <1>4
<1>6. Max127 \in Nat
  BY <1>5 DEF Max127
<1>7. QED
  BY <1>2, <1>6 DEF Amounts, Fits128

\* The arguments of the call are those Init chose.
CallOK ==
  call \in [pool : PoolState, direction : Direction, amountIn : Amounts, limit : Amounts]

\* An index is one of the books.
SourceOK == source = "any" \/ book \in Book

\* The records steps holds.
StepType == [amountIn : Amounts, amountOut : Amounts, start : Amounts, end : Amounts,
             liquidity : Amounts, crossed : BOOLEAN]

\* A walk under way is within its limit and has no more left than its net input.
WalkOK ==
  status \in {"running", "stopped", "done"} =>
    /\ sqrtPrice # 0
    /\ PriceWithinLimit
    /\ net = call.amountIn - FeeOf(call.amountIn, call.pool.feeRate)
    /\ remaining <= net

\* The fee is the whole input's until the refund.
FeeOK == status \in {"running", "stopped"} => fee = FeeOf(call.amountIn, call.pool.feeRate)

\* A walk stops with its input spent or its limit reached (InputSpent, before the refund).
SpentOK == status \in {"stopped", "done"} => remaining = 0 \/ sqrtPrice = call.limit

\* While the walk goes on, every step but none other was a crossing.
CountOK ==
  /\ crossings <= MaxCrossings
  /\ Len(steps) <= crossings + 1
  /\ status \in {"called", "running"} => Len(steps) = crossings

\* The inductive invariant: TypeOK, the facts above, and the three arithmetic
\* properties, which hold of each step by the way it was priced.
IInv ==
  /\ TypeOK /\ CallOK /\ SourceOK
  /\ WalkOK /\ FeeOK /\ SpentOK /\ CountOK
  /\ PaysForMove /\ NoFreeRoundTrip /\ FeeProportional

-----------------------------------------------------------------------------
(* What a turn does.                                                       *)

\* Whatever the source, a boundary has a tick of the pool and a u128 price.
LEMMA AnswerType ==
  ASSUME SourceOK, tick \in Tick, NEW b \in Answers
  PROVE  b \in Boundary \union {NoBoundary}
<1>1. CASE source = "any"
  BY <1>1, InputAssumption DEF Answers
<1>2. CASE source # "any" /\ Beyond = {}
  BY <1>2 DEF Answers
<1>3. CASE source # "any" /\ Beyond # {}
  <2>1. PICK t \in DOMAIN book : b = [tick |-> t, sqrtPrice |-> PriceAt[t], net |-> book[t]]
    BY <1>3 DEF Answers, NextBoundary, Beyond
  <2>2. book \in Book
    BY <1>3 DEF SourceOK
  <2>3. t \in Tick /\ book[t] \in Int128 /\ PriceAt[t] \in Amounts
    BY <2>2, TickAssumption, InputAssumption
  <2>4. QED
    BY <2>1, <2>3 DEF Boundary
<1>4. QED
  BY <1>1, <1>2, <1>3

\* Where a turn lands: past the price, not past the limit, and paid for.
LEMMA LandingFacts ==
  ASSUME IInv, NEW b \in Answers, Priced(b)
  PROVE  /\ Landing(b) \in Amounts \ {0}
         /\ ~ Ahead(sqrtPrice, Landing(b))
         /\ ~ Ahead(Landing(b), call.limit)
         /\ OwedAt(b) \in Nat /\ OutAt(b) \in Nat
         /\ OwedAt(b) <= remaining
<1> DEFINE p == sqrtPrice
           l == liquidity
           r == remaining
           g == call.limit
<1>1. /\ p \in Amounts \ {0} /\ l \in Amounts \ {0} /\ r \in Amounts \ {0} /\ g \in Amounts
      /\ ~ Ahead(p, g) /\ p # g
      /\ tick \in Tick
  BY DEF IInv, TypeOK, CallOK, WalkOK, PriceWithinLimit, Priced, Walking
<1>2. b \in Boundary \union {NoBoundary}
  BY <1>1, AnswerType DEF IInv
<1>3. p \in Nat \ {0} /\ l \in Nat \ {0} /\ r \in Nat /\ g \in Nat
  BY <1>1, Widths
<1> DEFINE t == Target(b)
<1>4. t \in Amounts /\ t \in Nat /\ Ahead(t, p) /\ ~ Ahead(t, g)
  <2>1. CASE Usable(b) = NoBoundary \/ Ahead(Usable(b).sqrtPrice, g)
    BY <1>1, <1>3, <2>1 DEF Target, Ahead
  <2>2. CASE Usable(b) # NoBoundary /\ ~ Ahead(Usable(b).sqrtPrice, g)
    <3>1. Usable(b) = b /\ b \in Boundary /\ Ahead(b.sqrtPrice, p)
      BY <1>2, <2>2 DEF Usable
    <3>2. t = b.sqrtPrice /\ b.sqrtPrice \in Amounts
      BY <2>2, <3>1 DEF Target, Boundary
    <3>3. QED
      BY <2>2, <3>1, <3>2, Widths
  <2>3. QED
    BY <2>1, <2>2
<1> HIDE DEF t
<1>5. CASE Up
  <2> DEFINE q == PriceUp(p, l, r)
  <2>1. q \in Nat /\ p <= q /\ Reach = q /\ Fits128(q)
    BY <1>3, <1>5, PriceUpBounds DEF Priced, Reach, ReachFits
  <2> HIDE DEF q
  <2> DEFINE e == Landing(b)
  <2>2. e \in Amounts /\ e \in Nat /\ p <= e /\ e <= q /\ ~ Ahead(e, g)
    <3>1. CASE Reached(b)
      BY <1>3, <1>4, <1>5, <2>1, <3>1 DEF Landing, Reached, Ahead, t
    <3>2. CASE ~ Reached(b)
      BY <1>3, <1>4, <1>5, <2>1, <3>2, Widths DEF Landing, Reached, Ahead, t
    <3>3. QED
      BY <3>1, <3>2
  <2> HIDE DEF e
  <2>3. OwedAt(b) = DeltaB(p, e, l, TRUE) /\ OutAt(b) = DeltaA(p, e, l, FALSE)
    BY <1>5 DEF OwedAt, OutAt, Owed, Out, e
  <2>4. OwedAt(b) \in Nat /\ OutAt(b) \in Nat
    <3>1. DeltaB(p, e, l, TRUE) \in Nat
      BY <1>3, <2>2, DeltaType
    <3>2. DeltaA(p, e, l, FALSE) \in Nat
      BY <1>3, <2>2, DeltaType
    <3>3. QED
      BY <2>3, <3>1, <3>2
  <2>5. OwedAt(b) <= r
    BY <1>3, <2>2, <2>3, UpPaid DEF q
  <2>6. QED
    BY <1>3, <1>5, <2>2, <2>4, <2>5 DEF Ahead, e
<1>6. CASE ~ Up
  <2> DEFINE q == PriceDown(p, l, r)
  <2>1. q \in Nat \ {0} /\ q <= p /\ Reach = q
    BY <1>3, <1>6, PriceDownBounds DEF Reach
  <2> HIDE DEF q
  <2> DEFINE e == Landing(b)
  <2>2. e \in Amounts /\ e \in Nat \ {0} /\ e <= p /\ q <= e /\ ~ Ahead(e, g)
    <3>1. CASE Reached(b)
      BY <1>3, <1>4, <1>6, <2>1, <3>1 DEF Landing, Reached, Ahead, t
    <3>2. CASE ~ Reached(b)
      <4>1. q \in Amounts
        BY <1>1, <1>3, <2>1, Widths DEF Amounts
      <4>2. QED
        BY <1>3, <1>4, <1>6, <2>1, <3>2, <4>1 DEF Landing, Reached, Ahead, t
    <3>3. QED
      BY <3>1, <3>2
  <2> HIDE DEF e
  <2>3. OwedAt(b) = DeltaA(e, p, l, TRUE) /\ OutAt(b) = DeltaB(e, p, l, FALSE)
    BY <1>6 DEF OwedAt, OutAt, Owed, Out, e
  <2>4. OwedAt(b) \in Nat /\ OutAt(b) \in Nat
    <3>1. DeltaA(e, p, l, TRUE) \in Nat
      BY <1>3, <2>2, DeltaType
    <3>2. DeltaB(e, p, l, FALSE) \in Nat
      BY <1>3, <2>2, DeltaType
    <3>3. QED
      BY <2>3, <3>1, <3>2
  <2>5. OwedAt(b) <= r
    BY <1>3, <2>2, <2>3, DownPaid DEF q
  <2>6. QED
    BY <1>3, <1>6, <2>2, <2>4, <2>5 DEF Ahead, e
<1>7. QED
  BY <1>5, <1>6

-----------------------------------------------------------------------------
(* The invariant is inductive.                                             *)

\* The invariant holds when the call is made.
LEMMA InitInv == Init => IInv
<1> SUFFICES ASSUME Init PROVE IInv
  OBVIOUS
<1>1. PICK pools : pools \subseteq PoolState /\ Called(pools)
  BY InputAssumption, PoolAssumption DEF Init
<1>2. CallOK
  BY <1>1, InputAssumption DEF Called, NothingStepped, CallOK
<1>3. SourceOK
  BY DEF Init, SourceOK
<1>4. /\ sqrtPrice \in Amounts /\ liquidity \in Amounts /\ tick \in Tick
  BY <1>1, <1>2, InputAssumption DEF Called, NothingStepped, CallOK, PoolState
<1>5. 0 \in Amounts
  BY Widths DEF Amounts
<1>6. TypeOK
  BY <1>1, <1>4, <1>5 DEF Called, NothingStepped, TypeOK
<1>7. CountOK
  BY <1>1, InputAssumption DEF Called, NothingStepped, CountOK
<1>8. PaysForMove /\ NoFreeRoundTrip /\ FeeProportional /\ WalkOK /\ FeeOK /\ SpentOK
  BY <1>1 DEF Called, NothingStepped, PaysForMove, NoFreeRoundTrip, FeeProportional, WalkOK, FeeOK, SpentOK
<1>9. QED
  BY <1>2, <1>3, <1>6, <1>7, <1>8 DEF IInv

\* Where nothing but the status moves, only what the new status promises is at stake.
LEMMA StillInv ==
  ASSUME IInv, UNCHANGED <<source, book, call, net, fee, walk>>,
         status' \in AmmError \/ (status = "running" /\ status' = "stopped" /\ SpentOK')
  PROVE  IInv'
<1> USE DEF walk, pool
<1>1. TypeOK' /\ CallOK' /\ SourceOK'
  BY DEF IInv, TypeOK, CallOK, SourceOK
<1>2. WalkOK' /\ FeeOK' /\ SpentOK'
  BY DEF IInv, AmmError, WalkOK, FeeOK, SpentOK, PriceWithinLimit, Ahead, Up
<1>3. CountOK'
  BY DEF IInv, AmmError, CountOK
<1>4. PaysForMove' /\ NoFreeRoundTrip'
  BY DEF IInv, PaysForMove, NoFreeRoundTrip, LastStep, Ahead, Up
<1>5. FeeProportional'
  BY DEF AmmError, FeeProportional
<1>6. QED
  BY <1>1, <1>2, <1>3, <1>4, <1>5 DEF IInv

\* A share of an amount, rounded down, is no more than the amount.
LEMMA ShareBounds ==
  ASSUME NEW x \in Nat, NEW n \in Nat, NEW d \in Nat \ {0}, n <= d
  PROVE  (x * n) \div d \in 0 .. x
<1>1. x * n \in Nat /\ x * n <= x * d
  BY ProductNat, ProductOrder
<1>2. DivDown(x * n, d) \in Nat /\ DivDown(x * n, d) <= x
  BY <1>1, DivDownBounds, DivDownUpper
<1>3. QED
  BY <1>2 DEF DivDown

\* A smaller amount, and what is left of the larger one, are amounts.
LEMMA SmallerAmount ==
  ASSUME NEW x \in Amounts, NEW y \in Nat, y <= x
  PROVE  y \in Amounts /\ x - y \in Amounts
  BY Widths DEF Amounts

\* Taking the fee keeps the invariant.
LEMMA StartInv == IInv /\ Start => IInv'
<1> SUFFICES ASSUME IInv, Start PROVE IInv'
  OBVIOUS
<1> USE DEF pool
<1> DEFINE x == call.amountIn
           f == FeeOf(x, call.pool.feeRate)
<1>1. x \in Amounts /\ x \in Nat /\ call.pool.feeRate \in Nat
  BY InputAssumption, Widths DEF IInv, CallOK, PoolState
<1>2. FeeDenominator \in Nat \ {0} /\ call.pool.feeRate <= FeeDenominator
  BY <1>1, WidthAssumption DEF Start
<1>3. f \in 0 .. x
  BY <1>1, <1>2, ShareBounds DEF FeeOf
<1>4. fee' = f /\ net' = x - f /\ remaining' = net' /\ status' = "running"
  BY DEF Start
<1> HIDE DEF f
<1>5. fee' \in Amounts /\ net' \in Amounts
  BY <1>1, <1>3, <1>4, SmallerAmount
<1>6. TypeOK' /\ CallOK' /\ SourceOK'
  BY <1>4, <1>5 DEF Start, IInv, TypeOK, CallOK, SourceOK
<1>7. FeeOK' /\ SpentOK'
  BY <1>4 DEF Start, FeeOK, SpentOK, f
<1>8. PriceWithinLimit' /\ (sqrtPrice # 0)'
  BY <1>4 DEF Start, Steppable, PriceWithinLimit, Ahead, Up
<1>9. WalkOK'
  BY <1>1, <1>3, <1>4, <1>8 DEF Start, WalkOK, f
<1>10. CountOK'
  BY <1>4 DEF Start, IInv, CountOK
<1>11. PaysForMove' /\ NoFreeRoundTrip'
  BY DEF Start, IInv, PaysForMove, NoFreeRoundTrip, LastStep, Ahead, Up
<1>12. FeeProportional'
  BY <1>4 DEF FeeProportional
<1>13. QED
  BY <1>6, <1>7, <1>9, <1>10, <1>11, <1>12 DEF IInv

\* Selling a step's output straight back returns no more than it was owed.
LEMMA RoundTrip ==
  ASSUME IInv, NEW b \in Answers, Moves(b),
         NEW back \in Nat,
         back = IF Up THEN PriceDown(Landing(b), liquidity, OutAt(b))
                      ELSE PriceUp(Landing(b), liquidity, OutAt(b))
  PROVE  /\ ~ Ahead(sqrtPrice, back)
         /\ Out(~ Up, Landing(b), back, liquidity) \in Nat
         /\ Out(~ Up, Landing(b), back, liquidity) <= OwedAt(b)
<1> DEFINE p == sqrtPrice
           l == liquidity
           e == Landing(b)
           o == OutAt(b)
<1>1. p \in Nat \ {0} /\ l \in Nat \ {0}
  BY Widths DEF IInv, TypeOK, WalkOK, Moves, Priced, Walking
<1>2. e \in Nat \ {0} /\ o \in Nat /\ ~ Ahead(p, e) /\ e # p
  BY LandingFacts, Widths DEF Moves
<1>3. CASE Up
  <2>1. p < e
    BY <1>1, <1>2, <1>3 DEF Ahead
  <2>2. /\ o = DivDown(DivDown(l * Scale * (e - p), e), p)
        /\ OwedAt(b) = DivUp(l * (e - p), Scale)
        /\ Out(~ Up, e, back, l) = DivDown(l * (e - back), Scale)
    <3>1. o = DeltaA(p, e, l, FALSE)
      BY <1>3 DEF OutAt, Out
    <3>2. OwedAt(b) = DeltaB(p, e, l, TRUE)
      BY <1>3 DEF OwedAt, Owed
    <3>3. Out(~ Up, e, back, l) = DeltaB(back, e, l, FALSE)
      BY <1>3 DEF Out
    <3>4. DeltaA(p, e, l, FALSE) = DivDown(DivDown(l * Scale * (e - p), e), p)
      BY <1>2 DEF DeltaA, Div
    <3>5. /\ DeltaB(p, e, l, TRUE) = DivUp(l * (e - p), Scale)
          /\ DeltaB(back, e, l, FALSE) = DivDown(l * (e - back), Scale)
      BY DEF DeltaB, Div
    <3>6. QED
      BY <3>1, <3>2, <3>3, <3>4, <3>5
  <2>3. back = PriceDown(e, l, o)
    BY <1>3
  <2> HIDE DEF o, e
  <2>4. p <= back /\ DivDown(l * (e - back), Scale) <= DivUp(l * (e - p), Scale)
    BY <1>1, <1>2, <2>1, <2>2, <2>3, UpBack
  <2>5. DivDown(l * (e - back), Scale) \in Nat
    <3>1. back <= e
      BY <1>1, <1>2, <2>3, PriceDownBounds
    <3>2. e - back \in Nat
      BY <1>2, <3>1
    <3>3. l * (e - back) \in Nat
      BY <1>1, <3>2, ProductNat
    <3>4. QED
      BY <3>3, ScaleNat, DivDownBounds
  <2>6. QED
    BY <1>1, <1>3, <2>2, <2>4, <2>5 DEF Ahead, e
<1>4. CASE ~ Up
  <2>1. e < p
    BY <1>1, <1>2, <1>4 DEF Ahead
  <2>2. /\ o = DivDown(l * (p - e), Scale)
        /\ OwedAt(b) = DivUp(DivUp(l * Scale * (p - e), p), e)
        /\ Out(~ Up, e, back, l) =
             IF e = back THEN 0 ELSE DivDown(DivDown(l * Scale * (back - e), back), e)
    <3>1. o = DeltaB(e, p, l, FALSE)
      BY <1>4 DEF OutAt, Out
    <3>2. OwedAt(b) = DeltaA(e, p, l, TRUE)
      BY <1>4 DEF OwedAt, Owed
    <3>3. Out(~ Up, e, back, l) = DeltaA(e, back, l, FALSE)
      BY <1>4 DEF Out
    <3>4. DeltaB(e, p, l, FALSE) = DivDown(l * (p - e), Scale)
      BY DEF DeltaB, Div
    <3>5. /\ DeltaA(e, p, l, TRUE) = DivUp(DivUp(l * Scale * (p - e), p), e)
          /\ DeltaA(e, back, l, FALSE) =
               IF e = back THEN 0 ELSE DivDown(DivDown(l * Scale * (back - e), back), e)
      BY <1>2 DEF DeltaA, Div
    <3>6. QED
      BY <3>1, <3>2, <3>3, <3>4, <3>5
  <2>3. back = PriceUp(e, l, o)
    BY <1>4
  <2>4. OwedAt(b) \in Nat
    BY LandingFacts DEF Moves
  <2> HIDE DEF o, e
  <2>5. /\ back <= p
        /\ DivDown(DivDown(l * Scale * (back - e), back), e)
             <= DivUp(DivUp(l * Scale * (p - e), p), e)
    BY <1>1, <1>2, <2>1, <2>2, <2>3, DownBack
  <2>6. DivDown(DivDown(l * Scale * (back - e), back), e) \in Nat
    <3>1. e <= back
      <4>1. e \in Nat /\ o \in Nat
        BY <1>2
      <4>2. e <= PriceUp(e, l, o)
        BY <1>1, <4>1, PriceUpBounds
      <4>3. QED
        BY <2>3, <4>2
    <3>2. back - e \in Nat /\ back \in Nat \ {0}
      BY <1>2, <3>1
    <3>3. l * Scale * (back - e) \in Nat
      BY <1>1, <3>2, ScaleNat, ProductNat
    <3>4. DivDown(l * Scale * (back - e), back) \in Nat
      BY <3>2, <3>3, DivDownBounds
    <3>5. QED
      BY <1>2, <3>4, DivDownBounds
  <2>7. QED
    BY <1>1, <1>4, <2>2, <2>4, <2>5, <2>6 DEF Ahead, e
<1>5. QED
  BY <1>3, <1>4

\* What the record of a step shows of it.
LEMMA StepInv ==
  ASSUME IInv, NEW b \in Answers, Step(b)
  PROVE  /\ sqrtPrice' \in Amounts \ {0} /\ PriceWithinLimit'
         /\ ~ Reached(b) => remaining' = 0
         /\ remaining' \in Amounts /\ remaining' <= remaining
         /\ amountOut' \in Amounts
         /\ steps' \in Seq(StepType) /\ Len(steps') = Len(steps) + 1
         /\ PaysForMove' /\ NoFreeRoundTrip'
<1>1. /\ sqrtPrice \in Amounts /\ liquidity \in Amounts /\ remaining \in Amounts /\ amountOut \in Amounts
      /\ steps \in Seq(StepType)
  BY DEF IInv, TypeOK, StepType
<1>2. Priced(b) /\ Fitting(b)
  BY DEF Step, Moves
<1>3. /\ Landing(b) \in Amounts \ {0}
      /\ ~ Ahead(Landing(b), call.limit)
      /\ OwedAt(b) \in Nat /\ OutAt(b) \in Nat
      /\ OwedAt(b) <= remaining
  BY <1>2, LandingFacts
<1>4. OutAt(b) \in Amounts /\ amountOut + OutAt(b) \in Amounts
  BY <1>1, <1>2, <1>3, Widths DEF Fitting
<1>5. Consumed(b) \in Nat /\ OwedAt(b) <= Consumed(b) /\ Consumed(b) <= remaining
      /\ (~ Reached(b) => Consumed(b) = remaining)
  BY <1>1, <1>3, Widths DEF Consumed
<1>6. Consumed(b) \in Amounts /\ remaining - Consumed(b) \in Amounts
  BY <1>1, <1>5, SmallerAmount
<1>7. remaining' \in Amounts /\ remaining' <= remaining /\ (~ Reached(b) => remaining' = 0)
  BY <1>1, <1>5, <1>6, Widths DEF Step
<1>8. PriceWithinLimit'
  BY <1>3 DEF Step, PriceWithinLimit, Ahead, Up
<1> DEFINE s == [amountIn |-> Consumed(b), amountOut |-> OutAt(b),
                 start |-> sqrtPrice, end |-> Landing(b),
                 liquidity |-> liquidity, crossed |-> Reached(b)]
<1>9. s \in StepType
  BY <1>1, <1>3, <1>4, <1>6 DEF StepType, Reached, Ahead
<1>10. steps' = Append(steps, s)
  BY DEF Step
<1> HIDE DEF s
<1>11. steps' \in Seq(StepType) /\ Len(steps') = Len(steps) + 1 /\ LastStep' = s
  BY <1>1, <1>9, <1>10 DEF LastStep
<1>12. PaysForMove'
  BY <1>5, <1>11 DEF PaysForMove, Step, OwedAt, Up, s
<1>13. NoFreeRoundTrip'
  <2> DEFINE back == IF Up THEN PriceDown(Landing(b), liquidity, OutAt(b))
                           ELSE PriceUp(Landing(b), liquidity, OutAt(b))
  <2>1. Landing(b) \in Nat \ {0} /\ liquidity \in Nat \ {0} /\ Moves(b)
    BY <1>1, <1>2, <1>3, Widths DEF Priced, Step
  <2>2. back \in Nat
    BY <1>3, <2>1, PriceUpBounds, PriceDownBounds
  <2>3. /\ ~ Ahead(sqrtPrice, back)
        /\ Out(~ Up, Landing(b), back, liquidity) \in Nat
        /\ Out(~ Up, Landing(b), back, liquidity) <= OwedAt(b)
    BY <2>1, <2>2, RoundTrip
  <2>4. Up' = Up
    BY DEF Step, Up
  <2>5. QED
    BY <1>3, <1>5, <1>11, <2>3, <2>4 DEF NoFreeRoundTrip, Ahead, s
<1>14. QED
  BY <1>3, <1>4, <1>7, <1>8, <1>11, <1>12, <1>13 DEF Step

\* The parts of the invariant that a step leaves the same to establish however the turn ends.
LEMMA TurnInv ==
  ASSUME IInv, NEW b \in Answers, Step(b), status' \in {"running", "stopped"},
         liquidity' \in Amounts, tick' \in Tick, crossings' \in Nat
  PROVE  TypeOK' /\ CallOK' /\ SourceOK' /\ WalkOK' /\ FeeOK'
         /\ PaysForMove' /\ NoFreeRoundTrip' /\ FeeProportional'
<1>1. /\ sqrtPrice' \in Amounts \ {0} /\ PriceWithinLimit'
      /\ remaining' \in Amounts /\ remaining' <= remaining
      /\ amountOut' \in Amounts
      /\ steps' \in Seq(StepType)
      /\ PaysForMove' /\ NoFreeRoundTrip'
  BY StepInv
<1>2. UNCHANGED <<source, book, call, net, fee>> /\ status = "running"
  BY DEF Step, Moves, Priced, Walking
<1>3. TypeOK'
  BY <1>1, <1>2 DEF IInv, TypeOK, StepType
<1>4. CallOK' /\ SourceOK'
  BY <1>2 DEF IInv, CallOK, SourceOK
<1>5. net \in Nat /\ remaining \in Nat /\ remaining' \in Nat
  BY <1>1, Widths DEF IInv, TypeOK
<1>6. WalkOK'
  BY <1>1, <1>2, <1>5 DEF IInv, WalkOK
<1>7. FeeOK' /\ FeeProportional'
  BY <1>2 DEF IInv, FeeOK, FeeProportional
<1>8. QED
  BY <1>1, <1>3, <1>4, <1>6, <1>7

\* A step that stops short of a boundary keeps the invariant.
LEMMA StepAndStopInv ==
  ASSUME IInv, NEW b \in Answers, StepAndStop(b)
  PROVE  IInv'
<1>1. /\ Step(b) /\ ~ Crosses(b) /\ status' = "stopped"
      /\ UNCHANGED <<liquidity, tick, crossings>>
  BY DEF StepAndStop
<1>2. TypeOK' /\ CallOK' /\ SourceOK' /\ WalkOK' /\ FeeOK'
         /\ PaysForMove' /\ NoFreeRoundTrip' /\ FeeProportional'
  <2>1. liquidity' \in Amounts /\ tick' \in Tick /\ crossings' \in Nat
    BY <1>1 DEF IInv, TypeOK
  <2>2. QED
    BY <1>1, <2>1, TurnInv
<1>3. CountOK'
  <2>1. Len(steps') = Len(steps) + 1 /\ Len(steps) = crossings
    BY <1>1, StepInv DEF IInv, CountOK, Step, Moves, Priced, Walking
  <2>2. QED
    BY <1>1, <2>1, InputAssumption DEF IInv, TypeOK, CountOK
<1>4. SpentOK'
  <2>1. CASE ~ Reached(b)
    BY <1>1, <2>1, StepInv DEF SpentOK
  <2>2. CASE Reached(b)
    <3>1. Target(b) = call.limit
      BY <1>1, <2>2 DEF Crosses, Target, Landing
    <3>2. QED
      BY <1>1, <2>2, <3>1 DEF SpentOK, Step, Landing
  <2>3. QED
    BY <2>1, <2>2
<1>5. QED
  BY <1>2, <1>3, <1>4 DEF IInv

\* A step that crosses a boundary keeps the invariant.
LEMMA StepAndCrossInv ==
  ASSUME IInv, NEW b \in Answers, StepAndCross(b)
  PROVE  IInv'
<1>1. /\ Step(b) /\ Crosses(b) /\ RoomToCross /\ NetFits(b)
      /\ crossings' = crossings + 1 /\ liquidity' = liquidity + SignedNet(b)
      /\ tick' = b.tick /\ status' = "running"
  BY DEF StepAndCross
<1>2. tick' \in Tick
  <2>1. Usable(b) # NoBoundary /\ b \in Boundary \union {NoBoundary}
    BY <1>1, AnswerType DEF Crosses, IInv, TypeOK
  <2>2. QED
    BY <1>1, <2>1 DEF Usable, Boundary
<1>3. crossings \in Nat /\ crossings' \in Nat /\ liquidity' \in Amounts
  BY <1>1 DEF IInv, TypeOK, NetFits, Amounts
<1>4. TypeOK' /\ CallOK' /\ SourceOK' /\ WalkOK' /\ FeeOK'
         /\ PaysForMove' /\ NoFreeRoundTrip' /\ FeeProportional'
  BY <1>1, <1>2, <1>3, TurnInv
<1>5. CountOK'
  <2>1. Len(steps') = Len(steps) + 1 /\ Len(steps) = crossings
    BY <1>1, StepInv DEF IInv, CountOK, Step, Moves, Priced, Walking
  <2>2. QED
    BY <1>1, <1>3, <2>1, InputAssumption DEF RoomToCross, CountOK
<1>6. SpentOK'
  BY <1>1 DEF SpentOK
<1>7. QED
  BY <1>4, <1>5, <1>6 DEF IInv

\* The refund rounds down, so what is kept is at least the share consumed.
LEMMA FeeShare ==
  ASSUME NEW f \in Nat, NEW n \in Nat, NEW r \in Nat, r <= n, n # 0,
         NEW q, q = DivDown(f * r, n)
  PROVE  /\ q \in 0 .. f
         /\ (f - q) * n >= f * (n - r)
         /\ (f - q - 1) * n < f * (n - r)
<1>1. q \in 0 .. f
  BY ShareBounds DEF DivDown
<1>2. f * r \in Nat
  BY ProductNat
<1>3. q * n <= f * r /\ f * r < (q + 1) * n
  BY <1>2, DivDownBounds
<1>4. /\ (f - q) * n = f * n - q * n
      /\ (f - q - 1) * n = f * n - (q + 1) * n
      /\ f * (n - r) = f * n - f * r
  BY <1>1
<1>5. q * n \in Int /\ (q + 1) * n \in Int /\ f * n \in Int
  BY <1>1
<1>6. QED
  BY <1>1, <1>2, <1>3, <1>4, <1>5

\* Refunding the fee of the input left keeps the invariant.
LEMMA FinishInv == IInv /\ Finish => IInv'
<1> SUFFICES ASSUME IInv, Finish PROVE IInv'
  OBVIOUS
<1> USE DEF walk, pool
<1>1. status = "stopped" /\ fee' = fee - Refund /\ status' = "done"
      /\ UNCHANGED <<source, book, call, net, walk>>
  BY DEF Finish
<1>2. fee \in Amounts /\ fee \in Nat /\ net \in Nat /\ remaining \in Nat /\ remaining <= net
  BY <1>1, Widths DEF IInv, TypeOK, WalkOK
<1>3. fee = FeeOf(call.amountIn, call.pool.feeRate)
  BY <1>1 DEF IInv, FeeOK
<1>4. fee' \in Amounts /\ FeeProportional'
  <2>1. CASE net = 0
    BY <1>1, <1>2, <1>3, <2>1 DEF Refund, FeeProportional
  <2>2. CASE net # 0
    <3> DEFINE q == Refund
    <3>1. q = DivDown(fee * remaining, net)
      BY <2>2 DEF Refund
    <3> HIDE DEF q
    <3>2. /\ q \in 0 .. fee
          /\ (fee - q) * net >= fee * (net - remaining)
          /\ (fee - q - 1) * net < fee * (net - remaining)
      BY <1>2, <2>2, <3>1, FeeShare
    <3>3. fee' = fee - q
      BY <1>1 DEF q
    <3>4. fee' \in Amounts
      BY <1>2, <3>2, <3>3, SmallerAmount
    <3>5. FeeProportional'
      BY <1>1, <1>2, <1>3, <3>2, <3>3 DEF FeeProportional
    <3>6. QED
      BY <3>4, <3>5
  <2>3. QED
    BY <2>1, <2>2
<1>5. TypeOK' /\ CallOK' /\ SourceOK'
  BY <1>1, <1>4 DEF IInv, TypeOK, CallOK, SourceOK
<1>6. WalkOK' /\ FeeOK' /\ SpentOK'
  BY <1>1 DEF IInv, WalkOK, FeeOK, SpentOK, PriceWithinLimit, Ahead, Up
<1>7. CountOK'
  BY <1>1 DEF IInv, CountOK
<1>8. PaysForMove' /\ NoFreeRoundTrip'
  BY <1>1 DEF IInv, PaysForMove, NoFreeRoundTrip, LastStep, Ahead, Up
<1>9. QED
  BY <1>4, <1>5, <1>6, <1>7, <1>8 DEF IInv

\* Every step keeps the invariant.
LEMMA NextInv == IInv /\ [Next]_vars => IInv'
<1> SUFFICES ASSUME IInv, [Next]_vars PROVE IInv'
  OBVIOUS
<1>1. CASE Reject
  <2>1. PICK e \in AmmError : Error(e)
    BY <1>1 DEF Reject, RejectPrice, RejectLiquidity, RejectLimit, RejectFeeRate, AmmError
  <2>2. QED
    BY <2>1, StillInv DEF Error
<1>2. CASE Start
  BY <1>2, StartInv
<1>3. CASE Stop
  BY <1>3, StillInv DEF Stop, SpentOK, walk, pool
<1>4. ASSUME NEW b \in Answers, Turn(b)
      PROVE  IInv'
  <2>1. CASE MeetGap \/ OverflowReach \/ Stall(b) \/ OverflowStep(b) \/ CrossTooMany(b) \/ OverflowCrossing(b)
    <3>1. PICK e \in AmmError : Error(e)
      BY <2>1 DEF MeetGap, OverflowReach, Stall, OverflowStep, CrossTooMany, OverflowCrossing, AmmError
    <3>2. QED
      BY <3>1, StillInv DEF Error
  <2>2. CASE StepAndStop(b)
    BY <2>2, StepAndStopInv
  <2>3. CASE StepAndCross(b)
    BY <2>3, StepAndCrossInv
  <2>4. QED
    BY <1>4, <2>1, <2>2, <2>3 DEF Turn
<1>5. CASE Finish
  BY <1>5, FinishInv
<1>6. CASE UNCHANGED vars
  BY <1>6 DEF vars, walk, pool, IInv, TypeOK, CallOK, SourceOK, WalkOK, FeeOK, SpentOK, CountOK,
              PriceWithinLimit, PaysForMove, NoFreeRoundTrip, FeeProportional, LastStep, Ahead, Up
<1>7. QED
  BY <1>1, <1>2, <1>3, <1>4, <1>5, <1>6 DEF Next

-----------------------------------------------------------------------------
(* The theorems.                                                           *)

\* The facts above hold of every reachable state of swap_exact_in.
THEOREM WalkInvariant == Spec => []IInv
<1>1. QED
  BY InitInv, NextInv, PTL DEF Spec

\* No value of the walk leaves its machine type, whatever the source answers:
\* the checks the code makes are enough (swap.rs:340-396, checked.rs).
THEOREM TypeCorrect == Spec => []TypeOK
<1>1. IInv => TypeOK
  BY DEF IInv
<1>2. QED
  BY <1>1, WalkInvariant, PTL

\* Each step's input covers its move, for all prices, liquidities and roundings.
THEOREM MovesPaidFor == Spec => []PaysForMove
<1>1. IInv => PaysForMove
  BY DEF IInv
<1>2. QED
  BY <1>1, WalkInvariant, PTL

\* No step can be undone at a profit: rounding always favours the pool.
THEOREM RoundTripsCost == Spec => []NoFreeRoundTrip
<1>1. IInv => NoFreeRoundTrip
  BY DEF IInv
<1>2. QED
  BY <1>1, WalkInvariant, PTL

\* The fee of a swap cut short is the consumed share of the whole fee, rounded up.
THEOREM FeeOfConsumedShare == Spec => []FeeProportional
<1>1. IInv => FeeProportional
  BY DEF IInv
<1>2. QED
  BY <1>1, WalkInvariant, PTL

\* The price limit holds against any source.
THEOREM LimitHolds == Spec => []PriceWithinLimit
<1>1. IInv => PriceWithinLimit
  BY DEF IInv, WalkOK, PriceWithinLimit
<1>2. QED
  BY <1>1, WalkInvariant, PTL

\* A swap takes at most max_crossings + 1 steps against any source.
THEOREM WalkIsBounded == Spec => []BoundedWalk
<1>1. IInv => BoundedWalk
  <2> SUFFICES ASSUME IInv PROVE BoundedWalk
    OBVIOUS
  <2>1. /\ Len(steps) \in Nat /\ crossings \in Nat /\ MaxCrossings \in Nat
        /\ Len(steps) <= crossings + 1 /\ crossings <= MaxCrossings
    BY InputAssumption DEF IInv, TypeOK, CountOK
  <2>2. QED
    BY <2>1 DEF BoundedWalk
<1>2. QED
  BY <1>1, WalkInvariant, PTL

\* A swap that returns has spent its input or reached its limit.
THEOREM InputIsSpent == Spec => []InputSpent
<1>1. IInv => InputSpent
  BY DEF IInv, SpentOK, InputSpent
<1>2. QED
  BY <1>1, WalkInvariant, PTL

\* Every change of the price is a step in the swap's direction, against any source.
THEOREM PriceMovesForward == Spec => PriceForward
<1>1. IInv /\ [Next]_vars => [Ahead(sqrtPrice', sqrtPrice)]_sqrtPrice
  <2> SUFFICES ASSUME IInv, Next, sqrtPrice' # sqrtPrice
               PROVE  Ahead(sqrtPrice', sqrtPrice)
    BY DEF vars, walk, pool
  <2>1. PICK b \in Answers : Step(b)
    BY DEF Next, Reject, RejectPrice, RejectLiquidity, RejectLimit, RejectFeeRate, Start, Stop, Turn,
           MeetGap, OverflowReach, Stall, OverflowStep, StepAndStop, StepAndCross, CrossTooMany,
           OverflowCrossing, Finish, Error, walk, pool
  <2>2. sqrtPrice' = Landing(b) /\ Priced(b)
    BY <2>1 DEF Step, Moves
  <2>3. ~ Ahead(sqrtPrice, Landing(b)) /\ Landing(b) \in Nat /\ sqrtPrice \in Nat
    BY <2>2, LandingFacts, Widths DEF IInv, TypeOK
  <2>4. QED
    BY <2>2, <2>3 DEF Ahead
<1>2. QED
  BY <1>1, WalkInvariant, PTL DEF Spec, PriceForward

-----------------------------------------------------------------------------
(* The liquidity of a range is a sum, and a tick more in it adds its net.  *)

\* Of the sets in a non-empty family of finite ones, one has no subset in the family.
LEMMA SmallestSet ==
  ASSUME NEW D, IsFiniteSet(D), NEW F \in SUBSET SUBSET D, F # {}
  PROVE  \E m \in F : \A s \in F : s \subseteq m => s = m
<1>1. F \subseteq FiniteSubsetsOf(D)
  BY FS_Subset DEF FiniteSubsetsOf
<1>2. PICK m \in F : \A s \in F : ~ (<<s, m>> \in StrictSubsetOrdering(D))
  BY <1>1, FS_StrictSubsetOrderingWellFounded, WFMin
<1> QED BY <1>2 DEF StrictSubsetOrdering

\* Sums over the subsets of D.
Pick(s) == CHOOSE x \in s : TRUE
SumsOver(b, D, f) ==
  f = [s \in SUBSET D |-> IF s = {} THEN 0 ELSE b[Pick(s)] + f[s \ {Pick(s)}]]

\* An element is picked.
LEMMA Picked == \A s : s # {} => Pick(s) \in s
BY DEF Pick

\* There is one sum of a set at most.
LEMMA SumsAgree ==
  ASSUME NEW b, NEW D, NEW E, IsFiniteSet(D), NEW f, NEW g, SumsOver(b, D, f), SumsOver(b, E, g)
  PROVE  \A s \in (SUBSET D) \intersect (SUBSET E) : f[s] = g[s]
<1> DEFINE Differ == {s \in SUBSET D : s \subseteq E /\ f[s] # g[s]}
<1> SUFFICES ASSUME Differ # {} PROVE FALSE
  OBVIOUS
<1>1. PICK m \in Differ : \A s \in Differ : s \subseteq m => s = m
  <2> HIDE DEF Differ
  <2>1. Differ \in SUBSET SUBSET D
    BY DEF Differ
  <2> QED BY <2>1, SmallestSet
<1>2. m # {}
  BY <1>1 DEF SumsOver
<1>3. /\ f[m] = b[Pick(m)] + f[m \ {Pick(m)}]
      /\ g[m] = b[Pick(m)] + g[m \ {Pick(m)}]
  BY <1>1, <1>2 DEF SumsOver
<1>4. f[m \ {Pick(m)}] = g[m \ {Pick(m)}]
  BY <1>1, <1>2, Picked
<1> QED BY <1>1, <1>3, <1>4

\* A finite set has one.
LEMMA SumsExist ==
  ASSUME NEW b, NEW D, IsFiniteSet(D)
  PROVE  \E f : SumsOver(b, D, f)
<1> DEFINE None == {S \in SUBSET D : \A f : ~ SumsOver(b, S, f)}
<1> SUFFICES ASSUME None # {} PROVE FALSE
  OBVIOUS
<1>1. PICK S \in None : \A s \in None : s \subseteq S => s = S
  <2> HIDE DEF None
  <2>1. None \in SUBSET SUBSET D
    BY DEF None
  <2> QED BY <2>1, SmallestSet
<1> DEFINE g[s \in SUBSET S] == CHOOSE f : SumsOver(b, s, f)
           below(s) == g[s][s]
           f == [s \in SUBSET S |-> IF s = {} THEN 0 ELSE b[Pick(s)] + below(s \ {Pick(s)})]
<1>2. ASSUME NEW s \in SUBSET S, s # S PROVE SumsOver(b, s, g[s])
  <2>1. \E h : SumsOver(b, s, h)
    BY <1>1, <1>2
  <2> QED BY <2>1
<1>3. ASSUME NEW s \in SUBSET S, s # S PROVE f[s] = below(s)
  <2>1. below(s) = IF s = {} THEN 0 ELSE b[Pick(s)] + g[s][s \ {Pick(s)}]
    <3> HIDE DEF g
    <3> QED BY <1>2, <1>3 DEF SumsOver
  <2>2. ASSUME s # {} PROVE g[s][s \ {Pick(s)}] = below(s \ {Pick(s)})
    <3> DEFINE r == s \ {Pick(s)}
    <3>1. r \in SUBSET S /\ r # S /\ r \subseteq s /\ IsFiniteSet(s)
      BY <1>1, <1>3, <2>2, Picked, FS_Subset
    <3>2. SumsOver(b, s, g[s]) /\ SumsOver(b, r, g[r])
      BY <1>2, <1>3, <3>1
    <3> HIDE DEF r, g
    <3>3. g[s][r] = g[r][r]
      <4>1. r \in (SUBSET s) \intersect (SUBSET r)
        BY <3>1
      <4>2. \A q \in (SUBSET s) \intersect (SUBSET r) : g[s][q] = g[r][q]
        <5> DEFINE fs == g[s]
                   fr == g[r]
        <5>1. SumsOver(b, s, fs) /\ SumsOver(b, r, fr)
          BY <3>2
        <5> HIDE DEF fs, fr
        <5>2. \A q \in (SUBSET s) \intersect (SUBSET r) : fs[q] = fr[q]
          BY <3>1, <5>1, SumsAgree
        <5> QED BY <5>2 DEF fs, fr
      <4> QED BY <4>1, <4>2
    <3> QED BY <3>3 DEF r
  <2> HIDE DEF below
  <2> QED BY <1>3, <2>1, <2>2
<1>4. ASSUME NEW s \in SUBSET S, s # {}
      PROVE  f[s \ {Pick(s)}] = below(s \ {Pick(s)})
  <2>1. s \ {Pick(s)} \in SUBSET S /\ s \ {Pick(s)} # S
    BY <1>4, Picked
  <2> HIDE DEF f, below
  <2> QED BY <1>3, <2>1
<1>5. SumsOver(b, S, f)
  <2> DEFINE h == [s \in SUBSET S |-> IF s = {} THEN 0 ELSE b[Pick(s)] + f[s \ {Pick(s)}]]
  <2>1. \A s \in SUBSET S : f[s] = h[s]
    <3> HIDE DEF below
    <3> QED BY <1>4
  <2>2. f = h
    <3> HIDE DEF below
    <3> QED BY <2>1
  <2> QED BY <2>2 DEF SumsOver
<1> QED BY <1>1, <1>5

\* A sum of integers is one.
LEMMA SumsInt ==
  ASSUME NEW b, NEW D, IsFiniteSet(D), \A x \in D : b[x] \in Int, NEW f, SumsOver(b, D, f)
  PROVE  \A s \in SUBSET D : f[s] \in Int
<1> DEFINE Others == {s \in SUBSET D : f[s] \notin Int}
<1> SUFFICES ASSUME Others # {} PROVE FALSE
  OBVIOUS
<1>1. PICK m \in Others : \A s \in Others : s \subseteq m => s = m
  <2> HIDE DEF Others
  <2>1. Others \in SUBSET SUBSET D
    BY DEF Others
  <2> QED BY <2>1, SmallestSet
<1>2. m # {}
  BY <1>1 DEF SumsOver
<1>3. f[m] = b[Pick(m)] + f[m \ {Pick(m)}]
  BY <1>1, <1>2 DEF SumsOver
<1>4. f[m \ {Pick(m)}] \in Int /\ b[Pick(m)] \in Int
  BY <1>1, <1>2, Picked
<1> QED BY <1>1, <1>3, <1>4

\* Whichever element is taken first, the sum is the same.
LEMMA SumsWithout ==
  ASSUME NEW b, NEW D, IsFiniteSet(D), \A x \in D : b[x] \in Int, NEW f, SumsOver(b, D, f)
  PROVE  \A s \in SUBSET D : \A t \in s : f[s] = b[t] + f[s \ {t}]
<1> DEFINE Others == {s \in SUBSET D : \E t \in s : f[s] # b[t] + f[s \ {t}]}
<1> SUFFICES ASSUME Others # {} PROVE FALSE
  OBVIOUS
<1>1. PICK m \in Others : \A s \in Others : s \subseteq m => s = m
  <2> HIDE DEF Others
  <2>1. Others \in SUBSET SUBSET D
    BY DEF Others
  <2> QED BY <2>1, SmallestSet
<1>2. PICK t \in m : f[m] # b[t] + f[m \ {t}]
  BY <1>1
<1> DEFINE x == Pick(m)
           without == m \ {x}
           less == m \ {t}
           both == m \ {x, t}
<1>3. x \in m /\ m \in SUBSET D
  BY <1>1, <1>2, Picked
<1>4. f[m] = b[x] + f[without]
  BY <1>2, <1>3 DEF SumsOver
<1>5. t # x
  BY <1>2, <1>4
<1> HIDE DEF x
<1>6. f[without] = b[t] + f[both]
  <2>1. without \in SUBSET D /\ without # m /\ without \subseteq m /\ t \in without
    BY <1>3, <1>5
  <2>2. without \notin Others
    BY <1>1, <2>1
  <2>3. both = without \ {t}
    OBVIOUS
  <2> HIDE DEF without, both
  <2> QED BY <2>1, <2>2, <2>3
<1>7. f[less] = b[x] + f[both]
  <2>1. less \in SUBSET D /\ less # m /\ less \subseteq m /\ x \in less
    BY <1>3, <1>5
  <2>2. less \notin Others
    BY <1>1, <2>1
  <2>3. both = less \ {x}
    OBVIOUS
  <2> HIDE DEF less, both
  <2> QED BY <2>1, <2>2, <2>3
<1>8. {f[both], b[x], b[t]} \subseteq Int
  <2>1. both \in SUBSET D
    BY <1>3
  <2>2. \A s \in SUBSET D : f[s] \in Int
    BY SumsInt
  <2> QED BY <1>3, <2>1, <2>2
<1> HIDE DEF without, less, both, Others
<1>9. f[m] = b[t] + f[less]
  BY <1>4, <1>6, <1>7, <1>8
<1> QED BY <1>2, <1>9 DEF less

\* The model's sum is that one.
LEMMA LiquidityIsSum ==
  ASSUME NEW b, NEW S, IsFiniteSet(S), NEW f, SumsOver(b, S, f)
  PROVE  LiquidityOf(b, S) = f[S]
<1> DEFINE g == CHOOSE h : SumsOver(b, S, h)
<1>1. LiquidityOf(b, S) = g[S]
  BY DEF LiquidityOf, MapThenSumSet, MapThenFoldSet, SumsOver, Pick
<1>2. SumsOver(b, S, g)
  OBVIOUS
<1> HIDE DEF g
<1> QED BY <1>1, <1>2, SumsAgree

\* A finite set of integers has a largest one.
LEMMA LargestInt ==
  \A T \in SUBSET Int : IsFiniteSet(T) /\ T # {} => Max(T) \in T /\ \A t \in T : t <= Max(T)
<1> DEFINE Open(T) == {U \in SUBSET T : U # {} /\ \A m \in U : \E k \in U : k > m}
<1>0. ASSUME NEW T, IsFiniteSet(T), Open(T) # {}
      PROVE  \E U \in Open(T) : \A V \in Open(T) : V \subseteq U => V = U
  <2>1. Open(T) \in SUBSET SUBSET T
    OBVIOUS
  <2> HIDE DEF Open
  <2> QED BY <1>0, <2>1, SmallestSet
<1> SUFFICES ASSUME NEW T \in SUBSET Int, IsFiniteSet(T), T # {}
             PROVE  Max(T) \in T /\ \A t \in T : t <= Max(T)
  OBVIOUS
<1>1. SUFFICES ASSUME Open(T) # {} PROVE FALSE
  <2>1. T \notin Open(T)
    BY <1>1
  <2>2. \E m \in T : \A k \in T : m >= k
    BY <2>1
  <2> QED BY <2>2 DEF Max
<1>2. PICK U \in Open(T) : \A V \in Open(T) : V \subseteq U => V = U
  <2> HIDE DEF Open
  <2> QED BY <1>0, <1>1
<1>3. PICK x \in U : TRUE
  BY <1>2
<1>4. PICK m \in U : m > x
  BY <1>2, <1>3
<1> DEFINE V == U \ {x}
<1>5. V # {} /\ V \subseteq U /\ V # U /\ V \in SUBSET T
  BY <1>2, <1>3, <1>4
<1>6. PICK y \in V : \A k \in V : ~ (k > y)
  BY <1>2, <1>5
<1>7. m \in V /\ x \in Int /\ y \in Int /\ \A k \in U : k \in Int
  BY <1>2, <1>3, <1>4, <1>6
<1>8. y >= m
  BY <1>6, <1>7
<1>9. \A k \in U : ~ (k > y)
  BY <1>4, <1>6, <1>7, <1>8
<1> QED BY <1>2, <1>6, <1>9

\* A tick index is finite, its nets are integers.
LEMMA BookFacts ==
  ASSUME NEW b \in Book
  PROVE  /\ IsFiniteSet(DOMAIN b) /\ DOMAIN b \subseteq Tick /\ Tick \subseteq Int
         /\ \A t \in DOMAIN b : b[t] \in Int
         /\ \A t \in Tick : PriceAt[t] \in Nat
<1>1. DOMAIN b \subseteq Tick /\ b \in [DOMAIN b -> Int128] /\ IsFiniteSet(Tick) /\ Tick \subseteq Int
  BY TickAssumption
<1>2. Int128 \subseteq Int
  BY Widths DEF Int128
<1>3. \A t \in Tick : PriceAt[t] \in Nat
  BY TickAssumption, InputAssumption, Widths
<1> QED BY <1>1, <1>2, <1>3, FS_Subset

\* A tick more in a range adds its net, and none leaves it without liquidity.
LEMMA LiquidityLaw ==
  ASSUME NEW b \in Book
  PROVE  /\ LiquidityOf(b, {}) = 0
         /\ \A S \in SUBSET DOMAIN b : LiquidityOf(b, S) \in Int
         /\ \A S \in SUBSET DOMAIN b : \A t \in S :
              LiquidityOf(b, S) = LiquidityOf(b, S \ {t}) + b[t]
<1>1. IsFiniteSet(DOMAIN b) /\ \A t \in DOMAIN b : b[t] \in Int
  BY BookFacts
<1>2. PICK f : SumsOver(b, DOMAIN b, f)
  BY <1>1, SumsExist
<1>3. \A S \in SUBSET DOMAIN b : f[S] \in Int
  BY <1>1, <1>2, SumsInt
<1>4. ASSUME NEW S \in SUBSET DOMAIN b PROVE LiquidityOf(b, S) = f[S]
  <2>1. IsFiniteSet(S)
    BY <1>1, FS_Subset
  <2>2. PICK g : SumsOver(b, S, g)
    BY <2>1, SumsExist
  <2>3. LiquidityOf(b, S) = g[S]
    BY <2>1, <2>2, LiquidityIsSum
  <2>4. S \in (SUBSET S) \intersect (SUBSET DOMAIN b)
    OBVIOUS
  <2>5. g[S] = f[S]
    BY <1>2, <2>1, <2>2, <2>4, SumsAgree
  <2> QED BY <2>3, <2>5
<1>5. f[{}] = 0
  BY <1>2 DEF SumsOver
<1>6. ASSUME NEW S \in SUBSET DOMAIN b, NEW t \in S
      PROVE  LiquidityOf(b, S) = LiquidityOf(b, S \ {t}) + b[t]
  <2>1. f[S] = b[t] + f[S \ {t}]
    BY <1>1, <1>2, SumsWithout
  <2>2. LiquidityOf(b, S) = f[S] /\ LiquidityOf(b, S \ {t}) = f[S \ {t}]
    BY <1>4
  <2>3. f[S \ {t}] \in Int /\ b[t] \in Int
    BY <1>1, <1>3
  <2> QED BY <2>1, <2>2, <2>3
<1> QED BY <1>3, <1>4, <1>5, <1>6

\* The floor of a price that has one, among prices that grow with the tick.
LEMMA FloorAmongFacts ==
  ASSUME NEW prices \in [Tick -> Nat], \A t, u \in Tick : t < u => prices[t] < prices[u],
         NEW p \in Nat, NEW t0 \in Tick, prices[t0] <= p
  PROVE  /\ FloorAmong(prices, p) \in Tick /\ prices[FloorAmong(prices, p)] <= p
         /\ \A t \in Tick : t <= FloorAmong(prices, p) <=> prices[t] <= p
<1> DEFINE below == {t \in Tick : prices[t] <= p}
           f == FloorAmong(prices, p)
<1>1. below # {} /\ below \subseteq Int /\ IsFiniteSet(below)
  BY TickAssumption, FS_Subset
<1>2. f = Max(below)
  BY <1>1 DEF FloorAmong
<1> HIDE DEF f
<1>3. f \in below /\ \A t \in below : t <= f
  <2> HIDE DEF below
  <2> QED BY <1>1, <1>2, LargestInt
<1>4. \A t \in Tick : t \in Int /\ prices[t] \in Nat
  BY TickAssumption
<1>5. ASSUME NEW t \in Tick, t <= f PROVE prices[t] <= p
  <2>1. CASE t = f
    BY <1>3, <2>1
  <2>2. CASE t # f
    <3>1. f \in Tick /\ f \in Int /\ t \in Int /\ prices[f] <= p
      BY <1>3, <1>4
    <3>2. t < f
      BY <1>5, <2>2, <3>1
    <3>3. prices[t] < prices[f]
      BY <3>1, <3>2
    <3> QED BY <1>4, <3>1, <3>3
  <2> QED BY <2>1, <2>2
<1> QED BY <1>3, <1>5 DEF f

\* The tick a pool keeps for a price, where some stored price is at or below it.
LEMMA StoredTickFacts ==
  ASSUME NEW p \in Nat, NEW t0 \in Tick, PriceAt[t0] <= p
  PROVE  /\ StoredTick(p) \in Tick /\ PriceAt[StoredTick(p)] <= p
         /\ \A t \in Tick : t <= StoredTick(p) <=> PriceAt[t] <= p
<1>1. PriceAt \in [Tick -> Nat] /\ \A t, u \in Tick : t < u => PriceAt[t] < PriceAt[u]
  BY TickAssumption, InputAssumption, Widths
<1> QED BY <1>1, FloorAmongFacts DEF StoredTick

\* The tick the code computes for a price, where some computed price is at or below it.
LEMMA FloorTickFacts ==
  ASSUME NEW p \in Nat, NEW t0 \in Tick, ComputedAt[t0] <= p
  PROVE  /\ FloorTick(p) \in Tick /\ ComputedAt[FloorTick(p)] <= p
         /\ \A t \in Tick : t <= FloorTick(p) <=> ComputedAt[t] <= p
<1>1. ComputedAt \in [Tick -> Nat] /\ \A t, u \in Tick : t < u => ComputedAt[t] < ComputedAt[u]
  BY ComputedAssumption
<1> QED BY <1>1, FloorAmongFacts DEF FloorTick

-----------------------------------------------------------------------------
(* The walk over the pool's own index.                                     *)
(*                                                                         *)
(* While it goes on, the ticks beyond the current one are those whose      *)
(* price lies ahead, so the nearest of them bounds the range the price is  *)
(* in; and the liquidity is the sum of the ticks behind the price.         *)

AheadOfPrice == {t \in DOMAIN book : Ahead(PriceAt[t], sqrtPrice)}
Behind == {t \in DOMAIN book : PriceAt[t] < sqrtPrice \/ (Up /\ PriceAt[t] = sqrtPrice)}

\* The walk is where the call put it.
AtStart ==
  /\ steps = <<>> /\ crossings = 0
  /\ sqrtPrice = call.pool.sqrtPrice /\ liquidity = call.pool.liquidity
  /\ tick = call.pool.tick

\* The index, the price and the liquidity agree, unless the start is on a tick.
IndexInv ==
  source = "index" =>
    /\ book \in Book /\ call.pool \in PoolsOf(book)
    /\ status = "called" => AtStart
    /\ ~ StartsOnTick =>
         /\ liquidity = LiquidityOf(book, Behind)
         /\ status = "running" => Beyond = AheadOfPrice
         /\ steps # <<>> => InOneRange(LastStep)

\* The prices of ticks grow with them, along the swap and against it.
LEMMA TickOrder ==
  ASSUME NEW t \in Tick, NEW u \in Tick
  PROVE  /\ t \in Int /\ u \in Int /\ PriceAt[t] \in Nat /\ PriceAt[u] \in Nat
         /\ t < u <=> PriceAt[t] < PriceAt[u]
         /\ Ahead(t, u) <=> Ahead(PriceAt[t], PriceAt[u])
<1>1. t \in Int /\ u \in Int /\ PriceAt[t] \in Nat /\ PriceAt[u] \in Nat
  BY TickAssumption, InputAssumption, Widths
<1>2. (t < u => PriceAt[t] < PriceAt[u]) /\ (u < t => PriceAt[u] < PriceAt[t])
  BY TickAssumption
<1>3. t < u \/ u < t \/ t = u
  BY <1>1
<1> HIDE DEF Tick
<1> QED BY <1>1, <1>2, <1>3 DEF Ahead

\* The nearest tick ahead, if there is one, is the boundary of the turn.
LEMMA NearestAhead ==
  ASSUME source = "index", book \in Book, Beyond = AheadOfPrice, NEW b \in Answers
  PROVE  \/ AheadOfPrice = {} /\ b = NoBoundary
         \/ /\ b.tick \in DOMAIN book /\ Ahead(PriceAt[b.tick], sqrtPrice) /\ b # NoBoundary
            /\ b.sqrtPrice = PriceAt[b.tick] /\ b.net = book[b.tick] /\ Usable(b) = b
            /\ \A t \in AheadOfPrice : t = b.tick \/ Ahead(PriceAt[t], PriceAt[b.tick])
<1>1. CASE AheadOfPrice = {}
  BY <1>1 DEF Answers
<1>2. CASE AheadOfPrice # {}
  <2>1. PICK u \in Beyond :
          /\ \A v \in Beyond \ {u} : Ahead(v, u)
          /\ b = [tick |-> u, sqrtPrice |-> PriceAt[u], net |-> book[u]]
    BY <1>2 DEF Answers, NextBoundary
  <2>2. b.tick = u /\ b.sqrtPrice = PriceAt[u] /\ b.net = book[u]
    BY <2>1
  <2>3. u \in DOMAIN book /\ Ahead(PriceAt[u], sqrtPrice) /\ DOMAIN book \subseteq Tick
    BY BookFacts DEF AheadOfPrice
  <2>4. b # NoBoundary
    <3>1. b \in Boundary
      BY <2>1, <2>3, TickAssumption, InputAssumption DEF Boundary
    <3> QED BY <3>1, InputAssumption
  <2>5. ASSUME NEW t \in AheadOfPrice PROVE t = u \/ Ahead(PriceAt[t], PriceAt[u])
    <3>1. t = u \/ Ahead(t, u)
      BY <2>1
    <3>2. t \in Tick /\ u \in Tick
      BY <2>3 DEF AheadOfPrice
    <3> QED BY <3>1, <3>2, TickOrder
  <2>6. Usable(b) = b
    BY <2>2, <2>3, <2>4 DEF Usable
  <2> QED BY <2>2, <2>3, <2>4, <2>5, <2>6
<1> QED BY <1>1, <1>2

\* No tick is passed, and the one that is reached is crossed.
LEMMA StepRange ==
  ASSUME IInv, source = "index", book \in Book, Beyond = AheadOfPrice, NEW b \in Answers,
         Moves(b)
  PROVE  /\ \A t \in AheadOfPrice : ~ Ahead(Landing(b), PriceAt[t])
         /\ Crosses(b) =>
              /\ b.tick \in AheadOfPrice /\ b.net = book[b.tick] /\ PriceAt[b.tick] = Landing(b)
         /\ ~ Crosses(b) => \A t \in AheadOfPrice : Ahead(PriceAt[t], Landing(b))
<1>1. /\ Landing(b) \in Nat /\ sqrtPrice \in Nat /\ call.limit \in Nat
      /\ ~ Ahead(Landing(b), call.limit)
  BY LandingFacts, Widths DEF Moves, IInv, TypeOK, CallOK
<1>2. ASSUME NEW t \in AheadOfPrice PROVE t \in Tick /\ PriceAt[t] \in Nat
  BY <1>2, BookFacts DEF AheadOfPrice
<1>3. CASE AheadOfPrice = {} /\ b = NoBoundary
  BY <1>3 DEF Crosses, Usable
<1>4. CASE /\ b.tick \in DOMAIN book /\ Ahead(PriceAt[b.tick], sqrtPrice) /\ b # NoBoundary
           /\ b.sqrtPrice = PriceAt[b.tick] /\ b.net = book[b.tick] /\ Usable(b) = b
           /\ \A t \in AheadOfPrice : t = b.tick \/ Ahead(PriceAt[t], PriceAt[b.tick])
  <2> DEFINE q == PriceAt[b.tick]
             e == Landing(b)
  <2>1. b.tick \in AheadOfPrice /\ q \in Nat
    BY <1>2, <1>4 DEF AheadOfPrice
  <2>2. Target(b) = IF Ahead(q, call.limit) THEN call.limit ELSE q
    BY <1>4 DEF Target
  <2>3. e = (IF Reached(b) THEN Target(b) ELSE Reach) /\ (~ Reached(b) => Ahead(Target(b), Reach))
    BY DEF Landing, Reached
  <2> HIDE DEF q, e
  <2>4. e \in Nat
    BY <1>1 DEF e
  <2>5. ~ Ahead(e, q) /\ (e = q => Reached(b))
    BY <1>1, <2>1, <2>2, <2>3, <2>4 DEF Ahead
  <2>6. Crosses(b) <=> e = q
    BY <1>4, <2>5 DEF Crosses, q, e
  <2>7. ASSUME NEW t \in AheadOfPrice
        PROVE  ~ Ahead(e, PriceAt[t]) /\ (e # q => Ahead(PriceAt[t], e))
    <3>1. PriceAt[t] \in Nat /\ (PriceAt[t] = q \/ Ahead(PriceAt[t], q))
      BY <1>2, <1>4 DEF q
    <3> QED BY <2>1, <2>4, <2>5, <3>1 DEF Ahead
  <2> QED BY <1>4, <2>1, <2>6, <2>7 DEF q, e
<1> QED BY <1>3, <1>4, NearestAhead

\* What the invariant says of the price and the index stays where neither moves.
LEMMA SameRange ==
  ASSUME UNCHANGED <<book, call, sqrtPrice, tick>>
  PROVE  /\ StartsOnTick' = StartsOnTick /\ Behind' = Behind /\ AheadOfPrice' = AheadOfPrice
         /\ Beyond' = Beyond
BY DEF StartsOnTick, Behind, AheadOfPrice, Beyond, Ahead, Up

\* Nothing but the status, the fee or the input left changes.
LEMMA StillIndex ==
  ASSUME IndexInv, UNCHANGED <<source, book, call, pool, steps, crossings>>,
         status' = "called" => status = "called", status' = "running" => status = "running"
  PROVE  IndexInv'
<1>1. /\ UNCHANGED <<book, call, sqrtPrice, tick>>
      /\ source' = source /\ liquidity' = liquidity /\ steps' = steps /\ crossings' = crossings
      /\ book' = book /\ call' = call /\ sqrtPrice' = sqrtPrice /\ tick' = tick
  BY DEF pool
<1>2. /\ StartsOnTick' = StartsOnTick /\ Behind' = Behind /\ AheadOfPrice' = AheadOfPrice
      /\ Beyond' = Beyond
  BY <1>1, SameRange
<1>3. AtStart' = AtStart
  BY <1>1 DEF AtStart
<1>4. InOneRange(LastStep)' = InOneRange(LastStep)
  BY <1>1 DEF InOneRange, LastStep
<1>5. PoolsOf(book)' = PoolsOf(book)
  BY <1>1 DEF PoolsOf
<1> QED BY <1>1, <1>2, <1>3, <1>4, <1>5 DEF IndexInv

\* A pool of the index, at the start.
LEMMA PoolFacts ==
  ASSUME book \in Book, call.pool \in PoolsOf(book), AtStart, ~ StartsOnTick, sqrtPrice \in Nat
  PROVE  /\ liquidity = LiquidityOf(book, Behind)
         /\ liquidity # 0 => Beyond = AheadOfPrice
<1> DEFINE p == sqrtPrice
           below == {t \in DOMAIN book : PriceAt[t] <= p}
<1>1. tick = StoredTick(p) /\ liquidity = LiquidityOf(book, below)
  <2>1. PICK q \in Price, r \in FeeRate :
          call.pool = [sqrtPrice |-> q, tick |-> StoredTick(q), feeRate |-> r,
                       liquidity |-> LiquidityOf(book, {t \in DOMAIN book : PriceAt[t] <= q})]
    BY DEF PoolsOf
  <2>2. /\ call.pool.sqrtPrice = q /\ call.pool.tick = StoredTick(q)
        /\ call.pool.liquidity = LiquidityOf(book, {t \in DOMAIN book : PriceAt[t] <= q})
    BY <2>1
  <2> QED BY <2>2 DEF AtStart
<1>2. \A t \in DOMAIN book : t \in Tick /\ t \in Int /\ PriceAt[t] \in Nat
  BY BookFacts
<1>3. ASSUME NEW t \in below
      PROVE  /\ tick \in Tick /\ tick \in Int
             /\ \A u \in DOMAIN book : u <= tick <=> PriceAt[u] <= p
  <2>1. t \in Tick /\ PriceAt[t] <= p
    BY <1>2, <1>3
  <2> QED BY <1>1, <1>2, <2>1, StoredTickFacts, BookFacts
<1>4. ~ Up => \A t \in below : PriceAt[t] < p
  <2> SUFFICES ASSUME ~ Up, NEW t \in below PROVE PriceAt[t] < p
    OBVIOUS
  <2>1. tick \notin DOMAIN book
    BY DEF StartsOnTick, AtStart
  <2>2. t <= tick /\ tick \in Tick /\ tick \in Int /\ PriceAt[tick] <= p /\ t \in DOMAIN book
    <3>1. t \in Tick /\ PriceAt[t] <= p /\ t \in DOMAIN book
      BY <1>2
    <3>2. PriceAt[tick] <= p
      BY <1>1, <3>1, StoredTickFacts
    <3> QED BY <1>3, <3>1, <3>2
  <2>3. t < tick /\ t \in Tick
    BY <1>2, <2>1, <2>2
  <2>4. PriceAt[t] < PriceAt[tick] /\ PriceAt[t] \in Nat /\ PriceAt[tick] \in Nat
    BY <2>2, <2>3, TickOrder
  <2> QED BY <2>2, <2>4
<1>5. Behind = below
  <2>1. ASSUME NEW t \in DOMAIN book
        PROVE  (PriceAt[t] < p \/ (Up /\ PriceAt[t] = p)) <=> PriceAt[t] <= p
    <3>1. PriceAt[t] \in Nat /\ (~ Up /\ PriceAt[t] <= p => PriceAt[t] < p)
      BY <1>2, <1>4
    <3> QED BY <3>1
  <2> QED BY <2>1 DEF Behind
<1>6. ASSUME liquidity # 0 PROVE Beyond = AheadOfPrice
  <2>1. below # {}
    BY <1>1, <1>6, LiquidityLaw
  <2>2. PICK s \in below : TRUE
    BY <2>1
  <2>3. tick \in Int /\ \A u \in DOMAIN book : u <= tick <=> PriceAt[u] <= p
    BY <1>3, <2>2
  <2>4. ASSUME NEW t \in DOMAIN book PROVE Ahead(t, tick) <=> Ahead(PriceAt[t], p)
    <3>1. t \in Int /\ PriceAt[t] \in Nat /\ (t <= tick <=> PriceAt[t] <= p)
      BY <1>2, <2>3
    <3>2. CASE Up
      BY <2>3, <3>1, <3>2 DEF Ahead
    <3>3. CASE ~ Up
      <4>1. t # tick
        BY <3>3 DEF StartsOnTick, AtStart
      <4>2. PriceAt[t] <= p => PriceAt[t] < p
        BY <1>4, <3>3
      <4> QED BY <2>3, <3>1, <3>3, <4>1, <4>2 DEF Ahead
    <3> QED BY <3>2, <3>3
  <2> QED BY <2>4 DEF Beyond, AheadOfPrice
<1> QED BY <1>1, <1>5, <1>6

\* The walk has the pool's range when the call is made.
LEMMA InitIndex == Init => IndexInv
<1> SUFFICES ASSUME Init, source = "index" PROVE IndexInv
  BY DEF IndexInv
<1>1. book \in Book /\ Called(PoolsOf(book))
  BY DEF Init
<1>2. call.pool \in PoolsOf(book) /\ AtStart /\ status = "called" /\ steps = <<>>
  BY <1>1 DEF Called, NothingStepped, AtStart
<1>3. sqrtPrice \in Nat
  <2>1. IInv
    BY InitInv
  <2> QED BY <2>1, Widths DEF IInv, TypeOK
<1>4. ~ StartsOnTick => liquidity = LiquidityOf(book, Behind)
  BY <1>1, <1>2, <1>3, PoolFacts
<1> QED BY <1>1, <1>2, <1>4 DEF IndexInv

\* So has it once the fee is taken.
LEMMA StartIndex == IInv /\ IndexInv /\ Start => IndexInv'
<1> SUFFICES ASSUME IInv, IndexInv, Start, source = "index" PROVE IndexInv'
  BY DEF Start, IndexInv
<1>1. book \in Book /\ call.pool \in PoolsOf(book) /\ AtStart /\ steps = <<>>
  BY DEF IndexInv, Start, AtStart
<1>2. /\ UNCHANGED <<book, call, sqrtPrice, tick>>
      /\ source' = source /\ liquidity' = liquidity /\ steps' = steps
      /\ book' = book /\ call' = call /\ status' = "running"
  BY DEF Start, pool
<1>3. /\ StartsOnTick' = StartsOnTick /\ Behind' = Behind /\ AheadOfPrice' = AheadOfPrice
      /\ Beyond' = Beyond
  BY <1>2, SameRange
<1>4. sqrtPrice \in Nat /\ liquidity # 0
  BY Widths DEF IInv, TypeOK, Start, Steppable
<1>5. ~ StartsOnTick => liquidity = LiquidityOf(book, Behind) /\ Beyond = AheadOfPrice
  BY <1>1, <1>4, PoolFacts
<1>6. PoolsOf(book)' = PoolsOf(book)
  BY <1>2 DEF PoolsOf
<1> QED BY <1>1, <1>2, <1>3, <1>5, <1>6 DEF IndexInv

\* The lower and the higher of two numbers.
LEMMA PairEnds ==
  ASSUME NEW x \in Int, NEW y \in Int, x <= y
  PROVE  Min({x, y}) = x /\ Max({x, y}) = y /\ Min({y, x}) = x /\ Max({y, x}) = y
<1>1. {x, y} = {y, x}
  OBVIOUS
<1>2. \A z \in {x, y} : (\A k \in {x, y} : z <= k) <=> z = x
  OBVIOUS
<1>3. \A z \in {x, y} : (\A k \in {x, y} : z >= k) <=> z = y
  OBVIOUS
<1> QED BY <1>1, <1>2, <1>3 DEF Min, Max

\* The price a step leaves and the price it reaches.
LEMMA StepEnds ==
  ASSUME IInv, NEW b \in Answers, Step(b)
  PROVE  /\ sqrtPrice \in Nat /\ Landing(b) \in Nat /\ sqrtPrice' = Landing(b)
         /\ Ahead(Landing(b), sqrtPrice)
         /\ LastStep'.start = sqrtPrice /\ LastStep'.end = Landing(b)
         /\ LastStep'.liquidity = liquidity /\ steps' # <<>>
<1>1. Moves(b) /\ Priced(b) /\ sqrtPrice' = Landing(b)
  BY DEF Step, Moves
<1>2. Landing(b) \in Nat /\ ~ Ahead(sqrtPrice, Landing(b)) /\ Landing(b) # sqrtPrice
  BY <1>1, LandingFacts, Widths DEF Moves
<1>3. sqrtPrice \in Nat /\ steps \in Seq(StepType)
  BY Widths DEF IInv, TypeOK, StepType
<1> DEFINE s == [amountIn |-> Consumed(b), amountOut |-> OutAt(b),
                 start |-> sqrtPrice, end |-> Landing(b),
                 liquidity |-> liquidity, crossed |-> Reached(b)]
<1>4. steps' = Append(steps, s) /\ s.start = sqrtPrice /\ s.end = Landing(b) /\ s.liquidity = liquidity
  BY DEF Step
<1> HIDE DEF s
<1>5. LastStep' = s /\ steps' # <<>>
  <2>1. ASSUME NEW T, NEW q \in Seq(T), NEW x
        PROVE  Append(q, x) # <<>> /\ Append(q, x)[Len(Append(q, x))] = x
    OBVIOUS
  <2> QED BY <1>3, <1>4, <2>1 DEF LastStep
<1> QED BY <1>1, <1>2, <1>3, <1>4, <1>5 DEF Ahead

\* A step over the index stays in the range it was priced with, and leaves the
\* ticks it passes behind: none, or the one it crosses.
LEMMA StepMove ==
  ASSUME IInv, IndexInv, source = "index", ~ StartsOnTick, NEW b \in Answers, Step(b)
  PROVE  /\ InOneRange(LastStep)' /\ StartsOnTick' = StartsOnTick
         /\ ~ Crosses(b) => Behind' = Behind
         /\ Crosses(b) =>
              /\ b.tick \in DOMAIN book /\ b.net = book[b.tick]
              /\ sqrtPrice' = PriceAt[b.tick] /\ Ahead(PriceAt[b.tick], sqrtPrice)
              /\ \A t \in DOMAIN book :
                   t \in Behind' <=> IF Up THEN t \in Behind \/ t = b.tick
                                           ELSE t \in Behind /\ t # b.tick
<1> DEFINE p == sqrtPrice
           e == Landing(b)
<1>1. Moves(b) /\ status = "running" /\ book' = book /\ call' = call
  BY DEF Step, Moves, Priced, Walking
<1>2. book \in Book /\ liquidity = LiquidityOf(book, Behind) /\ Beyond = AheadOfPrice
  BY <1>1 DEF IndexInv
<1>3. /\ p \in Nat /\ e \in Nat /\ sqrtPrice' = e /\ Ahead(e, p)
      /\ LastStep'.start = p /\ LastStep'.end = e /\ LastStep'.liquidity = liquidity
  BY StepEnds
<1>4. /\ \A t \in AheadOfPrice : ~ Ahead(e, PriceAt[t])
      /\ Crosses(b) => b.tick \in AheadOfPrice /\ b.net = book[b.tick] /\ PriceAt[b.tick] = e
      /\ ~ Crosses(b) => \A t \in AheadOfPrice : Ahead(PriceAt[t], e)
  BY <1>1, <1>2, StepRange
<1>5. \A t \in DOMAIN book : t \in Tick /\ PriceAt[t] \in Nat
  BY <1>2, BookFacts
<1>6. Up' = Up /\ StartsOnTick' = StartsOnTick
  BY <1>1 DEF Up, StartsOnTick
<1> HIDE DEF e
<1>7. \A t \in DOMAIN book :
        /\ t \in Behind <=> PriceAt[t] < p \/ (Up /\ PriceAt[t] = p)
        /\ t \in Behind' <=> PriceAt[t] < e \/ (Up /\ PriceAt[t] = e)
        /\ t \in AheadOfPrice <=> Ahead(PriceAt[t], p)
  BY <1>1, <1>3, <1>6 DEF Behind, AheadOfPrice
<1>8. Behind \subseteq DOMAIN book /\ Behind' \subseteq DOMAIN book
  BY <1>1 DEF Behind
<1>9. InOneRange(LastStep)'
  <2> DEFINE low  == IF Up THEN p ELSE e
             high == IF Up THEN e ELSE p
  <2>1. low \in Nat /\ high \in Nat /\ low <= high
    BY <1>3 DEF Ahead
  <2>2. {LastStep'.start, LastStep'.end} = {low, high}
    BY <1>3
  <2>3. Min({LastStep'.start, LastStep'.end}) = low /\ Max({LastStep'.start, LastStep'.end}) = high
    <3> HIDE DEF low, high
    <3> QED BY <2>1, <2>2, PairEnds
  <2>4. ASSUME NEW t \in DOMAIN book
        PROVE  /\ ~ (low < PriceAt[t] /\ PriceAt[t] < high)
               /\ PriceAt[t] <= low <=> t \in Behind
    BY <1>3, <1>4, <1>5, <1>7 DEF Ahead
  <2> HIDE DEF low, high
  <2>5. {t \in DOMAIN book : PriceAt[t] <= low} = Behind
    BY <1>8, <2>4
  <2>6. LastStep'.liquidity = LiquidityOf(book, {t \in DOMAIN book : PriceAt[t] <= low})
    BY <1>2, <1>3, <2>5
  <2> QED BY <1>1, <2>3, <2>4, <2>6 DEF InOneRange
<1>10. ASSUME ~ Crosses(b) PROVE Behind' = Behind
  <2>1. ASSUME NEW t \in DOMAIN book PROVE t \in Behind' <=> t \in Behind
    BY <1>3, <1>4, <1>5, <1>7, <1>10 DEF Ahead
  <2> QED BY <1>8, <2>1
<1>11. ASSUME Crosses(b)
       PROVE  \A t \in DOMAIN book :
                t \in Behind' <=> IF Up THEN t \in Behind \/ t = b.tick
                                        ELSE t \in Behind /\ t # b.tick
  <2> SUFFICES ASSUME NEW t \in DOMAIN book
               PROVE  t \in Behind' <=> IF Up THEN t \in Behind \/ t = b.tick
                                              ELSE t \in Behind /\ t # b.tick
    OBVIOUS
  <2>1. b.tick \in DOMAIN book
    BY <1>4, <1>11 DEF AheadOfPrice
  <2>2. t = b.tick <=> PriceAt[t] = e
    <3>1. t \in Int /\ b.tick \in Int /\ (t < b.tick <=> PriceAt[t] < e)
          /\ (b.tick < t <=> e < PriceAt[t])
      BY <1>4, <1>5, <1>11, <2>1, TickOrder
    <3> QED BY <1>4, <1>11, <3>1
  <2> QED BY <1>3, <1>4, <1>5, <1>7, <2>1, <2>2 DEF Ahead
<1>12. Crosses(b) => Ahead(PriceAt[b.tick], p) /\ b.tick \in DOMAIN book
  BY <1>4 DEF AheadOfPrice
<1> QED BY <1>3, <1>4, <1>6, <1>9, <1>10, <1>11, <1>12

\* A step that stops short keeps the invariant.
LEMMA StepAndStopIndex ==
  ASSUME IInv, IndexInv, NEW b \in Answers, StepAndStop(b)
  PROVE  IndexInv'
<1>1. /\ Step(b) /\ ~ Crosses(b) /\ status' = "stopped"
      /\ book' = book /\ call' = call /\ source' = source /\ liquidity' = liquidity
      /\ StartsOnTick' = StartsOnTick
  BY DEF StepAndStop, Step, StartsOnTick, Up
<1>2. source = "index" => book \in Book /\ call.pool \in PoolsOf(book)
  BY DEF IndexInv
<1>3. source = "index" /\ ~ StartsOnTick =>
        InOneRange(LastStep)' /\ Behind' = Behind /\ liquidity = LiquidityOf(book, Behind)
  BY <1>1, StepMove DEF IndexInv
<1>4. PoolsOf(book)' = PoolsOf(book)
  BY <1>1 DEF PoolsOf
<1> QED BY <1>1, <1>2, <1>3, <1>4 DEF IndexInv

\* A step that crosses a tick keeps it: the liquidity is the next range's.
LEMMA StepAndCrossIndex ==
  ASSUME IInv, IndexInv, NEW b \in Answers, StepAndCross(b)
  PROVE  IndexInv'
<1>1. /\ Step(b) /\ Crosses(b) /\ status' = "running" /\ tick' = b.tick
      /\ liquidity' = liquidity + SignedNet(b)
      /\ book' = book /\ call' = call /\ source' = source
      /\ StartsOnTick' = StartsOnTick /\ Up' = Up
  BY DEF StepAndCross, Step, StartsOnTick, Up
<1>2. source = "index" => book \in Book /\ call.pool \in PoolsOf(book)
  BY DEF IndexInv
<1>3. PoolsOf(book)' = PoolsOf(book)
  BY <1>1 DEF PoolsOf
<1>4. ASSUME source = "index", ~ StartsOnTick
      PROVE  /\ InOneRange(LastStep)' /\ liquidity' = LiquidityOf(book, Behind')
             /\ Beyond' = AheadOfPrice'
  <2>1. /\ InOneRange(LastStep)'
        /\ b.tick \in DOMAIN book /\ b.net = book[b.tick]
        /\ sqrtPrice' = PriceAt[b.tick] /\ Ahead(PriceAt[b.tick], sqrtPrice)
    BY <1>1, <1>4, StepMove
  <2>2. \A t \in DOMAIN book :
          t \in Behind' <=> IF Up THEN t \in Behind \/ t = b.tick
                                  ELSE t \in Behind /\ t # b.tick
    BY <1>1, <1>4, StepMove
  <2>3. liquidity = LiquidityOf(book, Behind) /\ Behind \in SUBSET DOMAIN book /\ Behind' \in SUBSET DOMAIN book
    BY <1>1, <1>4 DEF IndexInv, Behind, Step, Moves, Priced, Walking
  <2>4. sqrtPrice \in Nat /\ liquidity \in Nat /\ book \in Book
    BY <1>2, <1>4, Widths DEF IInv, TypeOK
  <2>5. b.tick \in Tick /\ b.tick \in Int /\ PriceAt[b.tick] \in Nat /\ book[b.tick] \in Int
    BY <2>1, <2>4, BookFacts
  <2>6. liquidity' = LiquidityOf(book, Behind')
    <3>1. CASE Up
      <4>1. b.tick \notin Behind
        BY <2>1, <2>4, <2>5, <3>1 DEF Behind, Ahead
      <4>2. Behind' \ {b.tick} = Behind /\ b.tick \in Behind'
        BY <2>1, <2>2, <2>3, <3>1, <4>1
      <4>3. LiquidityOf(book, Behind') = LiquidityOf(book, Behind) + book[b.tick]
        BY <2>3, <2>4, <4>2, LiquidityLaw
      <4> QED BY <1>1, <2>1, <2>3, <3>1, <4>3 DEF SignedNet
    <3>2. CASE ~ Up
      <4>1. b.tick \in Behind
        BY <2>1, <2>4, <2>5, <3>2 DEF Behind, Ahead
      <4>2. Behind' = Behind \ {b.tick}
        BY <2>2, <2>3, <3>2
      <4>3. LiquidityOf(book, Behind) = LiquidityOf(book, Behind') + book[b.tick]
        BY <2>3, <2>4, <4>1, <4>2, LiquidityLaw
      <4>4. LiquidityOf(book, Behind') \in Int
        BY <2>3, <2>4, LiquidityLaw
      <4>5. liquidity' = liquidity - book[b.tick]
        BY <1>1, <2>1, <2>4, <2>5, <3>2 DEF SignedNet
      <4> QED BY <2>3, <2>5, <4>3, <4>4, <4>5
    <3> QED BY <3>1, <3>2
  <2>7. Beyond' = AheadOfPrice'
    <3>1. ASSUME NEW t \in DOMAIN book
          PROVE  Ahead(t, b.tick) <=> Ahead(PriceAt[t], PriceAt[b.tick])
      <4>1. t \in Tick
        BY <2>4, BookFacts
      <4> QED BY <2>5, <4>1, TickOrder
    <3>2. \A x, y : Ahead(x, y)' <=> Ahead(x, y)
      BY <1>1 DEF Ahead
    <3> QED BY <1>1, <2>1, <3>1 DEF Beyond, AheadOfPrice, Ahead
  <2> QED BY <2>1, <2>6, <2>7
<1> QED BY <1>1, <1>2, <1>3, <1>4 DEF IndexInv

\* Every step keeps it.
LEMMA NextIndex == IInv /\ IndexInv /\ [Next]_vars => IndexInv'
<1> SUFFICES ASSUME IInv, IndexInv, [Next]_vars PROVE IndexInv'
  OBVIOUS
<1>1. ASSUME NEW e \in AmmError, Error(e) PROVE IndexInv'
  BY <1>1, StillIndex DEF Error, walk, AmmError
<1>2. CASE Reject
  <2>1. PICK e \in AmmError : Error(e)
    BY <1>2 DEF Reject, RejectPrice, RejectLiquidity, RejectLimit, RejectFeeRate, AmmError
  <2> QED BY <1>1, <2>1
<1>3. CASE Start
  BY <1>3, StartIndex
<1>4. CASE Stop
  BY <1>4, StillIndex DEF Stop, walk
<1>5. ASSUME NEW b \in Answers, Turn(b)
      PROVE  IndexInv'
  <2>1. CASE MeetGap \/ OverflowReach \/ Stall(b) \/ OverflowStep(b) \/ CrossTooMany(b) \/ OverflowCrossing(b)
    <3>1. PICK e \in AmmError : Error(e)
      BY <2>1 DEF MeetGap, OverflowReach, Stall, OverflowStep, CrossTooMany, OverflowCrossing, AmmError
    <3> QED BY <1>1, <3>1
  <2>2. CASE StepAndStop(b)
    BY <2>2, StepAndStopIndex
  <2>3. CASE StepAndCross(b)
    BY <2>3, StepAndCrossIndex
  <2> QED BY <1>5, <2>1, <2>2, <2>3 DEF Turn
<1>6. CASE Finish
  BY <1>6, StillIndex DEF Finish, walk
<1>7. CASE UNCHANGED vars
  BY <1>7, StillIndex DEF vars, walk
<1> QED BY <1>2, <1>3, <1>4, <1>5, <1>6, <1>7 DEF Next

\* Every step of a walk over the pool's own index stays inside one range and is
\* priced with the sum of the nets below it, for every set of ticks.
THEOREM StepsStayInRange == Spec => []StepsInOneRange
<1>1. IndexInv => StepsInOneRange
  BY DEF IndexInv, StepsInOneRange
<1> QED BY <1>1, InitInv, NextInv, InitIndex, NextIndex, PTL DEF Spec

\* Between steps the liquidity kept is that of the range the price is about to
\* enter: every tick crossed was applied once, with its sign, and no other was.
THEOREM LiquidityOfRange == Spec => []RangeLiquidity
<1>1. IndexInv => RangeLiquidity
  BY DEF IndexInv, RangeLiquidity, Behind
<1> QED BY <1>1, InitInv, NextInv, InitIndex, NextIndex, PTL DEF Spec

-----------------------------------------------------------------------------
(* The shortcut of cetus.rs.                                               *)

\* A finite set of integers has a smallest one.
LEMMA SmallestInt ==
  \A T \in SUBSET Int : IsFiniteSet(T) /\ T # {} => Min(T) \in T /\ \A t \in T : Min(T) <= t
<1> DEFINE Open(T) == {U \in SUBSET T : U # {} /\ \A m \in U : \E k \in U : k < m}
<1>0. ASSUME NEW T, IsFiniteSet(T), Open(T) # {}
      PROVE  \E U \in Open(T) : \A V \in Open(T) : V \subseteq U => V = U
  <2>1. Open(T) \in SUBSET SUBSET T
    OBVIOUS
  <2> HIDE DEF Open
  <2> QED BY <1>0, <2>1, SmallestSet
<1> SUFFICES ASSUME NEW T \in SUBSET Int, IsFiniteSet(T), T # {}
             PROVE  Min(T) \in T /\ \A t \in T : Min(T) <= t
  OBVIOUS
<1>1. SUFFICES ASSUME Open(T) # {} PROVE FALSE
  <2>1. T \notin Open(T)
    BY <1>1
  <2>2. \E m \in T : \A k \in T : m <= k
    BY <2>1
  <2> QED BY <2>2 DEF Min
<1>2. PICK U \in Open(T) : \A V \in Open(T) : V \subseteq U => V = U
  <2> HIDE DEF Open
  <2> QED BY <1>0, <1>1
<1>3. PICK x \in U : TRUE
  BY <1>2
<1>4. PICK m \in U : m < x
  BY <1>2, <1>3
<1> DEFINE V == U \ {x}
<1>5. V # {} /\ V \subseteq U /\ V # U /\ V \in SUBSET T
  BY <1>2, <1>3, <1>4
<1>6. PICK y \in V : \A k \in V : ~ (k < y)
  BY <1>2, <1>5
<1>7. m \in V /\ x \in Int /\ y \in Int /\ \A k \in U : k \in Int
  BY <1>2, <1>3, <1>4, <1>6
<1>8. y <= m
  BY <1>6, <1>7
<1>9. \A k \in U : ~ (k < y)
  BY <1>4, <1>6, <1>7, <1>8
<1> QED BY <1>2, <1>6, <1>9

\* Where the shortcut applies, and the limit is not in the way.
Short == Shortcut /\ ~ InNodeGap

\* There, the walk has taken no step, or its one step.
ShortInv ==
  Short =>
    /\ status = "running" => AtStart /\ remaining = net
    /\ status \in {"stopped", "done"} =>
         crossings = 0 /\ Len(steps) <= 1 /\ sqrtPrice = WholeReach

\* The shortcut depends on the call alone.
LEMMA SameShort ==
  ASSUME UNCHANGED <<source, book, call>>
  PROVE  Short' = Short /\ WholeReach' = WholeReach /\ Up' = Up
BY DEF Short, Shortcut, InNodeGap, StaysInside, WholeReach, Ahead, Up

\* Dividing a multiple rounds nothing.
LEMMA MultipleUp ==
  ASSUME NEW x \in Nat, NEW y \in Nat \ {0}
  PROVE  DivUp(x * y, y) = x
<1> DEFINE q == DivUp(x * y, y)
<1>1. x * y \in Nat /\ x * y <= x * y
  BY ProductNat
<1>2. q \in Nat /\ x * y <= q * y
  BY <1>1, DivUpBounds
<1>3. q <= x
  BY <1>1, DivUpUpper
<1>4. q < x => q * y < x * y
  <2> HIDE DEF q
  <2>1. ASSUME NEW n \in Nat, n < x PROVE n * y < x * y
    BY <2>1
  <2> QED BY <1>2, <2>1
<1>5. q * y \in Nat
  BY <1>2, ProductNat
<1> HIDE DEF q
<1>6. ~ (q < x)
  BY <1>1, <1>2, <1>4, <1>5
<1>7. q = x
  BY <1>2, <1>3, <1>6
<1> QED BY <1>7 DEF q

\* At the start of a call with the shortcut, the walk has its whole input before it.
LEMMA ShortReach ==
  ASSUME IInv, Short, status = "running", AtStart, remaining = net
  PROVE  /\ WholeReach = Reach /\ WholeReach \in Nat /\ sqrtPrice \in Nat /\ call.limit \in Nat
         /\ ~ Ahead(sqrtPrice, WholeReach) /\ ~ Ahead(WholeReach, call.limit)
         /\ ~ Ahead(sqrtPrice, call.limit)
         /\ remaining = 0 => WholeReach = sqrtPrice
<1>1. /\ sqrtPrice \in Nat \ {0} /\ liquidity \in Nat \ {0} /\ remaining \in Nat /\ call.limit \in Nat
      /\ ~ Ahead(sqrtPrice, call.limit)
  BY Widths DEF IInv, TypeOK, CallOK, WalkOK, PriceWithinLimit, AtStart, Short, Shortcut, StaysInside
<1>2. WholeReach = Reach
  BY DEF AtStart, IInv, WalkOK, WholeReach, Reach
<1>3. CASE Up
  <2>1. Reach \in Nat /\ sqrtPrice <= Reach
    BY <1>1, <1>3, PriceUpBounds DEF Reach
  <2>2. remaining = 0 => Reach = sqrtPrice
    BY <1>1, <1>3, ScaleNat DEF Reach, PriceUp, DivDown
  <2> QED BY <1>1, <1>2, <1>3, <2>1, <2>2 DEF Ahead, Short, Shortcut
<1>4. CASE ~ Up
  <2>1. Reach \in Nat /\ Reach <= sqrtPrice
    BY <1>1, <1>4, PriceDownBounds DEF Reach
  <2>2. ASSUME remaining = 0 PROVE Reach = sqrtPrice
    <3> DEFINE d == liquidity * Scale
    <3>1. d \in Nat \ {0}
      BY <1>1, ScaleNat, ProductNat
    <3>2. Reach = (d * sqrtPrice + (d + remaining * sqrtPrice) - 1) \div (d + remaining * sqrtPrice)
      BY <1>4 DEF Reach, PriceDown, DivUp
    <3>3. remaining * sqrtPrice = 0
      BY <1>1, <2>2
    <3> HIDE DEF d
    <3>4. Reach = DivUp(d * sqrtPrice, d)
      BY <3>1, <3>2, <3>3 DEF DivUp
    <3>5. DivUp(d * sqrtPrice, d) = sqrtPrice
      <4>1. d * sqrtPrice \in Nat /\ d * sqrtPrice = sqrtPrice * d
        BY <1>1, <3>1
      <4> QED BY <1>1, <3>1, <4>1, MultipleUp
    <3> QED BY <3>4, <3>5
  <2> QED BY <1>1, <1>2, <1>4, <2>1, <2>2 DEF Ahead, Short, Shortcut
<1> QED BY <1>3, <1>4

\* No tick of the index lies between the price and where the whole input takes it.
LEMMA NoTickOnTheWay ==
  ASSUME book \in Book, tick = call.pool.tick, sqrtPrice = call.pool.sqrtPrice, StaysInside,
         ~ InNodeGap, sqrtPrice \in Nat, WholeReach \in Nat,
         NEW u \in DOMAIN book, Ahead(u, tick), Ahead(PriceAt[u], sqrtPrice)
  PROVE  Ahead(PriceAt[u], WholeReach)
<1>1. /\ u \in Tick /\ u \in Int /\ PriceAt[u] \in Nat /\ Tick \in SUBSET Int
      /\ IsFiniteSet(Tick) /\ Tick # {}
  BY BookFacts, TickAssumption
<1>2. FloorTick(sqrtPrice) = tick /\ FloorTick(WholeReach) = tick
  BY DEF StaysInside
<1> DEFINE w == WholeReach
<1>3. w \in Nat /\ FloorTick(w) = tick
  BY <1>2
<1>4. ASSUME NEW t \in Tick PROVE t \in Int /\ PriceAt[t] \in Nat /\ ComputedAt[t] \in Nat
  BY <1>4, TickAssumption, ComputedAssumption, InputAssumption, Widths
<1>5. tick \in Tick /\ tick \in Int
  <2>1. Min(Tick) \in Tick
    BY <1>1, SmallestInt
  <2>2. CASE {t \in Tick : ComputedAt[t] <= w} = {}
    BY <1>1, <1>3, <2>1, <2>2 DEF FloorTick, FloorAmong
  <2>3. CASE {t \in Tick : ComputedAt[t] <= w} # {}
    BY <1>1, <1>3, <2>3, FloorTickFacts
  <2> QED BY <2>2, <2>3
<1>6. CASE Up
  <2>1. u > tick
    BY <1>6 DEF Ahead
  <2>2. tick + 1 \in Tick
    <3>1. tick .. u \subseteq Tick
      BY <1>1, <1>5, TickAssumption
    <3>2. tick + 1 \in tick .. u
      BY <1>1, <1>5, <2>1
    <3> QED BY <3>1, <3>2
  <2>3. w < ComputedAt[tick + 1]
    <3> SUFFICES ASSUME ComputedAt[tick + 1] <= w PROVE FALSE
      BY <1>3, <1>4, <2>2
    <3>1. tick + 1 <= tick
      <4>1. tick + 1 <= FloorTick(w)
        BY <1>3, <2>2, FloorTickFacts
      <4> QED BY <1>3, <4>1
    <3> QED BY <1>5, <3>1
  <2>4. w < PriceAt[u]
    <3>1. CASE u = tick + 1
      <4>1. ~ (PriceAt[tick + 1] <= w)
        BY <1>6, <2>3, <3>1 DEF InNodeGap
      <4> QED BY <1>1, <1>3, <3>1, <4>1
    <3>2. CASE u # tick + 1
      <4>1. tick + 1 < u
        BY <1>1, <1>5, <2>1, <3>2
      <4>2. ComputedAt[tick + 1] < PriceAt[u]
        BY <1>1, <2>2, <4>1, ComputedAssumption
      <4>3. ComputedAt[tick + 1] \in Nat
        BY <1>4, <2>2
      <4> QED BY <1>1, <1>3, <2>3, <4>2, <4>3
    <3> QED BY <3>1, <3>2
  <2> QED BY <1>6, <2>4 DEF Ahead
<1>7. CASE ~ Up
  <2>1. u < tick
    BY <1>7 DEF Ahead
  <2>2. {t \in Tick : ComputedAt[t] <= w} # {}
    <3> SUFFICES ASSUME {t \in Tick : ComputedAt[t] <= w} = {} PROVE FALSE
      OBVIOUS
    <3>1. tick = Min(Tick)
      BY <1>3 DEF FloorTick, FloorAmong
    <3>2. tick <= u
      BY <1>1, <3>1, SmallestInt
    <3> QED BY <1>1, <1>5, <2>1, <3>2
  <2>3. PICK t0 \in Tick : ComputedAt[t0] <= w
    BY <2>2
  <2>4. ComputedAt[tick] <= w
    BY <1>3, <2>3, FloorTickFacts
  <2>5. PriceAt[u] < ComputedAt[tick] /\ ComputedAt[tick] \in Nat
    BY <1>1, <1>4, <1>5, <2>1, ComputedAssumption
  <2>6. PriceAt[u] < w
    BY <1>1, <1>3, <2>4, <2>5
  <2> QED BY <1>7, <2>6 DEF Ahead
<1> QED BY <1>6, <1>7

\* So the first turn crosses nothing, and where it does not, it ends there.
LEMMA ShortTurn ==
  ASSUME IInv, IndexInv, Short, status = "running", AtStart, remaining = net,
         NEW b \in Answers, Step(b)
  PROVE  ~ Crosses(b) /\ sqrtPrice' = WholeReach
<1> DEFINE e == Landing(b)
           g == call.limit
           w == WholeReach
<1>1. /\ w = Reach /\ w \in Nat /\ sqrtPrice \in Nat /\ g \in Nat
      /\ ~ Ahead(w, g)
  BY ShortReach
<1>2. e \in Nat /\ Ahead(e, sqrtPrice) /\ sqrtPrice' = e
  BY StepEnds
<1>3. e = (IF Reached(b) THEN Target(b) ELSE Reach) /\ (Reached(b) => ~ Ahead(Target(b), Reach))
  BY DEF Landing, Reached
<1> HIDE DEF e, w, g
<1>4. ~ Crosses(b)
  <2> SUFFICES ASSUME Crosses(b) PROVE FALSE
    OBVIOUS
  <2>1. Usable(b) # NoBoundary /\ Usable(b) = b /\ b.sqrtPrice = e /\ Reached(b)
    BY DEF Crosses, Usable, e
  <2>2. PICK u \in Beyond : b = [tick |-> u, sqrtPrice |-> PriceAt[u], net |-> book[u]]
    BY <2>1 DEF Answers, NextBoundary, Short, Shortcut
  <2>3. u \in DOMAIN book /\ Ahead(u, tick) /\ PriceAt[u] = e
    BY <2>1, <2>2 DEF Beyond
  <2>4. /\ book \in Book /\ tick = call.pool.tick /\ sqrtPrice = call.pool.sqrtPrice /\ StaysInside
        /\ ~ InNodeGap
    BY DEF IndexInv, Short, Shortcut, AtStart
  <2>5. Ahead(PriceAt[u], WholeReach)
    BY <1>1, <1>2, <2>3, <2>4, NoTickOnTheWay DEF w
  <2>6. Ahead(e, w) /\ ~ Ahead(e, w)
    BY <1>1, <1>3, <2>1, <2>3, <2>5 DEF w
  <2> QED BY <2>6
<1>5. e = w
  <2>1. CASE ~ Reached(b)
    BY <1>1, <1>3, <2>1
  <2>2. CASE Reached(b)
    <3>1. Target(b) = g
      BY <1>4, <2>2 DEF Crosses, Target, Landing, g
    <3>2. e = g /\ ~ Ahead(g, w)
      BY <1>1, <1>3, <2>2, <3>1
    <3> QED BY <1>1, <3>2 DEF Ahead
  <2> QED BY <2>1, <2>2
<1> QED BY <1>2, <1>4, <1>5 DEF w

\* The call is the same to its end.
LEMMA CallStands ==
  ASSUME [Next]_vars
  PROVE  UNCHANGED <<source, book, call>>
<1>1. ASSUME NEW e \in AmmError, Error(e) PROVE UNCHANGED <<source, book, call>>
  BY <1>1 DEF Error
<1>2. CASE Reject
  BY <1>1, <1>2 DEF Reject, RejectPrice, RejectLiquidity, RejectLimit, RejectFeeRate, AmmError
<1>3. CASE Start \/ Stop \/ Finish \/ UNCHANGED vars
  BY <1>3 DEF Start, Stop, Finish, vars
<1>4. ASSUME NEW b, Step(b) PROVE UNCHANGED <<source, book, call>>
  BY <1>4 DEF Step
<1>5. ASSUME NEW b \in Answers, Turn(b) PROVE UNCHANGED <<source, book, call>>
  <2>1. Step(b) \/ \E e \in AmmError : Error(e)
    BY <1>5 DEF Turn, MeetGap, OverflowReach, Stall, OverflowStep, CrossTooMany, OverflowCrossing,
                StepAndStop, StepAndCross, AmmError
  <2> QED BY <1>1, <1>4, <2>1
<1> QED BY <1>2, <1>3, <1>5 DEF Next

\* Every step keeps it.
LEMMA NextShort == IInv /\ IndexInv /\ ShortInv /\ [Next]_vars => ShortInv'
<1> SUFFICES ASSUME IInv, IndexInv, ShortInv, [Next]_vars PROVE ShortInv'
  OBVIOUS
<1>0. Short' = Short
  BY CallStands, SameShort
<1> SUFFICES ASSUME Short PROVE ShortInv'
  BY <1>0 DEF ShortInv
<1>1. ASSUME NEW e \in AmmError, Error(e) PROVE ShortInv'
  BY <1>1 DEF Error, AmmError, ShortInv
<1>2. CASE Reject
  <2>1. PICK e \in AmmError : Error(e)
    BY <1>2 DEF Reject, RejectPrice, RejectLiquidity, RejectLimit, RejectFeeRate, AmmError
  <2> QED BY <1>1, <2>1
<1>3. CASE Start
  <2>1. AtStart
    BY <1>3 DEF Start, IndexInv, Short, Shortcut
  <2>2. AtStart' /\ remaining' = net' /\ status' = "running"
    BY <1>3, <2>1 DEF Start, AtStart, pool
  <2> QED BY <2>2 DEF ShortInv
<1>4. CASE Stop
  <2>1. AtStart /\ remaining = net /\ status = "running"
    BY <1>4 DEF Stop, ShortInv
  <2>2. sqrtPrice = WholeReach
    <3>1. CASE remaining = 0
      BY <2>1, <3>1, ShortReach
    <3>2. CASE sqrtPrice = call.limit
      <4>1. /\ WholeReach \in Nat /\ sqrtPrice \in Nat
            /\ ~ Ahead(sqrtPrice, WholeReach) /\ ~ Ahead(WholeReach, call.limit)
        BY <2>1, ShortReach
      <4> QED BY <3>2, <4>1 DEF Ahead
    <3> QED BY <1>4, <3>1, <3>2 DEF Stop
  <2>3. /\ UNCHANGED <<source, book, call>> /\ crossings' = crossings /\ steps' = steps
        /\ sqrtPrice' = sqrtPrice /\ status' = "stopped"
    BY <1>4 DEF Stop, walk, pool
  <2>4. WholeReach' = WholeReach
    BY <2>3, SameShort
  <2>5. crossings = 0 /\ Len(steps) = 0
    BY <2>1 DEF AtStart
  <2> QED BY <2>2, <2>3, <2>4, <2>5 DEF ShortInv
<1>5. ASSUME NEW b \in Answers, Turn(b)
      PROVE  ShortInv'
  <2>1. CASE MeetGap \/ OverflowReach \/ Stall(b) \/ OverflowStep(b) \/ CrossTooMany(b) \/ OverflowCrossing(b)
    <3>1. PICK e \in AmmError : Error(e)
      BY <2>1 DEF MeetGap, OverflowReach, Stall, OverflowStep, CrossTooMany, OverflowCrossing, AmmError
    <3> QED BY <1>1, <3>1
  <2>2. ASSUME Step(b) PROVE ~ Crosses(b) /\ sqrtPrice' = WholeReach /\ AtStart
    <3>1. status = "running"
      BY <2>2 DEF Step, Moves, Priced, Walking
    <3> QED BY <2>2, <3>1, ShortTurn DEF ShortInv
  <2>3. CASE StepAndStop(b)
    <3>1. /\ UNCHANGED <<source, book, call>> /\ crossings' = crossings /\ status' = "stopped" /\ Step(b)
      BY <2>3 DEF StepAndStop, Step
    <3>2. sqrtPrice' = WholeReach' /\ crossings = 0 /\ steps = <<>>
      BY <2>2, <3>1, SameShort DEF AtStart
    <3>3. Len(steps') = 1
      BY <3>1, <3>2, StepInv
    <3> QED BY <3>1, <3>2, <3>3 DEF ShortInv
  <2>4. CASE StepAndCross(b)
    BY <2>2, <2>4 DEF StepAndCross
  <2> QED BY <1>5, <2>1, <2>3, <2>4 DEF Turn
<1>6. CASE Finish \/ UNCHANGED vars
  <2>1. /\ UNCHANGED <<source, book, call, sqrtPrice, liquidity, tick, remaining, net, steps, crossings>>
        /\ (status = "stopped" /\ status' = "done") \/ status' = status
    BY <1>6 DEF Finish, vars, walk, pool
  <2>2. WholeReach' = WholeReach /\ AtStart' = AtStart
    BY <2>1, SameShort DEF AtStart
  <2> QED BY <2>1, <2>2 DEF ShortInv
<1> QED BY <1>2, <1>3, <1>4, <1>5, <1>6 DEF Next

\* Where stays_inside_current_range answers true and the price reached is not in
\* the gap of the node just above, the walk over the pool's index crosses nothing
\* and ends where one step with the whole input ends, however far the prices the
\* pool stores lie from the computed ones within the tolerance.
THEOREM ShortcutExact == Spec => []StaysExactOutsideGap
<1>1. Init => ShortInv
  BY DEF Init, Called, NothingStepped, ShortInv
<1>2. ShortInv => StaysExactOutsideGap
  BY DEF ShortInv, Short, OneStepDoes, StaysExactOutsideGap
<1> QED BY <1>1, <1>2, InitInv, NextInv, InitIndex, NextIndex, NextShort, PTL DEF Spec

=============================================================================
