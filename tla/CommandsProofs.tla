---------------------------- MODULE CommandsProofs ----------------------------
(***************************************************************************)
(* Theorems about Classify, Decoding and the commands as a whole.          *)
(*                                                                         *)
(* The verdict, for any package, any calls and any amounts they move: its  *)
(* invariant follows the price from before the transaction to after it.    *)
(* The scan: what it found is what the modules behind it hold.  The        *)
(* decoding, for any layouts: every driver of the stack has read, or is    *)
(* reading, what lies behind it.  The commands: each behaves as its part   *)
(* does, and so keeps what is proved of the part.                          *)
(***************************************************************************)
EXTENDS Commands, SwapProofs, TickMathProofs, FixturesProofs, TLAPS, FiniteSetTheorems,
  SequenceTheorems

-----------------------------------------------------------------------------
\* The invariant.

AmountsTyped ==
  /\ made \in Seq(Calls)
  /\ before.price = 0 /\ before.a = 0 /\ before.b = 0
  /\ after.price \in Int /\ after.a \in Int /\ after.b \in Int

MovedByCalls ==
  /\ after.price > 0 => \E i \in DOMAIN made : made[i].price > 0
  /\ after.price < 0 => \E i \in DOMAIN made : made[i].price < 0
  /\ after.a > 0 => \E i \in DOMAIN made : made[i].a > 0
  /\ after.b > 0 => \E i \in DOMAIN made : made[i].b > 0

\* No call changed nothing; one call is the whole change.
FewCalls ==
  /\ made = <<>> => after.price = 0 /\ after.a = 0 /\ after.b = 0
  /\ Len(made) = 1 =>
       after.price = made[1].price /\ after.a = made[1].a /\ after.b = made[1].b

InputsUsed == present \subseteq Feeds

PriceDecided ==
  probing = "decided" => ("price" \in verdict <=> subject.traded /\ Endogenous)

VerdictInv == AmountsTyped /\ MovedByCalls /\ FewCalls /\ InputsUsed /\ PriceDecided

-----------------------------------------------------------------------------
\* Before anything is executed the pool has not changed.
LEMMA InitVerdict == ClassifyInit => VerdictInv
BY DEF ClassifyInit, NothingProbed, VerdictInv, AmountsTyped, MovedByCalls, FewCalls,
       InputsUsed, PriceDecided

\* A call adds what it moves, in the direction it moves it.
LEMMA ExecuteKeeps ==
  ASSUME VerdictInv, NEW c \in Calls, Execute(c)
  PROVE  VerdictInv'
<1>1. /\ probing' = "executing" /\ present' = present /\ before' = before
      /\ made' = Append(made, c) /\ made \in Seq(Calls)
      /\ after'.price = after.price + c.price
      /\ after'.a = after.a + c.a /\ after'.b = after.b + c.b
  BY DEF Execute, VerdictInv, AmountsTyped
<1>2. c.price \in Int /\ c.a \in Int /\ c.b \in Int
  BY CallsAssumption
<1>3. /\ made' \in Seq(Calls) /\ Len(made') = Len(made) + 1
      /\ DOMAIN made' = 1 .. Len(made) + 1 /\ made'[Len(made) + 1] = c
      /\ \A i \in DOMAIN made : i \in DOMAIN made' /\ made'[i] = made[i]
  BY <1>1
<1>4. AmountsTyped'
  BY <1>1, <1>2, <1>3 DEF VerdictInv, AmountsTyped
<1>5. MovedByCalls'
  <2>0. Len(made) + 1 \in DOMAIN made' /\ made'[Len(made) + 1] = c
    BY <1>3
  <2>1. ASSUME after'.price > 0 PROVE \E i \in DOMAIN made' : made'[i].price > 0
    <3>1. CASE c.price > 0
      BY <3>1, <2>0
    <3>2. CASE ~(c.price > 0)
      <4>1. after.price > 0
        BY <3>2, <2>1, <1>1, <1>2 DEF VerdictInv, AmountsTyped
      <4>2. PICK i \in DOMAIN made : made[i].price > 0
        BY <4>1 DEF VerdictInv, MovedByCalls
      <4> QED BY <4>2, <1>3
    <3> QED BY <3>1, <3>2
  <2>2. ASSUME after'.price < 0 PROVE \E i \in DOMAIN made' : made'[i].price < 0
    <3>1. CASE c.price < 0
      BY <3>1, <2>0
    <3>2. CASE ~(c.price < 0)
      <4>1. after.price < 0
        BY <3>2, <2>2, <1>1, <1>2 DEF VerdictInv, AmountsTyped
      <4>2. PICK i \in DOMAIN made : made[i].price < 0
        BY <4>1 DEF VerdictInv, MovedByCalls
      <4> QED BY <4>2, <1>3
    <3> QED BY <3>1, <3>2
  <2>3. ASSUME after'.a > 0 PROVE \E i \in DOMAIN made' : made'[i].a > 0
    <3>1. CASE c.a > 0
      BY <3>1, <2>0
    <3>2. CASE ~(c.a > 0)
      <4>1. after.a > 0
        BY <3>2, <2>3, <1>1, <1>2 DEF VerdictInv, AmountsTyped
      <4>2. PICK i \in DOMAIN made : made[i].a > 0
        BY <4>1 DEF VerdictInv, MovedByCalls
      <4> QED BY <4>2, <1>3
    <3> QED BY <3>1, <3>2
  <2>4. ASSUME after'.b > 0 PROVE \E i \in DOMAIN made' : made'[i].b > 0
    <3>1. CASE c.b > 0
      BY <3>1, <2>0
    <3>2. CASE ~(c.b > 0)
      <4>1. after.b > 0
        BY <3>2, <2>4, <1>1, <1>2 DEF VerdictInv, AmountsTyped
      <4>2. PICK i \in DOMAIN made : made[i].b > 0
        BY <4>1 DEF VerdictInv, MovedByCalls
      <4> QED BY <4>2, <1>3
    <3> QED BY <3>1, <3>2
  <2> QED BY <2>1, <2>2, <2>3, <2>4 DEF MovedByCalls
<1>6. FewCalls'
  <2>1. made' # <<>>
    BY <1>3
  <2>2. ASSUME Len(made') = 1 PROVE made = <<>> /\ made'[1] = c
    BY <2>2, <1>1, <1>3
  <2> QED BY <2>1, <2>2, <1>1, <1>2 DEF VerdictInv, FewCalls
<1>7. InputsUsed'
  BY <1>1, <1>3 DEF VerdictInv, InputsUsed, Feeds
<1>8. PriceDecided'
  BY <1>1 DEF PriceDecided
<1> QED BY <1>4, <1>5, <1>6, <1>7, <1>8 DEF VerdictInv

\* Nothing after the transaction changes the pool or the calls, and only the
\* decision decides.
LEMMA ProbesKeep ==
  ASSUME VerdictInv, UNCHANGED <<subject, made, before, after>>,
         present' = present \/ present' \in SUBSET Feeds,
         probing' # "decided" \/ (probing' = probing /\ UNCHANGED <<present, verdict>>)
  PROVE  VerdictInv'
<1>1. AmountsTyped' /\ MovedByCalls' /\ FewCalls'
  BY DEF VerdictInv, AmountsTyped, MovedByCalls, FewCalls
<1>2. InputsUsed'
  BY DEF VerdictInv, InputsUsed, Feeds
<1>3. PriceDecided'
  BY DEF VerdictInv, PriceDecided, Endogenous, OracleInputs
<1> QED BY <1>1, <1>2, <1>3 DEF VerdictInv

\* The decision tests what the probes have left.
LEMMA DecideKeeps ==
  ASSUME VerdictInv, Decide
  PROVE  VerdictInv'
<1>1. AmountsTyped' /\ MovedByCalls' /\ FewCalls' /\ InputsUsed'
  BY DEF Decide, VerdictInv, AmountsTyped, MovedByCalls, FewCalls, InputsUsed, Feeds
<1>2. "price" \in verdict' <=> subject.traded /\ Endogenous
  BY DEF Decide
<1>3. Endogenous' = Endogenous /\ subject' = subject
  BY DEF Decide, Endogenous, OracleInputs
<1> QED BY <1>1, <1>2, <1>3 DEF VerdictInv, PriceDecided

\* Every step keeps the invariant.
LEMMA NextVerdict == VerdictInv /\ [ClassifyNext]_classifyVars => VerdictInv'
<1> SUFFICES ASSUME VerdictInv, [ClassifyNext]_classifyVars PROVE VerdictInv'
  OBVIOUS
<1>1. CASE \E c \in Calls : Execute(c)
  BY <1>1, ExecuteKeeps
<1>2. CASE LoadTransaction
  BY <1>2, ProbesKeep DEF LoadTransaction
<1>3. CASE TestCall
  BY <1>3, ProbesKeep DEF TestCall
<1>4. CASE CallsTested
  BY <1>4, ProbesKeep DEF CallsTested
<1>5. CASE ScanModule
  BY <1>5, ProbesKeep DEF ScanModule
<1>6. CASE Scanned
  BY <1>6, ProbesKeep DEF Scanned
<1>7. CASE CollectOracles
  BY <1>7, ProbesKeep DEF CollectOracles
<1>8. CASE Decide
  BY <1>8, DecideKeeps
<1>9. CASE UNCHANGED classifyVars
  BY <1>9, ProbesKeep DEF classifyVars
<1> QED BY <1>1, <1>2, <1>3, <1>4, <1>5, <1>6, <1>7, <1>8, <1>9 DEF ClassifyNext

-----------------------------------------------------------------------------
\* A change that passes the second probe with every feed seen was traded: no call
\* read a feed, so whichever moved the price that way swapped.
LEMMA NoFeedTraded ==
  ASSUME VerdictInv, Endogenous, ~ UnseenFeed
  PROVE  TradedAlong
<1>1. ASSUME NEW i \in DOMAIN made PROVE made[i] \in Calls /\ made[i].feed = "none"
  <2>1. made[i] \in Calls
    BY DEF VerdictInv, AmountsTyped
  <2>2. made[i].feed # "none" => made[i].feed \in OracleInputs
    BY DEF UnseenFeed, Feeds
  <2> QED BY <2>1, <2>2 DEF Endogenous
<1>2. CASE after.price > 0
  <2>1. PICK i \in DOMAIN made : made[i].price > 0
    BY <1>2 DEF VerdictInv, MovedByCalls
  <2>2. made[i].trade = "BtoA"
    BY <2>1, <1>1, CallsAssumption
  <2> QED BY <2>2, <1>2 DEF TradedAlong, VerdictInv, AmountsTyped
<1>3. CASE after.price < 0
  <2>1. PICK i \in DOMAIN made : made[i].price < 0
    BY <1>3 DEF VerdictInv, MovedByCalls
  <2>2. made[i].trade = "AtoB"
    BY <2>1, <1>1, CallsAssumption
  <2> QED BY <2>2, <1>3 DEF TradedAlong, VerdictInv, AmountsTyped
<1>4. after.price > 0 \/ after.price < 0
  <2>1. before.price = 0 /\ (after.price > before.price \/ after.price < before.price)
    BY DEF Endogenous, VerdictInv, AmountsTyped
  <2> QED BY <2>1
<1> QED BY <1>2, <1>3, <1>4

\* Whatever moved the price, an asset that came in without liquidity being added
\* was sold, and the probe asks the price to have moved the way that sale moves it.
LEMMA FlowTraded ==
  ASSUME VerdictInv, Endogenous, ~ AddedLiquidity
  PROVE  TradedAlong
<1>1. ASSUME NEW i \in DOMAIN made
      PROVE  /\ made[i] \in Calls
             /\ made[i].trade = "none" => ~ (made[i].a > 0) /\ ~ (made[i].b > 0)
  BY DEF VerdictInv, AmountsTyped, AddedLiquidity
<1>2. before.price = 0 /\ before.a = 0 /\ before.b = 0
  BY DEF VerdictInv, AmountsTyped
<1>3. CASE after.b > before.b /\ after.price > before.price
  <2>1. PICK i \in DOMAIN made : made[i].b > 0
    BY <1>2, <1>3 DEF VerdictInv, MovedByCalls
  <2>2. made[i].trade = "BtoA"
    BY <1>1, <2>1, CallsAssumption
  <2> QED BY <1>3, <2>2 DEF TradedAlong
<1>4. CASE after.a > before.a /\ after.price < before.price
  <2>1. PICK i \in DOMAIN made : made[i].a > 0
    BY <1>2, <1>4 DEF VerdictInv, MovedByCalls
  <2>2. made[i].trade = "AtoB"
    BY <1>1, <2>1, CallsAssumption
  <2> QED BY <1>4, <2>2 DEF TradedAlong
<1> QED BY <1>3, <1>4 DEF Endogenous

\* A transaction of one swap that moved the price passes it.
LEMMA SwapEndogenous ==
  ASSUME VerdictInv, Len(made) = 1, made[1].trade # "none", before.price # after.price
  PROVE  Endogenous
<1>1. DOMAIN made = {1} /\ made[1] \in Calls
  <2>1. made \in Seq(Calls) /\ DOMAIN made = 1 .. Len(made)
    BY DEF VerdictInv, AmountsTyped
  <2>2. DOMAIN made = 1 .. 1 /\ 1 \in 1 .. Len(made)
    BY <2>1
  <2> QED BY <2>1, <2>2
<1>2. made[1].feed = "none"
  BY <1>1, CallsAssumption
<1>3. OracleInputs = {}
  BY <1>1, <1>2 DEF VerdictInv, InputsUsed, OracleInputs, Feeds
<1>4. after.price = made[1].price /\ after.a = made[1].a /\ after.b = made[1].b
  BY DEF VerdictInv, FewCalls
<1>5. CASE made[1].trade = "AtoB"
  BY <1>1, <1>3, <1>4, <1>5, CallsAssumption DEF Endogenous, VerdictInv, AmountsTyped
<1>6. CASE made[1].trade = "BtoA"
  BY <1>1, <1>3, <1>4, <1>6, CallsAssumption DEF Endogenous, VerdictInv, AmountsTyped
<1> QED BY <1>1, <1>5, <1>6, CallsAssumption

\* Whatever is called, whichever inputs the checkpoint lacks and whichever feeds
\* have names no heuristic knows, only a pool traded the way its price moved is
\* taken for price discovery, unless liquidity was added beside a feed not seen;
\* and a swap that moved the price is not missed (classify.rs 212-230).
THEOREM TradedVerdict == ClassifySpec => []VerdictMatchesTrade
<1>1. VerdictInv => VerdictMatchesTrade
  <2> SUFFICES ASSUME VerdictInv, probing = "decided", subject.traded
               PROVE  /\ IsVenue => TradedAlong \/ (UnseenFeed /\ AddedLiquidity)
                      /\ Len(made) = 1 /\ made[1].trade # "none" /\ before.price # after.price
                           => {"price"} \subseteq verdict
    BY DEF VerdictMatchesTrade
  <2>1. "price" \in verdict <=> Endogenous
    BY DEF VerdictInv, PriceDecided
  <2>2. IsVenue => TradedAlong \/ (UnseenFeed /\ AddedLiquidity)
    BY <2>1, NoFeedTraded, FlowTraded DEF IsVenue
  <2>3. Len(made) = 1 /\ made[1].trade # "none" /\ before.price # after.price
          => {"price"} \subseteq verdict
    BY <2>1, SwapEndogenous
  <2> QED BY <2>2, <2>3
<1> QED BY InitVerdict, NextVerdict, <1>1, PTL DEF ClassifySpec

-----------------------------------------------------------------------------
(* The static scan.                                                        *)

\* A sequence has finitely many elements.
LEMMA ElementsFinite ==
  ASSUME NEW S, NEW s \in Seq(S)
  PROVE  IsFiniteSet(Elements(s))
<1>1. s \in Surjection(DOMAIN s, Elements(s))
  BY DEF Surjection, Elements
<1>2. IsFiniteSet(DOMAIN s)
  BY FS_Interval
<1> QED BY <1>1, <1>2, FS_Surjection

\* A set of two elements or more, and one of at most one.
LEMMA TwoOrMore ==
  ASSUME NEW S, IsFiniteSet(S)
  PROVE  /\ \A x, y \in S : x # y => Cardinality(S) >= 2
         /\ Cardinality(S) <= 1 => \A x, y \in S : x = y
<1> SUFFICES ASSUME NEW x \in S, NEW y \in S, x # y PROVE Cardinality(S) >= 2
  <2>1. Cardinality(S) \in Nat
    BY FS_CardinalityType
  <2> QED BY <2>1
<1>1. IsFiniteSet({x}) /\ Cardinality({x}) = 1
  BY FS_Singleton
<1>2. Cardinality({x} \cup {y}) = 2
  BY <1>1, FS_AddElement
<1>3. {x} \cup {y} \in SUBSET S
  OBVIOUS
<1>4. Cardinality({x} \cup {y}) <= Cardinality(S)
  BY <1>3, FS_Subset
<1> QED BY <1>2, <1>4

\* The type parameters a function borrows the venue with are finitely many.
LEMMA BorrowedFinite ==
  ASSUME NEW f \in Function
  PROVE  /\ IsFiniteSet(Borrowed(f))
         /\ IsFiniteSet({i \in DOMAIN f.params : Borrow(f.params[i]) # {}})
<1>1. f.params \in Seq(Arg) /\ IsFiniteSet(DOMAIN f.params)
  BY FS_Interval DEF Function
<1>2. ASSUME NEW i \in DOMAIN f.params PROVE IsFiniteSet(Borrow(f.params[i]))
  <2>0. f.params[i] \in Arg
    BY <1>1
  <2>1. f.params[i].args \in Seq(TypeParam \union {"concrete"})
    BY <2>0 DEF Arg
  <2>2. IsFiniteSet(Elements(f.params[i].args))
    BY <2>1, ElementsFinite
  <2>3. Borrow(f.params[i]) \in SUBSET Elements(f.params[i].args)
    BY DEF Borrow
  <2> QED BY <2>2, <2>3, FS_Subset
<1> DEFINE borrows == {Borrow(f.params[i]) : i \in DOMAIN f.params}
           borrow == [i \in DOMAIN f.params |-> Borrow(f.params[i])]
<1>3. borrow \in Surjection(DOMAIN f.params, borrows)
  BY DEF Surjection
<1>4. IsFiniteSet(borrows)
  BY <1>1, <1>3, FS_Surjection
<1>5. \A b \in borrows : IsFiniteSet(b)
  BY <1>2
<1>6. IsFiniteSet(UNION borrows)
  <2> HIDE DEF borrows
  <2> QED BY <1>4, <1>5, FS_UNION
<1>7. {i \in DOMAIN f.params : Borrow(f.params[i]) # {}} \in SUBSET DOMAIN f.params
  OBVIOUS
<1> QED BY <1>1, <1>6, <1>7, FS_Subset DEF Borrowed

\* A function that borrows one venue passes the scan exactly when it exchanges two
\* assets of that borrow (classify.rs 591-668).
LEMMA ScanIsExchange ==
  ASSUME NEW f \in Function, BorrowsOnce(f)
  PROVE  ScannedShape(f) <=> Exchanges(f)
<1> DEFINE at == {i \in DOMAIN f.params : Borrow(f.params[i]) # {}}
<1>1. \A i, j \in at : i = j
  BY BorrowedFinite, TwoOrMore DEF BorrowsOnce
<1>2. \A x \in Borrowed(f) : \E p \in at : x \in Borrow(f.params[p])
  BY DEF Borrowed
<1>3. \A p \in at : Borrow(f.params[p]) \subseteq Borrowed(f)
  BY DEF Borrowed
<1>4. ASSUME ScannedShape(f) PROVE Exchanges(f)
  <2>1. PICK x \in Borrowed(f), y \in Borrowed(f) :
          /\ x \in Legs(f.params, {"coin"}) /\ y \in Legs(f.returns, {"coin", "balance"})
          /\ x # y
    BY <1>4 DEF ScannedShape
  <2>2. PICK p \in at : x \in Borrow(f.params[p])
    BY <1>2
  <2>3. y \in Borrow(f.params[p])
    BY <1>1, <1>2, <2>2
  <2>4. \E i \in DOMAIN f.params : f.params[i].type = "coin" /\ Leg(f.params[i], {"coin"}) = {x}
    BY <2>1 DEF Legs, Leg
  <2>5. \E i \in DOMAIN f.returns : Leg(f.returns[i], {"coin", "balance"}) = {y}
    BY <2>1 DEF Legs, Leg
  <2> QED BY <2>1, <2>2, <2>3, <2>4, <2>5 DEF Exchanges
<1>5. ASSUME Exchanges(f) PROVE ScannedShape(f)
  <2>1. PICK p \in at : \E x, y \in Borrow(f.params[p]) :
          /\ x # y
          /\ \E i \in DOMAIN f.params : f.params[i].type = "coin" /\ Leg(f.params[i], {"coin"}) = {x}
          /\ \E i \in DOMAIN f.returns : Leg(f.returns[i], {"coin", "balance"}) = {y}
    BY <1>5 DEF Exchanges
  <2>2. PICK x \in Borrow(f.params[p]), y \in Borrow(f.params[p]) :
          /\ x # y
          /\ \E i \in DOMAIN f.params : f.params[i].type = "coin" /\ Leg(f.params[i], {"coin"}) = {x}
          /\ \E i \in DOMAIN f.returns : Leg(f.returns[i], {"coin", "balance"}) = {y}
    BY <2>1
  <2>3. x \in Borrowed(f) /\ y \in Borrowed(f)
    BY <1>3
  <2>4. x \in Legs(f.params, {"coin"})
    BY <2>2 DEF Legs
  <2>5. x \in Legs(f.params, {"coin", "balance"})
    BY <2>2 DEF Legs, Leg
  <2>6. y \in Legs(f.returns, {"coin", "balance"})
    BY <2>2 DEF Legs
  <2> DEFINE assets ==
        Borrowed(f) \intersect
          (Legs(f.params, {"coin", "balance"}) \union Legs(f.returns, {"coin", "balance"}))
  <2>7. IsFiniteSet(assets)
    BY BorrowedFinite, FS_Subset
  <2>8. x \in assets /\ y \in assets
    BY <2>3, <2>5, <2>6
  <2>9. Cardinality(assets) >= 2
    <3> HIDE DEF assets
    <3> QED BY <2>2, <2>7, <2>8, TwoOrMore
  <2> QED BY <2>2, <2>3, <2>4, <2>6, <2>9 DEF ScannedShape, ObservedShape
<1> QED BY <1>4, <1>5

\* The numbers up to some bound that are in a set have a smallest.
LEMMA FiniteMin ==
  ASSUME NEW n \in Nat, NEW T \in SUBSET (1 .. n), T # {}
  PROVE  \E m \in T : \A k \in T : m <= k
<1> DEFINE Least == {U \in SUBSET T : U # {} /\ \A m \in U : \E k \in U : ~ (m <= k)}
<1>0. IsFiniteSet(T)
  <2>1. IsFiniteSet(1 .. n)
    BY FS_Interval
  <2> QED BY <2>1, FS_Subset
<1>1. SUFFICES ASSUME Least # {} PROVE FALSE
  OBVIOUS
<1>2. Least \subseteq FiniteSubsetsOf(T)
  BY <1>0, FS_Subset DEF FiniteSubsetsOf
<1>3. PICK U \in Least : \A V \in Least : ~ (<<V, U>> \in StrictSubsetOrdering(T))
  <2> HIDE DEF Least
  <2> QED BY <1>1, <1>2, FS_StrictSubsetOrderingWellFounded, WFMin
<1>4. PICK x \in U : TRUE
  OBVIOUS
<1>5. PICK m \in U : ~ (x <= m)
  BY <1>4
<1> DEFINE V == U \ {x}
<1>6. m \in V /\ V \notin Least
  <2>1. <<V, U>> \in StrictSubsetOrdering(T)
    BY <1>4 DEF StrictSubsetOrdering
  <2> QED BY <1>3, <1>4, <1>5, <2>1
<1>7. PICK y \in V : \A k \in V : y <= k
  BY <1>6
<1>8. x \in Nat /\ y \in Nat /\ m \in Nat /\ y <= m /\ \A k \in U : k \in Nat
  BY <1>6, <1>7
<1>9. \A k \in U : y <= k
  BY <1>5, <1>7, <1>8
<1> QED BY <1>7, <1>9

\* The first function with the shape is one of the module's, if there is any.
LEMMA FirstSwapIsOne ==
  ASSUME NEW m \in CompiledModule
  PROVE  /\ FirstSwap(m) # NoEntry <=> Swaps(m) # {}
         /\ Swaps(m) # {} => FirstSwap(m) \in Function /\ FirstSwap(m).callable
<1>1. m.functions \in Seq(Function)
  BY DEF CompiledModule
<1>2. CASE Swaps(m) = {}
  BY <1>2 DEF FirstSwap
<1>3. CASE Swaps(m) # {}
  <2>1. Swaps(m) \in SUBSET (1 .. Len(m.functions)) /\ Len(m.functions) \in Nat
    BY <1>1 DEF Swaps
  <2>2. \E i \in Swaps(m) : \A j \in Swaps(m) : i <= j
    BY <1>3, <2>1, FiniteMin
  <2> DEFINE i == CHOOSE i \in Swaps(m) : \A j \in Swaps(m) : i <= j
  <2>3. i \in Swaps(m)
    BY <2>2
  <2>4. FirstSwap(m) = m.functions[i]
    BY <1>3 DEF FirstSwap
  <2>5. m.functions[i] \in Function /\ m.functions[i].callable
    <3>1. i \in DOMAIN m.functions /\ m.functions[i].callable
      BY <2>3 DEF Swaps
    <3> HIDE DEF i
    <3> QED BY <1>1, <3>1
  <2> QED BY <1>3, <2>4, <2>5, SubjectAssumption
<1> QED BY <1>2, <1>3

\* Up to the module looked at an entry is found exactly if one of them has it.
Searched(modules) ==
  entry # NoEntry <=> \E k \in DOMAIN subject.package :
                        k \in modules /\ Swaps(subject.package[k]) # {}

\* The modules behind the scan are searched, in each state the probes can be in.
ScanInv ==
  /\ subject \in Subject /\ position \in Nat \ {0}
  /\ probing \in {"executing", "calls", "scan", "links", "verdict", "decided", "failed"}
  /\ probing \in {"executing", "calls"} => entry = NoEntry
  /\ probing = "scan" => Searched(1 .. position - 1)
  /\ probing \in {"links", "verdict", "decided"} => Searched(DOMAIN subject.package)

\* The scan starts with no module behind it and no entry.
LEMMA InitScan == ClassifyInit => ScanInv
BY DEF ClassifyInit, NothingProbed, ScanInv, Searched

\* Every step keeps what the scan has found.
LEMMA NextScan == ScanInv /\ [ClassifyNext]_classifyVars => ScanInv'
<1> SUFFICES ASSUME ScanInv, [ClassifyNext]_classifyVars PROVE ScanInv'
  OBVIOUS
<1>1. subject.package \in Seq(CompiledModule)
  BY SubjectAssumption DEF ScanInv
<1>2. CASE \E c \in Calls : Execute(c)
  BY <1>2 DEF Execute, ScanInv, Searched
<1>3. CASE LoadTransaction
  BY <1>3 DEF LoadTransaction, ScanInv, Searched
<1>4. CASE TestCall
  BY <1>4 DEF TestCall, ScanInv, Searched
<1>5. CASE CallsTested
  BY <1>5 DEF CallsTested, ScanInv, Searched
<1>6. CASE ScanModule
  <2>1. /\ position \in DOMAIN subject.package /\ subject' = subject /\ probing' = "scan"
        /\ probing = "scan" /\ position' = position + 1 /\ position \in Nat \ {0}
    BY <1>1, <1>6 DEF ScanModule, ScanInv
  <2>2. FirstSwap(subject.package[position]) # NoEntry <=> Swaps(subject.package[position]) # {}
    BY <1>1, <2>1, FirstSwapIsOne
  <2>3. Searched(1 .. position - 1)
    BY <2>1 DEF ScanInv
  <2>4. \A k \in Nat \ {0} : k \in 1 .. position' - 1 <=> k \in 1 .. position - 1 \/ k = position
    BY <2>1
  <2>5. DOMAIN subject.package \subseteq Nat \ {0}
    BY <1>1
  <2>6. entry' # NoEntry <=> entry # NoEntry \/ Swaps(subject.package[position]) # {}
    BY <1>6, <2>2 DEF ScanModule
  <2>7. Searched(1 .. position - 1)'
    BY <2>1, <2>3, <2>4, <2>5, <2>6 DEF Searched
  <2> QED BY <2>1, <2>7 DEF ScanInv
<1>7. CASE Scanned
  <2>1. DOMAIN subject.package \subseteq 1 .. position - 1
    BY <1>1, <1>7 DEF Scanned, ScanInv
  <2>2. Searched(DOMAIN subject.package)
    BY <1>7, <2>1 DEF Scanned, ScanInv, Searched
  <2>3. Searched(DOMAIN subject.package)'
    BY <1>7, <2>2 DEF Scanned, Searched
  <2> QED BY <1>7, <2>3 DEF Scanned, ScanInv
<1>8. CASE CollectOracles
  BY <1>8 DEF CollectOracles, ScanInv, Searched
<1>9. CASE Decide
  BY <1>9 DEF Decide, ScanInv, Searched
<1>10. CASE UNCHANGED classifyVars
  BY <1>10 DEF classifyVars, ScanInv, Searched
<1> QED BY <1>2, <1>3, <1>4, <1>5, <1>6, <1>7, <1>8, <1>9, <1>10 DEF ClassifyNext

\* In any package whose functions borrow one venue at a time, the scan finds an
\* entry exactly when a callable function exchanges two assets (classify.rs 8-13).
THEOREM ScanIsRight == ClassifySpec => []ScanFindsExchange
<1>1. ScanInv => ScanFindsExchange
  <2> SUFFICES ASSUME ScanInv, probing = "decided", \A f \in Published : BorrowsOnce(f)
               PROVE  entry # NoEntry <=> \E f \in Published : f.callable /\ Exchanges(f)
    BY DEF ScanFindsExchange
  <2>1. subject.package \in Seq(CompiledModule)
    BY SubjectAssumption DEF ScanInv
  <2>2. entry # NoEntry <=> \E k \in DOMAIN subject.package : Swaps(subject.package[k]) # {}
    BY DEF ScanInv, Searched
  <2>3. ASSUME NEW k \in DOMAIN subject.package, NEW i \in DOMAIN subject.package[k].functions
        PROVE  /\ subject.package[k].functions[i] \in Published
               /\ subject.package[k].functions[i] \in Function
    <3>1. subject.package[k] \in CompiledModule
      BY <2>1
    <3>2. subject.package[k].functions \in Seq(Function)
      BY <3>1 DEF CompiledModule
    <3>3. subject.package[k].functions[i] \in Function
      BY <3>2
    <3>4. subject.package[k] \in Elements(subject.package)
      BY DEF Elements
    <3>5. subject.package[k].functions[i] \in Elements(subject.package[k].functions)
      BY DEF Elements
    <3> QED BY <3>3, <3>4, <3>5 DEF Published
  <2>4. \A f \in Published : \E k \in DOMAIN subject.package :
          \E i \in DOMAIN subject.package[k].functions : f = subject.package[k].functions[i]
    BY DEF Published, Elements
  <2>5. ASSUME NEW k \in DOMAIN subject.package, Swaps(subject.package[k]) # {}
        PROVE  \E f \in Published : f.callable /\ Exchanges(f)
    <3>1. PICK i \in DOMAIN subject.package[k].functions :
            /\ subject.package[k].functions[i].callable
            /\ ScannedShape(subject.package[k].functions[i])
      BY <2>5 DEF Swaps
    <3> QED BY <2>3, <3>1, ScanIsExchange
  <2>6. ASSUME NEW f \in Published, f.callable, Exchanges(f)
        PROVE  \E k \in DOMAIN subject.package : Swaps(subject.package[k]) # {}
    <3>1. PICK k \in DOMAIN subject.package, i \in Nat :
            i \in DOMAIN subject.package[k].functions /\ f = subject.package[k].functions[i]
      <4>1. PICK k \in DOMAIN subject.package :
              \E i \in DOMAIN subject.package[k].functions : f = subject.package[k].functions[i]
        BY <2>4
      <4>2. subject.package[k] \in CompiledModule
        BY <2>1
      <4>3. DOMAIN subject.package[k].functions \subseteq Nat
        BY <4>2 DEF CompiledModule
      <4> QED BY <4>1, <4>3
    <3>2. ScannedShape(f)
      BY <2>3, <2>6, <3>1, ScanIsExchange
    <3> QED BY <2>6, <3>1, <3>2 DEF Swaps
  <2> QED BY <2>2, <2>5, <2>6
<1> QED BY InitScan, NextScan, <1>1, PTL DEF ClassifySpec

-----------------------------------------------------------------------------
(* The pass over a drifted layout.                                         *)
(*                                                                         *)
(* What a driver has read, its nested drivers have read to the end, but    *)
(* for the one it is waiting for; and it has read whatever lies behind it  *)
(* that its decoder knows.                                                 *)

\* What is read by the time a decoder has returned: a price's fields, as the paths
\* of scalars, down from the struct it decodes.
Needs(decoder) ==
  CASE decoder = "CetusPool" ->
         {<<"coin_a", "value">>, <<"coin_b", "value">>, <<"tick_spacing">>, <<"fee_rate">>,
          <<"liquidity">>, <<"current_sqrt_price">>, <<"current_tick_index", "bits">>,
          <<"is_pause">>, <<"tick_manager", "ticks", "id", "id", "bytes">>}
    [] decoder = "TickManager" -> {<<"ticks", "id", "id", "bytes">>}
    [] decoder = "SkipList" -> {<<"id", "id", "bytes">>}
    [] decoder = "UID" -> {<<"id", "bytes">>}
    [] decoder = "ID" -> {<<"bytes">>}
    [] decoder = "Balance" -> {<<"value">>}
    [] decoder \in {"I32", "I128"} -> {<<"bits">>}
    [] decoder = "Field" ->
         {<<"value", "score">>, <<"value", "value", "index", "bits">>,
          <<"value", "value", "sqrt_price">>, <<"value", "value", "liquidity_net", "bits">>}
    [] decoder = "Node" ->
         {<<"score">>, <<"value", "index", "bits">>, <<"value", "sqrt_price">>,
          <<"value", "liquidity_net", "bits">>}
    [] decoder = "Tick" -> {<<"index", "bits">>, <<"sqrt_price">>, <<"liquidity_net", "bits">>}
    [] OTHER -> {}

\* The names a need is made of are names of fields.
LEMMA Words ==
  {"coin_a", "coin_b", "tick_spacing", "fee_rate", "liquidity", "current_sqrt_price",
   "current_tick_index", "is_pause", "tick_manager", "ticks", "id", "bytes", "value", "bits",
   "score", "index", "sqrt_price", "liquidity_net"} \subseteq FieldName
<1>1. \A d \in DOMAIN Decoders : DOMAIN Decoders[d].reads \subseteq FieldName
  BY DEF FieldName
<1>2. /\ {"CetusPool", "TickManager", "UID", "ID", "I32", "Node", "Tick"} \subseteq DOMAIN Decoders
      /\ Decoders["CetusPool"] = CetusPoolDecoder /\ Decoders["TickManager"] = TickManagerProxy
      /\ Decoders["UID"] = UidDecoder /\ Decoders["ID"] = IdDecoder
      /\ Decoders["I32"] = I32Decoder /\ Decoders["Node"] = TickNodeDecoder
      /\ Decoders["Tick"] = TickDecoder
  BY DEF Decoders
<1>3. {"coin_a", "coin_b", "tick_spacing", "fee_rate", "liquidity", "current_sqrt_price",
       "current_tick_index", "is_pause", "tick_manager"} \subseteq DOMAIN CetusPoolDecoder.reads
  BY DEF CetusPoolDecoder, Reads
<1>4. /\ "ticks" \in DOMAIN TickManagerProxy.reads /\ "id" \in DOMAIN UidDecoder.reads
      /\ "bytes" \in DOMAIN IdDecoder.reads /\ "bits" \in DOMAIN I32Decoder.reads
  <2>1. "ticks" \in DOMAIN TickManagerProxy.reads
    BY DEF TickManagerProxy, Whole, Reads
  <2>2. "id" \in DOMAIN UidDecoder.reads
    BY DEF UidDecoder, Whole, Reads
  <2>3. "bytes" \in DOMAIN IdDecoder.reads
    BY DEF IdDecoder, Whole, Reads
  <2>4. "bits" \in DOMAIN I32Decoder.reads
    BY DEF I32Decoder, Whole, Reads
  <2> QED BY <2>1, <2>2, <2>3, <2>4
<1>5. {"score", "value"} \subseteq DOMAIN TickNodeDecoder.reads
  BY DEF TickNodeDecoder, Reads
<1>6. {"index", "sqrt_price", "liquidity_net"} \subseteq DOMAIN TickDecoder.reads
  BY DEF TickDecoder, Reads
<1> QED BY <1>1, <1>2, <1>3, <1>4, <1>5, <1>6

\* A path of names, its first name and the rest of it.
LEMMA Paths ==
  ASSUME NEW S
  PROVE  /\ \A a \in S : <<a>> \in Seq(S) /\ <<a>> # <<>> /\ <<a>>[1] = a /\ Len(<<a>>) = 1
         /\ \A a, b \in S :
              /\ <<a, b>> \in Seq(S) /\ <<a, b>> # <<>> /\ <<a, b>>[1] = a
              /\ Tail(<<a, b>>) = <<b>>
         /\ \A a, b, c \in S :
              /\ <<a, b, c>> \in Seq(S) /\ <<a, b, c>> # <<>> /\ <<a, b, c>>[1] = a
              /\ Tail(<<a, b, c>>) = <<b, c>>
         /\ \A a, b, c, d \in S :
              /\ <<a, b, c, d>> \in Seq(S) /\ <<a, b, c, d>> # <<>> /\ <<a, b, c, d>>[1] = a
              /\ Tail(<<a, b, c, d>>) = <<b, c, d>>
         /\ \A a, b, c, d, e \in S :
              /\ <<a, b, c, d, e>> \in Seq(S) /\ <<a, b, c, d, e>> # <<>>
              /\ <<a, b, c, d, e>>[1] = a /\ Tail(<<a, b, c, d, e>>) = <<b, c, d, e>>
OBVIOUS

\* A need is a required scalar, or lies in a required struct.
NeedMet(decoder, q) ==
  LET visitor == Decoders[decoder].reads[q[1]]
  IN  /\ q \in Seq(FieldName) /\ q # <<>> /\ q[1] \in Decoders[decoder].required
      /\ \/ Len(q) = 1 /\ visitor \in Scalar
         \/ visitor \in DOMAIN Decoders /\ Tail(q) \in Needs(visitor)

\* A scalar that is required meets a need.
LEMMA ScalarNeed ==
  ASSUME NEW d, NEW a \in FieldName, a \in Decoders[d].required, Decoders[d].reads[a] \in Scalar
  PROVE  NeedMet(d, <<a>>)
BY Paths DEF NeedMet

\* A path into a required struct, of a need of that struct, is met.
LEMMA NestedNeed ==
  ASSUME NEW d, NEW a \in FieldName, a \in Decoders[d].required, NEW v \in DOMAIN Decoders,
         Decoders[d].reads[a] = v
  PROVE  /\ \A b \in FieldName : <<b>> \in Needs(v) => NeedMet(d, <<a, b>>)
         /\ \A b, c \in FieldName : <<b, c>> \in Needs(v) => NeedMet(d, <<a, b, c>>)
         /\ \A b, c, e \in FieldName : <<b, c, e>> \in Needs(v) => NeedMet(d, <<a, b, c, e>>)
         /\ \A b, c, e, f \in FieldName :
              <<b, c, e, f>> \in Needs(v) => NeedMet(d, <<a, b, c, e, f>>)
<1>1. ASSUME NEW q \in Seq(FieldName), q # <<>>, q[1] = a, Tail(q) \in Needs(v)
      PROVE  NeedMet(d, q)
  BY <1>1 DEF NeedMet
<1>2. ASSUME NEW b \in FieldName, <<b>> \in Needs(v) PROVE NeedMet(d, <<a, b>>)
  BY <1>1, <1>2, Paths
<1>3. ASSUME NEW b \in FieldName, NEW c \in FieldName, <<b, c>> \in Needs(v)
      PROVE  NeedMet(d, <<a, b, c>>)
  BY <1>1, <1>3, Paths
<1>4. ASSUME NEW b \in FieldName, NEW c \in FieldName, NEW e \in FieldName,
             <<b, c, e>> \in Needs(v)
      PROVE  NeedMet(d, <<a, b, c, e>>)
  BY <1>1, <1>4, Paths
<1>5. ASSUME NEW b \in FieldName, NEW c \in FieldName, NEW e \in FieldName,
             NEW f \in FieldName, <<b, c, e, f>> \in Needs(v)
      PROVE  NeedMet(d, <<a, b, c, e, f>>)
  BY <1>1, <1>5, Paths
<1> QED BY <1>2, <1>3, <1>4, <1>5

\* Each need of a pool is met.
LEMMA PoolNeeds == \A q \in Needs("CetusPool") : NeedMet("CetusPool", q)
<1> DEFINE d == Decoders["CetusPool"]
<1>1. d = CetusPoolDecoder
  BY DEF Decoders
<1>2. /\ d.reads["coin_a"] = "Balance" /\ d.reads["coin_b"] = "Balance"
      /\ d.reads["current_tick_index"] = "I32" /\ d.reads["tick_manager"] = "TickManager"
      /\ {d.reads["tick_spacing"], d.reads["fee_rate"], d.reads["liquidity"],
          d.reads["current_sqrt_price"], d.reads["is_pause"]} \subseteq Scalar
      /\ {"coin_a", "coin_b", "current_tick_index", "tick_manager", "tick_spacing", "fee_rate",
          "liquidity", "current_sqrt_price", "is_pause"} \subseteq d.required
  BY <1>1, TypesAssumption DEF CetusPoolDecoder, Reads
<1>3. {"Balance", "I32", "TickManager"} \subseteq DOMAIN Decoders
  BY DEF Decoders
<1>4. /\ <<"value">> \in Needs("Balance") /\ <<"bits">> \in Needs("I32")
      /\ <<"ticks", "id", "id", "bytes">> \in Needs("TickManager")
  BY DEF Needs
<1>5. Needs("CetusPool") =
         {<<"coin_a", "value">>, <<"coin_b", "value">>, <<"tick_spacing">>, <<"fee_rate">>,
          <<"liquidity">>, <<"current_sqrt_price">>, <<"current_tick_index", "bits">>,
          <<"is_pause">>, <<"tick_manager", "ticks", "id", "id", "bytes">>}
  BY DEF Needs
<1> HIDE DEF d
<1>6. ASSUME NEW f \in {"tick_spacing", "fee_rate", "liquidity", "current_sqrt_price", "is_pause"}
      PROVE  NeedMet("CetusPool", <<f>>)
  BY <1>2, Words, ScalarNeed DEF d
<1>7. ASSUME NEW f \in {"coin_a", "coin_b"} PROVE NeedMet("CetusPool", <<f, "value">>)
  BY <1>2, <1>3, <1>4, Words, NestedNeed DEF d
<1>8. NeedMet("CetusPool", <<"current_tick_index", "bits">>)
  BY <1>2, <1>3, <1>4, Words, NestedNeed DEF d
<1>9. NeedMet("CetusPool", <<"tick_manager", "ticks", "id", "id", "bytes">>)
  BY <1>2, <1>3, <1>4, Words, NestedNeed DEF d
<1> QED BY <1>5, <1>6, <1>7, <1>8, <1>9

\* So is each of a tick node.
LEMMA NodeNeeds ==
  \A d \in {"Field", "Node", "Tick"} : \A q \in Needs(d) : NeedMet(d, q)
<1>1. /\ Decoders["Field"] = FieldNodeDecoder /\ Decoders["Node"] = TickNodeDecoder
      /\ Decoders["Tick"] = TickDecoder /\ {"Node", "Tick", "I32", "I128"} \subseteq DOMAIN Decoders
  BY DEF Decoders
<1>2. FieldNodeDecoder.reads["value"] = "Node" /\ "value" \in FieldNodeDecoder.required
  BY DEF FieldNodeDecoder, Whole, Reads
<1>3. /\ TickNodeDecoder.reads["value"] = "Tick" /\ TickNodeDecoder.reads["score"] \in Scalar
      /\ {"value", "score"} \subseteq TickNodeDecoder.required
  BY TypesAssumption DEF TickNodeDecoder, Reads
<1>4. /\ TickDecoder.reads["index"] = "I32" /\ TickDecoder.reads["liquidity_net"] = "I128"
      /\ TickDecoder.reads["sqrt_price"] \in Scalar
      /\ {"index", "liquidity_net", "sqrt_price"} \subseteq TickDecoder.required
  BY TypesAssumption DEF TickDecoder, Reads
<1>5. /\ Needs("Field") =
           {<<"value", "score">>, <<"value", "value", "index", "bits">>,
            <<"value", "value", "sqrt_price">>, <<"value", "value", "liquidity_net", "bits">>}
      /\ Needs("Node") =
           {<<"score">>, <<"value", "index", "bits">>, <<"value", "sqrt_price">>,
            <<"value", "liquidity_net", "bits">>}
      /\ Needs("Tick") = {<<"index", "bits">>, <<"sqrt_price">>, <<"liquidity_net", "bits">>}
      /\ Needs("I32") = {<<"bits">>} /\ Needs("I128") = {<<"bits">>}
  BY DEF Needs
<1>6. NeedMet("Field", <<"value", "score">>)
  BY <1>1, <1>2, <1>5, Words, NestedNeed
<1>7. NeedMet("Field", <<"value", "value", "index", "bits">>)
  BY <1>1, <1>2, <1>5, Words, NestedNeed
<1>8. NeedMet("Field", <<"value", "value", "sqrt_price">>)
  BY <1>1, <1>2, <1>5, Words, NestedNeed
<1>9. NeedMet("Field", <<"value", "value", "liquidity_net", "bits">>)
  BY <1>1, <1>2, <1>5, Words, NestedNeed
<1>10. NeedMet("Node", <<"score">>)
  BY <1>1, <1>3, Words, ScalarNeed
<1>11. NeedMet("Node", <<"value", "index", "bits">>)
  BY <1>1, <1>3, <1>5, Words, NestedNeed
<1>12. NeedMet("Node", <<"value", "sqrt_price">>)
  BY <1>1, <1>3, <1>5, Words, NestedNeed
<1>13. NeedMet("Node", <<"value", "liquidity_net", "bits">>)
  BY <1>1, <1>3, <1>5, Words, NestedNeed
<1>14. NeedMet("Tick", <<"sqrt_price">>)
  BY <1>1, <1>4, Words, ScalarNeed
<1>15. NeedMet("Tick", <<"index", "bits">>)
  BY <1>1, <1>4, <1>5, Words, NestedNeed
<1>16. NeedMet("Tick", <<"liquidity_net", "bits">>)
  BY <1>1, <1>4, <1>5, Words, NestedNeed
<1> QED BY <1>5, <1>6, <1>7, <1>8, <1>9, <1>10, <1>11, <1>12, <1>13, <1>14, <1>15, <1>16

\* And each of the structs they share.
LEMMA SharedNeeds ==
  \A d \in {"TickManager", "SkipList", "UID", "ID", "Balance", "I32", "I128"} :
    \A q \in Needs(d) : NeedMet(d, q)
<1>1. /\ Decoders["TickManager"] = TickManagerProxy /\ Decoders["SkipList"] = SkipListDecoder
      /\ Decoders["UID"] = UidDecoder /\ Decoders["ID"] = IdDecoder
      /\ Decoders["Balance"] = BalanceDecoder /\ Decoders["I32"] = I32Decoder
      /\ Decoders["I128"] = I128Decoder
      /\ {"SkipList", "UID", "ID"} \subseteq DOMAIN Decoders
  BY DEF Decoders
<1>2. TickManagerProxy.reads["ticks"] = "SkipList" /\ "ticks" \in TickManagerProxy.required
  BY DEF TickManagerProxy, Whole, Reads
<1>3. SkipListDecoder.reads["id"] = "UID" /\ "id" \in SkipListDecoder.required
  BY DEF SkipListDecoder, Reads
<1>4. UidDecoder.reads["id"] = "ID" /\ "id" \in UidDecoder.required
  BY DEF UidDecoder, Whole, Reads
<1>5. IdDecoder.reads["bytes"] \in Scalar /\ "bytes" \in IdDecoder.required
  BY TypesAssumption DEF IdDecoder, Whole, Reads
<1>6. BalanceDecoder.reads["value"] \in Scalar /\ "value" \in BalanceDecoder.required
  BY TypesAssumption DEF BalanceDecoder, Whole, Reads
<1>7. I32Decoder.reads["bits"] \in Scalar /\ "bits" \in I32Decoder.required
  BY TypesAssumption DEF I32Decoder, Whole, Reads
<1>8. I128Decoder.reads["bits"] \in Scalar /\ "bits" \in I128Decoder.required
  BY TypesAssumption DEF I128Decoder, Whole, Reads
<1>9. /\ Needs("TickManager") = {<<"ticks", "id", "id", "bytes">>}
      /\ Needs("SkipList") = {<<"id", "id", "bytes">>} /\ Needs("UID") = {<<"id", "bytes">>}
      /\ Needs("ID") = {<<"bytes">>} /\ Needs("Balance") = {<<"value">>}
      /\ Needs("I32") = {<<"bits">>} /\ Needs("I128") = {<<"bits">>}
  BY DEF Needs
<1>10. NeedMet("TickManager", <<"ticks", "id", "id", "bytes">>)
  BY <1>1, <1>2, <1>9, Words, NestedNeed
<1>11. NeedMet("SkipList", <<"id", "id", "bytes">>)
  BY <1>1, <1>3, <1>9, Words, NestedNeed
<1>12. NeedMet("UID", <<"id", "bytes">>)
  BY <1>1, <1>4, <1>9, Words, NestedNeed
<1>13. NeedMet("ID", <<"bytes">>)
  BY <1>1, <1>5, Words, ScalarNeed
<1>14. NeedMet("Balance", <<"value">>)
  BY <1>1, <1>6, Words, ScalarNeed
<1>15. NeedMet("I32", <<"bits">>)
  BY <1>1, <1>7, Words, ScalarNeed
<1>16. NeedMet("I128", <<"bits">>)
  BY <1>1, <1>8, Words, ScalarNeed
<1> QED BY <1>9, <1>10, <1>11, <1>12, <1>13, <1>14, <1>15, <1>16

\* Every need of every decoder is met; what no price is computed from needs nothing.
LEMMA NeedsMet == \A d \in DOMAIN Decoders : \A q \in Needs(d) : NeedMet(d, q)
<1> SUFFICES ASSUME NEW d \in DOMAIN Decoders, NEW q \in Needs(d) PROVE NeedMet(d, q)
  OBVIOUS
<1>1. d \in {"CetusPool", "Field", "Node", "Tick", "TickManager", "SkipList", "UID", "ID",
             "Balance", "I32", "I128"}
  <2>1. Needs(d) # {}
    OBVIOUS
  <2> QED BY <2>1 DEF Needs
<1> QED BY <1>1, PoolNeeds, NodeNeeds, SharedNeeds

\* A path through a struct is the path to it and one inside it.
LEMMA PathThrough ==
  ASSUME NEW S, NEW p \in Seq(S), NEW q \in Seq(S), q # <<>>
  PROVE  /\ Append(p, q[1]) \o Tail(q) = p \o q
         /\ Len(q) = 1 => Append(p, q[1]) = p \o q
<1>1. Append(p, q[1]) \o Tail(q) = p \o q
  OBVIOUS
<1>2. ASSUME Len(q) = 1 PROVE Append(p, q[1]) = p \o q
  <2>0. Append(p, q[1]) \in Seq(S) /\ Tail(q) \in Seq(S) /\ Len(Tail(q)) = 0
    BY <1>2
  <2>1. Append(p, q[1]) \in Seq(S) /\ Tail(q) = <<>>
    BY <2>0
  <2>2. Append(p, q[1]) \o <<>> = Append(p, q[1])
    BY <2>1
  <2> QED BY <1>1, <2>1, <2>2
<1> QED BY <1>1, <1>2

\* A driver.
Shape ==
  [decoder : DOMAIN Decoders, struct : DOMAIN Decoders, path : Seq(FieldName),
   next : Nat \ {0}, read : SUBSET FieldName]

\* Everything a price needs of a struct decoded at a path was read.
Complete(decoder, path, got) == \A q \in Needs(decoder) : path \o q \in got

\* What lies behind a driver and its decoder knows, it has read.
Passed(d) ==
  /\ d.next <= Len(LayoutOf(d.struct)) + 1
  /\ d.read \subseteq DOMAIN Decoders[d.decoder].reads
  /\ \A k \in 1 .. d.next - 1 :
       LayoutOf(d.struct)[k].name \in DOMAIN Decoders[d.decoder].reads
         => LayoutOf(d.struct)[k].name \in d.read

\* The driver above this one reads a field at this path.
Waits(stack, i, decoder, path) ==
  i + 1 \in DOMAIN stack /\ stack[i + 1].decoder = decoder /\ stack[i + 1].path = path

\* What a driver has read is read to the end, or it waits for it.
Understood(stack, i, got) ==
  \A f \in stack[i].read :
    LET visitor == Decoders[stack[i].decoder].reads[f]
        path == Append(stack[i].path, f)
    IN  /\ visitor \in Scalar => path \in got
        /\ visitor \in DOMAIN Decoders =>
             Complete(visitor, path, got) \/ Waits(stack, i, visitor, path)

\* Every struct being read is read up to where its driver stands.
StackOK(stack, got) ==
  /\ stack \in Seq(Shape)
  /\ \A i \in DOMAIN stack : Passed(stack[i]) /\ Understood(stack, i, got)

\* The outermost driver decodes what the gate admitted.
Rooted(stack) ==
  stack # <<>> =>
    /\ wrapped \in Roots
    /\ wrapped \in Venues => LayoutHasShape(wrapped)
    /\ stack[1].decoder = wrapped /\ stack[1].struct = wrapped /\ stack[1].path = <<>>

\* The drifted struct has all its decoder needs, of the types it expects.
Fits ==
  /\ Decoders[drifted].required \subseteq Names(changed)
  /\ TypesMatch(changed, Decoders[drifted])

\* Which struct drifted, and into which layout.
LayoutsTyped ==
  /\ wrapped \in Roots \union {"foreign"} /\ drifted \in Within[wrapped]
  /\ changed \in Drift[Known[drifted]]

\* What has been read and what ended the decoding, together.
TypingInv ==
  /\ LayoutsTyped /\ StackOK(drivers, taken) /\ Rooted(drivers)
  /\ typing \in {"named", "decoding", "typed", "UnknownVenue", "MissingField", "UnexpectedType"}
  /\ typing = "named" => drivers = <<>>
  /\ typing = "decoding" => drivers # <<>>
  /\ typing = "typed" => Complete(wrapped, <<>>, taken)
  /\ typing = "MissingField" /\ wrapped \in Venues => Len(drivers) > 1
  /\ typing = "UnknownVenue" => Unrecognised
  /\ Fits => /\ \A i \in DOMAIN drivers : drivers[i].decoder = drivers[i].struct
             /\ typing \notin {"MissingField", "UnexpectedType"}

\* Layouts, the drifted one among them, are sequences of fields.
LEMMA LayoutFacts ==
  ASSUME LayoutsTyped
  PROVE  /\ drifted \in DOMAIN Decoders
         /\ \A s \in DOMAIN Decoders : LayoutOf(s) \in Layout
         /\ Fits => \A s \in DOMAIN Decoders :
                      /\ Decoders[s].required \subseteq Names(LayoutOf(s))
                      /\ TypesMatch(LayoutOf(s), Decoders[s])
<1>1. drifted \in DOMAIN Decoders
  BY LayoutAssumption DEF LayoutsTyped
<1>2. changed \in Layout
  BY <1>1, LayoutAssumption DEF LayoutsTyped
<1> QED BY <1>1, <1>2, LayoutAssumption DEF LayoutOf, Fits

\* The roots are structs a decoder knows.
LEMMA RootsKnown == Roots \subseteq DOMAIN Decoders
BY DEF Roots, Venues, Decoders

\* A field of a layout has a name.
LEMMA FieldNamed ==
  ASSUME LayoutsTyped, NEW s \in DOMAIN Decoders, NEW k \in 1 .. Len(LayoutOf(s))
  PROVE  LayoutOf(s)[k].name \in FieldName
<1> DEFINE field == [name : FieldName, type : Scalar \union DOMAIN Vector \union DOMAIN Decoders]
<1>1. LayoutOf(s) \in Seq(field)
  BY LayoutFacts DEF Layout
<1>2. LayoutOf(s)[k] \in field
  <2> HIDE DEF field
  <2> QED BY <1>1
<1> QED BY <1>2

\* The innermost driver is the only one that moves.
LEMMA AdvancedFacts ==
  ASSUME drivers \in Seq(Shape), drivers # <<>>, NEW read \in SUBSET FieldName
  PROVE  /\ Advanced(read) \in Seq(Shape) /\ Len(Advanced(read)) = Len(drivers)
         /\ \A i \in 1 .. Len(drivers) - 1 : Advanced(read)[i] = drivers[i]
         /\ Advanced(read)[Len(drivers)] = Moved(read) /\ Moved(read) \in Shape
<1>1. Len(drivers) \in DOMAIN drivers /\ Innermost \in Shape
  BY DEF Innermost
<1>2. Moved(read) \in Shape
  BY <1>1 DEF Moved, Shape
<1>3. Advanced(read) = [drivers EXCEPT ![Len(drivers)] = Moved(read)]
  BY DEF Advanced
<1> QED BY <1>1, <1>2, <1>3

\* What was read to the end stays so as more is read.
LEMMA StillUnderstood ==
  ASSUME NEW old, NEW new, NEW i, NEW taken0, NEW got, taken0 \subseteq got,
         Understood(old, i, taken0), new[i].decoder = old[i].decoder, new[i].path = old[i].path,
         new[i].read = old[i].read,
         i + 1 \in DOMAIN old =>
           /\ i + 1 \in DOMAIN new /\ new[i + 1].decoder = old[i + 1].decoder
           /\ new[i + 1].path = old[i + 1].path
  PROVE  Understood(new, i, got)
BY DEF Understood, Complete, Waits

\* Past the next field, read or skipped, the innermost driver has read what lies behind.
LEMMA MovedPassed ==
  ASSUME LayoutsTyped, StackOK(drivers, taken), drivers # <<>>, NEW b \in BOOLEAN, AtField(b)
  PROVE  /\ Field.name \in FieldName /\ Passed(Moved(IF b THEN {Field.name} ELSE {}))
         /\ Innermost \in Shape /\ Len(drivers) \in DOMAIN drivers
<1>1. Len(drivers) \in DOMAIN drivers /\ Innermost \in Shape /\ Passed(Innermost)
  BY DEF StackOK, Innermost
<1>2. /\ Innermost.decoder \in DOMAIN Decoders /\ Innermost.struct \in DOMAIN Decoders
      /\ Innermost.next \in Nat \ {0} /\ Innermost.path \in Seq(FieldName)
      /\ Innermost.read \subseteq FieldName
  BY <1>1 DEF Shape
<1>3. Fields = LayoutOf(Innermost.struct) /\ Field = LayoutOf(Innermost.struct)[Innermost.next]
  BY DEF Fields, Field
<1>4. Innermost.next \in 1 .. Len(LayoutOf(Innermost.struct))
  <2>1. Len(LayoutOf(Innermost.struct)) \in Nat
    BY <1>2, LayoutFacts DEF Layout
  <2> QED BY <1>2, <1>3, <2>1 DEF AtField
<1>5. Field.name \in FieldName
  BY <1>2, <1>3, <1>4, FieldNamed
<1> DEFINE read == IF b THEN {Field.name} ELSE {}
           m == Moved(read)
<1>6. /\ m.decoder = Innermost.decoder /\ m.struct = Innermost.struct
      /\ m.next = Innermost.next + 1 /\ m.read = Innermost.read \union read
  BY DEF Moved
<1>7. (Field.name \in DOMAIN Decoders[Innermost.decoder].reads) = b
  BY DEF AtField
<1> HIDE DEF m
<1>8. Passed(m)
  <2>1. Len(LayoutOf(Innermost.struct)) \in Nat
    BY <1>2, LayoutFacts DEF Layout
  <2>2. m.read \subseteq DOMAIN Decoders[m.decoder].reads
    BY <1>1, <1>6, <1>7 DEF Passed
  <2>3. ASSUME NEW k \in 1 .. m.next - 1,
               LayoutOf(m.struct)[k].name \in DOMAIN Decoders[m.decoder].reads
        PROVE  LayoutOf(m.struct)[k].name \in m.read
    <3>1. CASE k = Innermost.next
      BY <1>3, <1>6, <1>7, <2>3, <3>1
    <3>2. CASE k \in 1 .. Innermost.next - 1
      BY <1>1, <1>6, <2>3, <3>2 DEF Passed
    <3> QED BY <1>2, <1>6, <3>1, <3>2
  <2> QED BY <1>2, <1>4, <1>6, <2>1, <2>2, <2>3 DEF Passed
<1> QED BY <1>1, <1>5, <1>8 DEF m

\* So the whole stack stays in order when its innermost driver moves on, and when it
\* also waits for a new one.
LEMMA Advance ==
  ASSUME LayoutsTyped, StackOK(drivers, taken), drivers # <<>>, NEW b \in BOOLEAN, AtField(b),
         NEW got, taken \subseteq got, NEW stack \in Seq(Shape),
         Len(stack) \in {Len(drivers), Len(drivers) + 1},
         \A i \in 1 .. Len(drivers) - 1 : stack[i] = drivers[i],
         stack[Len(drivers)] = Moved(IF b THEN {Field.name} ELSE {}),
         Len(stack) = Len(drivers) + 1 => stack[Len(stack)].next = 1 /\ stack[Len(stack)].read = {},
         b /\ Visitor \in Scalar => Here \in got,
         b /\ Visitor \in DOMAIN Decoders =>
           /\ Len(stack) = Len(drivers) + 1
           /\ stack[Len(stack)].decoder = Visitor /\ stack[Len(stack)].path = Here
  PROVE  StackOK(stack, got)
<1> DEFINE n == Len(drivers)
           m == Moved(IF b THEN {Field.name} ELSE {})
<1>1. /\ Field.name \in FieldName /\ Passed(m) /\ Innermost \in Shape /\ n \in DOMAIN drivers
  BY MovedPassed
<1>2. drivers \in Seq(Shape) /\ n \in Nat \ {0} /\ DOMAIN drivers = 1 .. n
  BY <1>1 DEF StackOK
<1>3. /\ m.decoder = Innermost.decoder /\ m.path = Innermost.path
      /\ m.read = Innermost.read \union (IF b THEN {Field.name} ELSE {})
  BY DEF Moved
<1>4. Innermost = drivers[n] /\ stack[n] = m
  BY DEF Innermost
<1>5. Here = Append(m.path, Field.name) /\ Visitor = Decoders[m.decoder].reads[Field.name]
  BY <1>3 DEF Here, Visitor
<1> HIDE DEF m
<1>6. ASSUME NEW i \in 1 .. n - 1 PROVE Passed(stack[i]) /\ Understood(stack, i, got)
  <2>1. Passed(drivers[i]) /\ Understood(drivers, i, taken) /\ stack[i] = drivers[i]
    BY <1>2 DEF StackOK
  <2>2. /\ i + 1 \in DOMAIN stack /\ stack[i + 1].decoder = drivers[i + 1].decoder
        /\ stack[i + 1].path = drivers[i + 1].path
    <3>1. CASE i + 1 = n
      BY <1>2, <1>3, <1>4, <3>1
    <3>2. CASE i + 1 # n
      <4>1. i + 1 \in 1 .. n - 1 /\ i + 1 \in DOMAIN stack
        BY <1>2, <3>2
      <4>2. stack[i + 1] = drivers[i + 1]
        BY <4>1
      <4> QED BY <4>1, <4>2
    <3> QED BY <3>1, <3>2
  <2> QED BY <2>1, <2>2, StillUnderstood
<1>7. Understood(stack, n, got)
  <2> SUFFICES ASSUME NEW f \in m.read
               PROVE  LET visitor == Decoders[m.decoder].reads[f]
                          path == Append(m.path, f)
                      IN  /\ visitor \in Scalar => path \in got
                          /\ visitor \in DOMAIN Decoders =>
                               Complete(visitor, path, got) \/ Waits(stack, n, visitor, path)
    BY <1>4 DEF Understood
  <2>1. CASE f \in Innermost.read
    <3>1. Understood(drivers, n, taken)
      BY <1>2 DEF StackOK
    <3>2. ~Waits(drivers, n, Decoders[m.decoder].reads[f], Append(m.path, f))
      BY <1>2 DEF Waits
    <3> DEFINE visitor == Decoders[m.decoder].reads[f]
               path == Append(m.path, f)
    <3>3. /\ visitor \in Scalar => path \in taken
          /\ visitor \in DOMAIN Decoders => Complete(visitor, path, taken)
      BY <1>3, <1>4, <2>1, <3>1, <3>2 DEF Understood
    <3>4. Complete(visitor, path, taken) => Complete(visitor, path, got)
      BY DEF Complete
    <3> QED BY <3>3, <3>4
  <2>2. CASE b /\ f = Field.name
    <3>1. Visitor = Decoders[m.decoder].reads[f] /\ Here = Append(m.path, f)
      BY <1>5, <2>2
    <3>2. ASSUME Visitor \in DOMAIN Decoders PROVE Waits(stack, n, Visitor, Here)
      <4>1. /\ Len(stack) = n + 1 /\ stack[n + 1].decoder = Visitor
            /\ stack[n + 1].path = Here
        BY <2>2, <3>2
      <4>2. n + 1 \in DOMAIN stack
        BY <1>2, <4>1
      <4> QED BY <4>1, <4>2 DEF Waits
    <3> QED BY <2>2, <3>1, <3>2
  <2> QED BY <1>3, <2>1, <2>2
<1>8. ASSUME Len(stack) = n + 1
      PROVE  Passed(stack[n + 1]) /\ Understood(stack, n + 1, got)
  <2>1. stack[n + 1] \in Shape
    BY <1>2, <1>8
  <2>2. stack[n + 1].struct \in DOMAIN Decoders
    BY <2>1 DEF Shape
  <2>3. Len(LayoutOf(stack[n + 1].struct)) \in Nat
    BY <2>2, LayoutFacts DEF Layout
  <2> QED BY <1>8, <2>3 DEF Passed, Understood
<1>9. ASSUME NEW i \in DOMAIN stack PROVE Passed(stack[i]) /\ Understood(stack, i, got)
  <2>1. i \in 1 .. n - 1 \/ i = n \/ (i = n + 1 /\ Len(stack) = n + 1)
    BY <1>2
  <2> QED BY <1>1, <1>4, <1>6, <1>7, <1>8, <2>1
<1> QED BY <1>9 DEF StackOK

\* A decoder reads what it requires.
LEMMA RequiredRead ==
  \A d \in DOMAIN Decoders : Decoders[d].required \subseteq DOMAIN Decoders[d].reads
<1>1. \A fields : Whole(fields).required \subseteq DOMAIN Whole(fields).reads
  BY DEF Whole, Reads
<1>2. CetusPoolDecoder.required \subseteq DOMAIN CetusPoolDecoder.reads
  BY DEF CetusPoolDecoder, Reads
<1>3. TickNodeDecoder.required \subseteq DOMAIN TickNodeDecoder.reads
  BY DEF TickNodeDecoder, Reads
<1>4. TickDecoder.required \subseteq DOMAIN TickDecoder.reads
  BY DEF TickDecoder, Reads
<1>5. SkipListDecoder.required \subseteq DOMAIN SkipListDecoder.reads
  BY DEF SkipListDecoder, Reads
<1>6. /\ ValidatorSetDecoder.required = {} /\ NaviStorageDecoder.required = {}
      /\ VecMapDecoder.required = {}
  BY DEF ValidatorSetDecoder, NaviStorageDecoder, VecMapDecoder, Reads
<1> DEFINE ok(d) == d.required \subseteq DOMAIN d.reads
<1>7. /\ ok(VoloPoolDecoder) /\ ok(BalanceDecoder) /\ ok(MoveStringDecoder)
      /\ ok(TickManagerProxy) /\ ok(BalanceHolderDecoder) /\ ok(TableSizeDecoder)
      /\ ok(VecMapEntryDecoder) /\ ok(UidDecoder) /\ ok(IdDecoder) /\ ok(FieldNodeDecoder)
      /\ ok(RandomDecoder) /\ ok(I32Decoder) /\ ok(I128Decoder) /\ ok(OptionU64Decoder)
  BY <1>1 DEF VoloPoolDecoder, BalanceDecoder, MoveStringDecoder, TickManagerProxy,
    BalanceHolderDecoder, TableSizeDecoder, VecMapEntryDecoder, UidDecoder, IdDecoder,
    FieldNodeDecoder, RandomDecoder, I32Decoder, I128Decoder, OptionU64Decoder
<1> SUFFICES ASSUME NEW d \in DOMAIN Decoders PROVE ok(Decoders[d])
  OBVIOUS
<1>8. Decoders[d] \in
        {CetusPoolDecoder, VoloPoolDecoder, NaviStorageDecoder, ValidatorSetDecoder,
         BalanceDecoder, MoveStringDecoder, TickManagerProxy, BalanceHolderDecoder,
         TableSizeDecoder, VecMapDecoder, VecMapEntryDecoder, UidDecoder, IdDecoder,
         FieldNodeDecoder, TickNodeDecoder, TickDecoder, SkipListDecoder, RandomDecoder,
         I32Decoder, I128Decoder, OptionU64Decoder}
  BY DEF Decoders
<1> QED BY <1>2, <1>3, <1>4, <1>5, <1>6, <1>7, <1>8

\* What holds of a stack holds after a step, which changes no layout.
LEMMA SameLayouts ==
  ASSUME UNCHANGED <<wrapped, drifted, changed>>, LayoutsTyped, StackOK(drivers', taken'),
         Rooted(drivers')
  PROVE  /\ LayoutsTyped' /\ StackOK(drivers, taken)' /\ Rooted(drivers)'
         /\ Fits' = Fits /\ Unrecognised' = Unrecognised
<1>1. LayoutsTyped' /\ Fits' = Fits
  BY DEF LayoutsTyped, Fits
<1>2. \A s : LayoutOf(s)' = LayoutOf(s)
  BY DEF LayoutOf
<1>3. \A v : LayoutHasShape(v)' = LayoutHasShape(v)
  BY <1>2 DEF LayoutHasShape
<1>4. Unrecognised' = Unrecognised
  BY <1>3 DEF Unrecognised
<1>5. \A d : Passed(d)' = Passed(d)
  BY <1>2 DEF Passed
<1>6. StackOK(drivers, taken)'
  BY <1>5 DEF StackOK
<1>7. Rooted(drivers)'
  BY <1>3 DEF Rooted
<1> QED BY <1>1, <1>4, <1>6, <1>7

\* How the stack looks after the innermost driver moves past a field: the same but for
\* that driver, or with a new one above it, which reads the field.
Grown(stack, b, got) ==
  /\ stack \in Seq(Shape) /\ taken \subseteq got
  /\ Len(stack) \in {Len(drivers), Len(drivers) + 1}
  /\ \A i \in 1 .. Len(drivers) - 1 : stack[i] = drivers[i]
  /\ stack[Len(drivers)] = Moved(IF b THEN {Field.name} ELSE {})
  /\ Len(stack) = Len(drivers) + 1 =>
       /\ stack[Len(stack)].next = 1 /\ stack[Len(stack)].read = {}
       /\ Fits => stack[Len(stack)].decoder = stack[Len(stack)].struct
  /\ b /\ Visitor \in Scalar => Here \in got
  /\ b /\ Visitor \in DOMAIN Decoders =>
       /\ Len(stack) = Len(drivers) + 1
       /\ stack[Len(stack)].decoder = Visitor /\ stack[Len(stack)].path = Here

\* Growing keeps the invariant.
LEMMA GrownKeeps ==
  ASSUME TypingInv, typing = "decoding", NEW b \in BOOLEAN, AtField(b),
         Grown(drivers', b, taken'), UNCHANGED <<wrapped, drifted, changed, typing>>
  PROVE  TypingInv'
<1> DEFINE n == Len(drivers)
<1>1. LayoutsTyped /\ StackOK(drivers, taken) /\ drivers # <<>> /\ Rooted(drivers)
  BY DEF TypingInv
<1>2. StackOK(drivers', taken')
  BY <1>1, Advance DEF Grown
<1>3. drivers \in Seq(Shape) /\ n \in Nat \ {0} /\ Innermost = drivers[n]
  BY <1>1 DEF StackOK, Innermost
<1>4. /\ drivers' \in Seq(Shape) /\ Len(drivers') \in {n, n + 1}
      /\ \A i \in 1 .. n - 1 : drivers'[i] = drivers[i]
      /\ drivers'[n].decoder = drivers[n].decoder /\ drivers'[n].struct = drivers[n].struct
      /\ drivers'[n].path = drivers[n].path
      /\ Len(drivers') = n + 1 /\ Fits => drivers'[n + 1].decoder = drivers'[n + 1].struct
  BY <1>3 DEF Grown, Moved
<1>5. Rooted(drivers')
  <2>1. /\ drivers'[1].decoder = drivers[1].decoder /\ drivers'[1].struct = drivers[1].struct
        /\ drivers'[1].path = drivers[1].path
    <3>1. CASE n = 1
      BY <1>4, <3>1
    <3>2. CASE n # 1
      <4>0. n \in Nat /\ n # 0
        BY <1>3
      <4> HIDE DEF n
      <4>1. 1 \in 1 .. n - 1
        BY <4>0, <3>2
      <4>2. drivers'[1] = drivers[1]
        BY <1>4, <4>1
      <4> QED BY <4>2
    <3> QED BY <3>1, <3>2
  <2> QED BY <1>1, <2>1 DEF Rooted
<1>6. Fits => \A i \in DOMAIN drivers' : drivers'[i].decoder = drivers'[i].struct
  <2> SUFFICES ASSUME Fits, NEW i \in DOMAIN drivers'
               PROVE  drivers'[i].decoder = drivers'[i].struct
    OBVIOUS
  <2>1. \A j \in DOMAIN drivers : drivers[j].decoder = drivers[j].struct
    BY DEF TypingInv
  <2>2. i \in 1 .. n - 1 \/ i = n \/ (i = n + 1 /\ Len(drivers') = n + 1)
    BY <1>3, <1>4
  <2> QED BY <1>3, <1>4, <2>1, <2>2
<1>7. drivers' # <<>>
  BY <1>3, <1>4
<1>8. /\ LayoutsTyped' /\ StackOK(drivers, taken)' /\ Rooted(drivers)' /\ Fits' = Fits
  BY <1>1, <1>2, <1>5, SameLayouts
<1> QED BY <1>6, <1>7, <1>8 DEF TypingInv

\* The initial states satisfy it.
LEMMA InitTyping == DecodingInit => TypingInv
<1> SUFFICES ASSUME DecodingInit PROVE TypingInv
  OBVIOUS
<1>1. LayoutsTyped /\ drivers = <<>> /\ typing = "named"
  BY DEF DecodingInit, NothingRead, LayoutsTyped
<1>2. StackOK(drivers, taken)
  BY <1>1 DEF StackOK
<1>3. Rooted(drivers)
  BY <1>1 DEF Rooted
<1> QED BY <1>1, <1>2, <1>3 DEF TypingInv

\* So does the gate.
LEMMA GateKeeps == ASSUME TypingInv, Gate PROVE TypingInv'
<1>1. LayoutsTyped /\ drivers = <<>> /\ StackOK(drivers, taken) /\ Rooted(drivers)
  BY DEF TypingInv, Gate
<1>2. CASE Unrecognised
  <2>1. drivers' = drivers /\ taken' = taken /\ typing' = "UnknownVenue"
    BY <1>2 DEF Gate
  <2>2. /\ LayoutsTyped' /\ StackOK(drivers, taken)' /\ Rooted(drivers)'
        /\ Fits' = Fits /\ Unrecognised' = Unrecognised
    BY <1>1, <2>1, SameLayouts DEF Gate
  <2> QED BY <1>1, <1>2, <2>1, <2>2 DEF TypingInv
<1>3. CASE ~Unrecognised
  <2> DEFINE d == Driver(wrapped, wrapped, <<>>)
  <2>1. drivers' = <<d>> /\ taken' = taken /\ typing' = "decoding"
    BY <1>3 DEF Gate
  <2>2. wrapped \in Roots /\ (wrapped \in Venues => LayoutHasShape(wrapped))
    BY <1>1, <1>3 DEF Unrecognised, LayoutsTyped
  <2>3. wrapped \in DOMAIN Decoders
    BY <2>2, RootsKnown
  <2>4. /\ d.decoder = wrapped /\ d.struct = wrapped /\ d.path = <<>> /\ d.next = 1
        /\ d.read = {}
    BY DEF Driver
  <2>5. d \in Shape
    BY <2>3 DEF Driver, Shape
  <2>6. Len(LayoutOf(wrapped)) \in Nat
    BY <1>1, <2>3, LayoutFacts DEF Layout
  <2> HIDE DEF d
  <2>7. drivers' \in Seq(Shape) /\ Len(drivers') = 1 /\ drivers'[1] = d
    BY <2>1, <2>5
  <2>8. Passed(d) /\ Understood(drivers', 1, taken')
    BY <2>4, <2>6, <2>7 DEF Passed, Understood
  <2>9. StackOK(drivers', taken') /\ Rooted(drivers')
    BY <2>2, <2>4, <2>7, <2>8 DEF StackOK, Rooted
  <2>10. LayoutsTyped' /\ StackOK(drivers, taken)' /\ Rooted(drivers)' /\ Fits' = Fits
    BY <1>1, <2>9, SameLayouts DEF Gate
  <2>11. /\ drivers' # <<>>
         /\ \A i \in DOMAIN drivers' : drivers'[i].decoder = drivers'[i].struct
    <3>1. DOMAIN drivers' = {1}
      BY <2>7
    <3>2. drivers' # <<>>
      BY <2>7
    <3> QED BY <2>4, <2>7, <3>1, <3>2
  <2>12. Fits' => /\ \A i \in DOMAIN drivers' : drivers'[i].decoder = drivers'[i].struct
                  /\ typing' \notin {"MissingField", "UnexpectedType"}
    BY <2>1, <2>11
  <2>13. typing' = "decoding" /\ drivers' # <<>>
    BY <2>1, <2>11
  <2> QED BY <2>10, <2>12, <2>13 DEF TypingInv
<1> QED BY <1>2, <1>3

\* And a field that no decoder reads.
LEMMA SkipKeeps == ASSUME TypingInv, SkipField PROVE TypingInv'
<1>1. AtField(FALSE) /\ typing = "decoding" /\ drivers' = Advanced({}) /\ taken' = taken
  BY DEF SkipField, AtField
<1>2. drivers \in Seq(Shape) /\ drivers # <<>>
  BY <1>1 DEF TypingInv, StackOK
<1>3. Grown(drivers', FALSE, taken')
  BY <1>1, <1>2, AdvancedFacts DEF Grown
<1> QED BY <1>1, <1>3, GrownKeeps DEF SkipField

\* The field the innermost driver is at, and, where the drifted layout fits, its type.
LEMMA AtFieldFacts ==
  ASSUME TypingInv, AtField(TRUE)
  PROVE  /\ drivers \in Seq(Shape) /\ drivers # <<>> /\ Innermost \in Shape
         /\ Field.name \in FieldName /\ Here \in Seq(FieldName)
         /\ Visitor \in Scalar \union DOMAIN Vector \union DOMAIN Decoders
         /\ Fits => Field.type = Visitor
<1>1. /\ LayoutsTyped /\ StackOK(drivers, taken) /\ drivers # <<>> /\ typing = "decoding"
      /\ drivers \in Seq(Shape)
  BY DEF TypingInv, AtField, StackOK
<1>2. Innermost \in Shape /\ Field.name \in FieldName /\ Len(drivers) \in DOMAIN drivers
  BY <1>1, MovedPassed
<1>3. /\ Innermost.decoder \in DOMAIN Decoders /\ Innermost.struct \in DOMAIN Decoders
      /\ Innermost.next \in Nat \ {0} /\ Innermost.path \in Seq(FieldName)
  BY <1>2 DEF Shape
<1>4. Here \in Seq(FieldName)
  BY <1>2, <1>3 DEF Here
<1>5. Field.name \in DOMAIN Decoders[Innermost.decoder].reads
  BY DEF AtField
<1>6. Visitor \in Scalar \union DOMAIN Vector \union DOMAIN Decoders
  BY <1>3, <1>5, TypesAssumption DEF Visitor
<1>7. ASSUME Fits PROVE Field.type = Visitor
  <2>1. Innermost.decoder = Innermost.struct
    BY <1>2, <1>7 DEF TypingInv, Innermost
  <2>2. TypesMatch(Fields, Decoders[Innermost.decoder])
    BY <1>1, <1>3, <1>7, <2>1, LayoutFacts DEF Fields
  <2>3. Innermost.next \in DOMAIN Fields
    <3>1. Len(Fields) \in Nat /\ DOMAIN Fields = 1 .. Len(Fields)
      BY <1>1, <1>3, LayoutFacts DEF Fields, Layout
    <3> QED BY <1>3, <3>1 DEF AtField
  <2> QED BY <1>5, <2>2, <2>3 DEF TypesMatch, Field, Visitor
<1> QED BY <1>1, <1>2, <1>4, <1>6, <1>7

\* What is appended comes last, and the rest stays.
LEMMA Appended ==
  ASSUME NEW S, NEW s \in Seq(S), NEW x \in S
  PROVE  /\ Append(s, x) \in Seq(S) /\ Len(Append(s, x)) = Len(s) + 1
         /\ Append(s, x)[Len(s) + 1] = x /\ \A i \in 1 .. Len(s) : Append(s, x)[i] = s[i]
OBVIOUS

\* A driver on the stack for a struct in a field.
LEMMA PushKeeps ==
  ASSUME TypingInv, AtField(TRUE), NEW v \in DOMAIN Decoders, NEW t \in DOMAIN Decoders,
         Visitor \notin Scalar, Visitor \in DOMAIN Decoders => v = Visitor, Fits => v = t,
         drivers' = Append(Advanced({Field.name}), Driver(v, t, Here)), taken' = taken,
         UNCHANGED <<wrapped, drifted, changed, typing>>
  PROVE  TypingInv'
<1> DEFINE n == Len(drivers)
           above == Advanced({Field.name})
           d == Driver(v, t, Here)
<1>1. /\ drivers \in Seq(Shape) /\ drivers # <<>> /\ Field.name \in FieldName
      /\ Here \in Seq(FieldName)
  BY AtFieldFacts
<1>2. /\ above \in Seq(Shape) /\ Len(above) = n
      /\ \A i \in 1 .. n - 1 : above[i] = drivers[i]
      /\ above[n] = Moved({Field.name})
  BY <1>1, AdvancedFacts
<1>3. /\ d \in Shape /\ d.decoder = v /\ d.struct = t /\ d.path = Here /\ d.next = 1
      /\ d.read = {}
  BY <1>1 DEF Driver, Shape
<1>4. n \in Nat \ {0}
  BY <1>1
<1> HIDE DEF above, d
<1>5. drivers' = Append(above, d)
  BY DEF above, d
<1>6. /\ drivers' \in Seq(Shape) /\ Len(drivers') = n + 1 /\ drivers'[n + 1] = d
      /\ \A i \in 1 .. n : drivers'[i] = above[i]
  <2>1. /\ Append(above, d) \in Seq(Shape) /\ Len(Append(above, d)) = Len(above) + 1
        /\ Append(above, d)[Len(above) + 1] = d
        /\ \A i \in 1 .. Len(above) : Append(above, d)[i] = above[i]
    BY <1>2, <1>3, Appended
  <2> QED BY <1>2, <1>5, <2>1
<1>7. /\ drivers'[n] = Moved({Field.name}) /\ drivers'[Len(drivers')] = d
      /\ \A i \in 1 .. n - 1 : drivers'[i] = drivers[i]
  <2>1. n \in 1 .. n /\ \A i \in 1 .. n - 1 : i \in 1 .. n
    <3> HIDE DEF n
    <3> QED BY <1>4
  <2>2. drivers'[n] = above[n]
    BY <1>6, <2>1
  <2>3. \A i \in 1 .. n - 1 : drivers'[i] = above[i] /\ above[i] = drivers[i]
    BY <1>2, <1>6, <2>1
  <2> QED BY <1>2, <1>6, <2>2, <2>3
<1>8. Grown(drivers', TRUE, taken')
  <2>1. /\ drivers' \in Seq(Shape) /\ taken \subseteq taken' /\ Len(drivers') = n + 1
    BY <1>6
  <2> QED BY <1>3, <1>7, <2>1 DEF Grown
<1>9. typing = "decoding"
  BY DEF AtField
<1> QED BY <1>8, <1>9, GrownKeeps

\* A scalar or an empty vector taken.
LEMMA TakenKeeps ==
  ASSUME TypingInv, AtField(TRUE), Visitor \notin DOMAIN Decoders,
         drivers' = Advanced({Field.name}), taken' = taken \union {Here},
         UNCHANGED <<wrapped, drifted, changed, typing>>
  PROVE  TypingInv'
<1>1. drivers \in Seq(Shape) /\ drivers # <<>> /\ Field.name \in FieldName
  BY AtFieldFacts
<1>2. Grown(drivers', TRUE, taken')
  BY <1>1, AdvancedFacts DEF Grown
<1>3. typing = "decoding"
  BY DEF AtField
<1> QED BY <1>2, <1>3, GrownKeeps

\* A field that is read.
LEMMA TakeKeeps == ASSUME TypingInv, TakeField PROVE TypingInv'
<1>1. AtField(TRUE) /\ UNCHANGED <<wrapped, drifted, changed, typing>>
  BY DEF TakeField
<1>2. ASSUME NEW v, NEW t, TakeScalar(v, t), Visitor = v \/ Visitor \in DOMAIN Vector
      PROVE  TypingInv'
  <2>1. Visitor \notin DOMAIN Decoders
    BY <1>2, TypesAssumption DEF TakeScalar
  <2> QED BY <1>1, <1>2, <2>1, TakenKeeps DEF TakeScalar
<1>3. ASSUME NEW v, NEW t, EnterStruct(v, t), Fits => v = t,
             Visitor = v \/ Visitor \in DOMAIN Vector
      PROVE  TypingInv'
  <2>1. Visitor \notin Scalar /\ (Visitor \in DOMAIN Decoders => v = Visitor)
    BY <1>3, TypesAssumption DEF EnterStruct
  <2> QED BY <1>1, <1>3, <2>1, PushKeeps DEF EnterStruct
<1>4. CASE Take(Visitor, Field.type)
  BY <1>1, <1>2, <1>3, <1>4, AtFieldFacts DEF Take
<1>5. CASE TakeEmptyVector(Visitor, Field.type)
  <2>1. Visitor \notin DOMAIN Decoders
    BY <1>5, TypesAssumption DEF TakeEmptyVector
  <2> QED BY <1>1, <1>5, <2>1, TakenKeeps DEF TakeEmptyVector
<1>6. CASE /\ Visitor \in DOMAIN Vector /\ Field.type \in DOMAIN Vector
           /\ Take(Vector[Visitor], Vector[Field.type])
  <2>1. Fits => Vector[Visitor] = Vector[Field.type]
    BY <1>1, AtFieldFacts
  <2> QED BY <1>2, <1>3, <1>6, <2>1 DEF Take
<1> QED BY <1>4, <1>5, <1>6 DEF TakeField

\* A field of another type than its visitor takes.
LEMMA WrongTypeKeeps == ASSUME TypingInv, WrongType PROVE TypingInv'
<1>1. AtField(TRUE) /\ typing' = "UnexpectedType" /\ UNCHANGED <<drivers, taken>>
  BY DEF WrongType
<1>2. ~Fits
  <2> SUFFICES ASSUME Fits PROVE FALSE
    OBVIOUS
  <2>1. /\ Field.type = Visitor
        /\ Visitor \in Scalar \union DOMAIN Vector \union DOMAIN Decoders
    BY <1>1, AtFieldFacts
  <2>2. Visitor \in DOMAIN Vector
    BY <2>1 DEF WrongType, Accepts
  <2>3. Vector[Visitor] \in Scalar \union DOMAIN Decoders
    BY <2>2, TypesAssumption
  <2> QED BY <2>1, <2>2, <2>3 DEF WrongType, Accepts
<1>3. /\ LayoutsTyped /\ StackOK(drivers, taken) /\ Rooted(drivers)
  BY DEF TypingInv
<1>4. LayoutsTyped' /\ StackOK(drivers, taken)' /\ Rooted(drivers)' /\ Fits' = Fits
  BY <1>1, <1>3, SameLayouts DEF WrongType
<1> QED BY <1>1, <1>2, <1>4 DEF TypingInv

\* At the end of a layout, a driver has read all it requires that the layout has.
LEMMA RequiredBehind ==
  ASSUME TypingInv, typing = "decoding", Innermost.next > Len(Fields)
  PROVE  /\ Decoders[Innermost.decoder].required \subseteq Names(Fields)
              => Decoders[Innermost.decoder].required \subseteq Innermost.read
         /\ Innermost \in Shape /\ Len(drivers) \in DOMAIN drivers /\ drivers # <<>>
         /\ Passed(Innermost) /\ Understood(drivers, Len(drivers), taken)
<1>1. /\ LayoutsTyped /\ drivers \in Seq(Shape) /\ drivers # <<>> /\ StackOK(drivers, taken)
  BY DEF TypingInv, StackOK
<1>2. Len(drivers) \in DOMAIN drivers /\ Innermost \in Shape
  BY <1>1 DEF Innermost
<1>3. Passed(Innermost) /\ Understood(drivers, Len(drivers), taken)
  BY <1>1, <1>2 DEF StackOK, Innermost
<1>4. /\ Innermost.decoder \in DOMAIN Decoders /\ Innermost.struct \in DOMAIN Decoders
      /\ Innermost.next \in Nat \ {0}
  BY <1>2 DEF Shape
<1>5. DOMAIN Fields = 1 .. Len(Fields) /\ Len(Fields) \in Nat
  BY <1>1, <1>4, LayoutFacts DEF Fields, Layout
<1>6. ASSUME NEW f \in Decoders[Innermost.decoder].required, f \in Names(Fields)
      PROVE  f \in Innermost.read
  <2>1. PICK k \in DOMAIN Fields : f = Fields[k].name
    BY <1>6 DEF Names
  <2>2. k \in 1 .. Innermost.next - 1
    BY <1>4, <1>5, <2>1
  <2>3. f \in DOMAIN Decoders[Innermost.decoder].reads
    BY <1>4, RequiredRead
  <2> QED BY <1>3, <2>1, <2>2, <2>3 DEF Passed, Fields
<1> QED BY <1>1, <1>2, <1>3, <1>6

\* A driver with all it requires has read, to the end, what a price needs of its struct.
LEMMA LeftComplete ==
  ASSUME TypingInv, typing = "decoding", Innermost.next > Len(Fields),
         Decoders[Innermost.decoder].required \subseteq Innermost.read
  PROVE  Complete(Innermost.decoder, Innermost.path, taken)
<1>1. /\ Innermost \in Shape /\ Len(drivers) \in DOMAIN drivers
      /\ Understood(drivers, Len(drivers), taken)
  BY RequiredBehind
<1>2. Innermost.decoder \in DOMAIN Decoders /\ Innermost.path \in Seq(FieldName)
  BY <1>1 DEF Shape
<1> SUFFICES ASSUME NEW q \in Needs(Innermost.decoder)
             PROVE  Innermost.path \o q \in taken
  BY DEF Complete
<1> DEFINE visitor == Decoders[Innermost.decoder].reads[q[1]]
           path == Append(Innermost.path, q[1])
<1>3. NeedMet(Innermost.decoder, q)
  BY <1>2, NeedsMet
<1>4. q \in Seq(FieldName) /\ q # <<>> /\ q[1] \in Innermost.read
  BY <1>3 DEF NeedMet
<1>5. ~Waits(drivers, Len(drivers), visitor, path)
  <2>1. drivers \in Seq(Shape)
    BY DEF TypingInv, StackOK
  <2> QED BY <2>1 DEF Waits
<1>6. /\ visitor \in Scalar => path \in taken
      /\ visitor \in DOMAIN Decoders => Complete(visitor, path, taken)
  BY <1>1, <1>4, <1>5 DEF Understood, Innermost
<1>7. path \o Tail(q) = Innermost.path \o q /\ (Len(q) = 1 => path = Innermost.path \o q)
  BY <1>2, <1>4, PathThrough
<1>8. \/ Len(q) = 1 /\ visitor \in Scalar
      \/ visitor \in DOMAIN Decoders /\ Tail(q) \in Needs(visitor)
  BY <1>3 DEF NeedMet
<1> HIDE DEF path, visitor
<1>9. CASE Len(q) = 1 /\ visitor \in Scalar
  BY <1>6, <1>7, <1>9
<1>10. CASE visitor \in DOMAIN Decoders /\ Tail(q) \in Needs(visitor)
  <2>1. path \o Tail(q) \in taken
    BY <1>6, <1>10 DEF Complete
  <2> QED BY <1>7, <2>1
<1> QED BY <1>8, <1>9, <1>10

\* A venue the gate has admitted is not refused for a missing field.
LEMMA AdmittedHas ==
  \A venue \in Venues : Decoders[venue].required \subseteq RequiredFields[venue]
<1>1. Decoders["CetusPool"].required \subseteq RequiredFields["CetusPool"]
  BY DEF Decoders, CetusPoolDecoder, Reads, RequiredFields
<1>2. Decoders["VoloPool"].required \subseteq RequiredFields["VoloPool"]
  BY DEF Decoders, VoloPoolDecoder, Whole, Reads, RequiredFields
<1>3. Decoders["NaviStorage"].required \subseteq RequiredFields["NaviStorage"]
  BY DEF Decoders, NaviStorageDecoder, Reads, RequiredFields
<1> QED BY <1>1, <1>2, <1>3 DEF Venues

\* All but the last of a sequence.
LEMMA Fronts ==
  ASSUME NEW S, NEW s \in Seq(S), NEW k \in Nat, k <= Len(s)
  PROVE  /\ SubSeq(s, 1, k) \in Seq(S) /\ Len(SubSeq(s, 1, k)) = k
         /\ DOMAIN SubSeq(s, 1, k) = 1 .. k /\ \A i \in 1 .. k : SubSeq(s, 1, k)[i] = s[i]
<1>1. \A i \in 1 .. k : s[i] \in S
  OBVIOUS
<1>2. /\ SubSeq(s, 1, k) \in Seq(S) /\ Len(SubSeq(s, 1, k)) = k
      /\ \A i \in 1 .. k : SubSeq(s, 1, k)[i] = s[i]
  BY <1>1, SubSeqProperties
<1>3. DOMAIN SubSeq(s, 1, k) = 1 .. k
  BY <1>2
<1> QED BY <1>2, <1>3

\* A driver that leaves hands over to the one below it.
LEMMA LeaveKeeps == ASSUME TypingInv, LeaveStruct PROVE TypingInv'
<1> DEFINE n == Len(drivers)
<1>1. /\ typing = "decoding" /\ Innermost.next > Len(Fields)
      /\ UNCHANGED <<wrapped, drifted, changed, taken>>
  BY DEF LeaveStruct
<1>2. /\ LayoutsTyped /\ StackOK(drivers, taken) /\ Rooted(drivers) /\ drivers # <<>>
      /\ drivers \in Seq(Shape)
  BY <1>1 DEF TypingInv, StackOK
<1>3. /\ Innermost \in Shape /\ n \in DOMAIN drivers /\ Innermost = drivers[n]
      /\ n \in Nat \ {0} /\ DOMAIN drivers = 1 .. n
  BY <1>1, <1>2, RequiredBehind DEF Innermost
<1>4. CASE ~(Decoders[Innermost.decoder].required \subseteq Innermost.read)
  <2>1. drivers' = drivers /\ taken' = taken /\ typing' = "MissingField"
    BY <1>1, <1>4 DEF LeaveStruct
  <2>2. ~(Decoders[Innermost.decoder].required \subseteq Names(Fields))
    BY <1>1, <1>4, RequiredBehind
  <2>3. ~Fits
    <3> SUFFICES ASSUME Fits PROVE FALSE
      OBVIOUS
    <3>1. Innermost.decoder = Innermost.struct /\ Innermost.struct \in DOMAIN Decoders
      BY <1>3 DEF TypingInv, Shape
    <3> QED BY <1>2, <2>2, <3>1, LayoutFacts DEF Fields
  <2>4. ASSUME wrapped \in Venues, n = 1 PROVE FALSE
    <3>1. Innermost.decoder = wrapped /\ Innermost.struct = wrapped /\ LayoutHasShape(wrapped)
      BY <1>2, <1>3, <2>4 DEF Rooted
    <3>2. RequiredFields[wrapped] \subseteq Names(Fields)
      BY <3>1 DEF LayoutHasShape, Fields
    <3> QED BY <2>2, <2>4, <3>1, <3>2, AdmittedHas
  <2>5. wrapped \in Venues => n > 1
    BY <1>3, <2>4
  <2>6. LayoutsTyped' /\ StackOK(drivers, taken)' /\ Rooted(drivers)' /\ Fits' = Fits
    BY <1>1, <1>2, <2>1, SameLayouts
  <2>7. wrapped' \in Venues => Len(drivers') > 1
    BY <1>1, <2>1, <2>5
  <2> QED BY <2>1, <2>3, <2>6, <2>7 DEF TypingInv
<1>5. CASE Decoders[Innermost.decoder].required \subseteq Innermost.read
  <2>1. /\ drivers' = SubSeq(drivers, 1, n - 1)
        /\ typing' = IF n = 1 THEN "typed" ELSE "decoding"
    BY <1>1, <1>5 DEF LeaveStruct, Front
  <2>2. Complete(Innermost.decoder, Innermost.path, taken)
    BY <1>1, <1>5, LeftComplete
  <2>3. /\ drivers' \in Seq(Shape) /\ Len(drivers') = n - 1 /\ DOMAIN drivers' = 1 .. n - 1
        /\ \A i \in 1 .. n - 1 : drivers'[i] = drivers[i]
    <3>1. n - 1 \in Nat /\ n - 1 <= Len(drivers)
      BY <1>3
    <3> DEFINE k == n - 1
    <3>2. drivers' = SubSeq(drivers, 1, k) /\ k \in Nat /\ k <= Len(drivers)
      BY <2>1, <3>1
    <3> HIDE DEF k
    <3>3. /\ drivers' \in Seq(Shape) /\ Len(drivers') = k /\ DOMAIN drivers' = 1 .. k
          /\ \A i \in 1 .. k : drivers'[i] = drivers[i]
      BY <1>2, <3>2, Fronts
    <3> QED BY <3>3 DEF k
  <2>4. ASSUME NEW i \in 1 .. n - 1
        PROVE  Passed(drivers'[i]) /\ Understood(drivers', i, taken')
    <3>1. /\ Passed(drivers[i]) /\ Understood(drivers, i, taken) /\ drivers'[i] = drivers[i]
          /\ taken' = taken
      BY <1>1, <1>2, <1>3, <2>3 DEF StackOK
    <3>2. ASSUME NEW v, NEW p, Waits(drivers, i, v, p)
          PROVE  Complete(v, p, taken) \/ Waits(drivers', i, v, p)
      <4>1. CASE i + 1 = n
        <5>1. v = Innermost.decoder /\ p = Innermost.path
          BY <1>3, <3>2, <4>1 DEF Waits
        <5> QED BY <2>2, <5>1
      <4>2. CASE i + 1 # n
        <5>1. i + 1 \in 1 .. n - 1
          <6>1. n \in Nat
            BY <1>3
          <6> HIDE DEF n
          <6> QED BY <4>2, <6>1
        <5>2. drivers'[i + 1] = drivers[i + 1]
          BY <2>3, <5>1
        <5> QED BY <2>3, <3>2, <5>1, <5>2 DEF Waits
      <4> QED BY <4>1, <4>2
    <3>3. Understood(drivers', i, taken')
      BY <3>1, <3>2 DEF Understood
    <3> QED BY <3>1, <3>3
  <2>5. StackOK(drivers', taken')
    BY <2>3, <2>4 DEF StackOK
  <2>6. Rooted(drivers')
    <3>1. CASE n = 1
      BY <2>3, <3>1 DEF Rooted
    <3>2. CASE n # 1
      <4>1. 1 \in 1 .. n - 1
        <5>1. n \in Nat /\ n # 0
          BY <1>3
        <5> HIDE DEF n
        <5> QED BY <3>2, <5>1
      <4>2. drivers'[1] = drivers[1]
        BY <2>3, <4>1
      <4> QED BY <1>2, <4>2 DEF Rooted
    <3> QED BY <3>1, <3>2
  <2>7. LayoutsTyped' /\ StackOK(drivers, taken)' /\ Rooted(drivers)' /\ Fits' = Fits
    BY <1>1, <1>2, <2>5, <2>6, SameLayouts
  <2>8. Fits => \A i \in DOMAIN drivers' : drivers'[i].decoder = drivers'[i].struct
    BY <1>3, <2>3 DEF TypingInv
  <2>9. CASE n = 1
    <3>1. Complete(wrapped, <<>>, taken)
      BY <1>2, <1>3, <2>2, <2>9 DEF Rooted
    <3>2. Complete(wrapped, <<>>, taken)'
      BY <1>1, <3>1 DEF Complete
    <3>3. typing' = "typed"
      BY <2>1, <2>9
    <3> QED BY <2>7, <2>8, <3>2, <3>3 DEF TypingInv
  <2>10. CASE n # 1
    <3>1. typing' = "decoding"
      BY <2>1, <2>10
    <3>2. drivers' # <<>>
      BY <1>3, <2>3, <2>10
    <3> QED BY <2>7, <2>8, <3>1, <3>2 DEF TypingInv
  <2> QED BY <2>9, <2>10
<1> QED BY <1>4, <1>5

\* The invariant is inductive.
LEMMA NextTyping == TypingInv /\ [DecodingNext]_typingVars => TypingInv'
<1> SUFFICES ASSUME TypingInv, [DecodingNext]_typingVars PROVE TypingInv'
  OBVIOUS
<1>1. CASE UNCHANGED typingVars
  <2>1. /\ UNCHANGED <<wrapped, drifted, changed>>
        /\ drivers' = drivers /\ taken' = taken /\ typing' = typing
    BY <1>1 DEF typingVars
  <2>2. LayoutsTyped /\ StackOK(drivers, taken) /\ Rooted(drivers)
    BY DEF TypingInv
  <2>3. /\ LayoutsTyped' /\ StackOK(drivers, taken)' /\ Rooted(drivers)'
        /\ Fits' = Fits /\ Unrecognised' = Unrecognised
    BY <2>1, <2>2, SameLayouts
  <2>4. Complete(wrapped, <<>>, taken)' = Complete(wrapped, <<>>, taken)
    BY <2>1 DEF Complete
  <2> QED BY <2>1, <2>3, <2>4 DEF TypingInv
<1>2. CASE DecodingNext
  BY <1>2, GateKeeps, SkipKeeps, TakeKeeps, WrongTypeKeeps, LeaveKeeps DEF DecodingNext
<1> QED BY <1>1, <1>2

\* An object whose struct has been read to the end has its price's fields read.
LEMMA CompletePriced ==
  ASSUME Complete(wrapped, <<>>, taken) PROVE PricedFields \subseteq taken
<1>1. PricedFields \subseteq Needs(wrapped)
  BY DEF PricedFields, Needs
<1>2. PricedFields \subseteq Seq(FieldName)
  <2>1. CASE wrapped \in DOMAIN Decoders
    BY <1>1, <2>1, NeedsMet DEF NeedMet
  <2>2. CASE wrapped \notin DOMAIN Decoders
    BY <2>2 DEF PricedFields, Decoders
  <2> QED BY <2>1, <2>2
<1>3. \A q \in Seq(FieldName) : <<>> \o q = q
  OBVIOUS
<1> QED BY <1>1, <1>2, <1>3 DEF Complete

\* A layout that lacks a field on the list lacks one the decoder requires, but for
\* Navi storage.
LEMMA ListedRequired ==
  \A venue \in Venues \ {"NaviStorage"} : RequiredFields[venue] \subseteq Decoders[venue].required
<1>1. RequiredFields["CetusPool"] \subseteq Decoders["CetusPool"].required
  BY DEF Decoders, CetusPoolDecoder, Reads, RequiredFields
<1>2. RequiredFields["VoloPool"] \subseteq Decoders["VoloPool"].required
  BY DEF Decoders, VoloPoolDecoder, Whole, Reads, RequiredFields
<1> QED BY <1>1, <1>2 DEF Venues

\* Under a drifted layout nothing is priced on a default, and the gate and the decoders
\* agree on what is missing: for any layouts, of every decoder (venue.rs 201-233, the
\* visitors of cetus.rs, volo.rs, navi.rs and index.rs).
THEOREM PricedWasRead == DecodingSpec => []DriftFailsClosed
<1>1. TypingInv => DriftFailsClosed
  <2> SUFFICES ASSUME TypingInv PROVE DriftFailsClosed
    OBVIOUS
  <2>1. typing = "typed" => PricedFields \subseteq taken
    BY CompletePriced DEF TypingInv
  <2>2. typing = "MissingField" /\ wrapped \in Venues => Len(drivers) > 1
    BY DEF TypingInv
  <2>3. ASSUME typing = "UnknownVenue", wrapped \in Venues \ {"NaviStorage"}
        PROVE  ~(Decoders[wrapped].required \subseteq Names(LayoutOf(wrapped)))
    <3>1. wrapped # "foreign"
      BY <2>3 DEF Venues
    <3>2. ~LayoutHasShape(wrapped)
      BY <2>3, <3>1 DEF TypingInv, Unrecognised
    <3> QED BY <2>3, <3>2, ListedRequired DEF LayoutHasShape
  <2>4. Fits => typing \notin {"MissingField", "UnexpectedType"}
    BY DEF TypingInv
  <2> QED BY <2>1, <2>2, <2>3, <2>4 DEF DriftFailsClosed, Fits
<1> QED BY InitTyping, NextTyping, <1>1, PTL DEF DecodingSpec

\* The invariant of the decoding holds its types.
LEMMA TypingTyped ==
  TypingInv => DecodingTypeOK
<1> SUFFICES ASSUME TypingInv PROVE DecodingTypeOK
  OBVIOUS
<1>1. LayoutsTyped /\ StackOK(drivers, taken)
  BY DEF TypingInv
<1>2. ASSUME NEW i \in DOMAIN drivers
      PROVE  /\ {drivers[i].decoder, drivers[i].struct} \subseteq DOMAIN Decoders
             /\ drivers[i].next \in 1 .. Len(LayoutOf(drivers[i].struct)) + 1
             /\ drivers[i].read \subseteq DOMAIN Decoders[drivers[i].decoder].reads
  <2>1. drivers[i] \in Shape /\ Passed(drivers[i])
    BY <1>1 DEF StackOK
  <2>2. /\ drivers[i].decoder \in DOMAIN Decoders /\ drivers[i].struct \in DOMAIN Decoders
        /\ drivers[i].next \in Nat \ {0}
    BY <2>1 DEF Shape
  <2>3. Len(LayoutOf(drivers[i].struct)) \in Nat
    BY <1>1, <2>2, LayoutFacts DEF Layout
  <2> QED BY <2>1, <2>2, <2>3 DEF Passed
<1> QED BY <1>1, <1>2 DEF DecodingTypeOK, LayoutsTyped, TypingInv

\* Type correctness of the decoding: each struct being read is known, and is read no
\* further than its layout goes and only at fields its decoder has.
THEOREM DecodingTypesCorrect == DecodingSpec => []DecodingTypeOK
  BY InitTyping, NextTyping, TypingTyped, PTL DEF DecodingSpec

-----------------------------------------------------------------------------
(* The types of the parts, and of the binary they are parts of.            *)

\* The types of the state of the probes, but for the entry observed and the calls.
ProbesTyped ==
  /\ subject \in Subject /\ Len(made) <= MaxCalls
  /\ probing \in {"executing", "calls", "scan", "links", "verdict", "decided", "failed"}
  /\ position \in Nat \ {0}
  /\ oracles \subseteq ModuleName /\ verdict \subseteq {"entry", "price", "no oracle"}

\* An entry is observed only if another package could call it.
ObservedCallable == observed # NoEntry => observed.callable

\* Only a test of a call observes an entry, and a callable one.
LEMMA ObservesCallable ==
  ObservedCallable /\ [ClassifyNext]_classifyVars => ObservedCallable'
<1> SUFFICES ASSUME ObservedCallable, [ClassifyNext]_classifyVars PROVE ObservedCallable'
  OBVIOUS
<1>1. CASE TestCall
  <2>1. CASE observed' = observed
    BY <2>1, Zenon DEF ObservedCallable
  <2>2. CASE observed' # observed
    <3>1. observed' = made[position].function /\ made[position].function.callable
      BY <1>1, <2>2, Zenon DEF TestCall
    <3> QED BY <3>1, Zenon DEF ObservedCallable
  <2> QED BY <2>1, <2>2
<1>2. CASE ~ TestCall
  <2>1. observed' = observed
    BY <1>2, Zenon DEF ClassifyNext, Execute, LoadTransaction, CallsTested, ScanModule, Scanned,
                       CollectOracles, Decide, classifyVars
  <2> QED BY <2>1, Zenon DEF ObservedCallable
<1> QED BY <1>1, <1>2

\* The other types are kept by each probe.
LEMMA KeepsProbesTyped ==
  ProbesTyped /\ made \in Seq(Calls) /\ [ClassifyNext]_classifyVars => ProbesTyped'
<1> SUFFICES ASSUME ProbesTyped, made \in Seq(Calls), [ClassifyNext]_classifyVars PROVE ProbesTyped'
  OBVIOUS
<1>1. ASSUME NEW c \in Calls, Execute(c) PROVE ProbesTyped'
  <2>1. made' = Append(made, c) /\ Len(made) < MaxCalls
    BY <1>1 DEF Execute
  <2>2. Len(made') <= MaxCalls
    BY <2>1, MaxCallsAssumption
  <2> QED BY <1>1, <2>2 DEF Execute, ProbesTyped
<1>2. CASE LoadTransaction
  BY <1>2 DEF LoadTransaction, ProbesTyped
<1>3. CASE TestCall
  <2>1. position' = position + 1 /\ UNCHANGED <<subject, made, probing, oracles, verdict>>
    BY <1>3, Zenon DEF TestCall
  <2>2. position \in Nat \ {0}
    BY DEF ProbesTyped
  <2>3. position' \in Nat \ {0}
    BY ONLY <2>1, <2>2
  <2> QED BY <2>1, <2>3, Zenon DEF ProbesTyped
<1>4. CASE CallsTested \/ Scanned
  <2>1. position' \in Nat \ {0}
    <3>1. position' = 1 \/ position' = position
      BY <1>4, Zenon DEF CallsTested, Scanned
    <3>2. position \in Nat \ {0}
      BY DEF ProbesTyped
    <3> QED BY ONLY <3>1, <3>2
  <2> QED BY <1>4, <2>1, Zenon DEF CallsTested, Scanned, ProbesTyped
<1>5. CASE ScanModule
  <2>1. position' = position + 1 /\ UNCHANGED <<subject, made, probing, oracles, verdict>>
    BY <1>5, Zenon DEF ScanModule
  <2>2. position \in Nat \ {0}
    BY DEF ProbesTyped
  <2>3. position' \in Nat \ {0}
    BY ONLY <2>1, <2>2
  <2> QED BY <2>1, <2>3, Zenon DEF ProbesTyped
<1>6. CASE CollectOracles
  <2>1. oracles' \subseteq ModuleName
    BY <1>6, NamesAssumption DEF CollectOracles, LinkedOracles, FieldOracles, SignatureOracles
  <2> QED BY <1>6, <2>1 DEF CollectOracles, ProbesTyped
<1>7. CASE Decide
  <2>1. verdict' \subseteq {"entry", "price", "no oracle"}
    BY <1>7, Zenon DEF Decide
  <2>2. probing' = "decided" /\ UNCHANGED <<subject, made, position, oracles>>
    BY <1>7, Zenon DEF Decide
  <2> QED BY <2>1, <2>2 DEF ProbesTyped
<1>8. CASE UNCHANGED classifyVars
  BY <1>8 DEF classifyVars, ProbesTyped
<1> QED BY <1>1, <1>2, <1>3, <1>4, <1>5, <1>6, <1>7, <1>8, Zenon DEF ClassifyNext

\* The probes keep the types of what they find.
LEMMA ClassifyTyped ==
  /\ ClassifyInit => ClassifyTypeOK
  /\ ClassifyTypeOK /\ VerdictInv /\ [ClassifyNext]_classifyVars => ClassifyTypeOK'
<1>1. ClassifyInit => ClassifyTypeOK
  BY MaxCallsAssumption DEF ClassifyInit, NothingProbed, ClassifyTypeOK
<1>2. ASSUME ClassifyTypeOK, VerdictInv, [ClassifyNext]_classifyVars PROVE ClassifyTypeOK'
  <2>1. VerdictInv'
    BY <1>2, NextVerdict
  <2>2. made' \in Seq(Calls) /\ present' \subseteq Feeds'
    BY <2>1, Zenon DEF VerdictInv, AmountsTyped, InputsUsed
  <2>3. ProbesTyped /\ ObservedCallable /\ made \in Seq(Calls)
    BY <1>2, Zenon DEF ClassifyTypeOK, ProbesTyped, ObservedCallable
  <2>4. ProbesTyped' /\ ObservedCallable'
    BY <1>2, <2>3, ObservesCallable, KeepsProbesTyped, Zenon
  <2> QED BY <2>2, <2>4, Zenon DEF ClassifyTypeOK, ProbesTyped, ObservedCallable
<1> QED BY <1>1, <1>2

\* A command runs one part, and each of its steps is a step of that part.
LEMMA StepOfPart ==
  [CommandsNext]_commandVars =>
    /\ part' = part
    /\ part = "quote" => [Next]_vars
    /\ part = "search" => [SearchNext]_searchVars
    /\ part = "type" => [DecodingNext]_typingVars
    /\ part = "classify" => [ClassifyNext]_classifyVars
    /\ part = "fixtures" => [FixturesNext]_fixtureVars
<1> SUFFICES ASSUME [CommandsNext]_commandVars
             PROVE  /\ part' = part
                    /\ part = "quote" => [Next]_vars
                    /\ part = "search" => [SearchNext]_searchVars
                    /\ part = "type" => [DecodingNext]_typingVars
                    /\ part = "classify" => [ClassifyNext]_classifyVars
                    /\ part = "fixtures" => [FixturesNext]_fixtureVars
  OBVIOUS
<1>1. CASE QuoteNext
  BY <1>1 DEF QuoteNext
<1>2. CASE SearchesNext
  BY <1>2 DEF SearchesNext
<1>3. CASE TypingNext
  BY <1>3 DEF TypingNext
<1>4. CASE VerdictNext
  BY <1>4 DEF VerdictNext
<1>5. CASE CaptureNext
  BY <1>5 DEF CaptureNext
<1>6. CASE UNCHANGED commandVars
  BY <1>6 DEF commandVars
<1> QED BY <1>1, <1>2, <1>3, <1>4, <1>5, <1>6 DEF CommandsNext

\* A command is its part and nothing else: the process that runs one behaves as the
\* specification of the part says, whatever the values the other parts stand at
\* (main.rs 97-133).
THEOREM OneCommandRuns ==
  CommandsSpec =>
    /\ part = "quote" => Spec
    /\ part = "search" => SearchSpec
    /\ part = "type" => DecodingSpec
    /\ part = "classify" => ClassifySpec
    /\ part = "fixtures" => FixturesSpec
<1>1. CommandsInit /\ part = "quote" => Init
  BY DEF CommandsInit
<1>2. CommandsInit /\ part = "search" => SearchInit
  BY DEF CommandsInit, SearchInit
<1>3. CommandsInit /\ part = "type" => DecodingInit
  BY DEF CommandsInit
<1>4. CommandsInit /\ part = "classify" => ClassifyInit
  BY DEF CommandsInit, ClassifyInit
<1>5. CommandsInit /\ part = "fixtures" => FixturesInit
  BY DEF CommandsInit, FixturesInit
<1>6. CommandsSpec /\ part = "quote" => Spec
  <2>1. part = "quote" /\ [CommandsNext]_commandVars => (part = "quote")' /\ [Next]_vars
    BY StepOfPart
  <2> QED BY <1>1, <2>1, PTL DEF CommandsSpec, Spec
<1>7. CommandsSpec /\ part = "search" => SearchSpec
  <2>1. part = "search" /\ [CommandsNext]_commandVars => (part = "search")' /\ [SearchNext]_searchVars
    BY StepOfPart
  <2> QED BY <1>2, <2>1, PTL DEF CommandsSpec, SearchSpec
<1>8. CommandsSpec /\ part = "type" => DecodingSpec
  <2>1. part = "type" /\ [CommandsNext]_commandVars => (part = "type")' /\ [DecodingNext]_typingVars
    BY StepOfPart
  <2> QED BY <1>3, <2>1, PTL DEF CommandsSpec, DecodingSpec
<1>9. CommandsSpec /\ part = "classify" => ClassifySpec
  <2>1. part = "classify" /\ [CommandsNext]_commandVars
          => (part = "classify")' /\ [ClassifyNext]_classifyVars
    BY StepOfPart
  <2> QED BY <1>4, <2>1, PTL DEF CommandsSpec, ClassifySpec
<1>10. CommandsSpec /\ part = "fixtures" => FixturesSpec
  <2>1. part = "fixtures" /\ [CommandsNext]_commandVars
          => (part = "fixtures")' /\ [FixturesNext]_fixtureVars
    BY StepOfPart
  <2> QED BY <1>5, <2>1, PTL DEF CommandsSpec, FixturesSpec
<1> QED BY <1>6, <1>7, <1>8, <1>9, <1>10, PTL

\* So each command keeps what its part promises: a quote its prices, amounts and
\* ranges, a search its floor, a decoding its fields, a verdict its evidence, a
\* capture its files (swap.rs, tick.rs, venue.rs, classify.rs, fixture.rs).
THEOREM CommandsKeepPromises ==
  CommandsSpec =>
    /\ part = "quote" =>
         /\ [](PaysForMove /\ NoFreeRoundTrip /\ FeeProportional /\ StepsInOneRange)
         /\ [](RangeLiquidity /\ PriceWithinLimit /\ BoundedWalk /\ InputSpent /\ StaysExactOutsideGap)
         /\ PriceForward
    /\ part = "search" => []SearchFindsFloor
    /\ part = "type" => []DriftFailsClosed
    /\ part = "classify" => [](VerdictMatchesTrade /\ ScanFindsExchange)
    /\ part = "fixtures" => [](NothingTorn /\ WatchedReplayed /\ CapturedTyped)
<1>1. Spec =>
        /\ [](PaysForMove /\ NoFreeRoundTrip /\ FeeProportional /\ StepsInOneRange)
        /\ [](RangeLiquidity /\ PriceWithinLimit /\ BoundedWalk /\ InputSpent /\ StaysExactOutsideGap)
  BY MovesPaidFor, RoundTripsCost, FeeOfConsumedShare, StepsStayInRange, LiquidityOfRange, LimitHolds,
     WalkIsBounded, InputIsSpent, ShortcutExact, PTL
<1>2. ClassifySpec => [](VerdictMatchesTrade /\ ScanFindsExchange)
  BY TradedVerdict, ScanIsRight, PTL
<1>3. FixturesSpec => [](NothingTorn /\ WatchedReplayed /\ CapturedTyped)
  BY NeverTorn, ReplayIsWhole, CaptureTypesItself, PTL
<1> QED BY <1>1, <1>2, <1>3, OneCommandRuns, PriceMovesForward, FloorFound, PricedWasRead, PTL

\* The part at work keeps its own invariant; the others stand still.
AtWork ==
  /\ part \in Parts
  /\ part = "quote" => IInv
  /\ part = "search" => SearchInv /\ Untouched
  /\ part = "type" => TypingInv
  /\ part = "classify" => ClassifyTypeOK /\ VerdictInv
  /\ part = "fixtures" => FixturesTypeOK /\ DirectoryInv

\* No step of a command takes a value of its part out of its type, whichever
\* command the process runs (main.rs).
THEOREM CommandsTypesCorrect == CommandsSpec => []CommandsTypeOK
<1>1. CommandsInit => AtWork
  <2> SUFFICES ASSUME CommandsInit PROVE AtWork
    OBVIOUS
  <2>1. part = "quote" => IInv
    BY InitInv DEF CommandsInit
  <2>2. part = "search" => SearchInv /\ Untouched
    BY InitSearchInv DEF CommandsInit, SearchInit, NothingSearched, Untouched
  <2>3. part = "type" => TypingInv
    BY InitTyping DEF CommandsInit
  <2>4. part = "classify" => ClassifyTypeOK /\ VerdictInv
    BY InitVerdict, ClassifyTyped DEF CommandsInit, ClassifyInit
  <2>5. part = "fixtures" => FixturesTypeOK /\ DirectoryInv
    BY InitDirectory, FixturesTyped DEF CommandsInit, FixturesInit
  <2> QED BY <2>1, <2>2, <2>3, <2>4, <2>5 DEF CommandsInit, AtWork
<1>2. AtWork /\ [CommandsNext]_commandVars => AtWork'
  <2> SUFFICES ASSUME AtWork, [CommandsNext]_commandVars PROVE AtWork'
    OBVIOUS
  <2>1. CASE part = "quote"
    BY <2>1, StepOfPart, NextInv DEF AtWork
  <2>2. CASE part = "search"
    <3>1. SearchInv' /\ Untouched'
      BY <2>2, StepOfPart, StepSearchInv DEF AtWork
    <3> QED BY <2>2, <3>1, StepOfPart DEF AtWork
  <2>3. CASE part = "type"
    BY <2>3, StepOfPart, NextTyping DEF AtWork
  <2>4. CASE part = "classify"
    BY <2>4, StepOfPart, NextVerdict, ClassifyTyped DEF AtWork
  <2>5. CASE part = "fixtures"
    BY <2>5, StepOfPart, StepDirectory, FixturesTyped DEF AtWork
  <2> QED BY <2>1, <2>2, <2>3, <2>4, <2>5 DEF AtWork, Parts
<1>3. AtWork => CommandsTypeOK
  <2> SUFFICES ASSUME AtWork PROVE CommandsTypeOK
    OBVIOUS
  <2>1. CASE part = "quote"
    BY <2>1 DEF AtWork, IInv, CommandsTypeOK
  <2>2. CASE part = "search"
    BY <2>2 DEF AtWork, SearchInv, CommandsTypeOK
  <2>3. CASE part = "type"
    BY <2>3, TypingTyped DEF AtWork, CommandsTypeOK
  <2>4. CASE part = "classify"
    BY <2>4 DEF AtWork, CommandsTypeOK
  <2>5. CASE part = "fixtures"
    BY <2>5 DEF AtWork, CommandsTypeOK
  <2> QED BY <2>1, <2>2, <2>3, <2>4, <2>5 DEF AtWork, Parts
<1> QED BY <1>1, <1>2, <1>3, PTL DEF CommandsSpec

=============================================================================
