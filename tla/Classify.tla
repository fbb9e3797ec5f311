------------------------------- MODULE Classify -------------------------------
(***************************************************************************)
(* The price-discovery test: crates/birdai-venue/src/classify.rs as the    *)
(* `classify` command of bin/birdai/src/commands.rs applies it.  A verdict *)
(* joins what is read at different places: the call a transaction made,    *)
(* the pool before and after it, the objects it used as far as they are at *)
(* hand, and the bytecode of the package that defines the type.            *)
(*                                                                         *)
(* A function is its signature; names matter only when they name a price   *)
(* feed, so a datatype other than the venue, Coin and Balance is the name  *)
(* of its module.  The transaction is external: what its calls do to the   *)
(* pool's price and reserves.                                              *)
(***************************************************************************)
EXTENDS Integers, Sequences, FiniteSets

CONSTANTS
  TypeParam,      \* type parameters of a function
  ModuleName,     \* modules a signature or a link may name
  OracleModule,   \* of them, those OracleDenySet::matches
  OracleWord,     \* of them, those reference_from_text finds at a word boundary
  Subject,        \* the objects classified, with their packages
  Calls,          \* what a transaction may call
  MaxCalls,       \* bound of the model: calls in a transaction
  NoEntry         \* no swap entry

Arg ==
  [ref : {"mut", "imm", "val"}, type : ModuleName \union {"venue", "coin", "balance"},
   args : Seq(TypeParam \union {"concrete"})]

ASSUME NamesAssumption ==
  /\ OracleWord \subseteq ModuleName /\ OracleModule \subseteq ModuleName
  /\ ModuleName \intersect {"venue", "coin", "balance"} = {} /\ "concrete" \notin TypeParam
  /\ "none" \notin ModuleName

\* What a call may do to the pool: a swap moves the price with the assets it moves,
\* if at all, and anything else only by reading a price feed, which may be of a
\* module whose name no heuristic knows.
ASSUME CallsAssumption ==
  \A c \in Calls :
    /\ c.price \in Int /\ c.a \in Int /\ c.b \in Int
    /\ c.trade \in {"AtoB", "BtoA", "none"} /\ c.feed \in ModuleName \union {"none"}
    /\ c.trade = "AtoB" => c.price <= 0 /\ c.a > 0 /\ c.b <= 0 /\ c.feed = "none"
    /\ c.trade = "BtoA" => c.price >= 0 /\ c.b > 0 /\ c.a <= 0 /\ c.feed = "none"
    /\ c.trade = "none" /\ c.price # 0 => c.feed # "none"

Function == [callable : BOOLEAN, params : Seq(Arg), returns : Seq(Arg)]
CompiledModule == [functions : Seq(Function), links : SUBSET ModuleName]

ASSUME SubjectAssumption ==
  /\ NoEntry \notin Function
  /\ \A s \in Subject : s.package \in Seq(CompiledModule)

ASSUME MaxCallsAssumption == MaxCalls \in Nat

VARIABLES
  subject,     \* the object: its package's modules, its layout's, whether it is traded
  made,        \* the calls of transaction T, in order
  present,     \* of its price-feed inputs, those in the checkpoint's object set
  before,      \* the pool before T
  after,       \* the pool after it
  probing,     \* "executing", "calls", "scan", "links", "verdict", "decided" or "failed"
  position,    \* the next call or module
  observed,    \* the entry the chain executed
  entry,       \* swap_entry of the static scan
  oracles,     \* oracle_references
  verdict      \* the probes that passed

classifyVars ==
  <<subject, made, present, before, after, probing, position, observed, entry, oracles, verdict>>

NothingProbed ==
  /\ made = <<>> /\ present = {}
  /\ before = [price |-> 0, a |-> 0, b |-> 0] /\ after = before
  /\ probing = IF subject.traded THEN "executing" ELSE "scan"
  /\ position = 1
  /\ observed = NoEntry /\ entry = NoEntry
  /\ oracles = {} /\ verdict = {}

ClassifyInit == subject \in Subject /\ NothingProbed

-----------------------------------------------------------------------------
\* Signatures.

Elements(s) == {s[i] : i \in DOMAIN s}

\* mutable_venue_borrow: the type parameters of a `&mut Venue<..>`.
Borrow(arg) ==
  IF arg.ref = "mut" /\ arg.type = "venue" THEN Elements(arg.args) \intersect TypeParam ELSE {}

\* coin_type_parameter: the type parameter inside one of the framework's wrappers,
\* in any reference mode.
Leg(arg, wrappers) ==
  IF arg.type \in wrappers /\ arg.args # <<>> THEN {arg.args[1]} \intersect TypeParam ELSE {}

Legs(args, wrappers) == UNION {Leg(args[i], wrappers) : i \in DOMAIN args}

Borrowed(f) == UNION {Borrow(f.params[i]) : i \in DOMAIN f.params}

\* swap_shape for a call the chain executed: two assets of the venue are involved.
ObservedShape(f) ==
  Cardinality(Borrowed(f) \intersect
    (Legs(f.params, {"coin", "balance"}) \union Legs(f.returns, {"coin", "balance"}))) >= 2

\* Mutant: a scan is as lenient as an executed call.
LenientShape(f) == ObservedShape(f)

\* For a scan, one asset is taken in as a coin and another one comes out.
ScannedShape(f) ==
  /\ ObservedShape(f)
  /\ \E i \in Borrowed(f) \intersect Legs(f.params, {"coin"}),
        o \in Borrowed(f) \intersect Legs(f.returns, {"coin", "balance"}) : i # o

-----------------------------------------------------------------------------
\* Transaction T: external but for what the classifier reads of it.

Execute(call) ==
  /\ probing = "executing"
  /\ Len(made) < MaxCalls
  /\ made' = Append(made, call)
  /\ after' = [price |-> after.price + call.price, a |-> after.a + call.a, b |-> after.b + call.b]
  /\ UNCHANGED <<subject, present, before, probing, position, observed, entry, oracles, verdict>>

Feeds == {made[i].feed : i \in {j \in DOMAIN made : made[j].feed # "none"}}

\* The command loads both versions and the checkpoint, whose object set may lack
\* inputs of T.  A load that fails ends the command.
LoadTransaction ==
  /\ probing = "executing" /\ made # <<>>
  /\ present' \in SUBSET Feeds
  /\ probing' \in {"calls", "failed"}
  /\ UNCHANGED <<subject, made, before, after, position, observed, entry, oracles, verdict>>

-----------------------------------------------------------------------------
\* Probe 1, on the calls T made, then on the package.

\* entry_at.  A call whose package or function does not resolve is reported and skipped.
TestCall ==
  /\ probing = "calls"
  /\ position <= Len(made)
  /\ observed' \in
       {observed} \union
       (IF observed = NoEntry /\ made[position].function.callable
           /\ ObservedShape(made[position].function)
        THEN {made[position].function} ELSE {})
  /\ position' = position + 1
  /\ UNCHANGED <<subject, made, present, before, after, probing, entry, oracles, verdict>>

CallsTested ==
  /\ probing = "calls"
  /\ position > Len(made)
  /\ probing' \in {"scan", "failed"}
  /\ position' = 1
  /\ UNCHANGED <<subject, made, present, before, after, observed, entry, oracles, verdict>>

\* find_inter_asset_swap: the first function of a module that has the shape.
Swaps(module) ==
  {i \in DOMAIN module.functions :
     module.functions[i].callable /\ ScannedShape(module.functions[i])}

FirstSwap(module) ==
  IF Swaps(module) = {} THEN NoEntry
  ELSE module.functions[CHOOSE i \in Swaps(module) : \A j \in Swaps(module) : i <= j]

\* One module of the defining package; those after the first entry are not searched.
ScanModule ==
  /\ probing = "scan"
  /\ position <= Len(subject.package)
  /\ entry' = IF entry = NoEntry THEN FirstSwap(subject.package[position]) ELSE entry
  /\ position' = position + 1
  /\ UNCHANGED <<subject, made, present, before, after, probing, observed, oracles, verdict>>

Scanned ==
  /\ probing = "scan"
  /\ position > Len(subject.package)
  /\ probing' \in {"links", "failed"}
  /\ UNCHANGED <<subject, made, present, before, after, position, observed, entry, oracles, verdict>>

-----------------------------------------------------------------------------
\* Probe 3, the rest of static_evidence.

LinkedOracles == (UNION {m.links : m \in Elements(subject.package)}) \intersect OracleModule

\* The modules named in the layout, at any depth.
FieldOracles == subject.layout \intersect OracleModule

\* reference_from_text over the rendered signature of the static entry.
SignatureOracles ==
  IF entry = NoEntry THEN {}
  ELSE {arg.type : arg \in Elements(entry.params) \union Elements(entry.returns)}
         \intersect OracleWord

CollectOracles ==
  /\ probing = "links"
  /\ oracles = {} /\ verdict = {}
  /\ oracles' = LinkedOracles \union FieldOracles \union SignatureOracles
  /\ probing' = "verdict"
  /\ UNCHANGED <<subject, made, present, before, after, position, observed, entry, verdict>>

-----------------------------------------------------------------------------
\* Probe 2 and the verdict.

\* price_state_change: the price-feed objects among the inputs at hand.
OracleInputs == present \intersect OracleModule

\* Mutant: whichever asset came in, whichever way the price moved.
MovedWithAnyFlow ==
  /\ OracleInputs = {}
  /\ after.a > before.a \/ after.b > before.b
  /\ after.price # before.price

\* PriceStateChange::is_endogenous.
Endogenous ==
  /\ OracleInputs = {}
  /\ \/ after.b > before.b /\ ~(after.a > before.a) /\ after.price > before.price
     \/ after.a > before.a /\ ~(after.b > before.b) /\ after.price < before.price

\* Without a transaction there is no price variable or nothing to check it against.
Decide ==
  /\ probing = "verdict"
  /\ verdict' =
       (IF observed # NoEntry \/ entry # NoEntry THEN {"entry"} ELSE {}) \union
       (IF subject.traded /\ Endogenous THEN {"price"} ELSE {}) \union
       (IF oracles = {} THEN {"no oracle"} ELSE {})
  /\ probing' = "decided"
  /\ UNCHANGED <<subject, made, present, before, after, position, observed, entry, oracles>>

ClassifyNext ==
  \/ \E call \in Calls : Execute(call)
  \/ LoadTransaction \/ TestCall \/ CallsTested \/ ScanModule \/ Scanned
  \/ CollectOracles \/ Decide

ClassifySpec == ClassifyInit /\ [][ClassifyNext]_classifyVars

IsVenue == verdict = {"entry", "price", "no oracle"}

-----------------------------------------------------------------------------
\* Properties.

\* The types of the state.
ClassifyTypeOK ==
  /\ subject \in Subject
  /\ made \in Seq(Calls) /\ Len(made) <= MaxCalls /\ present \subseteq Feeds
  /\ probing \in {"executing", "calls", "scan", "links", "verdict", "decided", "failed"}
  /\ position \in Nat \ {0}
  /\ observed # NoEntry => observed.callable
  /\ oracles \subseteq ModuleName /\ verdict \subseteq {"entry", "price", "no oracle"}

\* The transaction traded in the direction the price went.
TradedAlong ==
  \E i \in DOMAIN made :
    \/ made[i].trade = "BtoA" /\ after.price > before.price
    \/ made[i].trade = "AtoB" /\ after.price < before.price

\* A feed T read was missed: it is not in the object set, or under a name the
\* heuristic does not know ("slips through", classify.rs:48-52).
UnseenFeed == ~ (Feeds \subseteq OracleInputs)

\* Some call put assets in without taking any in exchange.
AddedLiquidity ==
  \E i \in DOMAIN made : made[i].trade = "none" /\ (made[i].a > 0 \/ made[i].b > 0)

\* An executed call need only involve two assets, so adding liquidity passes the
\* first probe, and a feed may be missed.  Still no transaction is taken for price
\* discovery that did not trade the way the price moved: a seen feed rules it out,
\* and with an unseen one the assets must have come in the way the price went, so
\* that it takes liquidity added beside the feed to deceive the probe; and one
\* that only swapped, moving the price, is found (classify.rs 8-24, 212-230).
VerdictMatchesTrade ==
  probing = "decided" /\ subject.traded =>
    /\ IsVenue => TradedAlong \/ (UnseenFeed /\ AddedLiquidity)
    /\ Len(made) = 1 /\ made[1].trade # "none" /\ before.price # after.price
         => {"price"} \subseteq verdict

\* One venue borrow, a coin of one of its type parameters in, another one's asset out.
Exchanges(f) ==
  \E p \in {i \in DOMAIN f.params : Borrow(f.params[i]) # {}} :
    \E x, y \in Borrow(f.params[p]) :
      /\ x # y
      /\ \E i \in DOMAIN f.params : f.params[i].type = "coin" /\ Leg(f.params[i], {"coin"}) = {x}
      /\ \E i \in DOMAIN f.returns : Leg(f.returns[i], {"coin", "balance"}) = {y}

BorrowsOnce(f) == Cardinality({i \in DOMAIN f.params : Borrow(f.params[i]) # {}}) <= 1

Published == UNION {Elements(m.functions) : m \in Elements(subject.package)}

\* In a package whose functions borrow one venue at a time, the scan finds an entry
\* exactly when some callable function of some module exchanges two assets of that
\* borrow: liquidity and fee functions, private ones, shared borrows and concrete
\* coins never count (classify.rs 8-13, 636-640).
ScanFindsExchange ==
  probing = "decided" /\ (\A f \in Published : BorrowsOnce(f)) =>
    (entry # NoEntry <=> \E f \in Published : f.callable /\ Exchanges(f))

=============================================================================
