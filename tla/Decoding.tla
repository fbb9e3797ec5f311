------------------------------- MODULE Decoding -------------------------------
(***************************************************************************)
(* Typing an object's bytes by its resolved layout: the venue gate         *)
(* (decode_venue of crates/birdai-venue/src/venue.rs), the decoders of     *)
(* birdai-venue, birdai-tick and birdai-move, and the single pass over the *)
(* fields they share (visitor.rs).  Fields are matched by name, in the     *)
(* order of the layout, which may have drifted from the one the decoders   *)
(* were written against.                                                   *)
(*                                                                         *)
(* The bytes hold what the layout says, so a value is the path of the      *)
(* field it was read from.  Layouts are external: for each struct, the     *)
(* fields its decoder reads and one it does not.                           *)
(***************************************************************************)
EXTENDS Integers, Sequences, SequencesExt

CONSTANTS
  Scalar,     \* types without fields
  Vector,     \* types of vectors, with the type of their elements
  Known,      \* the layout each decoder was written against
  Within,     \* the structs found in an object of each kind
  Drift       \* how a layout may differ from the known one

\* What a decoder reads, by name, each field with the visitor it is read with;
\* and which of them it cannot do without.
Reads(fields, required) == [reads |-> fields, required |-> required]

Whole(fields) == Reads(fields, DOMAIN fields)

CetusPoolDecoder ==
  Reads([coin_a |-> "Balance", coin_b |-> "Balance", tick_spacing |-> "u32", fee_rate |-> "u64",
         liquidity |-> "u128", current_sqrt_price |-> "u128", current_tick_index |-> "I32",
         fee_growth_global_a |-> "u128", fee_growth_global_b |-> "u128",
         fee_protocol_coin_a |-> "u64", fee_protocol_coin_b |-> "u64",
         tick_manager |-> "TickManager", is_pause |-> "bool", index |-> "u64", url |-> "String"],
        {"coin_a", "coin_b", "tick_spacing", "fee_rate", "liquidity", "current_sqrt_price",
         "current_tick_index", "fee_growth_global_a", "fee_growth_global_b", "tick_manager",
         "is_pause"})

VoloPoolDecoder ==
  Whole([pending |-> "BalanceHolder", collectable_fee |-> "BalanceHolder",
         validator_set |-> "ValidatorSet"])

ValidatorSetDecoder ==
  Reads([vaults |-> "Table", validators |-> "VecMap", sorted_validators |-> "vector<address>"], {})

NaviStorageDecoder ==
  Reads([version |-> "u64", paused |-> "bool", reserves |-> "Table", reserves_count |-> "u8",
         users |-> "vector<address>", user_info |-> "Table"], {})

BalanceDecoder == Whole([value |-> "u64"])
MoveStringDecoder == Whole([bytes |-> "vector<u8>"])
TickManagerProxy == Whole([ticks |-> "SkipList"])
BalanceHolderDecoder == Whole([balance |-> "Balance"])
TableSizeDecoder == Whole([size |-> "u64"])
VecMapDecoder == Reads([contents |-> "vector<Entry>"], {})
VecMapEntryDecoder == Whole([key |-> "address", value |-> "u64"])

UidDecoder == Whole([id |-> "ID"])
IdDecoder == Whole([bytes |-> "address"])
FieldNodeDecoder == Whole([value |-> "Node"])

TickNodeDecoder ==
  Reads([score |-> "u64", nexts |-> "vector<OptionU64>", prev |-> "OptionU64", value |-> "Tick"],
        {"score", "value"})

TickDecoder ==
  Reads([index |-> "I32", sqrt_price |-> "u128", liquidity_net |-> "I128",
         liquidity_gross |-> "u128", fee_growth_outside_a |-> "u128",
         fee_growth_outside_b |-> "u128", points_growth_outside |-> "u128",
         rewards_growth_outside |-> "vector<u128>"],
        {"index", "sqrt_price", "liquidity_net", "liquidity_gross", "fee_growth_outside_a",
         "fee_growth_outside_b"})

SkipListDecoder ==
  Reads([id |-> "UID", head |-> "vector<OptionU64>", tail |-> "OptionU64", level |-> "u64",
         max_level |-> "u64", size |-> "u64", random |-> "Random"], {"id"})

RandomDecoder == Whole([seed |-> "u64"])
I32Decoder == Whole([bits |-> "u32"])
I128Decoder == Whole([bits |-> "u128"])
OptionU64Decoder == Whole([is_none |-> "bool", v |-> "u64"])

Decoders ==
  [CetusPool |-> CetusPoolDecoder, VoloPool |-> VoloPoolDecoder, NaviStorage |-> NaviStorageDecoder,
   ValidatorSet |-> ValidatorSetDecoder, Balance |-> BalanceDecoder, String |-> MoveStringDecoder,
   TickManager |-> TickManagerProxy, BalanceHolder |-> BalanceHolderDecoder,
   Table |-> TableSizeDecoder, VecMap |-> VecMapDecoder, Entry |-> VecMapEntryDecoder,
   UID |-> UidDecoder, ID |-> IdDecoder, Field |-> FieldNodeDecoder, Node |-> TickNodeDecoder,
   Tick |-> TickDecoder, SkipList |-> SkipListDecoder, Random |-> RandomDecoder,
   I32 |-> I32Decoder, I128 |-> I128Decoder, OptionU64 |-> OptionU64Decoder]

\* The objects that are typed: venues by decode_venue, tick nodes by ticks.rs.
Venues == {"CetusPool", "VoloPool", "NaviStorage"}
Roots == Venues \union {"Field"}

Names(fields) == {fields[i].name : i \in DOMAIN fields}

\* What a decoder reads it reads with the visitor of the field's type.
TypesMatch(fields, decoder) ==
  \A i \in DOMAIN fields :
    fields[i].name \in DOMAIN decoder.reads => fields[i].type = decoder.reads[fields[i].name]

ASSUME TypesAssumption ==
  /\ {"bool", "u8", "u32", "u64", "u128", "address"} \subseteq Scalar
  /\ Scalar \intersect DOMAIN Decoders = {}
  /\ DOMAIN Vector \intersect (Scalar \union DOMAIN Decoders) = {}
  /\ \A v \in DOMAIN Vector : Vector[v] \in Scalar \union DOMAIN Decoders
  /\ \A d \in DOMAIN Decoders : \A f \in DOMAIN Decoders[d].reads :
       Decoders[d].reads[f] \in Scalar \union DOMAIN Vector \union DOMAIN Decoders

\* One name stands for those no decoder reads.
FieldName == {"other"} \union UNION {DOMAIN Decoders[d].reads : d \in DOMAIN Decoders}
Layout == Seq([name : FieldName, type : Scalar \union DOMAIN Vector \union DOMAIN Decoders])

\* A decoder finds all it needs in the layout it was written against.
ASSUME LayoutAssumption ==
  /\ \A w \in Roots \union {"foreign"} : Within[w] \subseteq DOMAIN Decoders
  /\ DOMAIN Known = DOMAIN Decoders
  /\ \A d \in DOMAIN Decoders :
       /\ Known[d] \in Layout /\ Drift[Known[d]] \subseteq Layout
       /\ Decoders[d].required \subseteq Names(Known[d]) /\ TypesMatch(Known[d], Decoders[d])

VARIABLES
  wrapped,   \* the struct the object is an instance of
  drifted,   \* the struct whose layout is not the known one
  changed,   \* the fields it has
  drivers,   \* StructDrivers, the innermost last
  taken,     \* paths of the scalars and empty vectors read
  typing     \* "named", "decoding", "typed", "UnknownVenue", "MissingField", "UnexpectedType"

typingVars == <<wrapped, drifted, changed, drivers, taken, typing>>

NothingRead == drivers = <<>> /\ taken = {} /\ typing = "named"

DecodingInit ==
  /\ wrapped \in Roots \union {"foreign"}
  /\ drifted \in Within[wrapped]
  /\ changed \in Drift[Known[drifted]]
  /\ NothingRead

LayoutOf(struct) == IF struct = drifted THEN changed ELSE Known[struct]

Driver(decoder, struct, path) ==
  [decoder |-> decoder, struct |-> struct, path |-> path, next |-> 1, read |-> {}]

-----------------------------------------------------------------------------
\* The gate.

\* Mutant: the halt flag is left off the list.
PausedUnlisted ==
  [CetusPool   |-> CetusPoolDecoder.required \ {"is_pause"},
   VoloPool    |-> {"pending", "collectable_fee", "validator_set"},
   NaviStorage |-> {"reserves", "reserves_count", "user_info"}]

RequiredFields ==
  [CetusPool   |-> {"coin_a", "coin_b", "tick_spacing", "fee_rate", "liquidity",
                    "current_sqrt_price", "current_tick_index", "fee_growth_global_a",
                    "fee_growth_global_b", "tick_manager", "is_pause"},
   VoloPool    |-> {"pending", "collectable_fee", "validator_set"},
   NaviStorage |-> {"reserves", "reserves_count", "user_info"}]

LayoutHasShape(venue) == RequiredFields[venue] \subseteq Names(LayoutOf(wrapped))

\* The fields of a struct that is only named like a venue are another AMM's.
Unrecognised == wrapped = "foreign" \/ (wrapped \in Venues /\ ~LayoutHasShape(wrapped))

Gate ==
  /\ typing = "named"
  /\ IF Unrecognised
     THEN typing' = "UnknownVenue" /\ UNCHANGED drivers
     ELSE typing' = "decoding" /\ drivers' = <<Driver(wrapped, wrapped, <<>>)>>
  /\ UNCHANGED <<wrapped, drifted, changed, taken>>

-----------------------------------------------------------------------------
\* The pass over the fields.

Innermost == drivers[Len(drivers)]
Fields == LayoutOf(Innermost.struct)
Field == Fields[Innermost.next]
Here == Append(Innermost.path, Field.name)

\* The innermost driver moves past a field, having read it or not.
Moved(read) ==
  [decoder |-> Innermost.decoder, struct |-> Innermost.struct, path |-> Innermost.path,
   next |-> Innermost.next + 1, read |-> Innermost.read \union read]

Advanced(read) == [drivers EXCEPT ![Len(drivers)] = Moved(read)]

AtField(reads) ==
  /\ typing = "decoding"
  /\ Innermost.next <= Len(Fields)
  /\ (Field.name \in DOMAIN Decoders[Innermost.decoder].reads) = reads

Visitor == Decoders[Innermost.decoder].reads[Field.name]

SkipField ==
  /\ AtField(FALSE)
  /\ drivers' = Advanced({})
  /\ UNCHANGED <<wrapped, drifted, changed, taken, typing>>

\* A leaf visitor takes its own type, the vector visitor any vector, whose elements
\* it visits, and the struct visitor any struct, whatever its name.
TakeScalar(visitor, type) ==
  /\ visitor \in Scalar /\ type = visitor
  /\ drivers' = Advanced({Field.name})
  /\ taken' = taken \union {Here}

\* An empty vector has no element to refuse, but raw bytes are asked of the layout.
TakeEmptyVector(visitor, type) ==
  /\ visitor \in DOMAIN Vector /\ type \in DOMAIN Vector
  /\ visitor = "vector<u8>" => type = "vector<u8>"
  /\ drivers' = Advanced({Field.name})
  /\ taken' = taken \union {Here}

EnterStruct(visitor, type) ==
  /\ visitor \in DOMAIN Decoders /\ type \in DOMAIN Decoders
  /\ drivers' = Append(Advanced({Field.name}), Driver(visitor, type, Here))
  /\ UNCHANGED taken

Accepts(visitor, type) ==
  \/ visitor \in Scalar /\ type = visitor
  \/ visitor \in DOMAIN Decoders /\ type \in DOMAIN Decoders

Take(visitor, type) == TakeScalar(visitor, type) \/ EnterStruct(visitor, type)

\* One element stands for all of a vector's.
TakeField ==
  /\ AtField(TRUE)
  /\ \/ Take(Visitor, Field.type)
     \/ TakeEmptyVector(Visitor, Field.type)
     \/ /\ Visitor \in DOMAIN Vector /\ Field.type \in DOMAIN Vector
        /\ Take(Vector[Visitor], Vector[Field.type])
  /\ UNCHANGED <<wrapped, drifted, changed, typing>>

WrongType ==
  /\ AtField(TRUE)
  /\ ~Accepts(Visitor, Field.type)
  /\ Visitor \in DOMAIN Vector /\ Field.type \in DOMAIN Vector
       => ~Accepts(Vector[Visitor], Vector[Field.type])
  /\ typing' = "UnexpectedType"
  /\ UNCHANGED <<wrapped, drifted, changed, drivers, taken>>

\* All fields are behind the driver: a required one was among them or is missing.
LeaveStruct ==
  /\ typing = "decoding"
  /\ Innermost.next > Len(Fields)
  /\ IF ~(Decoders[Innermost.decoder].required \subseteq Innermost.read)
     THEN typing' = "MissingField" /\ UNCHANGED drivers
     ELSE /\ drivers' = Front(drivers)
          /\ typing' = IF Len(drivers) = 1 THEN "typed" ELSE typing
  /\ UNCHANGED <<wrapped, drifted, changed, taken>>

DecodingNext == Gate \/ SkipField \/ TakeField \/ WrongType \/ LeaveStruct

DecodingSpec == DecodingInit /\ [][DecodingNext]_typingVars

-----------------------------------------------------------------------------
\* Properties.

DecodingTypeOK ==
  /\ wrapped \in Roots \union {"foreign"} /\ drifted \in Within[wrapped]
  /\ changed \in Drift[Known[drifted]]
  /\ typing \in {"named", "decoding", "typed", "UnknownVenue", "MissingField", "UnexpectedType"}
  /\ \A i \in DOMAIN drivers :
       /\ {drivers[i].decoder, drivers[i].struct} \subseteq DOMAIN Decoders
       /\ drivers[i].next \in 1 .. Len(LayoutOf(drivers[i].struct)) + 1
       /\ drivers[i].read \subseteq DOMAIN Decoders[drivers[i].decoder].reads

\* What a price is computed from, wherever it lies in the object.
PricedFields ==
  CASE wrapped = "CetusPool" ->
         {<<"coin_a", "value">>, <<"coin_b", "value">>, <<"tick_spacing">>, <<"fee_rate">>,
          <<"liquidity">>, <<"current_sqrt_price">>, <<"current_tick_index", "bits">>,
          <<"is_pause">>, <<"tick_manager", "ticks", "id", "id", "bytes">>}
    [] wrapped = "Field" ->
         {<<"value", "score">>, <<"value", "value", "index", "bits">>,
          <<"value", "value", "sqrt_price">>, <<"value", "value", "liquidity_net", "bits">>}
    [] OTHER -> {}

\* Under a drifted layout nothing is priced on a default: an object that is typed
\* was read everywhere its price comes from.  The gate and the decoder agree on what
\* is missing: what the gate admits is never refused for a missing field of its own,
\* and what it refuses, but for Navi storage, would have been.  And a field added,
\* moved or dropped that no decoder needs changes nothing (visitor.rs 28-34,
\* venue.rs 203-204).
DriftFailsClosed ==
  /\ typing = "typed" => PricedFields \subseteq taken
  /\ typing = "MissingField" /\ wrapped \in Venues => Len(drivers) > 1
  /\ typing = "UnknownVenue" /\ wrapped \in Venues \ {"NaviStorage"} =>
       ~(Decoders[wrapped].required \subseteq Names(LayoutOf(wrapped)))
  /\ Decoders[drifted].required \subseteq Names(changed)
       /\ TypesMatch(changed, Decoders[drifted])
       => typing \notin {"MissingField", "UnexpectedType"}

=============================================================================
