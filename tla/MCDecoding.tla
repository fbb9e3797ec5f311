------------------------------ MODULE MCDecoding ------------------------------
(***************************************************************************)
(* Constants of Decoding for TLC: one struct of an object drifts in one    *)
(* field.                                                                  *)
(***************************************************************************)
EXTENDS Decoding, FiniteSetsExt, TLC

MCScalar == {"bool", "u8", "u32", "u64", "u128", "address"}

MCVector ==
  "vector<u8>" :> "u8" @@ "vector<u128>" :> "u128" @@ "vector<address>" :> "address" @@
  "vector<OptionU64>" :> "OptionU64" @@ "vector<Entry>" :> "Entry"

\* The fields a decoder reads, behind one it does not.
MCKnown ==
  [s \in DOMAIN Decoders |->
     FoldSet(LAMBDA f, fields : Append(fields, [name |-> f, type |-> Decoders[s].reads[f]]),
             <<[name |-> "other", type |-> "u64"]>>, DOMAIN Decoders[s].reads)]

MCWithin ==
  [CetusPool   |-> {"CetusPool", "Balance", "I32", "TickManager", "SkipList", "UID", "ID",
                    "OptionU64", "Random", "String"},
   VoloPool    |-> {"VoloPool", "BalanceHolder", "Balance", "ValidatorSet", "Table", "VecMap",
                    "Entry"},
   NaviStorage |-> {"NaviStorage", "Table"},
   Field       |-> {"Field", "Node", "Tick", "I32", "I128", "OptionU64"},
   foreign     |-> {"UID"}]

\* One field dropped, moved to the end, or of another type.
MCDrift ==
  [fields \in Range(MCKnown) |->
     {fields} \union
     UNION {{RemoveAt(fields, i),
             Append(RemoveAt(fields, i), fields[i]),
             [fields EXCEPT ![i].type = "u64"],
             [fields EXCEPT ![i].type = "I32"],
             [fields EXCEPT ![i].type = "vector<u8>"],
             [fields EXCEPT ![i].type = "vector<u128>"]} : i \in DOMAIN fields}]

=============================================================================
