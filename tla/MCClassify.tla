------------------------------ MODULE MCClassify ------------------------------
(***************************************************************************)
(* Constants of Classify for TLC: every package of two modules of one      *)
(* function, and the transactions of up to three calls against a few.      *)
(***************************************************************************)
EXTENDS Classify

Of(type, args) == [ref |-> "val", type |-> type, args |-> args]
MutPool == [ref |-> "mut", type |-> "venue", args |-> <<"T0", "T1">>]
Fun(callable, params, returns) == [callable |-> callable, params |-> params, returns |-> returns]

CoinA == Of("coin", <<"T0">>)
CoinB == Of("coin", <<"T1">>)
BalanceA == Of("balance", <<"T0">>)
BalanceB == Of("balance", <<"T1">>)

Swap1 == Fun(TRUE, <<MutPool, CoinA>>, <<BalanceB>>)
Script == Fun(TRUE, <<MutPool, CoinA, CoinB>>, <<>>)
Withdraw == Fun(TRUE, <<MutPool>>, <<BalanceA, BalanceB>>)

Signatures ==
  {Swap1, Script, Withdraw,
   Fun(FALSE, <<MutPool, CoinA>>, <<CoinB>>),
   Fun(TRUE, <<MutPool, BalanceA>>, <<BalanceB>>),
   Fun(TRUE, <<MutPool, CoinA>>, <<CoinA, Of("coin", <<"concrete">>)>>),
   Fun(TRUE, <<[MutPool EXCEPT !.ref = "imm"], CoinA>>, <<CoinB>>),
   Fun(TRUE, <<MutPool, CoinB>>, <<CoinA, BalanceB>>),
   Fun(TRUE, <<[MutPool EXCEPT !.args = <<"T0", "concrete">>], CoinA>>, <<CoinB>>),
   Fun(TRUE, <<MutPool, CoinA, Of("price_oracle", <<>>)>>, <<BalanceB>>),
   Fun(TRUE, <<MutPool, [MutPool EXCEPT !.args = <<"T1", "T2">>], CoinA>>, <<Of("coin", <<"T2">>)>>)}

Module(f, links) == [functions |-> <<f>>, links |-> links]

\* No fragment of a feed's name matches "twap".
MCModuleName == {"math", "price_oracle", "pythnet", "twap"}

Packages ==
  {<<Module(f, {"math"}), Module(g, links)>> :
     f, g \in Signatures, links \in {{}, {"pythnet"}}}

MCSubject ==
  {[package |-> p, layout |-> l, traded |-> FALSE] : p \in Packages, l \in {{}, {"price_oracle"}}}
  \union {[package |-> <<Module(f, {})>>, layout |-> {}, traded |-> TRUE] : f \in {Swap1, Withdraw}}

Call(function, trade, price, a, b, feed) ==
  [function |-> function, trade |-> trade, price |-> price, a |-> a, b |-> b, feed |-> feed]

\* Swaps both ways, one too small to move the price, liquidity added on both sides,
\* on one side and removed, and feeds that set the price, one under a name not known.
MCCalls ==
  {Call(Script, "AtoB", -1, 2, -1, "none"), Call(Swap1, "AtoB", 0, 1, 0, "none"),
   Call(Script, "BtoA", 1, -1, 2, "none"), Call(Script, "none", 0, 2, 1, "none"),
   Call(Script, "none", 0, 0, 1, "none"), Call(Withdraw, "none", 0, -1, -2, "none"),
   Call(Fun(TRUE, <<MutPool>>, <<>>), "none", 2, 0, 0, "price_oracle"),
   Call(Fun(TRUE, <<MutPool>>, <<>>), "none", 2, 0, 0, "twap")}

=============================================================================
