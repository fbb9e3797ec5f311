------------------------------ MODULE MCFixtures ------------------------------
(***************************************************************************)
(* Constants of Fixtures for TLC: the watched pool, a foreign pool the     *)
(* checkpoint also writes, a tick node and a coin.                         *)
(***************************************************************************)
EXTENDS Fixtures, TLC

MCObject == {"poolA", "poolX", "node", "coin"}
MCTag == {"Pool", "OtherPool", "Node", "Coin"}
MCTagOf == ("poolA" :> "Pool") @@ ("poolX" :> "OtherPool") @@ ("node" :> "Node") @@ ("coin" :> "Coin")
MCPackage == {"cetus", "other", "sui", "script"}
MCMentions ==
  ("Pool" :> {"cetus", "sui"}) @@ ("OtherPool" :> {"other", "sui"})
  @@ ("Node" :> {"cetus"}) @@ ("Coin" :> {"sui"})

Writes(o, v) == [id |-> o, in |-> v, out |-> v + 1]
Deletes(o, v) == [id |-> o, in |-> v, out |-> 0]

\* Both pools in one transaction, the foreign one and a coin in another that is not
\* kept, and the watched one deleted in the last.
MCCheckpoints ==
  {<<{Writes("poolA", 1), Writes("poolX", 1)}, {Writes("poolX", 2), Writes("coin", 1)},
     {Deletes("poolA", 2)}>>}

All == {"poolA", "poolX", "coin"} \X {1, 2, 3}

\* The node answers everything; or it cannot resolve the foreign pool, whose
\* package and new version it has lost, and lists no tick node.
MCRemote ==
  {[up |-> MCTag, packages |-> MCPackage, held |-> All, nodes |-> {"node"}],
   [up |-> MCTag \ {"OtherPool"}, packages |-> MCPackage \ {"other"},
    held |-> All \ {<<"poolX", 2>>}, nodes |-> {}]}

=============================================================================
