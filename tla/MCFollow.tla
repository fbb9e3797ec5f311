------------------------------ MODULE MCFollow ------------------------------
(***************************************************************************)
(* Constants of Follow for TLC: a pool whose list fits the page walk and   *)
(* one whose longest list does not; fields are not listed in tick order.   *)
(***************************************************************************)
EXTENDS Follow, TLC

CONSTANTS small, large

MCPool == {small, large}
MCTicksOf == (small :> {0}) @@ (large :> {-2, 0, 2})
MCPlace == (-2 :> 2) @@ (0 :> 3) @@ (2 :> 1)
MCGridPrice == (-2 :> 4) @@ (-1 :> 6) @@ (0 :> 8) @@ (1 :> 11) @@ (2 :> 16)

=============================================================================
