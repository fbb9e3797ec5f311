-------------------------------- MODULE MCSwap --------------------------------
(***************************************************************************)
(* Constants of Swap for TLC: five ticks, and pools of one or two          *)
(* positions, adjacent, overlapping, or with a gap between them.           *)
(***************************************************************************)
EXTENDS Swap, TLC

MCPriceAt == (-2 :> 4) @@ (-1 :> 6) @@ (0 :> 8) @@ (1 :> 11) @@ (2 :> 16)

\* The pool stores one price above the computed one and one below.
MCComputedAt == (-2 :> 4) @@ (-1 :> 5) @@ (0 :> 8) @@ (1 :> 12) @@ (2 :> 16)

\* Positions [-2, 2]; [-2, 2] and [-1, 1]; [-2, 0] and [0, 2]; [-2, -1] and [1, 2].
MCBook ==
  {(-2 :> 5) @@ (2 :> -5),
   (-2 :> 2) @@ (-1 :> 9) @@ (1 :> -9) @@ (2 :> -2),
   (-2 :> 3) @@ (0 :> 4) @@ (2 :> -7),
   (-2 :> 6) @@ (-1 :> -6) @@ (1 :> 2) @@ (2 :> -2)}

\* Boundaries on both sides of every price, with changes that do not fit u128
\* or cannot be negated.
MCAnswer == [tick : {0}, sqrtPrice : {4, 6, 7, 8, 11, 16, 63}, net : {-32, -3, 0, 5, 31}]
MCStray == [sqrtPrice : {6, 8, 16}, liquidity : {1, 4, 60}, tick : {0}, feeRate : {3}]

=============================================================================
