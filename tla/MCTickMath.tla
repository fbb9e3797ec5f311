------------------------------ MODULE MCTickMath ------------------------------
(***************************************************************************)
(* Constants of TickMath for TLC: fifteen ticks of ratio two, and every    *)
(* price from zero to beyond the highest of them.                          *)
(***************************************************************************)
EXTENDS TickMath

MCMinTick == -7
MCFactor == <<2896, 2048, 1024>>
MCPower == [n \in 0 .. 4 |-> 2^n]
MCQuery == 0 .. 800

=============================================================================
