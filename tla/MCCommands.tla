------------------------------ MODULE MCCommands ------------------------------
(***************************************************************************)
(* Constants of Commands for TLC: those of its parts.                      *)
(***************************************************************************)
EXTENDS Commands, MCSwap, MCTickMath, MCDecoding, MCClassify, MCFixtures
=============================================================================
