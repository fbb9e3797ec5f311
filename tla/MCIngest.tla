------------------------------ MODULE MCIngest ------------------------------
(***************************************************************************)
(* One pool, two children of it and a set that keeps one of them.          *)
(***************************************************************************)
EXTENDS Ingest, TLC

CONSTANTS p1, c1, c2, u1, cetus

MCTagOf    == p1 :> cetus
MCNodeUid  == p1 :> u1
MCParentOf == (c1 :> u1) @@ (c2 :> u1)
Symmetry   == Permutations({c1, c2})
=============================================================================
