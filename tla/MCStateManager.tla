--------------------------- MODULE MCStateManager ---------------------------
(***************************************************************************)
(* One Cetus pool and one lending market, three dynamic fields of which    *)
(* two are the pool's, a child set that keeps one, and a handful of        *)
(* checkpoints delivered in any order and any number of times.             *)
(***************************************************************************)
EXTENDS ManagerCalls, TLC

CONSTANTS p1, n1, c1, c2, c3, u1, ux, cetus, navi

MCVenue  == {p1, n1}
MCTagOf  == (p1 :> cetus) @@ (n1 :> navi)
MCNodeUid == p1 :> u1
MCChild  == {c1, c2, c3}
MCParentOf == (c1 :> u1) @@ (c2 :> u1) @@ (c3 :> ux)

Write(v, n) == [kind |-> "venue", id |-> v, version |-> n]
Field(c)    == [kind |-> "child", id |-> c]
Gone(id)    == [kind |-> "removed", id |-> id]
Missing     == [kind |-> "missing"]
Ck(n, pkgs, changes) == [seq |-> n, packages |-> pkgs, changes |-> changes]

\* Genesis with a duplicate number, a pool written twice in one checkpoint, a
\* child deleted and re-created, a full child set, a pool deleted with its
\* children still in place, and an object version from before the slot's.
MCCheckpoints == {
  Ck(0, 0, <<Write(p1, 2), Field(c1), Write(p1, 3)>>),
  Ck(1, 2, <<Gone(c1), Field(c3), Field(c2), Write(n1, 4)>>),
  Ck(2, 0, <<Gone(c1), Field(c1), Missing, Write(p1, 5)>>),
  Ck(2, 0, <<Write(p1, 1), Field(c2), Field(c1)>>),
  Ck(3, 0, <<Write(p1, 6), Gone(p1), Field(c3)>>),
  Ck(4, 0, <<Write(p1, 7), Gone(n1), Gone(c2)>>) }
=============================================================================
