---------------------------- MODULE MCTickMoments ----------------------------
(***************************************************************************)
(* Follow with a history of every list the pool had while its ticks were   *)
(* read, for the claim that an index that closes is a snapshot.  One pool, *)
(* a page walk long enough and listings that lose nothing, so that only    *)
(* ticks opened and closed while reading can tear it.                      *)
(***************************************************************************)
EXTENDS Follow, TLC

CONSTANT pool

VARIABLE moments  \* the lists the pool being read had since this snapshot began

MCPool == {pool}
MCTicksOf == pool :> {-2, 0, 2}
MCPlace == (-2 :> 1) @@ (0 :> 2) @@ (2 :> 3)
MCGridPrice == (-2 :> 4) @@ (-1 :> 6) @@ (0 :> 8) @@ (1 :> 11) @@ (2 :> 16)

Begins == phase = "idle" \/ retries' < retries

RecordMoments ==
  moments' = IF target' = NoPool THEN {}
             ELSE IF Begins THEN {list'[target']}
             ELSE moments \union {list'[target']}

MomentsSpec == Init /\ moments = {} /\ [][Next /\ RecordMoments]_<<vars, moments>>

\* commands.rs 156-161: a tick added or removed while the nodes are listed and
\* fetched leaves a snapshot whose link graph does not close.  So an index that
\* closes holds the ticks of one moment of the read.
OneMoment == phase = "loaded" => {n.index : n \in nodes} \in moments

=============================================================================
