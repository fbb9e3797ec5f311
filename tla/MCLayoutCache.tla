---------------------------- MODULE MCLayoutCache ----------------------------
(***************************************************************************)
(* Constants of LayoutCalls for TLC: a venue tag whose own package is not  *)
(* upgraded in place but which has a system package's coin as a parameter, *)
(* and a tag of that system package; two tasks.  A racing behaviour looks  *)
(* up the system tag only.                                                 *)
(***************************************************************************)
EXTENDS LayoutCalls, TLC

CONSTANTS pool, sys, task1, task2

MCPackage == {pool, sys}
MCSystem == {sys}
MCOneName == {"pool"}
MCTwoNames == {"pool", "clock"}
MCCanonical == [n \in Name |-> n]
MCMentions == [g \in Tag |-> IF g = "pool" THEN {pool, sys} ELSE {sys}]
MCNames == [n \in Name |-> IF n = "pool" THEN {pool, sys} ELSE {sys}]
MCTask == {task1, task2}
Tasks == Permutations(MCTask)

\* Bound of the racing behaviours: the pool's package and tag stay out of them.
SystemOnly ==
  /\ chain'[pool] = chain[pool] /\ observed'[pool] = observed[pool]
  /\ \A t \in Task : tag'[t] # "pool"

BoundedNext == CallsNext /\ (serial \/ SystemOnly)
BoundedSpec == CallsInit /\ [][BoundedNext]_<<vars, serial, reported>>

\* Racing behaviours without that bound.
RaceSpec == CallsInit /\ ~ serial /\ [][CallsNext]_<<vars, serial, reported>>

=============================================================================
