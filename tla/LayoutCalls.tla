---------------------------- MODULE LayoutCalls ----------------------------
(***************************************************************************)
(* The two ways LayoutCache is called: reports and lookups from one task,  *)
(* as bin/birdai issues them, or from tasks that race, as the API allows.  *)
(***************************************************************************)
EXTENDS LayoutCache

VARIABLES
  serial,   \* whether reports and lookups come from one task
  reported  \* the newest version any report named (read by properties only)

CallsInit == Init /\ serial \in BOOLEAN /\ reported = Nothing
CallsNext ==
  /\ IF serial THEN SerialNext ELSE Next
  /\ reported' = [p \in Package |->
                    IF observed'[p] > reported[p] THEN observed'[p] ELSE reported[p]]
  /\ UNCHANGED serial
CallsSpec == CallsInit /\ [][CallsNext]_<<vars, serial, reported>>

\* With reports and lookups in one task no lookup returns a layout older than
\* the packages reported before it was called: cached layouts are dropped as
\* soon as a package moves (layout.rs:13-14).
SerialLookupsFresh == serial => LayoutsFresh

\* Then no layout in the cache is older than any package version a report ever
\* named, even when an older one was named after it: a checkpoint that names an
\* older package object "cannot make cached data fresh again" (layout.rs:68-69).
\* cached_layouts hands a capture everything that is cached, without a check.
SerialCacheFresh ==
  serial /\ noter = "idle" =>
    \A g \in Tag : layouts[g] # NoEntry =>
      \A p \in Mentions[g] : layouts[g].content[p] >= BytecodeAt(p, reported[p])

=============================================================================
