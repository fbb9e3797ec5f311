---------------------------- MODULE ManagerCalls ----------------------------
(***************************************************************************)
(* The two ways StateManager is called: ticks installed between two        *)
(* checkpoints only, as bin/birdai does, or at any time, as the API        *)
(* allows.                                                                 *)
(***************************************************************************)
EXTENDS StateManager

VARIABLE serial  \* whether ticks are installed between checkpoints only

CallsInit == Init /\ serial \in BOOLEAN
CallsNext == (IF serial THEN SerialNext ELSE Next) /\ UNCHANGED serial
CallsSpec == CallsInit /\ [][CallsNext]_<<vars, serial>>

\* With the serial caller of bin/birdai the manager implements the versioned view:
\* every step publishes, drops or installs one slot, advances the watermark, or is
\* invisible to readers.
ImplementsView == (serial => View!Init) /\ [][serial => View!Next]_(View!vars)

=============================================================================
