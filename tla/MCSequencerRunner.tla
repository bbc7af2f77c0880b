------------------------- MODULE MCSequencerRunner -------------------------
(* Values for the constants of SequencerRunner in TLC's runs. *)
EXTENDS SequencerRunner

CONSTANTS t1, t2, cam1, cam2

\* A task of two frames on the primary camera alone, and one on both cameras.
MCPlans == {[l \in Lanes |-> IF l = Primary THEN 2 ELSE 0], [l \in Lanes |-> 1]}
MCShort == {[l \in Lanes |-> IF l = Primary THEN 1 ELSE 0]}
MCBoth == {[l \in Lanes |-> 1]}
MCPauseDefer == [t \in Tasks |-> IF t = t1 THEN "pause" ELSE "defer"]
MCPauseAbort == [t \in Tasks |-> IF t = t1 THEN "pause" ELSE "abort"]
MCDeferSkip == [t \in Tasks |-> IF t = t1 THEN "defer" ELSE "skip"]
=============================================================================
