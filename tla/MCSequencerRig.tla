--------------------------- MODULE MCSequencerRig ---------------------------
(* Values for the constants of SequencerRig in TLC's runs. *)
EXTENDS SequencerRig

CONSTANTS cam1, cam2

\* Primary: frames of 1, 2 and 1 ticks.  Frames of the other camera that fit between two dithers, and one that never does.
MCPlans == {[l \in Lanes |-> IF l = cam1 THEN <<1, 3, 4>> ELSE s] : s \in {<<1, 3>>, <<4>>}}
=============================================================================
