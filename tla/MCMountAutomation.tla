-------------------------- MODULE MCMountAutomation -------------------------
(* Values for the constants of MountAutomation in TLC's runs. *)
EXTENDS MountAutomation, TLC

MCSymmetry == Permutations(Workers) \cup Permutations(Holders)
=============================================================================
