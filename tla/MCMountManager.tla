--------------------------- MODULE MCMountManager ---------------------------
(* Values for the constants of MountManager in TLC's runs. *)
EXTENDS MountManager, TLC

MCSymmetry == Permutations(Callers) \cup Permutations(Workers)
=============================================================================
