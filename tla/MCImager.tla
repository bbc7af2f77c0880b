------------------------------ MODULE MCImager ------------------------------
(* Values for the constants of Imager in TLC's runs. *)
EXTENDS Imager, TLC

MCSymmetry == Permutations(Exposures) \cup Permutations(Clients)
=============================================================================
