------------------------------ MODULE MCGuider ------------------------------
(* Values for the constants of Guider in TLC's runs. *)
EXTENDS Guider, TLC

MCSymmetry ==
  Permutations(Runs) \cup Permutations(Previews) \cup Permutations(Clients) \cup Permutations(Requests)
=============================================================================
