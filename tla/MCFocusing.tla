----------------------------- MODULE MCFocusing -----------------------------
(* Values for the constants of Focusing in TLC's runs. *)
EXTENDS Focusing, TLC

MCSymmetry ==
  Permutations(Positions \ {Zero}) \cup Permutations(Clients) \cup Permutations(Runs) \cup Permutations(Workers)
=============================================================================
