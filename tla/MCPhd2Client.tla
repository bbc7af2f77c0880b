---------------------------- MODULE MCPhd2Client ----------------------------
(* Values for the constants of Phd2Client in TLC's runs. *)
EXTENDS Phd2Client, TLC

MCSymmetry == Permutations(Clients) \cup Permutations(Admins) \cup Permutations(Loops) \cup Permutations(Calls)
=============================================================================
