----------------------------- MODULE MCMountMove ----------------------------
(* Values for the constants of MountMove in TLC's runs. *)
EXTENDS MountMove, TLC

CONSTANTS north, south, east, ns, we

MCAxisOf == [d \in Directions |-> IF d = east THEN we ELSE ns]
MCSymmetry == Permutations(Clients) \cup Permutations(Leases)
=============================================================================
