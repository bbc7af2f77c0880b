-------------------------- MODULE MCDeviceManager ---------------------------
(* Values for the constants of DeviceManager in TLC's runs. *)
EXTENDS DeviceManager, TLC

CONSTANTS mountA, mountB, focuser

\* The first mount brings a companion with it.
MCCompanionsOf == [i \in Ids |-> IF i = mountA /\ focuser \in Ids THEN {focuser} ELSE {}]
MCSymmetry == Permutations(Clients) \cup Permutations(Entries)
=============================================================================
