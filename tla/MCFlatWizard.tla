---------------------------- MODULE MCFlatWizard ----------------------------
(* Values for the constants of FlatWizard in TLC's runs. *)
EXTENDS FlatWizard, TLC

CONSTANTS fA, fB, pA, pB

MCPlans == {<<fA, fB>>, <<fB>>}
MCPanels == <<pA, pB>>
\* The numbers of the runs are among those that ReachableIsSolved is proved for.
ASSUME MCNumbers == TargetBelowSaturation /\ UnitsAreFine /\ EnoughAttempts

MCSymmetry == Permutations(Cameras)
=============================================================================
