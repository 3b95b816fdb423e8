--------------------------- MODULE MCThreadBudget ---------------------------
(***************************************************************************)
(* Small instances of ThreadBudget for TLC: backend processes of which one *)
(* packages two outputs, or each of which packages one, over a budget      *)
(* smaller than the demand.                                                *)
(***************************************************************************)
EXTENDS ThreadBudget, TLC

CONSTANTS p1, p2, p3, b1, b2, b3

MCOwner == [b \in Builds |-> IF b = b3 THEN p2 ELSE p1]
OwnerEach == [b \in Builds |-> CASE b = b1 -> p1 [] b = b2 -> p2 [] b = b3 -> p3]
NoOverride == [b \in Builds |-> 0]
MCBudget == [b \in Builds |-> MaxBudget]
MCWant == [b \in Builds |-> IF b = b1 THEN 1 ELSE MaxBudget]
MixedBudget == [b \in Builds |-> IF b = b3 THEN 1 ELSE MaxBudget]

NonceSymmetry == Permutations(Nonces)
=============================================================================
