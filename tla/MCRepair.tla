------------------------------ MODULE MCRepair ------------------------------
(***************************************************************************)
(* Two bundles that share a distribution, and two processes.               *)
(***************************************************************************)
EXTENDS Repair, TLC

CONSTANTS p1, p2, b1, b2, d1, d2

MCLocked == [b \in Bundles |-> IF b = b1 THEN {d1, d2} ELSE {d2}]
Symmetry == Permutations(Procs)
=============================================================================
