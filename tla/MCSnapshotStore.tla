-------------------------- MODULE MCSnapshotStore --------------------------
(***************************************************************************)
(* Three calls, one of which verifies in full, and two reaper passes.      *)
(***************************************************************************)
EXTENDS SnapshotStore, TLC

CONSTANTS c1, c2, c3, r1, r2

Symmetry == Permutations({c1, c2}) \cup Permutations(Reapers)
=============================================================================
