--------------------------- MODULE MCCondaOutputs ---------------------------
(* Instances of CondaOutputs for TLC.                                      *)
EXTENDS CondaOutputs, TLC

CONSTANTS p1, p2, a, b

ThreeWorlds == 0 .. 2

\* World 1 differs from world 0 in nothing that this package may take.
MovesOnce == [w \in ThreeWorlds |-> IF w = 2 THEN 1 ELSE 0]

\* No lock, one that can be added to, one that can be replayed, and one whose
\* dependencies are not those of its version.
SomeLocks ==
    {None,
     [fp |-> 0, ver |-> 1, deps |-> 1, full |-> FALSE],
     [fp |-> 0, ver |-> 0, deps |-> 0, full |-> TRUE],
     [fp |-> 0, ver |-> 0, deps |-> 1, full |-> TRUE]}

Few == [requests |-> 2, builds |-> 1, troubles |-> 1]

Symmetric == Permutations(Procs) \cup Permutations(Outputs)
=============================================================================
