--------------------------- MODULE MCGitCheckout ---------------------------
(***************************************************************************)
(* Two processes, one with two tasks, of which one may ask for another     *)
(* identity at an alias of the directory.                                  *)
(***************************************************************************)
EXTENDS GitCheckout

CONSTANTS p1, p2, t1, t2, t3, i1, i2

MCHome == [t \in Tasks |-> IF t = t3 THEN p2 ELSE p1]
MCIdent == [t \in Tasks |-> IF t = t2 THEN {i1, i2} ELSE {i1}]
=============================================================================
