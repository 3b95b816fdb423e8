----------------------------- MODULE TokenPool -----------------------------
(***************************************************************************)
(* What a budget of interchangeable tokens promises: a holder is given its *)
(* tokens once, only tokens nobody holds are given out, and what a holder  *)
(* has it keeps until it gives all of it back.  The specification          *)
(* thread_budget.rs implements with files, locks and liveness guesses.     *)
(***************************************************************************)
EXTENDS Integers, FiniteSets

CONSTANTS Holders, Capacity
VARIABLE alloc      \* the number of tokens each holder has

\* The tokens taken; their number is the sum of the allocations, in a form
\* whose cardinality can be reasoned about.
Taken(a) == {t \in Holders \X (1..Capacity) : t[2] <= a[t[1]]}

Init == alloc = [h \in Holders |-> 0]

Grant(h, n) ==
    /\ alloc[h] = 0
    /\ alloc' = [alloc EXCEPT ![h] = n]
    /\ Cardinality(Taken(alloc')) <= Capacity

Free(S) == alloc' = [h \in Holders |-> IF h \in S THEN 0 ELSE alloc[h]]

Next ==
    \/ \E h \in Holders, n \in 1..Capacity : Grant(h, n)
    \/ \E S \in SUBSET Holders : Free(S)

Spec == Init /\ [][Next]_alloc
=============================================================================
