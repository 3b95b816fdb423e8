----------------------------- MODULE SharedTree -----------------------------
(***************************************************************************)
(* What a tree on disk promises those who share it: nobody uses a tree     *)
(* that is not whole, and while anybody uses it it stays as it is.  The    *)
(* specification ensure_git_checkout implements with a marker, a lock file *)
(* and a read-write lock in every process.                                 *)
(***************************************************************************)
CONSTANTS Users, Whole, Nothing
VARIABLES
    content,    \* what the tree holds
    using       \* what each user has been handed, Nothing for no tree

Idle == [u \in Users |-> Nothing]

Init == using = Idle

\* A user asks for w, and it is there.
Take(u, w) ==
    /\ using[u] = Nothing
    /\ content = w
    /\ using' = [using EXCEPT ![u] = w]
    /\ UNCHANGED content

\* Users are done, or die together.
GiveBack(S) ==
    /\ using' = [u \in Users |-> IF u \in S THEN Nothing ELSE using[u]]
    /\ UNCHANGED content

\* Whoever changes the tree does so alone.
Change == using = Idle /\ UNCHANGED using

Next ==
    \/ \E u \in Users, w \in Whole : Take(u, w)
    \/ \E S \in SUBSET Users : GiveBack(S)
    \/ Change

Spec == Init /\ [][Next]_<<content, using>>
=============================================================================
