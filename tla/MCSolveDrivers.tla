---------------------------- MODULE MCSolveDrivers ----------------------------
(***************************************************************************)
(* One package whose conda name is an ABI anchor, one that has its own     *)
(* name, and the conflicts that reach every tier of the ladder.            *)
(***************************************************************************)
EXTENDS SolveDrivers

CONSTANTS app, lib, abi

MCCondaOf == [n \in Names |-> IF n = app THEN abi ELSE n]

Draft(place, entry) == [NoDoc EXCEPT ![place] = entry]
MCDrafts ==
    {Draft(<<"conda", app>>, "exact"),
     [Draft(<<"conda", abi>>, "exact") EXCEPT ![<<"conda", lib>>] = "table"]}

Plain(kind, n) == [kind |-> kind, pkg |-> n]
WidenOf(n, chain, pack) ==
    [kind |-> "widen", pkg |-> n, chain |-> chain, pack |-> pack]
Pinned(n, owned) == [kind |-> "depsFrom", pkg |-> n, owned |-> owned]
Capped(n, cap) == [kind |-> "nestedCap", pkg |-> n, cap |-> cap]
Mentions == <<[pkg |-> app, tier |-> "relax"], [pkg |-> app, tier |-> "unroute"],
              [pkg |-> lib, tier |-> "relax"]>>
Opaque == {[kind |-> "postWiden"], [kind |-> "unknown"]}
Workspace ==
    {Plain("boundary", app), Plain("internal", lib), Plain("noCandidates", app),
     WidenOf(app, <<>>, FALSE), WidenOf(lib, <<>>, FALSE),
     WidenOf(abi, <<app>>, FALSE)}
Pack ==
    {WidenOf(app, <<>>, TRUE), Pinned(app, TRUE), Plain("rangeVsPin", lib),
     Capped(lib, 1), Plain("retread", app),
     [kind |-> "generic", cands |-> Mentions]}
MCErrors == Opaque \cup Workspace \cup Pack

\* What is run first, and what is run then.
MCCommands == <<{"lock", "solve"}, {"lock", "clean"}>>
SolveAfterLock == <<{"lock"}, {"solve"}>>
=============================================================================
