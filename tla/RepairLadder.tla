----------------------------- MODULE RepairLadder -----------------------------
(***************************************************************************)
(* The repair ladder of `retread lock` and `retread solve`: the entries of *)
(* a workspace manifest (src/src/solve/manifest.rs), what the planner      *)
(* (src/src/solve/repair.rs) does about a conflict, and the decisions it   *)
(* keeps in the ledger of overrides (src/src/pack_overrides.rs).           *)
(*                                                                         *)
(* The manifest has one feature and the workspace one pack.  A version is  *)
(* kept only where it decides: whether an entry pins exactly, and how far  *)
(* a range in the ledger has been narrowed.                                *)
(***************************************************************************)
EXTENDS Naturals, Sequences, FiniteSets

CONSTANTS
    Names,      \* packages, by their PyPI and by their conda names
    Anchors,    \* the ABI anchors among them
    CondaOf,    \* the conda name each PyPI name maps to
    NoFile      \* a ledger that does not exist

Strategies == {"widen", "conda", "pypi", "override"}
Tables == {"conda", "pypi", "over"}
Places == Tables \X Names

\* The user's entries are strings, exact pins or not, or inline tables; the
\* others carry a sentinel of the tool.
UserStrings == {"exact", "range"}
Sentinels == {"pin", "widened", "override"}
Entries == {"none", "table"} \cup UserStrings \cup Sentinels
Docs == [Places -> Entries]

\* The specs of the ledger: an exact pin, a floor or a range, with the cap it
\* was narrowed to, if any.
Caps == 0..2
Forms == {"none", "pin", "floor", "range"}
NoSpec == <<"none", 0>>
Ledgers == [spec : [Names -> Forms \X Caps], unrouted : SUBSET Names]
ASSUME LadderAssumption ==
    /\ Anchors \subseteq Names
    /\ CondaOf \in [Names -> Names]
    /\ NoFile \notin Ledgers

Empty == [spec |-> [n \in Names |-> NoSpec], unrouted |-> {}]
Loaded(ledger) == IF ledger = NoFile THEN Empty ELSE ledger

\* What a package was tried with is kept under its name or, for the tiers of
\* a pack, under its name and the tier.
Tiers == {"", "pack", "narrow", "relax", "unroute", "terminal"}
Keys == Names \X Tiers
Key(p) == <<p, "">>
Kinds == {"override", "unroute"}
Writes == [kind : Kinds, pkg : Names, spec : Forms \X Caps]
Override(p, spec) == [kind |-> "override", pkg |-> p, spec |-> spec]
Unroute(p) == [kind |-> "unroute", pkg |-> p, spec |-> NoSpec]
-----------------------------------------------------------------------------
(***************************************************************************)
(* The manifest.                                                           *)
(***************************************************************************)
\* entry_snapshot: the value of a table-valued entry is not seen.
Snapshot(doc, place) == IF doc[place] = "table" THEN "none" ELSE doc[place]

\* PendingEdit::restore: every entry of the repair gets back its snapshot, an
\* entry without a value is removed.
Restore(doc, edits) ==
    [place \in Places |->
       LET mine == {i \in DOMAIN edits : edits[i][1] = place}
       IN  IF mine = {} THEN doc[place]
           ELSE edits[CHOOSE i \in mine : \A j \in mine : i <= j][2]]

UserEntry(doc, table, n) == doc[table, n] \in UserStrings

\* resolve_conda_pin_owner: the conda name under which the user pins p.
Family(p) == {p, CondaOf[p]}
Owned(doc, p) == \E n \in Family(p) : UserEntry(doc, "conda", n)
Owner(doc, p) == IF UserEntry(doc, "conda", CondaOf[p]) THEN CondaOf[p] ELSE p

\* clean_pins
Cleaned(doc) ==
    [place \in Places |-> IF doc[place] \in Sentinels THEN "none"
                          ELSE doc[place]]

\* sentinel_strategies
StrategyOf(place, entry) ==
    IF entry = "widened" THEN "widen"
    ELSE IF place[1] = "over" THEN "override" ELSE place[1]
SentinelStrategies(doc) ==
    {<<Key(place[2]), StrategyOf(place, doc[place])>> :
        place \in {q \in Places : doc[q] \in Sentinels}}
-----------------------------------------------------------------------------
(***************************************************************************)
(* The tiers of the ladder.  A plan is the document with what was tried;   *)
(* a tier that applies makes it a plan that is done, with the edits and    *)
(* the writes to the ledger that make up the repair.                       *)
(***************************************************************************)
Plan(doc, tried, guarded, prefer) ==
    [doc |-> doc, tried |-> tried, guarded |-> guarded, prefer |-> prefer,
     edits |-> <<>>, writes |-> {}, by |-> "none", done |-> FALSE]

Tried(s, p, strategy) == <<Key(p), strategy>> \in s.tried
Mark(s, key, strategy) == [s EXCEPT !.tried = @ \cup {<<key, strategy>>}]

\* Mutant: the package of the conflict is guarded, not the entry.
TierOnPackage(s, p, strategy, dropped, place, entry) ==
    IF p \in Anchors THEN s
    ELSE [Mark(s, Key(p), strategy) EXCEPT
            !.doc = [q \in Places |->
                       IF q = place THEN entry
                       ELSE IF q \in dropped THEN "none" ELSE s.doc[q]],
            !.guarded = @ \cup {<<Key(p), <<entry, 0>>, strategy>>},
            !.edits = <<<<place, Snapshot(s.doc, place)>>>>,
            !.by = strategy, !.done = TRUE]

\* An edit of the manifest for p: an entry of the tool is dropped, another is
\* set.  No entry of an ABI anchor is edited, and no edit is made twice.
Tier(s, p, strategy, dropped, place, entry) ==
    LET gone == {q \in dropped : s.doc[q] \in Sentinels}
        edit(q) == <<q, Snapshot(s.doc, q)>>
        spec == <<entry, 0>>
    IN  IF place[2] \in Anchors \/ <<Key(p), spec, strategy>> \in s.guarded
        THEN s
        ELSE [Mark(s, Key(p), strategy) EXCEPT
                !.doc = [q \in Places |->
                           IF q = place THEN entry
                           ELSE IF q \in gone THEN "none" ELSE s.doc[q]],
                !.guarded = @ \cup {<<Key(p), spec, strategy>>},
                !.edits = IF gone = {} THEN <<edit(place)>>
                          ELSE <<edit(CHOOSE q \in gone : TRUE), edit(place)>>,
                !.by = strategy, !.done = TRUE]

CondaPin(s, p) == Tier(s, p, "conda", {}, <<"conda", p>>, "pin")
PypiPin(s, p) ==
    Tier(s, p, "pypi", {<<"conda", p>>}, <<"pypi", p>>, "pin")
OverridePin(s, p) ==
    IF Tried(s, p, "override") THEN s
    ELSE Tier(s, p, "override", {<<"pypi", p>>}, <<"over", p>>, "pin")
Widen(s, p, name) == Tier(s, p, "widen", {}, <<"conda", name>>, "widened")

\* pypi_override_from_conda
CondaAsTruth(s, p) ==
    Tier(s, p, "override", {}, <<"over", p>>, "override")

\* A decision for the pack that goes to the ledger; the oscillation guard
\* knows it by its spec.
PackTier(s, p, key, spec) ==
    IF p \in Anchors \/ <<key, spec, "override">> \in s.guarded THEN s
    ELSE [Mark(s, key, "override") EXCEPT
            !.guarded = @ \cup {<<key, spec, "override">>},
            !.writes = {Override(p, spec)},
            !.by = "override", !.done = TRUE]

\* boundary: the user's conda pin counts as the conda tier.
Boundary(s, p) ==
    IF ~Tried(s, p, "conda")
    THEN IF UserEntry(s.doc, "conda", p)
         THEN PypiPin(Mark(s, Key(p), "conda"), p)
         ELSE CondaPin(s, p)
    ELSE IF ~Tried(s, p, "pypi") THEN PypiPin(s, p)
    ELSE OverridePin(s, p)

NoCandidates(s, p) ==
    IF Tried(s, p, "conda") /\ ~Tried(s, p, "pypi") THEN PypiPin(s, p)
    ELSE IF Tried(s, p, "pypi") THEN OverridePin(s, p)
    ELSE s

First(indices) == CHOOSE i \in indices : \A j \in indices : i <= j

\* resolve_pack_override: the conflict's package or the nearest requirer that
\* the consuming environment pins exactly.
PackPinned(s, p) ==
    /\ ~Tried(s, p, "override") /\ p \notin Anchors
    /\ \E n \in Family(p) : s.doc["conda", n] \in {"exact", "pin"}

\* The override takes its version from the user's conda pin.
TruthPinned(s, p) ==
    /\ ~Tried(s, p, "override") /\ p \notin Anchors
    /\ Owned(s.doc, p)
    /\ <<Key(p), <<"override", 0>>, "override">> \notin s.guarded

WidenOrBoundary(s, p) ==
    IF Tried(s, p, "widen") THEN Boundary(s, p)
    ELSE Widen(s, p, Owner(s.doc, p))

\* conda_widen_needed
CondaWidenNeeded(s, e) ==
    LET blamed == <<e.pkg>> \o e.chain
        named == IF Owned(s.doc, e.pkg) THEN <<e.pkg>> ELSE e.chain
        packed == {i \in DOMAIN blamed : e.pack /\ PackPinned(s, blamed[i])}
        pinned == {i \in DOMAIN named :
                     ~e.pack /\ TruthPinned(s, named[i])}
        p == blamed[First(packed)]
        relaxed == PackTier(s, p, Key(p), <<"pin", 0>>)
    IN  IF s.prefer = "conda" /\ packed # {} /\ relaxed.done THEN relaxed
        ELSE IF s.prefer = "conda" /\ pinned # {}
        THEN CondaAsTruth(s, named[First(pinned)])
        ELSE WidenOrBoundary(s, e.pkg)

\* deps_from_pin_conflict, no_wheel_transitive_conflict: the exact pin of a
\* root that the pack took from its upstream becomes a floor.
DepsFromPin(s, e) ==
    IF e.owned /\ ~Tried(s, e.pkg, "override")
    THEN PackTier(s, e.pkg, Key(e.pkg), <<"floor", 0>>)
    ELSE s

\* conda_range_vs_pack_pin: once for a package and a pack.
CondaRangeVsPackPin(s, p) ==
    IF <<<<p, "pack">>, "override">> \in s.tried THEN s
    ELSE PackTier(s, p, <<p, "pack">>, <<"range", 0>>)

\* intersect_range_with_cap: the lowest cap excludes every version, an exact
\* pin stays as it is.
Narrowed(spec, cap) ==
    IF spec[1] = "pin" \/ (spec[2] # 0 /\ spec[2] <= cap) THEN spec
    ELSE <<spec[1], cap>>

\* nested_conda_cap: an override of the ledger is narrowed, never originated.
NestedCondaCap(s, e, ledger) ==
    LET spec == Loaded(ledger).spec[e.pkg]
    IN  IF spec = NoSpec \/ e.cap = 0 THEN s
        ELSE PackTier(s, e.pkg, <<e.pkg, "narrow">>, Narrowed(spec, e.cap))

\* repair.  A proposal the backend has made itself is reported as a repair
\* that does nothing.
Repaired(s, e, ledger) ==
    CASE e.kind = "noCandidates" -> NoCandidates(s, e.pkg)
      [] e.kind = "boundary" -> Boundary(s, e.pkg)
      [] e.kind = "internal" -> OverridePin(s, e.pkg)
      [] e.kind = "widen" -> CondaWidenNeeded(s, e)
      [] e.kind = "depsFrom" -> DepsFromPin(s, e)
      [] e.kind = "rangeVsPin" -> CondaRangeVsPackPin(s, e.pkg)
      [] e.kind = "nestedCap" -> NestedCondaCap(s, e, ledger)
      [] OTHER -> [s EXCEPT !.done = TRUE]

\* generic_fallback_repair_batch: of the candidates for each package the
\* first that was not tried is applied; the guard repeats what was tried.
FallbackKey(c) == <<c.pkg, c.tier>>
Fresh(s, c) == <<FallbackKey(c), "override">> \notin s.tried
FallbackBatch(s, cands) ==
    LET chosen == {cands[i] : i \in {j \in DOMAIN cands :
                     /\ Fresh(s, cands[j])
                     /\ \A k \in 1..(j - 1) :
                          cands[k].pkg = cands[j].pkg => ~Fresh(s, cands[k])}}
    IN  [s EXCEPT
           !.tried = @ \cup {<<FallbackKey(c), "override">> : c \in chosen},
           !.writes = {IF c.tier = "unroute" THEN Unroute(c.pkg)
                       ELSE Override(c.pkg, <<"floor", 0>>) : c \in chosen},
           !.by = "override", !.done = chosen # {}]

\* terminal_unroute_writes, apply_terminal_unroute: the pack stops routing the
\* package to conda, unless the user pins it by hand.
TerminalUnroute(s, p) ==
    LET pinnedByHand == \E n \in Family(p), table \in {"conda", "pypi"} :
                          UserEntry(s.doc, table, n)
    IN  IF \/ <<<<p, "terminal">>, "override">> \in s.tried
           \/ p \in Anchors \/ pinnedByHand
        THEN s
        ELSE [Mark(s, <<p, "terminal">>, "override") EXCEPT
                !.writes = {Unroute(p)}, !.by = "override", !.done = TRUE]
-----------------------------------------------------------------------------
\* write_override, write_unroute
Written(ledger, w) ==
    IF w.kind = "unroute"
    THEN [Loaded(ledger) EXCEPT !.unrouted = @ \cup {w.pkg}]
    ELSE [Loaded(ledger) EXCEPT !.spec[w.pkg] = w.spec]

\* rollback_all: the packs named in the ledger have renders to evict.
NamesAPack(ledger) == Loaded(ledger) # Empty
=============================================================================
