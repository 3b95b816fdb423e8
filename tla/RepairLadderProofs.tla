-------------------------- MODULE RepairLadderProofs --------------------------
(***************************************************************************)
(* What a tier of the ladder does to a plan, for any packages, anchors,    *)
(* documents and ledgers.                                                  *)
(***************************************************************************)
EXTENDS RepairLadder, NaturalsInduction, FiniteSetTheorems, TLAPS

Specs == (Entries \cup Forms) \X Caps
Plans ==
    [doc : Docs, tried : SUBSET (Keys \X Strategies),
     guarded : SUBSET (Keys \X Specs \X Strategies),
     prefer : {"conda", "pypi"}, edits : Seq(Places \X Entries),
     writes : SUBSET Writes, by : Strategies \cup {"none"}, done : BOOLEAN]
Blank(s) == s \in Plans /\ s.edits = <<>> /\ s.writes = {} /\ ~s.done

\* Nothing but what was tried has changed.
Refused(s, t) ==
    /\ t \in Plans
    /\ t.doc = s.doc /\ t.prefer = s.prefer
    /\ t.edits = <<>> /\ t.writes = {} /\ ~t.done

\* The document was edited, away from the anchors, and can be restored.
SparesAnchors(doc, new) ==
    \A table \in Tables, a \in Anchors : new[table, a] = doc[table, a]
Restores(doc, new, edits) ==
    \A place \in Places : \/ Restore(new, edits)[place] = doc[place]
                          \/ doc[place] = "table"
Avoids(edits) == \A i \in DOMAIN edits : edits[i][1][2] \notin Anchors
Edited(s, t) ==
    /\ t \in Plans
    /\ t.done /\ t.writes = {}
    /\ SparesAnchors(s.doc, t.doc)
    /\ Len(t.edits) <= 2 /\ Avoids(t.edits)
    /\ Restores(s.doc, t.doc, t.edits)

\* A decision for the pack was made.
Effective(w) ==
    w.pkg \notin Anchors /\ (w.kind = "unroute" \/ w.spec # NoSpec)
Decided(s, t) ==
    /\ t \in Plans
    /\ t.done /\ t.doc = s.doc /\ t.edits = <<>>
    /\ IsFiniteSet(t.writes) /\ \A w \in t.writes : Effective(w)

Repair(s, t) == Refused(s, t) \/ Edited(s, t) \/ Decided(s, t)
-----------------------------------------------------------------------------
LEMMA PlanFields ==
    ASSUME NEW s \in Plans
    PROVE  /\ s.doc \in Docs /\ s.tried \subseteq Keys \X Strategies
           /\ s.guarded \subseteq Keys \X Specs \X Strategies
           /\ s.prefer \in {"conda", "pypi"}
           /\ s.edits \in Seq(Places \X Entries)
           /\ s.writes \subseteq Writes
           /\ s.by \in Strategies \cup {"none"} /\ s.done \in BOOLEAN
BY DEF Plans

\* Marking what was tried changes nothing else.
LEMMA MarkKeeps ==
    ASSUME NEW s, Blank(s), NEW key \in Keys, NEW strategy \in Strategies
    PROVE  LET m == Mark(s, key, strategy)
           IN  Blank(m) /\ m.doc = s.doc /\ m.prefer = s.prefer
               /\ m.guarded = s.guarded
<1> DEFINE m == Mark(s, key, strategy)
<1>1. s.tried \cup {<<key, strategy>>} \subseteq Keys \X Strategies
  BY PlanFields DEF Blank
<1>2. m = [s EXCEPT !.tried = s.tried \cup {<<key, strategy>>}]
  BY DEF Mark
<1>3. m \in Plans
  BY <1>1, <1>2 DEF Plans, Blank
<1> QED
  BY <1>2, <1>3 DEF Plans, Blank

LEMMA RefusedSelf == ASSUME NEW s, Blank(s) PROVE Refused(s, s)
BY DEF Blank, Refused

\* The entry a snapshot keeps.
LEMMA SnapshotType ==
    ASSUME NEW doc \in Docs, NEW place \in Places
    PROVE  Snapshot(doc, place) \in Entries
BY DEF Snapshot, Docs, Entries, UserStrings, Sentinels

\* Of the edits of a tier the restored document has what was there before.
LEMMA OneEditRestores ==
    ASSUME NEW doc \in Docs, NEW new, NEW place \in Places,
           \A q \in Places : q # place => new[q] = doc[q]
    PROVE  Restores(doc, new, <<<<place, Snapshot(doc, place)>>>>)
<1> DEFINE edits == <<<<place, Snapshot(doc, place)>>>>
<1> SUFFICES ASSUME NEW q \in Places
             PROVE  Restore(new, edits)[q] = doc[q] \/ doc[q] = "table"
  BY DEF Restores
<1> DEFINE mine == {i \in DOMAIN edits : edits[i][1] = q}
<1>1. DOMAIN edits = {1} /\ edits[1] = <<place, Snapshot(doc, place)>>
  OBVIOUS
<1>2. CASE q = place
  <2>1. mine = {1}
    BY <1>1, <1>2
  <2>2. (CHOOSE i \in mine : \A j \in mine : i <= j) = 1
    BY <2>1
  <2>3. Restore(new, edits)[q] = Snapshot(doc, place)
    BY <1>1, <2>1, <2>2 DEF Restore
  <2> QED
    BY <1>2, <2>3 DEF Snapshot
<1>3. CASE q # place
  <2>1. mine = {}
    BY <1>1, <1>3
  <2> QED
    BY <1>3, <2>1 DEF Restore
<1> QED
  BY <1>2, <1>3

LEMMA TwoEditsRestore ==
    ASSUME NEW doc \in Docs, NEW new, NEW place \in Places,
           NEW gone \in Places, gone # place, doc[gone] # "table",
           \A q \in Places : q # place /\ q # gone => new[q] = doc[q]
    PROVE  Restores(doc, new, <<<<gone, Snapshot(doc, gone)>>,
                                <<place, Snapshot(doc, place)>>>>)
<1> DEFINE edits == <<<<gone, Snapshot(doc, gone)>>,
                      <<place, Snapshot(doc, place)>>>>
<1> SUFFICES ASSUME NEW q \in Places
             PROVE  Restore(new, edits)[q] = doc[q] \/ doc[q] = "table"
  BY DEF Restores
<1> DEFINE mine == {i \in DOMAIN edits : edits[i][1] = q}
<1>1. /\ DOMAIN edits = {1, 2}
      /\ edits[1] = <<gone, Snapshot(doc, gone)>>
      /\ edits[2] = <<place, Snapshot(doc, place)>>
  OBVIOUS
<1>2. CASE q = place
  <2>1. mine = {2}
    BY <1>1, <1>2
  <2>2. (CHOOSE i \in mine : \A j \in mine : i <= j) = 2
    BY <2>1
  <2>3. Restore(new, edits)[q] = Snapshot(doc, place)
    BY <1>1, <2>1, <2>2 DEF Restore
  <2> QED
    BY <1>2, <2>3 DEF Snapshot
<1>3. CASE q = gone
  <2>1. mine = {1}
    BY <1>1, <1>3
  <2>2. (CHOOSE i \in mine : \A j \in mine : i <= j) = 1
    BY <2>1
  <2>3. Restore(new, edits)[q] = Snapshot(doc, gone)
    BY <1>1, <2>1, <2>2 DEF Restore
  <2> QED
    BY <1>3, <2>3 DEF Snapshot
<1>4. CASE q # place /\ q # gone
  <2>1. mine = {}
    BY <1>1, <1>4
  <2> QED
    BY <1>4, <2>1 DEF Restore
<1> QED
  BY <1>2, <1>3, <1>4
-----------------------------------------------------------------------------
(***************************************************************************)
(* The tiers.                                                              *)
(***************************************************************************)
\* An edit of the manifest, with at most one other entry of the name dropped.
LEMMA TierRepairs ==
    ASSUME NEW s, Blank(s), NEW p \in Names, NEW strategy \in Strategies,
           NEW entry \in Entries, NEW place \in Places,
           NEW dropped \in SUBSET Places,
           \A q \in dropped : /\ q # place /\ q[2] = place[2]
                              /\ \A r \in dropped : r = q
    PROVE  Repair(s, Tier(s, p, strategy, dropped, place, entry))
<1> DEFINE gone == {q \in dropped : s.doc[q] \in Sentinels}
           edit(q) == <<q, Snapshot(s.doc, q)>>
           spec == <<entry, 0>>
           doc == [q \in Places |->
                     IF q = place THEN entry
                     ELSE IF q \in gone THEN "none" ELSE s.doc[q]]
           two == <<edit(CHOOSE q \in gone : TRUE), edit(place)>>
           done == IF gone = {} THEN <<edit(place)>> ELSE two
           m == Mark(s, Key(p), strategy)
           t == [m EXCEPT !.doc = doc,
                          !.guarded = @ \cup {<<Key(p), spec, strategy>>},
                          !.edits = done, !.by = strategy, !.done = TRUE]
<1> HIDE DEF gone, edit, spec, doc, two, done, m, t
<1>1. CASE place[2] \in Anchors \/ <<Key(p), spec, strategy>> \in s.guarded
  <2>1. Tier(s, p, strategy, dropped, place, entry) = s
    BY <1>1 DEF Tier, spec
  <2> QED
    BY <2>1, RefusedSelf DEF Repair
<1>2. CASE ~(place[2] \in Anchors \/ <<Key(p), spec, strategy>> \in s.guarded)
  <2>1. Tier(s, p, strategy, dropped, place, entry) = t
    BY <1>2 DEF Tier, spec, t, m, done, two, doc, gone, edit
  <2>2. Key(p) \in Keys
    BY DEF Key, Keys, Tiers
  <2>3. Blank(m) /\ m.doc = s.doc /\ m.prefer = s.prefer
    BY <2>2, MarkKeeps DEF m
  <2>4. m \in Plans /\ m.writes = {}
    BY <2>3 DEF Blank
  <2>5. s.doc \in Docs
    BY PlanFields DEF Blank
  <2>6. doc \in Docs
    BY <2>5 DEF doc, Docs, Entries
  <2>7. <<Key(p), spec, strategy>> \in Keys \X Specs \X Strategies
    BY <2>2 DEF Specs, Caps, spec
  <2>8. \A q \in Places : edit(q) \in Places \X Entries
    BY <2>5, SnapshotType DEF edit
  <2>9. done \in Seq(Places \X Entries) /\ Len(done) <= 2
    <3>1. CASE gone = {}
      BY <2>8, <3>1 DEF done
    <3>2. CASE gone # {}
      <4>1. PICK g \in gone : g = (CHOOSE q \in gone : TRUE)
        BY <3>2
      <4>2. g \in Places
        BY DEF gone
      <4>3. done = <<edit(g), edit(place)>>
        BY <3>2, <4>1 DEF done, two
      <4>4. edit(g) \in Places \X Entries /\ edit(place) \in Places \X Entries
        BY <2>8, <4>2
      <4> HIDE DEF done
      <4> QED
        BY <4>3, <4>4
    <3> QED
      BY <3>1, <3>2
  <2>10. t \in Plans
    <3>1. m.guarded \cup {<<Key(p), spec, strategy>>}
            \subseteq Keys \X Specs \X Strategies
      BY <2>4, <2>7, PlanFields
    <3> QED
      BY <2>4, <2>6, <2>9, <3>1 DEF t, Plans
  <2>11. /\ t.done /\ t.writes = {} /\ t.doc = doc /\ t.edits = done
    BY <2>4 DEF t, Plans
  <2>12. \A q \in gone : q # place /\ q[2] = place[2] /\ s.doc[q] # "table"
    BY DEF gone, Sentinels
  <2>13. SparesAnchors(s.doc, doc)
    <3> SUFFICES ASSUME NEW table \in Tables, NEW a \in Anchors
                 PROVE  doc[table, a] = s.doc[table, a]
      BY DEF SparesAnchors
    <3>1. <<table, a>> \in Places
      BY LadderAssumption DEF Places
    <3>2. <<table, a>> # place
      BY <1>2
    <3>3. <<table, a>> \notin gone
      BY <1>2, <2>12
    <3> QED
      BY <3>1, <3>2, <3>3 DEF doc
  <2>14. Avoids(done) /\ Restores(s.doc, doc, done)
    <3>1. CASE gone = {}
      <4>1. done = <<<<place, Snapshot(s.doc, place)>>>>
        BY <3>1 DEF done, edit
      <4>2. \A q \in Places : q # place => doc[q] = s.doc[q]
        BY <3>1 DEF doc
      <4> QED
        BY <1>2, <2>5, <4>1, <4>2, OneEditRestores DEF Avoids
    <3>2. CASE gone # {}
      <4>1. PICK g \in gone : g = (CHOOSE q \in gone : TRUE)
        BY <3>2
      <4>2. done = <<<<g, Snapshot(s.doc, g)>>,
                     <<place, Snapshot(s.doc, place)>>>>
        BY <3>2, <4>1 DEF done, two, edit
      <4>3. g \in Places /\ \A q \in gone : q = g
        BY DEF gone
      <4>4. \A q \in Places : q # place /\ q # g => doc[q] = s.doc[q]
        BY <4>3 DEF doc
      <4>5. Restores(s.doc, doc, done)
        BY <2>5, <2>12, <4>2, <4>3, <4>4, TwoEditsRestore
      <4> QED
        BY <1>2, <2>12, <4>2, <4>5 DEF Avoids
    <3> QED
      BY <3>1, <3>2
  <2> QED
    BY <2>1, <2>9, <2>10, <2>11, <2>13, <2>14 DEF Repair, Edited
<1> QED
  BY <1>1, <1>2

\* A repair of a plan that was only marked is one of the plan.
LEMMA RepairAfterMark ==
    ASSUME NEW s, NEW m, NEW t, m.doc = s.doc, m.prefer = s.prefer,
           Repair(m, t)
    PROVE  Repair(s, t)
BY DEF Repair, Refused, Edited, Decided

LEMMA OwnerType ==
    ASSUME NEW doc, NEW p \in Names
    PROVE  Owner(doc, p) \in Names
BY LadderAssumption DEF Owner

LEMMA PinTiersRepair ==
    ASSUME NEW s, Blank(s), NEW p \in Names
    PROVE  /\ Repair(s, CondaPin(s, p)) /\ Repair(s, PypiPin(s, p))
           /\ Repair(s, OverridePin(s, p)) /\ Repair(s, CondaAsTruth(s, p))
           /\ \A name \in Names : Repair(s, Widen(s, p, name))
<1>1. /\ \A table \in Tables, name \in Names : <<table, name>> \in Places
      /\ {"conda", "pypi", "over"} = Tables
  BY DEF Places, Tables
<1>2. "pin" \in Entries /\ "widened" \in Entries /\ "override" \in Entries
  BY DEF Entries, Sentinels
<1>3. "conda" \in Strategies /\ "pypi" \in Strategies
      /\ "override" \in Strategies /\ "widen" \in Strategies
  BY DEF Strategies
<1>4. Repair(s, CondaPin(s, p))
  BY <1>1, <1>2, <1>3, TierRepairs DEF CondaPin
<1>5. Repair(s, PypiPin(s, p))
  BY <1>1, <1>2, <1>3, TierRepairs DEF PypiPin
<1>6. Repair(s, OverridePin(s, p))
  <2>1. Repair(s, Tier(s, p, "override", {<<"pypi", p>>}, <<"over", p>>,
                       "pin"))
    BY <1>1, <1>2, <1>3, TierRepairs
  <2> QED
    BY <2>1, RefusedSelf DEF OverridePin, Repair
<1>7. Repair(s, CondaAsTruth(s, p))
  BY <1>1, <1>2, <1>3, TierRepairs DEF CondaAsTruth
<1>8. \A name \in Names : Repair(s, Widen(s, p, name))
  BY <1>1, <1>2, <1>3, TierRepairs DEF Widen
<1> QED
  BY <1>4, <1>5, <1>6, <1>7, <1>8

LEMMA BoundaryRepairs ==
    ASSUME NEW s, Blank(s), NEW p \in Names
    PROVE  /\ Repair(s, Boundary(s, p)) /\ Repair(s, NoCandidates(s, p))
           /\ Repair(s, WidenOrBoundary(s, p))
<1> DEFINE m == Mark(s, Key(p), "conda")
<1>1. Blank(m) /\ m.doc = s.doc /\ m.prefer = s.prefer
  <2>1. Key(p) \in Keys /\ "conda" \in Strategies
    BY DEF Key, Keys, Tiers, Strategies
  <2> QED
    BY <2>1, MarkKeeps
<1>2. Repair(s, PypiPin(m, p))
  BY <1>1, PinTiersRepair, RepairAfterMark
<1>3. Repair(s, Boundary(s, p))
  BY <1>2, PinTiersRepair DEF Boundary
<1>4. Repair(s, NoCandidates(s, p))
  BY PinTiersRepair, RefusedSelf DEF NoCandidates, Repair
<1>5. Repair(s, WidenOrBoundary(s, p))
  BY <1>3, PinTiersRepair, OwnerType DEF WidenOrBoundary
<1> QED
  BY <1>3, <1>4, <1>5

\* A decision of the ledger says something and is about no anchor.
LEMMA PackTierRepairs ==
    ASSUME NEW s, Blank(s), NEW p \in Names, NEW key \in Keys,
           NEW spec \in Forms \X Caps, spec # NoSpec
    PROVE  Repair(s, PackTier(s, p, key, spec))
<1> DEFINE m == Mark(s, key, "override")
           t == [m EXCEPT
                   !.guarded = @ \cup {<<key, spec, "override">>},
                   !.writes = {Override(p, spec)},
                   !.by = "override", !.done = TRUE]
<1> HIDE DEF m, t
<1>1. CASE p \in Anchors \/ <<key, spec, "override">> \in s.guarded
  <2>1. PackTier(s, p, key, spec) = s
    BY <1>1 DEF PackTier
  <2> QED
    BY <2>1, RefusedSelf DEF Repair
<1>2. CASE ~(p \in Anchors \/ <<key, spec, "override">> \in s.guarded)
  <2>1. PackTier(s, p, key, spec) = t
    BY <1>2 DEF PackTier, t, m
  <2>2. "override" \in Strategies
    BY DEF Strategies
  <2>3. Blank(m) /\ m.doc = s.doc
    BY <2>2, MarkKeeps DEF m
  <2>4. <<key, spec, "override">> \in Keys \X Specs \X Strategies
    BY <2>2 DEF Specs
  <2>5. Override(p, spec) \in Writes /\ Effective(Override(p, spec))
    BY <1>2 DEF Override, Writes, Kinds, Effective
  <2>6. m.guarded \cup {<<key, spec, "override">>}
            \subseteq Keys \X Specs \X Strategies
    BY <2>3, <2>4, PlanFields DEF Blank
  <2>7. t \in Plans
    BY <2>2, <2>3, <2>5, <2>6 DEF t, Plans, Blank
  <2>8. /\ t.done /\ t.doc = s.doc /\ t.edits = <<>>
        /\ t.writes = {Override(p, spec)}
    BY <2>3 DEF t, Plans, Blank
  <2>9. IsFiniteSet(t.writes)
    BY <2>8, FS_Singleton
  <2> QED
    BY <2>1, <2>5, <2>7, <2>8, <2>9 DEF Repair, Decided
<1> QED
  BY <1>1, <1>2

LEMMA TierKeys ==
    \A p \in Names : /\ Key(p) \in Keys
                     /\ \A tier \in Tiers : <<p, tier>> \in Keys
BY DEF Key, Keys, Tiers

LEMMA RangesRepair ==
    ASSUME NEW s, Blank(s), NEW p \in Names
    PROVE  Repair(s, CondaRangeVsPackPin(s, p))
<1>1. <<"range", 0>> \in Forms \X Caps /\ <<"range", 0>> # NoSpec
  BY DEF Forms, Caps, NoSpec
<1>2. <<p, "pack">> \in Keys
  BY DEF Keys, Tiers
<1>3. Repair(s, PackTier(s, p, <<p, "pack">>, <<"range", 0>>))
  BY <1>1, <1>2, PackTierRepairs
<1> QED
  BY <1>3, RefusedSelf DEF CondaRangeVsPackPin, Repair

LEMMA DepsRepair ==
    ASSUME NEW s, Blank(s), NEW e, e.pkg \in Names
    PROVE  Repair(s, DepsFromPin(s, e))
<1>1. <<"floor", 0>> \in Forms \X Caps /\ <<"floor", 0>> # NoSpec
  BY DEF Forms, Caps, NoSpec
<1>2. Repair(s, PackTier(s, e.pkg, Key(e.pkg), <<"floor", 0>>))
  BY <1>1, TierKeys, PackTierRepairs
<1> QED
  BY <1>2, RefusedSelf DEF DepsFromPin, Repair

LEMMA LoadedType ==
    ASSUME NEW ledger \in Ledgers \cup {NoFile}
    PROVE  Loaded(ledger) \in Ledgers
<1>1. NoSpec \in Forms \X Caps
  BY DEF NoSpec, Forms, Caps
<1>2. Empty \in Ledgers
  BY <1>1 DEF Empty, Ledgers
<1> QED
  BY <1>2 DEF Loaded

\* Narrowing leaves an override an override.
LEMMA NarrowedType ==
    ASSUME NEW spec \in Forms \X Caps, spec # NoSpec, NEW cap \in Caps,
           cap # 0
    PROVE  Narrowed(spec, cap) \in Forms \X Caps /\ Narrowed(spec, cap) # NoSpec
<1>1. CASE spec[1] = "pin" \/ (spec[2] # 0 /\ spec[2] <= cap)
  BY <1>1 DEF Narrowed
<1>2. CASE ~(spec[1] = "pin" \/ (spec[2] # 0 /\ spec[2] <= cap))
  BY <1>2 DEF Narrowed, NoSpec
<1> QED
  BY <1>1, <1>2

LEMMA CapsRepair ==
    ASSUME NEW s, Blank(s), NEW e, e.pkg \in Names, e.cap \in Caps,
           NEW ledger \in Ledgers \cup {NoFile}
    PROVE  Repair(s, NestedCondaCap(s, e, ledger))
<1> DEFINE spec == Loaded(ledger).spec[e.pkg]
<1>1. spec \in Forms \X Caps
  BY LoadedType DEF Ledgers
<1> HIDE DEF spec
<1>2. CASE spec = NoSpec \/ e.cap = 0
  BY <1>2, RefusedSelf DEF NestedCondaCap, Repair, spec
<1>3. CASE ~(spec = NoSpec \/ e.cap = 0)
  <2>1. <<e.pkg, "narrow">> \in Keys
    BY DEF Keys, Tiers
  <2>2. Repair(s, PackTier(s, e.pkg, <<e.pkg, "narrow">>,
                           Narrowed(spec, e.cap)))
    BY <1>1, <1>3, <2>1, NarrowedType, PackTierRepairs
  <2> QED
    BY <1>3, <2>2 DEF NestedCondaCap, spec
<1> QED
  BY <1>2, <1>3
-----------------------------------------------------------------------------
LEMMA AtIndex ==
    ASSUME NEW S, NEW sq \in Seq(S), NEW i \in DOMAIN sq
    PROVE  sq[i] \in S
OBVIOUS

LEMMA FirstIsAMember ==
    ASSUME NEW indices, NEW m \in indices, \A j \in indices : m <= j
    PROVE  First(indices) \in indices
<1> DEFINE Least(i) == i \in indices /\ \A j \in indices : i <= j
<1>1. First(indices) = (CHOOSE i : Least(i))
  BY DEF First
<1>2. Least(m)
  OBVIOUS
<1> HIDE DEF Least
<1>3. Least(CHOOSE i : Least(i))
  BY <1>2, Zenon
<1> QED
  BY <1>1, <1>3 DEF Least

LEMMA FirstIsAnIndex ==
    ASSUME NEW indices \in SUBSET Nat, indices # {}
    PROVE  First(indices) \in indices
<1> DEFINE less == OpToRel(<, Nat)
<1>1. IsWellFoundedOn(less, Nat)
  BY NatLessThanWellFounded
<1>2. \A i, j \in Nat : i < j => <<i, j>> \in less
  BY DEF OpToRel
<1> HIDE DEF less
<1>3. PICK i \in indices : \A j \in indices : ~ (<<j, i>> \in less)
  BY <1>1, WFMin
<1>4. ASSUME NEW j \in indices PROVE i <= j
  <2>1. i \in Nat /\ j \in Nat
    OBVIOUS
  <2>2. ~(j < i)
    BY <1>2, <1>3, <2>1
  <2> QED
    BY <2>1, <2>2
<1> QED
  BY <1>4, FirstIsAMember

LEMMA FirstOfASequence ==
    ASSUME NEW sq \in Seq(Names), NEW indices \in SUBSET DOMAIN sq,
           indices # {}
    PROVE  sq[First(indices)] \in Names
<1>1. indices \subseteq Nat
  OBVIOUS
<1>2. First(indices) \in indices
  BY <1>1, FirstIsAnIndex
<1> QED
  BY <1>2

LEMMA WidenNeededRepairs ==
    ASSUME NEW s, Blank(s), NEW e, e.pkg \in Names, e.chain \in Seq(Names)
    PROVE  Repair(s, CondaWidenNeeded(s, e))
<1> DEFINE blamed == <<e.pkg>> \o e.chain
           named == IF Owned(s.doc, e.pkg) THEN <<e.pkg>> ELSE e.chain
           packed == {i \in DOMAIN blamed : e.pack /\ PackPinned(s, blamed[i])}
           pinned == {i \in DOMAIN named :
                        ~e.pack /\ TruthPinned(s, named[i])}
           p == blamed[First(packed)]
           relaxed == PackTier(s, p, Key(p), <<"pin", 0>>)
<1>1. blamed \in Seq(Names) /\ named \in Seq(Names)
  OBVIOUS
<1>2. packed \in SUBSET DOMAIN blamed /\ pinned \in SUBSET DOMAIN named
  OBVIOUS
<1> HIDE DEF blamed, named, packed, pinned
<1>3. packed # {} => Repair(s, relaxed)
  <2> SUFFICES ASSUME packed # {} PROVE Repair(s, relaxed)
    OBVIOUS
  <2>1. p \in Names
    BY <1>1, <1>2, FirstOfASequence
  <2>2. <<"pin", 0>> \in Forms \X Caps /\ <<"pin", 0>> # NoSpec
    BY DEF Forms, Caps, NoSpec
  <2> HIDE DEF p
  <2> QED
    BY <2>1, <2>2, TierKeys, PackTierRepairs
<1>4. pinned # {} => Repair(s, CondaAsTruth(s, named[First(pinned)]))
  BY <1>1, <1>2, FirstOfASequence, PinTiersRepair
<1> HIDE DEF p, relaxed
<1>5. CASE s.prefer = "conda" /\ packed # {} /\ relaxed.done
  <2>1. CondaWidenNeeded(s, e) = relaxed
    BY <1>5 DEF CondaWidenNeeded, relaxed, p, packed, blamed
  <2> QED
    BY <1>3, <1>5, <2>1
<1>6. CASE ~(s.prefer = "conda" /\ packed # {} /\ relaxed.done)
           /\ s.prefer = "conda" /\ pinned # {}
  <2>1. CondaWidenNeeded(s, e) = CondaAsTruth(s, named[First(pinned)])
    BY <1>6 DEF CondaWidenNeeded, relaxed, p, packed, blamed, pinned, named
  <2> QED
    BY <1>4, <1>6, <2>1
<1>7. CASE ~(s.prefer = "conda" /\ packed # {} /\ relaxed.done)
           /\ ~(s.prefer = "conda" /\ pinned # {})
  <2>1. CondaWidenNeeded(s, e) = WidenOrBoundary(s, e.pkg)
    BY <1>7 DEF CondaWidenNeeded, relaxed, p, packed, blamed, pinned, named
  <2> QED
    BY <2>1, BoundaryRepairs
<1> QED
  BY <1>5, <1>6, <1>7

\* A pack stops routing no anchor.
LEMMA UnrouteRepairs ==
    ASSUME NEW s, Blank(s), NEW p \in Names
    PROVE  Refused(s, TerminalUnroute(s, p)) \/ Decided(s, TerminalUnroute(s, p))
<1> DEFINE m == Mark(s, <<p, "terminal">>, "override")
           t == [m EXCEPT !.writes = {Unroute(p)}, !.by = "override",
                          !.done = TRUE]
<1> HIDE DEF m, t
<1>1. CASE TerminalUnroute(s, p) = s
  BY <1>1, RefusedSelf
<1>2. CASE p \notin Anchors /\ TerminalUnroute(s, p) = t
  <2>1. "override" \in Strategies /\ <<p, "terminal">> \in Keys
    BY DEF Strategies, Keys, Tiers
  <2>2. Blank(m) /\ m.doc = s.doc
    BY <2>1, MarkKeeps DEF m
  <2>3. Unroute(p) \in Writes /\ Effective(Unroute(p))
    BY <1>2 DEF Unroute, Writes, Kinds, Effective, NoSpec, Forms, Caps
  <2>4. t \in Plans
    BY <2>1, <2>2, <2>3 DEF t, Plans, Blank
  <2>5. t.done /\ t.doc = s.doc /\ t.edits = <<>> /\ t.writes = {Unroute(p)}
    BY <2>2 DEF t, Plans, Blank
  <2> QED
    BY <1>2, <2>3, <2>4, <2>5, FS_Singleton DEF Decided
<1> QED
  BY <1>1, <1>2 DEF TerminalUnroute, t, m

LEMMA ImageIsFinite ==
    ASSUME NEW f, IsFiniteSet(DOMAIN f)
    PROVE  IsFiniteSet({f[x] : x \in DOMAIN f})
<1> DEFINE D == DOMAIN f
           T == {f[x] : x \in D}
           g == [x \in D |-> f[x]]
<1>1. g \in Surjection(D, T)
  BY DEF Surjection
<1> QED
  BY <1>1, FS_Surjection

LEMMA CandidateFields ==
    ASSUME NEW c \in [pkg : Names \ Anchors, tier : {"relax", "unroute"}]
    PROVE  c.pkg \in Names \ Anchors /\ c.tier \in {"relax", "unroute"}
OBVIOUS

\* The generic engine decides about the candidates it was given.
LEMMA FallbackRepairs ==
    ASSUME NEW s, Blank(s),
           NEW cands \in Seq([pkg : Names \ Anchors, tier : {"relax", "unroute"}])
    PROVE  LET t == FallbackBatch(s, cands)
           IN  Refused(s, t) \/ Decided(s, t)
<1> DEFINE free == {j \in DOMAIN cands :
                      /\ Fresh(s, cands[j])
                      /\ \A k \in 1..(j - 1) :
                           cands[k].pkg = cands[j].pkg => ~Fresh(s, cands[k])}
           chosen == {cands[i] : i \in free}
           write(c) == IF c.tier = "unroute" THEN Unroute(c.pkg)
                       ELSE Override(c.pkg, <<"floor", 0>>)
           writes == {write(c) : c \in chosen}
           tried == {<<FallbackKey(c), "override">> : c \in chosen}
           t == [s EXCEPT !.tried = @ \cup tried, !.writes = writes,
                          !.by = "override", !.done = chosen # {}]
<1>1. FallbackBatch(s, cands) = t
  BY DEF FallbackBatch
<1>2. free \subseteq DOMAIN cands
  OBVIOUS
<1> HIDE DEF free
<1>3. \A c \in chosen : /\ c.pkg \in Names \ Anchors
                        /\ c.tier \in {"relax", "unroute"}
  <2> SUFFICES ASSUME NEW i \in free
               PROVE  /\ cands[i].pkg \in Names \ Anchors
                      /\ cands[i].tier \in {"relax", "unroute"}
    OBVIOUS
  <2>1. cands[i] \in [pkg : Names \ Anchors, tier : {"relax", "unroute"}]
    BY <1>2, AtIndex
  <2> QED
    BY <2>1, CandidateFields
<1>4. \A c \in chosen : write(c) \in Writes /\ Effective(write(c))
  <2> SUFFICES ASSUME NEW c \in chosen
               PROVE  write(c) \in Writes /\ Effective(write(c))
    OBVIOUS
  <2>1. c.pkg \in Names \ Anchors
    BY <1>3
  <2>2. /\ Unroute(c.pkg) \in Writes /\ Effective(Unroute(c.pkg))
        /\ Override(c.pkg, <<"floor", 0>>) \in Writes
        /\ Effective(Override(c.pkg, <<"floor", 0>>))
    BY <2>1 DEF Unroute, Override, Writes, Kinds, Effective, NoSpec, Forms,
                Caps
  <2> QED
    BY <2>2
<1>5. tried \subseteq Keys \X Strategies
  <2> SUFFICES ASSUME NEW c \in chosen
               PROVE  <<FallbackKey(c), "override">> \in Keys \X Strategies
    OBVIOUS
  <2>1. c.pkg \in Names /\ c.tier \in Tiers
    BY <1>3 DEF Tiers
  <2> QED
    BY <2>1 DEF FallbackKey, Keys, Strategies
<1>6. IsFiniteSet(writes)
  <2> DEFINE f == [i \in free |-> write(cands[i])]
  <2>1. IsFiniteSet(free)
    <3>1. PICK n \in Nat : DOMAIN cands = 1..n
      OBVIOUS
    <3>2. IsFiniteSet(1..n)
      BY <3>1, FS_Interval
    <3> QED
      BY <1>2, <3>1, <3>2, FS_Subset
  <2>2. IsFiniteSet({f[i] : i \in DOMAIN f})
    BY <2>1, ImageIsFinite
  <2>3. {f[i] : i \in DOMAIN f} = writes
    OBVIOUS
  <2> QED
    BY <2>2, <2>3
<1> HIDE DEF write, chosen, writes, tried
<1>7. t \in Plans
  <2>1. writes \subseteq Writes
    BY <1>4 DEF writes
  <2>2. s.tried \cup tried \subseteq Keys \X Strategies
    BY <1>5, PlanFields DEF Blank
  <2>3. "override" \in Strategies
    BY DEF Strategies
  <2> QED
    BY <2>1, <2>2, <2>3 DEF Plans, Blank
<1>8. /\ t.doc = s.doc /\ t.prefer = s.prefer /\ t.edits = <<>>
      /\ t.writes = writes /\ t.done = (chosen # {})
  BY DEF Plans, Blank
<1> HIDE DEF t
<1>9. CASE chosen = {}
  <2>1. writes = {}
    BY <1>9 DEF writes
  <2> QED
    BY <1>1, <1>7, <1>8, <1>9, <2>1 DEF Refused
<1>10. CASE chosen # {}
  <2>1. \A w \in writes : Effective(w)
    BY <1>4 DEF writes
  <2> QED
    BY <1>1, <1>6, <1>7, <1>8, <1>10, <2>1 DEF Decided
<1> QED
  BY <1>9, <1>10
-----------------------------------------------------------------------------
(***************************************************************************)
(* Reverting, starting over, and the ledger.                               *)
(***************************************************************************)
LEMMA RestoreType ==
    ASSUME NEW doc \in Docs, NEW edits \in Seq(Places \X Entries)
    PROVE  Restore(doc, edits) \in Docs
<1> SUFFICES ASSUME NEW q \in Places
             PROVE  Restore(doc, edits)[q] \in Entries
  BY DEF Restore, Docs
<1> DEFINE mine == {i \in DOMAIN edits : edits[i][1] = q}
<1>1. CASE mine = {}
  BY <1>1 DEF Restore, Docs
<1>2. CASE mine # {}
  <2>1. mine \subseteq Nat
    OBVIOUS
  <2>2. First(mine) \in DOMAIN edits
    BY <1>2, <2>1, FirstIsAnIndex
  <2>3. edits[First(mine)] \in Places \X Entries
    BY <2>2, AtIndex
  <2>4. Restore(doc, edits)[q] = edits[First(mine)][2]
    BY <1>2 DEF Restore, First
  <2> QED
    BY <2>3, <2>4
<1> QED
  BY <1>1, <1>2

LEMMA RestoreSpares ==
    ASSUME NEW doc \in Docs, NEW edits, Avoids(edits)
    PROVE  SparesAnchors(doc, Restore(doc, edits))
<1> SUFFICES ASSUME NEW table \in Tables, NEW a \in Anchors
             PROVE  Restore(doc, edits)[<<table, a>>] = doc[<<table, a>>]
  BY DEF SparesAnchors
<1>1. <<table, a>> \in Places
  BY LadderAssumption DEF Places
<1>2. {i \in DOMAIN edits : edits[i][1] = <<table, a>>} = {}
  BY DEF Avoids
<1> QED
  BY <1>1, <1>2 DEF Restore

LEMMA RestoreNothing ==
    ASSUME NEW doc \in Docs
    PROVE  Restores(doc, doc, <<>>) /\ Avoids(<<>>)
BY DEF Restores, Restore, Avoids

LEMMA SparesAreTransitive ==
    ASSUME NEW d1, NEW d2, NEW d3, SparesAnchors(d1, d2), SparesAnchors(d2, d3)
    PROVE  SparesAnchors(d1, d3)
BY DEF SparesAnchors

LEMMA CleanedType == ASSUME NEW doc \in Docs PROVE Cleaned(doc) \in Docs
BY DEF Cleaned, Docs, Entries

LEMMA SentinelType ==
    ASSUME NEW doc
    PROVE  SentinelStrategies(doc) \subseteq Keys \X Strategies
<1> SUFFICES ASSUME NEW place \in Places
             PROVE  <<Key(place[2]), StrategyOf(place, doc[place])>>
                        \in Keys \X Strategies
  BY DEF SentinelStrategies
<1>1. place[1] \in Tables /\ place[2] \in Names
  BY DEF Places
<1>2. Key(place[2]) \in Keys
  BY <1>1, TierKeys
<1>3. StrategyOf(place, doc[place]) \in Strategies
  BY <1>1 DEF StrategyOf, Strategies, Tables
<1> QED
  BY <1>2, <1>3

LEMMA PlanType ==
    ASSUME NEW doc \in Docs, NEW tried \in SUBSET (Keys \X Strategies),
           NEW prefer \in {"conda", "pypi"}
    PROVE  Blank(Plan(doc, tried, {}, prefer))
BY DEF Blank, Plan, Plans

\* Nothing is decided about an anchor.
SparedBy(ledger) ==
    \A a \in Anchors : /\ Loaded(ledger).spec[a] = NoSpec
                       /\ a \notin Loaded(ledger).unrouted

LEMMA WrittenType ==
    ASSUME NEW ledger \in Ledgers \cup {NoFile}, NEW w \in Writes
    PROVE  /\ Written(ledger, w) \in Ledgers
           /\ Loaded(Written(ledger, w)) = Written(ledger, w)
<1>1. Loaded(ledger) \in Ledgers
  BY LoadedType
<1>2. w.pkg \in Names /\ w.spec \in Forms \X Caps
  BY DEF Writes
<1>3. Written(ledger, w) \in Ledgers
  <2> DEFINE l == Loaded(ledger)
  <2>1. l.unrouted \cup {w.pkg} \in SUBSET Names
    BY <1>1, <1>2 DEF Ledgers
  <2>2. [l.spec EXCEPT ![w.pkg] = w.spec] \in [Names -> Forms \X Caps]
    BY <1>1, <1>2 DEF Ledgers
  <2>3. [l EXCEPT !.unrouted = l.unrouted \cup {w.pkg}] \in Ledgers
    BY <1>1, <2>1 DEF Ledgers
  <2>4. [l EXCEPT !.spec = [l.spec EXCEPT ![w.pkg] = w.spec]] \in Ledgers
    BY <1>1, <2>2 DEF Ledgers
  <2> QED
    BY <2>3, <2>4 DEF Written
<1> QED
  BY <1>3, LadderAssumption DEF Loaded

LEMMA WrittenSays ==
    ASSUME NEW ledger \in Ledgers \cup {NoFile}, NEW w \in Writes, Effective(w)
    PROVE  /\ NamesAPack(Written(ledger, w))
           /\ SparedBy(ledger) => SparedBy(Written(ledger, w))
<1> DEFINE l == Loaded(ledger)
<1>1. l \in Ledgers
  BY LoadedType
<1>2. w.pkg \in Names /\ w.kind \in Kinds /\ w.pkg \notin Anchors
  BY DEF Writes, Effective
<1> HIDE DEF l
<1>3. CASE w.kind = "unroute"
  <2>1. Written(ledger, w) = [l EXCEPT !.unrouted = l.unrouted \cup {w.pkg}]
    BY <1>3 DEF Written, l
  <2>2. /\ Written(ledger, w).unrouted = l.unrouted \cup {w.pkg}
        /\ Written(ledger, w).spec = l.spec
    BY <1>1, <2>1 DEF Ledgers
  <2>3. Written(ledger, w) # Empty
    BY <2>2 DEF Empty
  <2> QED
    BY <1>2, <2>2, <2>3, WrittenType DEF NamesAPack, SparedBy, l
<1>4. CASE w.kind # "unroute"
  <2>1. Written(ledger, w) =
            [l EXCEPT !.spec = [l.spec EXCEPT ![w.pkg] = w.spec]]
    BY <1>4 DEF Written, l
  <2>2. /\ Written(ledger, w).unrouted = l.unrouted
        /\ Written(ledger, w).spec = [l.spec EXCEPT ![w.pkg] = w.spec]
    BY <1>1, <2>1 DEF Ledgers
  <2>3. l.spec \in [Names -> Forms \X Caps]
    BY <1>1 DEF Ledgers
  <2>4. Written(ledger, w).spec[w.pkg] = w.spec /\ w.spec # NoSpec
    BY <1>2, <1>4, <2>2, <2>3 DEF Effective
  <2>5. Written(ledger, w) # Empty
    BY <1>2, <2>4 DEF Empty
  <2>6. \A a \in Anchors : Written(ledger, w).spec[a] = l.spec[a]
    BY <1>2, <2>2, <2>3, LadderAssumption
  <2> QED
    BY <2>2, <2>5, <2>6, WrittenType DEF NamesAPack, SparedBy, l
<1> QED
  BY <1>3, <1>4

LEMMA EmptySays == SparedBy(NoFile)
BY LadderAssumption DEF SparedBy, Loaded, Empty
=============================================================================
