------------------------------ MODULE SolveProofs ------------------------------
(***************************************************************************)
(* The runs that climb the ladder: what every one of them leaves behind,   *)
(* for any manifests, conflicts, budgets, kills and edits of the user.     *)
(***************************************************************************)
EXTENDS SolveDrivers, RepairLadderProofs

\* The prover has no recursion over data: the types of what a round reads.
Read(e) ==
    /\ e.pkg \in Names
    /\ e.kind = "widen" => e.chain \in Seq(Names)
    /\ e.kind = "nestedCap" => e.cap \in Caps

LEMMA ConflictFields == ASSUME NEW e \in Conflicts PROVE Read(e)
<1> DEFINE plain == [kind : {"boundary", "internal", "noCandidates",
                             "rangeVsPin", "retread"}, pkg : Names]
           widen == [kind : {"widen"}, pkg : Names, chain : Seq(Names),
                     pack : BOOLEAN]
           pin == [kind : {"depsFrom"}, pkg : Names, owned : BOOLEAN]
           cap == [kind : {"nestedCap"}, pkg : Names, cap : Caps]
<1>1. CASE e \in plain
  BY <1>1 DEF Read
<1>2. CASE e \in widen
  BY <1>2 DEF Read
<1>3. CASE e \in pin
  BY <1>3 DEF Read
<1>4. CASE e \in cap
  BY <1>4 DEF Read
<1> QED
  BY <1>1, <1>2, <1>3, <1>4 DEF Conflicts

\* The planner answers every conflict it can read with a repair or a refusal.
LEMMA RepairedRepairs ==
    ASSUME NEW s, Blank(s), NEW e \in Conflicts, NEW ledger \in SomeLedgers
    PROVE  Repair(s, Repaired(s, e, ledger))
<1>1. Read(e)
  BY ConflictFields
<1>2. ledger \in Ledgers \cup {NoFile}
  BY DEF SomeLedgers
<1> DEFINE noop == [s EXCEPT !.done = TRUE]
<1>3. Decided(s, noop)
  BY FS_EmptySet DEF Decided, Blank, Plans
<1>4. /\ Repair(s, NoCandidates(s, e.pkg)) /\ Repair(s, Boundary(s, e.pkg))
      /\ Repair(s, OverridePin(s, e.pkg)) /\ Repair(s, DepsFromPin(s, e))
      /\ Repair(s, CondaRangeVsPackPin(s, e.pkg))
  BY <1>1, BoundaryRepairs, PinTiersRepair, DepsRepair, RangesRepair DEF Read
<1>5. e.kind = "widen" => Repair(s, CondaWidenNeeded(s, e))
  BY <1>1, WidenNeededRepairs DEF Read
<1>6. e.kind = "nestedCap" => Repair(s, NestedCondaCap(s, e, ledger))
  BY <1>1, <1>2, CapsRepair DEF Read
<1> HIDE DEF noop
<1>7. Repair(s, noop)
  BY <1>3 DEF Repair
<1> QED
  BY <1>4, <1>5, <1>6, <1>7 DEF Repaired, noop
-----------------------------------------------------------------------------
(***************************************************************************)
(* What a round does.                                                      *)
(***************************************************************************)
Stripped(s) == [s EXCEPT !.edits = <<>>, !.writes = {}, !.by = "none",
                         !.done = FALSE]

LEMMA StrippedIsBlank ==
    ASSUME NEW s \in Plans
    PROVE  Blank(Stripped(s)) /\ Stripped(s).doc = s.doc
<1>1. Stripped(s) \in Plans
  <2>1. /\ <<>> \in Seq(Places \X Entries) /\ {} \in SUBSET Writes
        /\ "none" \in Strategies \cup {"none"}
    OBVIOUS
  <2> QED
    BY <2>1 DEF Stripped, Plans
<1>2. /\ Stripped(s).edits = <<>> /\ Stripped(s).writes = {}
      /\ ~Stripped(s).done /\ Stripped(s).doc = s.doc
  BY DEF Stripped, Plans
<1> QED
  BY <1>1, <1>2 DEF Blank

Typed ==
    /\ TypeOK /\ Blank(plan)
    /\ start \in [manifest : Docs, over : SomeLedgers]

\* A repair was planned, ...
Progress ==
    /\ Blank(plan') /\ SparesAnchors(plan.doc, plan'.doc)
    /\ todo' \subseteq Writes /\ \A w \in todo' : Effective(w)
    /\ repairs' \in Nat /\ repairs' > repairs
    /\ before' = plan.doc
    /\ AtMost(2, Places \X Entries, pending') /\ Avoids(pending')
    /\ Restores(plan.doc, plan'.doc, pending')
    /\ outcome' = outcome
    /\ \/ pc' = "write"
       \/ pc' = "ledger" /\ plan'.doc = plan.doc /\ pending' = <<>>

\* ... or nothing is left to try.
Exhaustion ==
    /\ Blank(plan') /\ plan'.doc = plan.doc
    /\ GiveUp("exhausted")
    /\ UNCHANGED <<pending, todo, repairs, before>>

Acts ==
    /\ PixiRuns /\ Budget
    /\ Progress \/ Exhaustion
    /\ \/ bak' = Ensured(bak, manifest)
       \/ UNCHANGED bak /\ (Progress => pc' = "ledger")
    /\ widened' \subseteq Names
    /\ UNCHANGED <<files, overBak, record, scope, bounds>>

LEMMA WritesAreCounted ==
    ASSUME NEW n \in Nat, NEW writes, IsFiniteSet(writes)
    PROVE  LET m == n + Cardinality(writes) + (IF writes = {} THEN 1 ELSE 0)
           IN  m \in Nat /\ m > n
<1>1. Cardinality(writes) \in Nat
  BY FS_CardinalityType
<1>2. Cardinality(writes) = 0 <=> writes = {}
  BY FS_EmptySet
<1> QED
  BY <1>1, <1>2

LEMMA ApplyEdited ==
    ASSUME Typed, NEW s, Edited(plan, s), Apply(s, "write"),
           pending' = s.edits
    PROVE  Progress
<1>1. /\ s \in Plans /\ s.writes = {} /\ SparesAnchors(plan.doc, s.doc)
      /\ Len(s.edits) <= 2 /\ Avoids(s.edits)
      /\ Restores(plan.doc, s.doc, s.edits)
  BY DEF Edited
<1>2. plan' = Stripped(s) /\ todo' = {} /\ before' = plan.doc
      /\ pc' = "write" /\ outcome' = outcome
  BY <1>1 DEF Apply, Stripped
<1>3. Blank(plan') /\ plan'.doc = s.doc
  BY <1>1, <1>2, StrippedIsBlank
<1>4. repairs \in Nat
  BY DEF Typed, TypeOK
<1>5. repairs' \in Nat /\ repairs' > repairs
  BY <1>1, <1>4, FS_EmptySet, WritesAreCounted DEF Apply
<1>6. AtMost(2, Places \X Entries, pending')
  BY <1>1, PlanFields DEF AtMost
<1> QED
  BY <1>1, <1>2, <1>3, <1>5, <1>6 DEF Progress

LEMMA ApplyDecided ==
    ASSUME Typed, NEW s, Decided(plan, s), NEW next \in {"write", "ledger"},
           Apply(s, next), pending' = <<>>
    PROVE  Progress
<1>1. /\ s \in Plans /\ s.doc = plan.doc /\ IsFiniteSet(s.writes)
      /\ \A w \in s.writes : Effective(w)
  BY DEF Decided
<1>2. plan' = Stripped(s) /\ todo' = s.writes /\ before' = plan.doc
      /\ pc' = next /\ outcome' = outcome
  BY <1>1 DEF Apply, Stripped
<1>3. Blank(plan') /\ plan'.doc = plan.doc
  BY <1>1, <1>2, StrippedIsBlank
<1>4. repairs \in Nat /\ plan.doc \in Docs
  BY DEF Typed, TypeOK
<1>5. repairs' \in Nat /\ repairs' > repairs
  BY <1>1, <1>4, WritesAreCounted DEF Apply
<1>6. AtMost(2, Places \X Entries, pending')
  BY DEF AtMost
<1>7. Avoids(pending') /\ Restores(plan.doc, plan'.doc, pending')
  BY <1>3, <1>4, RestoreNothing
<1>8. todo' \subseteq Writes
  BY <1>1, <1>2, PlanFields
<1>9. SparesAnchors(plan.doc, plan'.doc)
  BY <1>3 DEF SparesAnchors
<1> QED
  BY <1>1, <1>2, <1>3, <1>5, <1>6, <1>7, <1>8, <1>9 DEF Progress

LEMMA ExhaustedEffect ==
    ASSUME Typed, NEW s, Refused(plan, s), NEW p \in Names, Exhausted(s, p)
    PROVE  (Progress /\ pc' = "ledger") \/ Exhaustion
<1> DEFINE t == TerminalUnroute(s, p)
<1>1. Blank(s) /\ s.doc = plan.doc
  BY DEF Refused, Blank
<1>2. Refused(s, t) \/ Decided(s, t)
  BY <1>1, UnrouteRepairs
<1> HIDE DEF t
<1>3. CASE cmd = "lock" /\ t.done
  <2>1. Apply(t, "ledger") /\ pending' = <<>>
    BY <1>3 DEF Exhausted, t
  <2>2. Decided(plan, t)
    BY <1>1, <1>2, <1>3 DEF Refused, Decided
  <2>3. Progress
    BY <2>1, <2>2, ApplyDecided
  <2>4. pc' = "ledger"
    BY <2>1 DEF Apply
  <2> QED
    BY <2>3, <2>4
<1>4. CASE ~(cmd = "lock" /\ t.done)
  <2>1. /\ GiveUp("exhausted") /\ plan' = s
        /\ UNCHANGED <<pending, todo, repairs, before>>
    BY <1>4 DEF Exhausted, t
  <2> QED
    BY <1>1, <2>1 DEF Exhaustion
<1> QED
  BY <1>3, <1>4

LEMMA ConflictActs ==
    ASSUME Typed, NEW e \in Errors, Conflict(e)
    PROVE  Acts
<1> DEFINE s == Repaired(plan, e, over)
<1>1. e \in Conflicts
  BY DEF Conflict, Readable
<1>2. e.pkg \in Names
  BY <1>1, ConflictFields DEF Read
<1>3. Repair(plan, s)
  BY <1>1, RepairedRepairs DEF Typed, TypeOK
<1>4. widened \subseteq Names
  BY DEF Typed, TypeOK
<1> HIDE DEF s
<1>5. /\ PixiRuns /\ Budget /\ bak' = Ensured(bak, manifest)
      /\ UNCHANGED <<files, overBak, record, scope, bounds>>
  BY DEF Conflict
<1>6. CASE s.done
  <2>1. /\ Apply(s, "write") /\ pending' = s.edits
        /\ widened' = IF s.by = "widen" THEN widened \cup {e.pkg} ELSE widened
    BY <1>6 DEF Conflict, s
  <2>2. Edited(plan, s) \/ Decided(plan, s)
    BY <1>3, <1>6 DEF Repair, Refused
  <2>3. Progress
    BY <2>1, <2>2, ApplyEdited, ApplyDecided DEF Decided
  <2>4. widened' \subseteq Names
    BY <1>2, <1>4, <2>1
  <2> QED
    BY <1>5, <2>3, <2>4 DEF Acts
<1>7. CASE ~s.done
  <2>1. Exhausted(s, e.pkg)
    BY <1>7 DEF Conflict, s
  <2>2. Refused(plan, s)
    BY <1>3, <1>7 DEF Repair, Edited, Decided
  <2>3. Progress \/ Exhaustion
    BY <1>2, <2>1, <2>2, ExhaustedEffect
  <2>4. widened' = widened
    BY <2>1 DEF Exhausted
  <2> QED
    BY <1>4, <1>5, <2>3, <2>4 DEF Acts
<1> QED
  BY <1>6, <1>7

\* What the generic engine is asked about.
LEMMA GenericFields ==
    ASSUME NEW e \in Errors, e.kind = "generic"
    PROVE  /\ e.cands \in Seq([pkg : Names \ Anchors,
                               tier : {"relax", "unroute"}])
           /\ e.cands[1].pkg \in Names
<1> DEFINE generic == [kind : {"generic"}, cands : Seq(Candidates) \ {<<>>}]
<1>1. e \in generic
  <2>1. e \in Conflicts \/ e \in Unrecognized
    BY DriverAssumption
  <2>2. e \notin Conflicts
    BY DEF Conflicts
  <2>3. e \notin [kind : {"postWiden", "unknown"}]
    OBVIOUS
  <2> QED
    BY <2>1, <2>2, <2>3 DEF Unrecognized
<1>2. e.cands \in Seq(Candidates) /\ e.cands # <<>>
  BY <1>1
<1>3. 1 \in DOMAIN e.cands
  BY <1>2
<1>4. e.cands[1] \in Candidates
  BY <1>2, <1>3, AtIndex
<1> QED
  BY <1>2, <1>4, CandidateFields DEF Candidates

LEMMA FallbackActs ==
    ASSUME Typed, NEW e \in Errors, Fallback(e)
    PROVE  Acts
<1> DEFINE s == FallbackBatch(plan, e.cands)
<1>1. e.kind = "generic" /\ cmd = "lock"
  BY DEF Fallback
<1>2. Refused(plan, s) \/ Decided(plan, s)
  BY <1>1, GenericFields, FallbackRepairs DEF Typed
<1>3. widened \subseteq Names
  BY DEF Typed, TypeOK
<1> HIDE DEF s
<1>4. /\ PixiRuns /\ Budget
      /\ UNCHANGED <<files, snapshots, record, scope, bounds>>
  BY DEF Fallback
<1>5. UNCHANGED bak /\ UNCHANGED overBak
  BY <1>4 DEF snapshots
<1>6. CASE s.done
  <2>1. Apply(s, "ledger") /\ pending' = <<>> /\ UNCHANGED widened
    BY <1>6 DEF Fallback, s
  <2>2. Progress
    BY <1>2, <1>6, <2>1, ApplyDecided DEF Refused
  <2>3. pc' = "ledger"
    BY <2>1 DEF Apply
  <2> QED
    BY <1>3, <1>4, <1>5, <2>1, <2>2, <2>3 DEF Acts
<1>7. CASE ~s.done
  <2>1. Exhausted(s, e.cands[1].pkg)
    BY <1>7 DEF Fallback, s
  <2>2. Refused(plan, s)
    BY <1>2, <1>7 DEF Decided
  <2>3. (Progress /\ pc' = "ledger") \/ Exhaustion
    BY <1>1, <2>1, <2>2, GenericFields, ExhaustedEffect
  <2>4. widened' = widened
    BY <2>1 DEF Exhausted
  <2>5. Exhaustion => pc' # "write"
    BY DEF Exhaustion, GiveUp
  <2>6. Exhaustion => ~Progress
    BY DEF Exhaustion, Progress, Typed, TypeOK
  <2>7. Progress => pc' = "ledger"
    BY <2>3, <2>6
  <2> QED
    BY <1>3, <1>4, <1>5, <2>3, <2>4, <2>7 DEF Acts
<1> QED
  BY <1>6, <1>7
-----------------------------------------------------------------------------
(***************************************************************************)
(* Types.                                                                  *)
(***************************************************************************)
\* The steps, with what a round does in place of how it does it.
Step ==
    \/ StartLock
    \/ Sweep
    \/ StartSolve
    \/ StartClean
    \/ PixiDies
    \/ Converge
    \/ OutOfRounds
    \/ \E e \in Errors : OverBudget(e)
    \/ Acts
    \/ \E e \in Errors : Proposal(e)
    \/ \E e \in Errors : RevertWiden(e)
    \/ \E e \in Errors : Unparseable(e)
    \/ WriteManifest
    \/ WriteLedger
    \/ Evict
    \/ RollBackManifest
    \/ RollBackLedger
    \/ EvictAll
    \/ RestoreEnv
    \/ NextEnv
    \/ Cleanup
    \/ End
    \/ Killed
    \/ UserEdits
    \/ UNCHANGED vars

LEMMA EveryStep == ASSUME Typed, [Next]_vars PROVE Step
<1>1. CASE Next
  <2>1. ASSUME NEW e \in Errors, Round(e) PROVE Step
    BY <2>1, ConflictActs, FallbackActs DEF Round, Step
  <2>2. Done => UNCHANGED vars
    BY DEF Done
  <2> QED
    BY <1>1, <2>1, <2>2 DEF Next, Step
<1> QED
  BY <1>1 DEF Step

FilesTyped ==
    /\ manifest \in Docs /\ over \in SomeLedgers
    /\ AtMost(1, Docs, bak) /\ AtMost(1, SomeLedgers, overBak)
    /\ AtMost(1, SomeLedgers, render) /\ AtMost(1, Docs, lastRun)
    /\ failed \subseteq Keys \X Strategies
FlowTyped ==
    /\ pc \in Steps /\ cmd \in {"none", "lock", "solve", "clean"}
    /\ outcome \in Outcomes /\ keepGoing \in BOOLEAN
    /\ rounds \in Nat /\ env \in 1..Envs
    /\ runs \in 0..MaxRuns /\ edits \in 0..MaxEdits
    /\ crashes \in 0..MaxCrashes
WorkTyped ==
    /\ Blank(plan) /\ AtMost(2, Places \X Entries, pending)
    /\ todo \subseteq Writes /\ widened \subseteq Names /\ repairs \in Nat
    /\ checkpoint \in Docs /\ before \in Docs
    /\ start \in [manifest : Docs, over : SomeLedgers]

LEMMA TypedParts == Typed <=> FilesTyped /\ FlowTyped /\ WorkTyped
<1>1. Blank(plan) => /\ plan.doc \in Docs /\ plan.tried \subseteq Keys \X Strategies
                     /\ plan.prefer \in {"conda", "pypi"}
  BY PlanFields DEF Blank
<1>2. start \in [manifest : Docs, over : SomeLedgers]
        => start.manifest \in Docs /\ start.over \in SomeLedgers
  OBVIOUS
<1> QED
  BY <1>1, <1>2 DEF Typed, TypeOK, FilesTyped, FlowTyped, WorkTyped

LEMMA AtMostOne ==
    ASSUME NEW S, NEW s, AtMost(1, S, s)
    PROVE  s = <<>> \/ (s[1] \in S /\ s = <<s[1]>>)
<1>1. s \in Seq(S) /\ Len(s) <= 1 /\ Len(s) \in Nat
  BY DEF AtMost
<1>2. CASE Len(s) = 0
  BY <1>1, <1>2
<1>3. CASE Len(s) = 1
  <2>1. 1 \in DOMAIN s /\ DOMAIN s = {1}
    BY <1>1, <1>3
  <2> QED
    BY <1>1, <1>3, <2>1
<1>4. Len(s) = 0 \/ Len(s) = 1
  <2> DEFINE n == Len(s)
  <2>1. n \in Nat /\ n <= 1
    BY <1>1
  <2> HIDE DEF n
  <2>2. n = 0 \/ n = 1
    BY <2>1
  <2> QED
    BY <2>2 DEF n
<1> QED
  BY <1>2, <1>3, <1>4

LEMMA OneAtMost ==
    ASSUME NEW S, NEW x \in S
    PROVE  AtMost(1, S, <<x>>) /\ AtMost(1, S, <<>>)
BY DEF AtMost

LEMMA EnsuredType ==
    ASSUME NEW S, NEW s, AtMost(1, S, s), NEW x \in S
    PROVE  AtMost(1, S, Ensured(s, x))
BY OneAtMost DEF Ensured

LEMMA NoDocType == NoDoc \in Docs /\ NoFile \in SomeLedgers
BY DEF NoDoc, Docs, Entries, SomeLedgers

\* pixi leaves one render, of the ledger there is or the one it had.
LEMMA RenderType ==
    ASSUME FilesTyped, PixiRuns
    PROVE  AtMost(1, SomeLedgers, render')
BY OneAtMost DEF FilesTyped, PixiRuns


\* The files stay what they are.
LEMMA FilesStep ==
    ASSUME FilesTyped, FlowTyped, WorkTyped, Step
    PROVE  FilesTyped'
<1>a. plan.doc \in Docs
  BY PlanFields DEF WorkTyped, Blank
<1>b. AtMost(1, Docs, <<manifest>>) /\ AtMost(1, Docs, <<>>)
      /\ AtMost(1, SomeLedgers, <<>>)
  BY OneAtMost, NoDocType DEF FilesTyped
<1>c. AtMost(1, Docs, Ensured(bak, manifest))
  BY EnsuredType DEF FilesTyped
<1>d. PixiRuns => AtMost(1, SomeLedgers, render')
  BY RenderType
<1> HIDE DEF AtMost
<1>1. CASE StartLock
  BY <1>1, <1>b DEF StartLock, Open, files, FilesTyped
<1>2. CASE Sweep
  BY <1>2, <1>b DEF Sweep, files, record, working, scope, bounds, FilesTyped
<1>3. CASE StartSolve
  BY <1>3, <1>b DEF StartSolve, Open, files, FilesTyped
<1>4. CASE StartClean
  BY <1>4, <1>c DEF StartClean, files, record, FilesTyped
<1>5. CASE PixiDies
  BY <1>5, <1>d DEF PixiDies, PixiRuns, GiveUp, files, snapshots, record,
         scope, bounds, FilesTyped
<1>6. CASE Converge
  BY <1>6, <1>d DEF Converge, PixiRuns, files, snapshots, record, scope,
         bounds, FilesTyped
<1>7. CASE OutOfRounds
  BY <1>7 DEF OutOfRounds, GiveUp, files, snapshots, record, working, scope,
         bounds, FilesTyped
<1>8. CASE \E e \in Errors : OverBudget(e)
  BY <1>8, <1>d DEF OverBudget, PixiRuns, files, snapshots, record, scope,
         bounds, FilesTyped
<1>9. CASE Acts
  BY <1>9, <1>c, <1>d DEF Acts, PixiRuns, files, record, scope, bounds,
         FilesTyped
<1>10. CASE \E e \in Errors : Proposal(e)
  BY <1>10, <1>d DEF Proposal, PixiRuns, GiveUp, files, snapshots, record,
         scope, bounds, FilesTyped
<1>11. CASE \E e \in Errors : RevertWiden(e)
  <2> PICK e \in Errors : RevertWiden(e)
    BY <1>11
  <2> DEFINE name == pending[Len(pending)][1][2]
             mark == <<Key(name), "widen">>
  <2>1. failed' = (IF name \in widened THEN failed \cup {mark} ELSE failed)
    BY DEF RevertWiden
  <2>2. name \in widened => mark \in Keys \X Strategies
    BY TierKeys DEF WorkTyped, Strategies
  <2>3. failed' \subseteq Keys \X Strategies
    BY <2>1, <2>2 DEF FilesTyped
  <2>4. PixiRuns /\ UNCHANGED <<files, snapshots, lastRun>>
    BY DEF RevertWiden, Unread
  <2> QED
    BY <1>d, <2>3, <2>4 DEF FilesTyped, files, snapshots
<1>12. CASE \E e \in Errors : Unparseable(e)
  BY <1>12, <1>d DEF Unparseable, GiveUp, Unread, PixiRuns, files, snapshots,
         record, scope, bounds, FilesTyped
<1>13. CASE WriteManifest
  BY <1>13, <1>a DEF WriteManifest, GiveUp, snapshots, record, working, scope,
         bounds, FilesTyped
<1>14. CASE WriteLedger
  <2> PICK w \in todo : /\ overBak' = Ensured(overBak, over)
                        /\ over' = Written(over, w)
    BY <1>14 DEF WriteLedger
  <2>1. w \in Writes /\ over \in Ledgers \cup {NoFile}
    BY DEF WorkTyped, FilesTyped, SomeLedgers
  <2>2. over' \in SomeLedgers
    BY <2>1, WrittenType DEF SomeLedgers
  <2>3. AtMost(1, SomeLedgers, overBak')
    BY EnsuredType DEF FilesTyped
  <2> QED
    BY <1>14, <2>2, <2>3 DEF WriteLedger, FilesTyped, record
<1>15. CASE Evict
  BY <1>15, <1>b DEF Evict, files, snapshots, record, working, scope, bounds,
         FilesTyped
<1>16. CASE RollBackManifest
  <2>1. bak = <<>> \/ bak[1] \in Docs
    BY AtMostOne DEF FilesTyped
  <2> QED
    BY <1>16, <1>b, <2>1 DEF RollBackManifest, FilesTyped, record
<1>17. CASE RollBackLedger
  <2>1. overBak = <<>> \/ overBak[1] \in SomeLedgers
    BY AtMostOne DEF FilesTyped
  <2> QED
    BY <1>17, <1>b, <2>1 DEF RollBackLedger, FilesTyped, record
<1>18. CASE EvictAll
  BY <1>18, <1>b DEF EvictAll, RolledBack, files, snapshots, record, working,
         scope, bounds, FilesTyped
<1>19. CASE RestoreEnv
  BY <1>19 DEF RestoreEnv, snapshots, record, scope, bounds, FilesTyped,
         WorkTyped
<1>20. CASE NextEnv
  BY <1>20, <1>b DEF NextEnv, files, snapshots, bounds, FilesTyped
<1>21. CASE Cleanup
  BY <1>21, <1>b DEF Cleanup, files, record, working, scope, bounds,
         FilesTyped
<1>22. CASE End
  BY <1>22 DEF End, Reset, files, snapshots, record, bounds, FilesTyped
<1>23. CASE Killed
  BY <1>23 DEF Killed, Reset, files, snapshots, record, FilesTyped
<1>24. CASE UserEdits
  BY <1>24, DriverAssumption DEF UserEdits, snapshots, record, working, scope,
         FilesTyped
<1>25. CASE UNCHANGED vars
  BY <1>25 DEF vars, files, snapshots, record, working, scope, bounds,
         FilesTyped
<1> QED
  BY <1>1, <1>2, <1>3, <1>4, <1>5, <1>6, <1>7, <1>8, <1>9, <1>10, <1>11,
         <1>12, <1>13, <1>14, <1>15, <1>16, <1>17, <1>18, <1>19, <1>20, <1>21,
         <1>22, <1>23, <1>24, <1>25 DEF Step

\* A run goes from step to step.
LEMMA FlowStep ==
    ASSUME FilesTyped, FlowTyped, WorkTyped, Step
    PROVE  FlowTyped'
<1>a. MaxRuns \in Nat /\ Envs \in Nat /\ MaxEdits \in Nat /\ MaxCrashes \in Nat
  BY DriverAssumption DEF MaxRuns
<1>b. 1 \in 1..Envs
  BY DriverAssumption
<1> HIDE DEF MaxRuns
<1>1. CASE StartLock
  BY <1>1, <1>a DEF StartLock, Open, files, FlowTyped, Steps, Outcomes
<1>2. CASE Sweep
  <2>1. pc' = "pixi" /\ UNCHANGED <<outcome, working, scope, bounds>>
    BY <1>2 DEF Sweep
  <2> QED
    BY <2>1 DEF working, scope, bounds, FlowTyped, Steps
<1>3. CASE StartSolve
  BY <1>3, <1>a DEF StartSolve, Open, files, FlowTyped, Steps, Outcomes
<1>4. CASE StartClean
  BY <1>4, <1>a DEF StartClean, files, record, FlowTyped, Steps, Outcomes
<1>5. CASE PixiDies
  BY <1>5, <1>a DEF PixiDies, PixiRuns, GiveUp, files, snapshots, record,
         scope, bounds, FlowTyped, Steps, Outcomes
<1>6. CASE Converge
  BY <1>6, <1>a DEF Converge, PixiRuns, files, snapshots, record, scope,
         bounds, FlowTyped, Steps, Outcomes
<1>7. CASE OutOfRounds
  BY <1>7, <1>a DEF OutOfRounds, GiveUp, files, snapshots, record, working,
         scope, bounds, FlowTyped, Steps, Outcomes
<1>8. CASE \E e \in Errors : OverBudget(e)
  BY <1>8, <1>a DEF OverBudget, PixiRuns, files, snapshots, record, scope,
         bounds, FlowTyped, Steps, Outcomes
<1>9. CASE Acts
  BY <1>9, <1>a DEF Acts, PixiRuns, files, record, scope, bounds, FlowTyped,
         Steps, Outcomes, Progress, Exhaustion, GiveUp
<1>10. CASE \E e \in Errors : Proposal(e)
  BY <1>10, <1>a DEF Proposal, PixiRuns, GiveUp, files, snapshots, record,
         scope, bounds, FlowTyped, Steps, Outcomes
<1>11. CASE \E e \in Errors : RevertWiden(e)
  BY <1>11, <1>a DEF RevertWiden, Unread, PixiRuns, files, snapshots, scope,
         bounds, FlowTyped, Steps, Outcomes
<1>12. CASE \E e \in Errors : Unparseable(e)
  BY <1>12, <1>a DEF Unparseable, GiveUp, Unread, PixiRuns, files, snapshots,
         record, scope, bounds, FlowTyped, Steps, Outcomes
<1>13. CASE WriteManifest
  BY <1>13, <1>a DEF WriteManifest, GiveUp, snapshots, record, working, scope,
         bounds, FlowTyped, Steps, Outcomes
<1>14. CASE WriteLedger
  BY <1>14, <1>a DEF WriteLedger, record, scope, bounds, FlowTyped, Steps,
         Outcomes
<1>15. CASE Evict
  BY <1>15, <1>a DEF Evict, files, snapshots, record, working, scope, bounds,
         FlowTyped, Steps, Outcomes
<1>16. CASE RollBackManifest
  BY <1>16, <1>a DEF RollBackManifest, record, working, scope, bounds,
         FlowTyped, Steps, Outcomes
<1>17. CASE RollBackLedger
  BY <1>17, <1>a DEF RollBackLedger, RolledBack, record, working, scope,
         bounds, FlowTyped, Steps, Outcomes
<1>18. CASE EvictAll
  BY <1>18, <1>a DEF EvictAll, RolledBack, files, snapshots, record, working,
         scope, bounds, FlowTyped, Steps, Outcomes
<1>19. CASE RestoreEnv
  BY <1>19, <1>a DEF RestoreEnv, snapshots, record, scope, bounds, FlowTyped,
         Steps, Outcomes
<1>20. CASE NextEnv
  BY <1>20, <1>a DEF NextEnv, files, snapshots, bounds, FlowTyped, Steps,
         Outcomes
<1>21. CASE Cleanup
  BY <1>21, <1>a DEF Cleanup, files, record, working, scope, bounds,
         FlowTyped, Steps, Outcomes
<1>22. CASE End
  BY <1>22, <1>a, <1>b DEF End, Reset, files, snapshots, record, bounds,
         FlowTyped, Steps, Outcomes
<1>23. CASE Killed
  <2>1. crashes' \in 0..MaxCrashes
    BY <1>23, <1>a DEF Killed, FlowTyped
  <2> QED
    BY <1>23, <1>b, <2>1 DEF Killed, Reset, FlowTyped, Steps, Outcomes
<1>24. CASE UserEdits
  BY <1>24, <1>a DEF UserEdits, snapshots, record, working, scope, FlowTyped,
         Steps, Outcomes
<1>25. CASE UNCHANGED vars
  BY <1>25, <1>a DEF vars, files, snapshots, record, working, scope, bounds,
         FlowTyped, Steps, Outcomes
<1> QED
  BY <1>1, <1>2, <1>3, <1>4, <1>5, <1>6, <1>7, <1>8, <1>9, <1>10, <1>11,
         <1>12, <1>13, <1>14, <1>15, <1>16, <1>17, <1>18, <1>19, <1>20, <1>21,
         <1>22, <1>23, <1>24, <1>25 DEF Step

\* What a run keeps in memory.
LEMMA WorkStep ==
    ASSUME FilesTyped, FlowTyped, WorkTyped, Step
    PROVE  WorkTyped'
<1>a. /\ plan \in Plans /\ plan.doc \in Docs /\ manifest \in Docs
      /\ plan.edits = <<>> /\ plan.writes = {} /\ ~plan.done
      /\ pending \in Seq(Places \X Entries)
  BY PlanFields DEF FilesTyped, WorkTyped, Blank, AtMost
<1>b. Restore(plan.doc, pending) \in Docs
  BY <1>a, RestoreType
<1>c. AtMost(2, Places \X Entries, <<>>)
  BY DEF AtMost
<1>d. Blank(Plan(NoDoc, {}, {}, "conda"))
  BY NoDocType, PlanType
<1>e. \A doc \in Docs : Blank([plan EXCEPT !.doc = doc])
  BY <1>a DEF Plans, Blank
<1>f. Seed \subseteq Keys \X Strategies
  BY SentinelType DEF Seed, FilesTyped
<1>g. \A prefer \in {"conda", "pypi"} : Blank(Plan(manifest, Seed, {}, prefer))
  BY <1>a, <1>f, PlanType
<1>h. Blank(Plan(Cleaned(manifest), {}, {}, "conda"))
  BY <1>a, CleanedType, PlanType
<1>i. [manifest |-> manifest, over |-> over]
        \in [manifest : Docs, over : SomeLedgers]
  BY DEF FilesTyped
<1>j. [manifest |-> NoDoc, over |-> NoFile]
        \in [manifest : Docs, over : SomeLedgers]
  BY NoDocType
<1> HIDE DEF AtMost
<1>1. CASE StartLock
  BY <1>1, <1>a, <1>g, <1>i DEF StartLock, Open, files, WorkTyped
<1>2. CASE Sweep
  BY <1>2 DEF Sweep, files, record, working, scope, bounds, WorkTyped
<1>3. CASE StartSolve
  BY <1>3, <1>a, <1>g, <1>i DEF StartSolve, Open, files, WorkTyped
<1>4. CASE StartClean
  BY <1>4, <1>a, <1>h, <1>i DEF StartClean, files, record, WorkTyped
<1>5. CASE PixiDies
  BY <1>5 DEF PixiDies, PixiRuns, GiveUp, files, snapshots, record, scope,
         bounds, WorkTyped
<1>6. CASE Converge
  BY <1>6 DEF Converge, PixiRuns, files, snapshots, record, scope, bounds,
         WorkTyped
<1>7. CASE OutOfRounds
  BY <1>7 DEF OutOfRounds, GiveUp, files, snapshots, record, working, scope,
         bounds, WorkTyped
<1>8. CASE \E e \in Errors : OverBudget(e)
  BY <1>8 DEF OverBudget, PixiRuns, files, snapshots, record, scope, bounds,
         WorkTyped
<1>9. CASE Acts
  BY <1>9, <1>a DEF Acts, PixiRuns, files, record, scope, bounds, WorkTyped,
         Progress, Exhaustion
<1>10. CASE \E e \in Errors : Proposal(e)
  BY <1>10 DEF Proposal, PixiRuns, GiveUp, files, snapshots, record, scope,
         bounds, WorkTyped
<1>11. CASE \E e \in Errors : RevertWiden(e)
  <2> PICK e \in Errors : RevertWiden(e)
    BY <1>11
  <2> DEFINE name == pending[Len(pending)][1][2]
             mark == <<Key(name), "widen">>
             q == [plan EXCEPT !.doc = Restore(plan.doc, pending),
                               !.tried = @ \cup {mark}]
  <2>1. Len(pending) \in DOMAIN pending
    BY <1>a DEF RevertWiden, WidenPending
  <2>2. pending[Len(pending)] \in Places \X Entries
    BY <1>a, <2>1, AtIndex
  <2>3. name \in Names
    BY <2>2 DEF Places
  <2>4. mark \in Keys \X Strategies
    BY <2>3, TierKeys DEF Strategies
  <2>5. plan' = q /\ pending' = <<>>
        /\ UNCHANGED <<todo, widened, repairs, scope, before>>
    BY DEF RevertWiden
  <2>6. plan.tried \cup {mark} \subseteq Keys \X Strategies
    BY <1>a, <2>4, PlanFields
  <2> HIDE DEF name, mark
  <2>7. Blank(q)
    BY <1>a, <1>b, <2>6 DEF Plans, Blank
  <2> QED
    BY <1>c, <2>5, <2>7 DEF WorkTyped, scope
<1>12. CASE \E e \in Errors : Unparseable(e)
  BY <1>12, <1>b, <1>c, <1>e DEF Unparseable, GiveUp, Unread, PixiRuns, files,
         snapshots, record, scope, bounds, WorkTyped
<1>13. CASE WriteManifest
  BY <1>13 DEF WriteManifest, GiveUp, snapshots, record, working, scope,
         bounds, WorkTyped
<1>14. CASE WriteLedger
  BY <1>14 DEF WriteLedger, record, scope, bounds, WorkTyped
<1>15. CASE Evict
  BY <1>15 DEF Evict, files, snapshots, record, working, scope, bounds,
         WorkTyped
<1>16. CASE RollBackManifest
  BY <1>16 DEF RollBackManifest, record, working, scope, bounds, WorkTyped
<1>17. CASE RollBackLedger
  BY <1>17 DEF RollBackLedger, RolledBack, record, working, scope, bounds,
         WorkTyped
<1>18. CASE EvictAll
  BY <1>18 DEF EvictAll, RolledBack, files, snapshots, record, working, scope,
         bounds, WorkTyped
<1>19. CASE RestoreEnv
  BY <1>19, <1>e DEF RestoreEnv, snapshots, record, scope, bounds, WorkTyped
<1>20. CASE NextEnv
  <2>1. Blank([plan EXCEPT !.guarded = {}])
    BY <1>a DEF Plans, Blank
  <2> QED
    BY <1>20, <1>a, <1>c, <2>1 DEF NextEnv, WorkTyped
<1>21. CASE Cleanup
  BY <1>21 DEF Cleanup, files, record, working, scope, bounds, WorkTyped
<1>22. CASE End
  BY <1>22, <1>c, <1>d, <1>j, NoDocType DEF End, Reset, files, snapshots,
         record, bounds, WorkTyped
<1>23. CASE Killed
  BY <1>23, <1>c, <1>d, <1>j, NoDocType DEF Killed, Reset, files, snapshots,
         record, WorkTyped
<1>24. CASE UserEdits
  BY <1>24 DEF UserEdits, snapshots, record, working, scope, WorkTyped
<1>25. CASE UNCHANGED vars
  BY <1>25 DEF vars, files, snapshots, record, working, scope, bounds,
         WorkTyped
<1> QED
  BY <1>1, <1>2, <1>3, <1>4, <1>5, <1>6, <1>7, <1>8, <1>9, <1>10, <1>11,
         <1>12, <1>13, <1>14, <1>15, <1>16, <1>17, <1>18, <1>19, <1>20, <1>21,
         <1>22, <1>23, <1>24, <1>25 DEF Step


LEMMA TypedInit == Init => Typed
<1> SUFFICES ASSUME Init PROVE FilesTyped /\ FlowTyped /\ WorkTyped
  BY TypedParts
<1>1. Blank(Plan(NoDoc, {}, {}, "conda"))
  BY NoDocType, PlanType
<1>2. \A S : AtMost(1, S, <<>>)
  BY DEF AtMost
<1>3. FilesTyped
  BY <1>2, DriverAssumption, NoDocType DEF Init, FilesTyped
<1>4. FlowTyped
  <2>1. MaxRuns \in Nat
    BY DriverAssumption DEF MaxRuns
  <2>2. 1 \in 1..Envs /\ MaxEdits \in Nat /\ MaxCrashes \in Nat
    BY DriverAssumption
  <2>3. /\ pc = "idle" /\ cmd = "none" /\ outcome = "running"
        /\ keepGoing = FALSE /\ rounds = 0 /\ env = 1 /\ runs = 0
        /\ edits = 0 /\ crashes = 0
    BY DEF Init
  <2> HIDE DEF MaxRuns
  <2>4. runs \in 0..MaxRuns /\ edits \in 0..MaxEdits
        /\ crashes \in 0..MaxCrashes
    BY <2>1, <2>2, <2>3
  <2> QED
    BY <2>2, <2>3, <2>4 DEF FlowTyped, Steps, Outcomes
<1>5. WorkTyped
  <2>1. AtMost(2, Places \X Entries, <<>>)
    BY DEF AtMost
  <2> QED
    BY <1>1, <2>1, NoDocType DEF Init, WorkTyped
<1> QED
  BY <1>3, <1>4, <1>5

LEMMA TypedStep == Typed /\ [Next]_vars => Typed'
<1> SUFFICES ASSUME Typed, [Next]_vars PROVE Typed'
  OBVIOUS
<1>1. FilesTyped /\ FlowTyped /\ WorkTyped /\ Step
  BY EveryStep, TypedParts
<1>2. FilesTyped' /\ FlowTyped' /\ WorkTyped'
  BY <1>1, FilesStep, FlowStep, WorkStep
<1> QED
  BY <1>2, TypedParts, PTL

\* Every file and every field of a run has its type, whatever the runs, the
\* user and the kills do: no repair, revert or rollback leaves a document that
\* is none.
THEOREM TypeCorrect == Spec => []TypeOK
<1>1. Typed => TypeOK
  BY DEF Typed
<1> QED
  BY <1>1, TypedInit, TypedStep, PTL DEF Spec
-----------------------------------------------------------------------------
(***************************************************************************)
(* The invariant.                                                          *)
(***************************************************************************)
\* Which step belongs to which command, and what has not happened before it.
Stages ==
    /\ pc = "idle" <=> cmd = "none"
    /\ pc = "idle" => /\ rounds = 0 /\ repairs = 0 /\ pending = <<>>
                      /\ todo = {} /\ outcome = "running"
    /\ pc \in {"sweep", "pixi", "ledger", "evict"}
         => outcome = "running" /\ cmd \in {"lock", "solve"}
    /\ pc = "sweep" => /\ cmd = "lock" /\ rounds = 0 /\ repairs = 0
                       /\ pending = <<>>
    /\ pc \in {"restore", "nextEnv"} => cmd = "solve"
    /\ pc \in {"rollback", "rollbackOver", "evictAll"}
         => cmd \in {"lock", "solve"}
    /\ cmd = "lock" /\ pc = "cleanup" => outcome = "converged"
    /\ pc = "rollback"
         => ~(cmd = "solve" /\ keepGoing /\ outcome # "interrupted")
    /\ cmd = "clean" => /\ pc \in {"write", "cleanup", "ended"}
                        /\ outcome = "running"

Loop == {"pixi", "write", "ledger", "evict"}

\* A repair pays for the round that found the conflict and for the one that
\* may revert it.
Revertible == IF pending = <<>> THEN 0 ELSE 1
Rounds ==
    /\ cmd = "lock" /\ outcome = "running" /\ pc \in Loop =>
         /\ rounds + Revertible <= 2 * repairs
         /\ rounds + Revertible <= 2 * MaxRepairs
    /\ HardCapNeverBites

\* A file is as it was or has a snapshot of how it was.
Kept(snapshot, file, original) ==
    \/ snapshot = <<>> /\ file = original
    \/ snapshot = <<original>>
Baseline ==
    cmd = "lock" =>
      /\ pc \in {"sweep", "rollbackOver", "evictAll"}
           => manifest = start.manifest
      /\ pc \in {"sweep", "evictAll"} => over = start.over
      /\ pc \in Loop \cup {"rollback"} => Kept(bak, manifest, start.manifest)
      /\ pc \in Loop \cup {"rollback", "rollbackOver"}
           => Kept(overBak, over, start.over)
      /\ pc \in Loop /\ (pending # <<>> \/ pc = "write") => bak # <<>>
      /\ pc = "ended" /\ outcome \in GivenUp
           => manifest = start.manifest /\ over = start.over

\* The editor holds what is on disk, except while it has still to be written.
Editor ==
    /\ pc \in {"sweep", "pixi", "ledger", "evict", "nextEnv"}
         => manifest = plan.doc
    /\ pc \in {"rollbackOver", "evictAll"} /\ RolledBack = "nextEnv"
         => manifest = plan.doc

\* A ledger that has a snapshot names a pack, so that rolling it back evicts.
Renders ==
    /\ overBak # <<>> => NamesAPack(over)
    /\ \A w \in todo : Effective(w)
    /\ crashes = 0 /\ pc \notin {"evict", "evictAll"}
         => render \in {<<>>, <<over>>}

\* Neither a document nor a ledger that can come back says more of an anchor.
Spared ==
    /\ SparedBy(over) /\ (overBak # <<>> => SparedBy(overBak[1]))
    /\ Avoids(pending)
    /\ cmd \in {"lock", "solve"} =>
         /\ SparesAnchors(start.manifest, plan.doc)
         /\ SparesAnchors(start.manifest, checkpoint)

\* The edits of the last repair lead back to where it was made.
Reverts ==
    pc \in Loop /\ pending # <<>> => Restores(before, plan.doc, pending)

\* Every step belongs to a command.
LEMMA StagesStep ==
    ASSUME Typed, Stages, Step
    PROVE  Stages'
<1>a. cmd \in {"none", "lock", "solve", "clean"}
  BY DEF Typed, TypeOK
<1>1. CASE StartLock
  BY <1>1 DEF StartLock, Open, files, Stages
<1>2. CASE Sweep
  BY <1>2 DEF Sweep, files, record, working, scope, bounds, Stages
<1>3. CASE StartSolve
  BY <1>3 DEF StartSolve, Open, files, Stages
<1>4. CASE StartClean
  BY <1>4 DEF StartClean, files, record, Stages
<1>5. CASE PixiDies
  BY <1>5 DEF PixiDies, PixiRuns, GiveUp, files, snapshots, record, scope,
         bounds, Stages
<1>6. CASE Converge
  BY <1>6 DEF Converge, PixiRuns, files, snapshots, record, scope, bounds,
         Stages
<1>7. CASE OutOfRounds
  BY <1>7 DEF OutOfRounds, GiveUp, files, snapshots, record, working, scope,
         bounds, Stages
<1>8. CASE \E e \in Errors : OverBudget(e)
  BY <1>8 DEF OverBudget, PixiRuns, files, snapshots, record, scope, bounds,
         Stages
<1>9. CASE Acts
  BY <1>9 DEF Acts, PixiRuns, files, record, scope, bounds, Stages, Progress,
         Exhaustion, GiveUp
<1>10. CASE \E e \in Errors : Proposal(e)
  BY <1>10 DEF Proposal, PixiRuns, GiveUp, files, snapshots, record, scope,
         bounds, Stages
<1>11. CASE \E e \in Errors : RevertWiden(e)
  BY <1>11 DEF RevertWiden, Unread, PixiRuns, files, snapshots, scope, bounds,
         Stages
<1>12. CASE \E e \in Errors : Unparseable(e)
  BY <1>12 DEF Unparseable, GiveUp, Unread, PixiRuns, files, snapshots,
         record, scope, bounds, Stages
<1>13. CASE WriteManifest
  BY <1>13, <1>a DEF WriteManifest, GiveUp, snapshots, record, working, scope,
         bounds, Stages
<1>14. CASE WriteLedger
  BY <1>14 DEF WriteLedger, record, scope, bounds, Stages
<1>15. CASE Evict
  BY <1>15 DEF Evict, files, snapshots, record, working, scope, bounds, Stages
<1>16. CASE RollBackManifest
  BY <1>16 DEF RollBackManifest, record, working, scope, bounds, Stages
<1>17. CASE RollBackLedger
  BY <1>17 DEF RollBackLedger, RolledBack, record, working, scope, bounds,
         Stages
<1>18. CASE EvictAll
  BY <1>18 DEF EvictAll, RolledBack, files, snapshots, record, working, scope,
         bounds, Stages
<1>19. CASE RestoreEnv
  BY <1>19 DEF RestoreEnv, snapshots, record, scope, bounds, Stages
<1>20. CASE NextEnv
  BY <1>20 DEF NextEnv, files, snapshots, bounds, Stages
<1>21. CASE Cleanup
  BY <1>21 DEF Cleanup, files, record, working, scope, bounds, Stages
<1>22. CASE End
  BY <1>22 DEF End, Reset, files, snapshots, record, bounds, Stages
<1>23. CASE Killed
  BY <1>23 DEF Killed, Reset, files, snapshots, record, Stages
<1>24. CASE UserEdits
  BY <1>24 DEF UserEdits, snapshots, record, working, scope, Stages
<1>25. CASE UNCHANGED vars
  BY <1>25 DEF vars, files, snapshots, record, working, scope, bounds, Stages
<1> QED
  BY <1>1, <1>2, <1>3, <1>4, <1>5, <1>6, <1>7, <1>8, <1>9, <1>10, <1>11,
         <1>12, <1>13, <1>14, <1>15, <1>16, <1>17, <1>18, <1>19, <1>20, <1>21,
         <1>22, <1>23, <1>24, <1>25 DEF Step

\* Rounds are paid for by repairs.
LEMMA RoundsStep ==
    ASSUME Typed, Stages, Rounds, Step
    PROVE  Rounds'
<1>a. rounds \in Nat /\ repairs \in Nat /\ MaxRepairs \in Nat
  BY DriverAssumption DEF Typed, TypeOK
<1>1. CASE StartLock
  BY <1>1, <1>a DEF StartLock, Open, files, Rounds, Stages, Loop, Revertible,
         HardCapNeverBites
<1>2. CASE Sweep
  BY <1>2, <1>a DEF Sweep, files, record, working, scope, bounds, Rounds,
         Stages, Loop, Revertible, HardCapNeverBites
<1>3. CASE StartSolve
  BY <1>3, <1>a DEF StartSolve, Open, files, Rounds, Stages, Loop, Revertible,
         HardCapNeverBites
<1>4. CASE StartClean
  BY <1>4, <1>a DEF StartClean, files, record, Rounds, Stages, Loop,
         Revertible, HardCapNeverBites
<1>5. CASE PixiDies
  BY <1>5, <1>a DEF PixiDies, PixiRuns, GiveUp, files, snapshots, record,
         scope, bounds, Rounds, Stages, Loop, Revertible, HardCapNeverBites
<1>6. CASE Converge
  BY <1>6, <1>a DEF Converge, PixiRuns, files, snapshots, record, scope,
         bounds, Rounds, Stages, Loop, Revertible, HardCapNeverBites
<1>7. CASE OutOfRounds
  BY <1>7, <1>a DEF OutOfRounds, GiveUp, files, snapshots, record, working,
         scope, bounds, Rounds, Stages, Loop, Revertible, HardCapNeverBites,
         HardCap
<1>8. CASE \E e \in Errors : OverBudget(e)
  BY <1>8, <1>a DEF OverBudget, PixiRuns, files, snapshots, record, scope,
         bounds, Rounds, Stages, Loop, Revertible, HardCapNeverBites
<1>9. CASE Acts
  BY <1>9, <1>a DEF Acts, PixiRuns, files, record, scope, bounds, Rounds,
         Stages, Loop, Revertible, HardCapNeverBites, Progress, Exhaustion,
         GiveUp, Budget
<1>10. CASE \E e \in Errors : Proposal(e)
  BY <1>10, <1>a DEF Proposal, PixiRuns, GiveUp, files, snapshots, record,
         scope, bounds, Rounds, Stages, Loop, Revertible, HardCapNeverBites
<1>11. CASE \E e \in Errors : RevertWiden(e)
  BY <1>11, <1>a DEF RevertWiden, Unread, PixiRuns, files, snapshots, scope,
         bounds, Rounds, Stages, Loop, Revertible, HardCapNeverBites,
         WidenPending
<1>12. CASE \E e \in Errors : Unparseable(e)
  BY <1>12, <1>a DEF Unparseable, GiveUp, Unread, PixiRuns, files, snapshots,
         record, scope, bounds, Rounds, Stages, Loop, Revertible,
         HardCapNeverBites
<1>13. CASE WriteManifest
  BY <1>13, <1>a DEF WriteManifest, GiveUp, snapshots, record, working, scope,
         bounds, Rounds, Stages, Loop, Revertible, HardCapNeverBites
<1>14. CASE WriteLedger
  BY <1>14, <1>a DEF WriteLedger, record, scope, bounds, Rounds, Stages, Loop,
         Revertible, HardCapNeverBites
<1>15. CASE Evict
  BY <1>15, <1>a DEF Evict, files, snapshots, record, working, scope, bounds,
         Rounds, Stages, Loop, Revertible, HardCapNeverBites
<1>16. CASE RollBackManifest
  BY <1>16, <1>a DEF RollBackManifest, record, working, scope, bounds, Rounds,
         Stages, Loop, Revertible, HardCapNeverBites
<1>17. CASE RollBackLedger
  BY <1>17, <1>a DEF RollBackLedger, RolledBack, record, working, scope,
         bounds, Rounds, Stages, Loop, Revertible, HardCapNeverBites
<1>18. CASE EvictAll
  BY <1>18, <1>a DEF EvictAll, RolledBack, files, snapshots, record, working,
         scope, bounds, Rounds, Stages, Loop, Revertible, HardCapNeverBites
<1>19. CASE RestoreEnv
  BY <1>19, <1>a DEF RestoreEnv, snapshots, record, scope, bounds, Rounds,
         Stages, Loop, Revertible, HardCapNeverBites
<1>20. CASE NextEnv
  BY <1>20, <1>a DEF NextEnv, files, snapshots, bounds, Rounds, Stages, Loop,
         Revertible, HardCapNeverBites
<1>21. CASE Cleanup
  BY <1>21, <1>a DEF Cleanup, files, record, working, scope, bounds, Rounds,
         Stages, Loop, Revertible, HardCapNeverBites
<1>22. CASE End
  BY <1>22, <1>a DEF End, Reset, files, snapshots, record, bounds, Rounds,
         Stages, Loop, Revertible, HardCapNeverBites
<1>23. CASE Killed
  BY <1>23, <1>a DEF Killed, Reset, files, snapshots, record, Rounds, Stages,
         Loop, Revertible, HardCapNeverBites
<1>24. CASE UserEdits
  BY <1>24, <1>a DEF UserEdits, snapshots, record, working, scope, Rounds,
         Stages, Loop, Revertible, HardCapNeverBites
<1>25. CASE UNCHANGED vars
  BY <1>25, <1>a DEF vars, files, snapshots, record, working, scope, bounds,
         Rounds, Stages, Loop, Revertible, HardCapNeverBites
<1> QED
  BY <1>1, <1>2, <1>3, <1>4, <1>5, <1>6, <1>7, <1>8, <1>9, <1>10, <1>11,
         <1>12, <1>13, <1>14, <1>15, <1>16, <1>17, <1>18, <1>19, <1>20, <1>21,
         <1>22, <1>23, <1>24, <1>25 DEF Step

\* A lock keeps the way back to its start.
LEMMA BaselineStep ==
    ASSUME Typed, Stages, Baseline, Step
    PROVE  Baseline'
<1>1. CASE StartLock
  BY <1>1 DEF StartLock, Open, files, Baseline, Stages, Loop, Kept, GivenUp
<1>2. CASE Sweep
  BY <1>2 DEF Sweep, files, record, working, scope, bounds, Baseline, Stages,
         Loop, Kept, GivenUp
<1>3. CASE StartSolve
  BY <1>3 DEF StartSolve, Open, files, Baseline, Stages, Loop, Kept, GivenUp
<1>4. CASE StartClean
  BY <1>4 DEF StartClean, files, record, Baseline, Stages, Loop, Kept, GivenUp
<1>5. CASE PixiDies
  BY <1>5 DEF PixiDies, PixiRuns, GiveUp, files, snapshots, record, scope,
         bounds, Baseline, Stages, Loop, Kept, GivenUp
<1>6. CASE Converge
  BY <1>6 DEF Converge, PixiRuns, files, snapshots, record, scope, bounds,
         Baseline, Stages, Loop, Kept, GivenUp
<1>7. CASE OutOfRounds
  BY <1>7 DEF OutOfRounds, GiveUp, files, snapshots, record, working, scope,
         bounds, Baseline, Stages, Loop, Kept, GivenUp
<1>8. CASE \E e \in Errors : OverBudget(e)
  BY <1>8 DEF OverBudget, PixiRuns, files, snapshots, record, scope, bounds,
         Baseline, Stages, Loop, Kept, GivenUp
<1>9. CASE Acts
  <2>1. CASE cmd # "lock"
    BY <1>9, <2>1 DEF Acts, scope, Baseline
  <2>2. CASE cmd = "lock"
    <3>1. /\ Kept(bak, manifest, start.manifest)
          /\ Kept(overBak, over, start.over)
          /\ pending # <<>> => bak # <<>>
      BY <1>9, <2>2 DEF Acts, PixiRuns, Baseline, Loop
    <3>2. UNCHANGED <<manifest, over, overBak, cmd, start>>
      BY <1>9 DEF Acts, files, scope
    <3>3. /\ Kept(bak', manifest', start'.manifest)
          /\ bak # <<>> => bak' # <<>>
          /\ bak' = bak \/ bak' # <<>>
      BY <1>9, <3>1, <3>2 DEF Acts, Kept, Ensured
    <3>4. Kept(overBak', over', start'.over)
      BY <3>1, <3>2
    <3>5. pc' \in {"write", "ledger", "rollback"}
      BY <1>9, <2>2 DEF Acts, Progress, Exhaustion, GiveUp
    <3>6. pc' \in Loop /\ (pending' # <<>> \/ pc' = "write") => bak' # <<>>
      BY <1>9, <2>2, <3>1, <3>3 DEF Acts, Progress, Exhaustion, GiveUp, Loop,
         Ensured
    <3> QED
      BY <3>3, <3>4, <3>5, <3>6 DEF Baseline, Loop
  <2> QED
    BY <2>1, <2>2
<1>10. CASE \E e \in Errors : Proposal(e)
  BY <1>10 DEF Proposal, PixiRuns, GiveUp, files, snapshots, record, scope,
         bounds, Baseline, Stages, Loop, Kept, GivenUp
<1>11. CASE \E e \in Errors : RevertWiden(e)
  BY <1>11 DEF RevertWiden, Unread, PixiRuns, files, snapshots, scope, bounds,
         Baseline, Stages, Loop, Kept, GivenUp, WidenPending
<1>12. CASE \E e \in Errors : Unparseable(e)
  BY <1>12 DEF Unparseable, GiveUp, Unread, PixiRuns, files, snapshots,
         record, scope, bounds, Baseline, Stages, Loop, Kept, GivenUp
<1>13. CASE WriteManifest
  BY <1>13 DEF WriteManifest, GiveUp, snapshots, record, working, scope,
         bounds, Baseline, Stages, Loop, Kept, GivenUp
<1>14. CASE WriteLedger
  BY <1>14 DEF WriteLedger, record, scope, bounds, Baseline, Stages, Loop,
         Kept, GivenUp, Ensured
<1>15. CASE Evict
  BY <1>15 DEF Evict, files, snapshots, record, working, scope, bounds,
         Baseline, Stages, Loop, Kept, GivenUp
<1>16. CASE RollBackManifest
  BY <1>16 DEF RollBackManifest, record, working, scope, bounds, Baseline,
         Stages, Loop, Kept, GivenUp
<1>17. CASE RollBackLedger
  BY <1>17 DEF RollBackLedger, RolledBack, record, working, scope, bounds,
         Baseline, Stages, Loop, Kept, GivenUp
<1>18. CASE EvictAll
  BY <1>18 DEF EvictAll, RolledBack, files, snapshots, record, working, scope,
         bounds, Baseline, Stages, Loop, Kept, GivenUp
<1>19. CASE RestoreEnv
  BY <1>19 DEF RestoreEnv, snapshots, record, scope, bounds, Baseline, Stages,
         Loop, Kept, GivenUp
<1>20. CASE NextEnv
  BY <1>20 DEF NextEnv, files, snapshots, bounds, Baseline, Stages, Loop,
         Kept, GivenUp
<1>21. CASE Cleanup
  BY <1>21 DEF Cleanup, files, record, working, scope, bounds, Baseline,
         Stages, Loop, Kept, GivenUp
<1>22. CASE End
  BY <1>22 DEF End, Reset, files, snapshots, record, bounds, Baseline, Stages,
         Loop, Kept, GivenUp
<1>23. CASE Killed
  BY <1>23 DEF Killed, Reset, files, snapshots, record, Baseline, Stages,
         Loop, Kept, GivenUp
<1>24. CASE UserEdits
  BY <1>24 DEF UserEdits, snapshots, record, working, scope, Baseline, Stages,
         Loop, Kept, GivenUp
<1>25. CASE UNCHANGED vars
  BY <1>25 DEF vars, files, snapshots, record, working, scope, bounds,
         Baseline, Stages, Loop, Kept, GivenUp
<1> QED
  BY <1>1, <1>2, <1>3, <1>4, <1>5, <1>6, <1>7, <1>8, <1>9, <1>10, <1>11,
         <1>12, <1>13, <1>14, <1>15, <1>16, <1>17, <1>18, <1>19, <1>20, <1>21,
         <1>22, <1>23, <1>24, <1>25 DEF Step

\* The editor and the disk part only where a write follows.
LEMMA EditorStep ==
    ASSUME Typed, Stages, Editor, Step
    PROVE  Editor'
<1>a. /\ Plan(manifest, Seed, {}, "conda").doc = manifest
      /\ Plan(manifest, Seed, {}, "pypi").doc = manifest
  BY DEF Plan
<1>b. [plan EXCEPT !.guarded = {}].doc = plan.doc
  BY DEF Typed, Blank, Plans
<1>1. CASE StartLock
  BY <1>1, <1>a DEF StartLock, Open, files, Editor, Stages, RolledBack
<1>2. CASE Sweep
  BY <1>2 DEF Sweep, files, record, working, scope, bounds, Editor, Stages,
         RolledBack
<1>3. CASE StartSolve
  BY <1>3, <1>a DEF StartSolve, Open, files, Editor, Stages, RolledBack
<1>4. CASE StartClean
  BY <1>4 DEF StartClean, files, record, Editor, Stages, RolledBack
<1>5. CASE PixiDies
  BY <1>5 DEF PixiDies, PixiRuns, GiveUp, files, snapshots, record, scope,
         bounds, Editor, Stages, RolledBack
<1>6. CASE Converge
  BY <1>6 DEF Converge, PixiRuns, files, snapshots, record, scope, bounds,
         Editor, Stages, RolledBack
<1>7. CASE OutOfRounds
  BY <1>7 DEF OutOfRounds, GiveUp, files, snapshots, record, working, scope,
         bounds, Editor, Stages, RolledBack
<1>8. CASE \E e \in Errors : OverBudget(e)
  BY <1>8 DEF OverBudget, PixiRuns, files, snapshots, record, scope, bounds,
         Editor, Stages, RolledBack
<1>9. CASE Acts
  BY <1>9 DEF Acts, PixiRuns, files, record, scope, bounds, Editor, Stages,
         RolledBack, Progress, Exhaustion, GiveUp
<1>10. CASE \E e \in Errors : Proposal(e)
  BY <1>10 DEF Proposal, PixiRuns, GiveUp, files, snapshots, record, scope,
         bounds, Editor, Stages, RolledBack
<1>11. CASE \E e \in Errors : RevertWiden(e)
  BY <1>11 DEF RevertWiden, Unread, PixiRuns, files, snapshots, scope, bounds,
         Editor, Stages, RolledBack
<1>12. CASE \E e \in Errors : Unparseable(e)
  BY <1>12 DEF Unparseable, GiveUp, Unread, PixiRuns, files, snapshots,
         record, scope, bounds, Editor, Stages, RolledBack
<1>13. CASE WriteManifest
  BY <1>13 DEF WriteManifest, GiveUp, snapshots, record, working, scope,
         bounds, Editor, Stages, RolledBack
<1>14. CASE WriteLedger
  BY <1>14 DEF WriteLedger, record, scope, bounds, Editor, Stages, RolledBack
<1>15. CASE Evict
  BY <1>15 DEF Evict, files, snapshots, record, working, scope, bounds,
         Editor, Stages, RolledBack
<1>16. CASE RollBackManifest
  BY <1>16 DEF RollBackManifest, record, working, scope, bounds, Editor,
         Stages, RolledBack
<1>17. CASE RollBackLedger
  BY <1>17 DEF RollBackLedger, RolledBack, record, working, scope, bounds,
         Editor, Stages, RolledBack
<1>18. CASE EvictAll
  BY <1>18 DEF EvictAll, RolledBack, files, snapshots, record, working, scope,
         bounds, Editor, Stages, RolledBack
<1>19. CASE RestoreEnv
  BY <1>19 DEF RestoreEnv, snapshots, record, scope, bounds, Editor, Stages,
         RolledBack
<1>20. CASE NextEnv
  BY <1>20, <1>b DEF NextEnv, files, snapshots, bounds, Editor, Stages,
         RolledBack
<1>21. CASE Cleanup
  BY <1>21 DEF Cleanup, files, record, working, scope, bounds, Editor, Stages,
         RolledBack
<1>22. CASE End
  BY <1>22 DEF End, Reset, files, snapshots, record, bounds, Editor, Stages,
         RolledBack
<1>23. CASE Killed
  BY <1>23 DEF Killed, Reset, files, snapshots, record, Editor, Stages,
         RolledBack
<1>24. CASE UserEdits
  BY <1>24 DEF UserEdits, snapshots, record, working, scope, Editor, Stages,
         RolledBack
<1>25. CASE UNCHANGED vars
  BY <1>25 DEF vars, files, snapshots, record, working, scope, bounds, Editor,
         Stages, RolledBack
<1> QED
  BY <1>1, <1>2, <1>3, <1>4, <1>5, <1>6, <1>7, <1>8, <1>9, <1>10, <1>11,
         <1>12, <1>13, <1>14, <1>15, <1>16, <1>17, <1>18, <1>19, <1>20, <1>21,
         <1>22, <1>23, <1>24, <1>25 DEF Step

\* Whatever changes the ledger evicts.
LEMMA RendersStep ==
    ASSUME Typed, Stages, Renders, Step
    PROVE  Renders'
<1>a. crashes \in Nat
  BY DEF Typed, TypeOK
<1>1. CASE StartLock
  BY <1>1 DEF StartLock, Open, files, Renders, Stages
<1>2. CASE Sweep
  BY <1>2 DEF Sweep, files, record, working, scope, bounds, Renders, Stages
<1>3. CASE StartSolve
  BY <1>3 DEF StartSolve, Open, files, Renders, Stages
<1>4. CASE StartClean
  BY <1>4 DEF StartClean, files, record, Renders, Stages
<1>5. CASE PixiDies
  BY <1>5 DEF PixiDies, PixiRuns, GiveUp, files, snapshots, record, scope,
         bounds, Renders, Stages
<1>6. CASE Converge
  BY <1>6 DEF Converge, PixiRuns, files, snapshots, record, scope, bounds,
         Renders, Stages
<1>7. CASE OutOfRounds
  BY <1>7 DEF OutOfRounds, GiveUp, files, snapshots, record, working, scope,
         bounds, Renders, Stages
<1>8. CASE \E e \in Errors : OverBudget(e)
  BY <1>8 DEF OverBudget, PixiRuns, files, snapshots, record, scope, bounds,
         Renders, Stages
<1>9. CASE Acts
  BY <1>9 DEF Acts, PixiRuns, files, record, scope, bounds, Renders, Stages,
         Progress, Exhaustion, GiveUp
<1>10. CASE \E e \in Errors : Proposal(e)
  BY <1>10 DEF Proposal, PixiRuns, GiveUp, files, snapshots, record, scope,
         bounds, Renders, Stages
<1>11. CASE \E e \in Errors : RevertWiden(e)
  BY <1>11 DEF RevertWiden, Unread, PixiRuns, files, snapshots, scope, bounds,
         Renders, Stages
<1>12. CASE \E e \in Errors : Unparseable(e)
  BY <1>12 DEF Unparseable, GiveUp, Unread, PixiRuns, files, snapshots,
         record, scope, bounds, Renders, Stages
<1>13. CASE WriteManifest
  BY <1>13 DEF WriteManifest, GiveUp, snapshots, record, working, scope,
         bounds, Renders, Stages
<1>14. CASE WriteLedger
  <2> PICK w \in todo : /\ over' = Written(over, w)
                        /\ todo' = todo \ {w}
    BY <1>14 DEF WriteLedger
  <2>1. w \in Writes /\ Effective(w) /\ over \in Ledgers \cup {NoFile}
    BY DEF Typed, TypeOK, SomeLedgers, Renders
  <2>2. NamesAPack(over')
    BY <2>1, WrittenSays
  <2> QED
    BY <1>14, <2>2 DEF WriteLedger, Renders
<1>15. CASE Evict
  BY <1>15 DEF Evict, files, snapshots, record, working, scope, bounds,
         Renders, Stages
<1>16. CASE RollBackManifest
  BY <1>16 DEF RollBackManifest, record, working, scope, bounds, Renders,
         Stages
<1>17. CASE RollBackLedger
  BY <1>17 DEF RollBackLedger, RolledBack, record, working, scope, bounds,
         Renders, Stages
<1>18. CASE EvictAll
  BY <1>18 DEF EvictAll, RolledBack, files, snapshots, record, working, scope,
         bounds, Renders, Stages
<1>19. CASE RestoreEnv
  BY <1>19 DEF RestoreEnv, snapshots, record, scope, bounds, Renders, Stages
<1>20. CASE NextEnv
  BY <1>20 DEF NextEnv, files, snapshots, bounds, Renders, Stages
<1>21. CASE Cleanup
  BY <1>21 DEF Cleanup, files, record, working, scope, bounds, Renders, Stages
<1>22. CASE End
  BY <1>22 DEF End, Reset, files, snapshots, record, bounds, Renders, Stages
<1>23. CASE Killed
  <2>1. crashes' # 0
    BY <1>23, <1>a DEF Killed
  <2> QED
    BY <1>23, <2>1 DEF Killed, Reset, files, snapshots, Renders
<1>24. CASE UserEdits
  BY <1>24 DEF UserEdits, snapshots, record, working, scope, Renders, Stages
<1>25. CASE UNCHANGED vars
  BY <1>25 DEF vars, files, snapshots, record, working, scope, bounds,
         Renders, Stages
<1> QED
  BY <1>1, <1>2, <1>3, <1>4, <1>5, <1>6, <1>7, <1>8, <1>9, <1>10, <1>11,
         <1>12, <1>13, <1>14, <1>15, <1>16, <1>17, <1>18, <1>19, <1>20, <1>21,
         <1>22, <1>23, <1>24, <1>25 DEF Step

\* Anchors stay as they are.
LEMMA SparedStep ==
    ASSUME Typed, Stages, Editor, Renders, Spared, Step
    PROVE  Spared'
<1>a. /\ plan.doc \in Docs /\ plan \in Plans
      /\ pending \in Seq(Places \X Entries)
  BY PlanFields DEF Typed, TypeOK, Blank, AtMost
<1>b. Avoids(<<>>)
  BY <1>a, RestoreNothing
<1>c. \A doc : SparesAnchors(doc, doc)
  BY DEF SparesAnchors
<1>d. SparesAnchors(plan.doc, Restore(plan.doc, pending))
  BY <1>a, RestoreSpares DEF Spared
<1>e. cmd \in {"lock", "solve"}
        => \A doc : SparesAnchors(plan.doc, doc)
             => SparesAnchors(start.manifest, doc)
  BY SparesAreTransitive DEF Spared
<1>f. /\ Plan(manifest, Seed, {}, "conda").doc = manifest
      /\ Plan(manifest, Seed, {}, "pypi").doc = manifest
  BY DEF Plan
<1>g. [plan EXCEPT !.guarded = {}].doc = plan.doc
  BY <1>a DEF Plans
<1>h. /\ \A doc, tried : [plan EXCEPT !.doc = doc, !.tried = tried].doc = doc
      /\ \A doc : [plan EXCEPT !.doc = doc].doc = doc
  BY <1>a DEF Plans
<1>1. CASE StartLock
  BY <1>1, <1>c, <1>f DEF StartLock, Open, files, Spared, Stages, Editor
<1>2. CASE Sweep
  BY <1>2 DEF Sweep, files, record, working, scope, bounds, Spared, Stages,
         Editor
<1>3. CASE StartSolve
  BY <1>3, <1>c, <1>f DEF StartSolve, Open, files, Spared, Stages, Editor
<1>4. CASE StartClean
  BY <1>4 DEF StartClean, files, record, Spared, Stages, Editor
<1>5. CASE PixiDies
  BY <1>5 DEF PixiDies, PixiRuns, GiveUp, files, snapshots, record, scope,
         bounds, Spared, Stages, Editor
<1>6. CASE Converge
  BY <1>6 DEF Converge, PixiRuns, files, snapshots, record, scope, bounds,
         Spared, Stages, Editor
<1>7. CASE OutOfRounds
  BY <1>7 DEF OutOfRounds, GiveUp, files, snapshots, record, working, scope,
         bounds, Spared, Stages, Editor
<1>8. CASE \E e \in Errors : OverBudget(e)
  BY <1>8 DEF OverBudget, PixiRuns, files, snapshots, record, scope, bounds,
         Spared, Stages, Editor
<1>9. CASE Acts
  <2>1. SparesAnchors(plan.doc, plan'.doc) /\ Avoids(pending')
    BY <1>9, <1>c DEF Acts, Progress, Exhaustion, Spared
  <2>2. UNCHANGED <<files, overBak, scope>>
    BY <1>9 DEF Acts
  <2> QED
    BY <1>e, <2>1, <2>2 DEF Spared, files, scope
<1>10. CASE \E e \in Errors : Proposal(e)
  BY <1>10 DEF Proposal, PixiRuns, GiveUp, files, snapshots, record, scope,
         bounds, Spared, Stages, Editor
<1>11. CASE \E e \in Errors : RevertWiden(e)
  <2> PICK e \in Errors : RevertWiden(e)
    BY <1>11
  <2>1. plan'.doc = Restore(plan.doc, pending)
    BY <1>h DEF RevertWiden
  <2>2. /\ pending' = <<>> /\ UNCHANGED <<files, snapshots, scope>>
    BY DEF RevertWiden
  <2> QED
    BY <1>b, <1>d, <1>e, <2>1, <2>2 DEF Spared, files, snapshots, scope
<1>12. CASE \E e \in Errors : Unparseable(e)
  <2> PICK e \in Errors : Unparseable(e)
    BY <1>12
  <2>1. plan'.doc \in {plan.doc, Restore(plan.doc, pending)}
    BY <1>h DEF Unparseable
  <2>2. /\ pending' = <<>> /\ UNCHANGED <<files, snapshots, scope>>
    BY DEF Unparseable
  <2> QED
    BY <1>b, <1>d, <1>e, <2>1, <2>2 DEF Spared, files, snapshots, scope
<1>13. CASE WriteManifest
  BY <1>13 DEF WriteManifest, GiveUp, snapshots, record, working, scope,
         bounds, Spared, Stages, Editor
<1>14. CASE WriteLedger
  <2> PICK w \in todo : /\ overBak' = Ensured(overBak, over)
                        /\ over' = Written(over, w)
    BY <1>14 DEF WriteLedger
  <2>1. w \in Writes /\ Effective(w) /\ over \in Ledgers \cup {NoFile}
    BY DEF Typed, TypeOK, SomeLedgers, Renders
  <2>2. SparedBy(over')
    BY <2>1, WrittenSays DEF Spared
  <2>3. SparedBy(overBak'[1])
    BY DEF Ensured, Spared
  <2> QED
    BY <1>14, <2>2, <2>3 DEF WriteLedger, Spared, scope
<1>15. CASE Evict
  BY <1>15 DEF Evict, files, snapshots, record, working, scope, bounds,
         Spared, Stages, Editor
<1>16. CASE RollBackManifest
  BY <1>16 DEF RollBackManifest, record, working, scope, bounds, Spared,
         Stages, Editor
<1>17. CASE RollBackLedger
  BY <1>17 DEF RollBackLedger, RolledBack, record, working, scope, bounds,
         Spared, Stages, Editor
<1>18. CASE EvictAll
  BY <1>18 DEF EvictAll, RolledBack, files, snapshots, record, working, scope,
         bounds, Spared, Stages, Editor
<1>19. CASE RestoreEnv
  BY <1>19 DEF RestoreEnv, snapshots, record, scope, bounds, Spared, Stages,
         Editor
<1>20. CASE NextEnv
  BY <1>20, <1>b, <1>g DEF NextEnv, files, snapshots, bounds, Spared, Stages,
         Editor
<1>21. CASE Cleanup
  BY <1>21 DEF Cleanup, files, record, working, scope, bounds, Spared, Stages,
         Editor
<1>22. CASE End
  BY <1>22, <1>b DEF End, Reset, files, snapshots, record, bounds, Spared,
         Stages, Editor, Reset
<1>23. CASE Killed
  BY <1>23, <1>b DEF Killed, Reset, files, snapshots, record, Spared, Stages,
         Editor, Reset
<1>24. CASE UserEdits
  BY <1>24 DEF UserEdits, snapshots, record, working, scope, Spared, Stages,
         Editor
<1>25. CASE UNCHANGED vars
  BY <1>25 DEF vars, files, snapshots, record, working, scope, bounds, Spared,
         Stages, Editor
<1> QED
  BY <1>1, <1>2, <1>3, <1>4, <1>5, <1>6, <1>7, <1>8, <1>9, <1>10, <1>11,
         <1>12, <1>13, <1>14, <1>15, <1>16, <1>17, <1>18, <1>19, <1>20, <1>21,
         <1>22, <1>23, <1>24, <1>25 DEF Step

\* The last edits stay revertible.
LEMMA RevertsStep ==
    ASSUME Typed, Stages, Reverts, Step
    PROVE  Reverts'
<1>1. CASE StartLock
  BY <1>1 DEF StartLock, Open, files, Reverts, Stages, Loop
<1>2. CASE Sweep
  BY <1>2 DEF Sweep, files, record, working, scope, bounds, Reverts, Stages,
         Loop
<1>3. CASE StartSolve
  BY <1>3 DEF StartSolve, Open, files, Reverts, Stages, Loop
<1>4. CASE StartClean
  BY <1>4 DEF StartClean, files, record, Reverts, Stages, Loop
<1>5. CASE PixiDies
  BY <1>5 DEF PixiDies, PixiRuns, GiveUp, files, snapshots, record, scope,
         bounds, Reverts, Stages, Loop
<1>6. CASE Converge
  BY <1>6 DEF Converge, PixiRuns, files, snapshots, record, scope, bounds,
         Reverts, Stages, Loop
<1>7. CASE OutOfRounds
  BY <1>7 DEF OutOfRounds, GiveUp, files, snapshots, record, working, scope,
         bounds, Reverts, Stages, Loop
<1>8. CASE \E e \in Errors : OverBudget(e)
  BY <1>8 DEF OverBudget, PixiRuns, files, snapshots, record, scope, bounds,
         Reverts, Stages, Loop
<1>9. CASE Acts
  BY <1>9 DEF Acts, PixiRuns, files, record, scope, bounds, Reverts, Stages,
         Loop, Progress, Exhaustion, GiveUp
<1>10. CASE \E e \in Errors : Proposal(e)
  BY <1>10 DEF Proposal, PixiRuns, GiveUp, files, snapshots, record, scope,
         bounds, Reverts, Stages, Loop
<1>11. CASE \E e \in Errors : RevertWiden(e)
  BY <1>11 DEF RevertWiden, Unread, PixiRuns, files, snapshots, scope, bounds,
         Reverts, Stages, Loop
<1>12. CASE \E e \in Errors : Unparseable(e)
  BY <1>12 DEF Unparseable, GiveUp, Unread, PixiRuns, files, snapshots,
         record, scope, bounds, Reverts, Stages, Loop
<1>13. CASE WriteManifest
  BY <1>13 DEF WriteManifest, GiveUp, snapshots, record, working, scope,
         bounds, Reverts, Stages, Loop
<1>14. CASE WriteLedger
  BY <1>14 DEF WriteLedger, record, scope, bounds, Reverts, Stages, Loop
<1>15. CASE Evict
  BY <1>15 DEF Evict, files, snapshots, record, working, scope, bounds,
         Reverts, Stages, Loop
<1>16. CASE RollBackManifest
  BY <1>16 DEF RollBackManifest, record, working, scope, bounds, Reverts,
         Stages, Loop
<1>17. CASE RollBackLedger
  BY <1>17 DEF RollBackLedger, RolledBack, record, working, scope, bounds,
         Reverts, Stages, Loop
<1>18. CASE EvictAll
  BY <1>18 DEF EvictAll, RolledBack, files, snapshots, record, working, scope,
         bounds, Reverts, Stages, Loop
<1>19. CASE RestoreEnv
  BY <1>19 DEF RestoreEnv, snapshots, record, scope, bounds, Reverts, Stages,
         Loop
<1>20. CASE NextEnv
  BY <1>20 DEF NextEnv, files, snapshots, bounds, Reverts, Stages, Loop
<1>21. CASE Cleanup
  BY <1>21 DEF Cleanup, files, record, working, scope, bounds, Reverts,
         Stages, Loop
<1>22. CASE End
  BY <1>22 DEF End, Reset, files, snapshots, record, bounds, Reverts, Stages,
         Loop
<1>23. CASE Killed
  BY <1>23 DEF Killed, Reset, files, snapshots, record, Reverts, Stages, Loop
<1>24. CASE UserEdits
  BY <1>24 DEF UserEdits, snapshots, record, working, scope, Reverts, Stages,
         Loop
<1>25. CASE UNCHANGED vars
  BY <1>25 DEF vars, files, snapshots, record, working, scope, bounds,
         Reverts, Stages, Loop
<1> QED
  BY <1>1, <1>2, <1>3, <1>4, <1>5, <1>6, <1>7, <1>8, <1>9, <1>10, <1>11,
         <1>12, <1>13, <1>14, <1>15, <1>16, <1>17, <1>18, <1>19, <1>20, <1>21,
         <1>22, <1>23, <1>24, <1>25 DEF Step
-----------------------------------------------------------------------------
(***************************************************************************)
(* The theorems.                                                           *)
(***************************************************************************)
IInv ==
    /\ Typed /\ Stages /\ Rounds /\ Baseline /\ Editor /\ Renders /\ Spared
    /\ Reverts

LEMMA IInvInit == Init => IInv
<1> SUFFICES ASSUME Init PROVE IInv
  OBVIOUS
<1>1. Typed
  BY TypedInit
<1>2. /\ pc = "idle" /\ cmd = "none" /\ outcome = "running" /\ rounds = 0
      /\ repairs = 0 /\ pending = <<>> /\ todo = {} /\ over = NoFile
      /\ bak = <<>> /\ overBak = <<>> /\ render = <<>>
  BY DEF Init
<1>3. Stages /\ Rounds /\ Baseline /\ Editor /\ Renders /\ Reverts
  BY <1>2 DEF Stages, Rounds, Baseline, Editor, Renders, Reverts, Loop,
              HardCapNeverBites, RolledBack
<1>4. Spared
  BY <1>2, EmptySays DEF Spared, Avoids
<1> QED
  BY <1>1, <1>3, <1>4 DEF IInv

LEMMA IInvStep == IInv /\ [Next]_vars => IInv'
<1> SUFFICES ASSUME IInv, [Next]_vars PROVE IInv'
  OBVIOUS
<1>1. Typed' /\ Step
  BY TypedStep, EveryStep DEF IInv
<1>2. Stages' /\ Rounds' /\ Baseline'
  BY <1>1, StagesStep, RoundsStep, BaselineStep DEF IInv
<1>3. Editor' /\ Renders' /\ Spared' /\ Reverts'
  BY <1>1, EditorStep, RendersStep, SparedStep, RevertsStep DEF IInv
<1> QED
  BY <1>1, <1>2, <1>3 DEF IInv

LEMMA Invariant == Spec => []IInv
BY IInvInit, IInvStep, PTL DEF Spec

\* The cap on raw rounds never ends a lock, for any budget and any answers of
\* pixi: a repair pays for its round and for the one that reverts it.
THEOREM BudgetBoundsRounds == Spec => []HardCapNeverBites
<1>1. IInv => HardCapNeverBites
  BY DEF IInv, Rounds
<1> QED
  BY <1>1, Invariant, PTL

\* A lock that gives up leaves both files as it found them, whatever repairs it
\* has made and whatever killed runs have left behind.
THEOREM LockRollsBack == Spec => []LockRollsBackToItsStart
<1>1. IInv => LockRollsBackToItsStart
  <2> SUFFICES ASSUME IInv, pc = "ended", cmd = "lock", outcome \in GivenUp
               PROVE  start = [manifest |-> manifest, over |-> over]
    BY DEF LockRollsBackToItsStart
  <2>1. start.manifest = manifest /\ start.over = over
    BY DEF IInv, Baseline
  <2>2. start \in [manifest : Docs, over : SomeLedgers]
    BY DEF IInv, Typed
  <2> QED
    BY <2>1, <2>2
<1> QED
  BY <1>1, Invariant, PTL

\* pixi always solves the document the editor holds, over reverts, rollbacks
\* and the environments of --keep-going.
THEOREM EditorStaysCurrent == Spec => []EditorIsCurrent
<1>1. IInv => EditorIsCurrent
  BY DEF IInv, Editor, EditorIsCurrent
<1> QED
  BY <1>1, Invariant, PTL

\* Unless a run was killed pixi never solves with a stale render.
THEOREM RendersStayFresh == Spec => []RendersAreFresh
<1>1. IInv => RendersAreFresh
  <2> SUFFICES ASSUME IInv, pc = "pixi", crashes = 0, render # <<>>
               PROVE  render[1] = over
    BY DEF RendersAreFresh
  <2>1. render = <<over>>
    BY DEF IInv, Renders
  <2> QED
    BY <2>1
<1> QED
  BY <1>1, Invariant, PTL

\* No tier of the ladder, no revert and no rollback changes the entries of an
\* ABI anchor's own name in the manifest or the ledger.
THEOREM AnchorsStay == Spec => []AnchorsAreNeverEdited
<1>1. IInv => AnchorsAreNeverEdited
  BY DEF IInv, Spared, SparedBy, SparesAnchors, AnchorsAreNeverEdited
<1> QED
  BY <1>1, Invariant, PTL

\* A revert takes back the last repair and no other.
THEOREM RevertsAreExact == Spec => RevertUndoesTheRepair
<1> DEFINE Undone ==
      pc = "pixi" /\ pc' = "write" /\ repairs' = repairs
        => \A place \in Places :
             \/ plan'.doc[place] = before[place]
             \/ before[place] = "table"
<1>1. IInv /\ [Next]_vars => [Undone]_vars
  <2> SUFFICES ASSUME IInv, [Next]_vars, pc = "pixi", pc' = "write",
                      repairs' = repairs, NEW place \in Places
               PROVE  \/ plan'.doc[place] = before[place]
                      \/ before[place] = "table"
    OBVIOUS
  <2>1. Step
    BY EveryStep DEF IInv
  <2>2. repairs \in Nat /\ plan \in Plans
    BY DEF IInv, Typed, TypeOK, Blank
  <2>3. ~Acts
    BY <2>2 DEF Acts, Progress, Exhaustion, GiveUp
  <2>4. PICK e \in Errors : RevertWiden(e) \/ Unparseable(e)
    <3>1. ~(StartLock \/ StartSolve \/ StartClean \/ Sweep)
      BY DEF StartLock, StartSolve, StartClean, Open, Sweep
    <3>2. ~(PixiDies \/ Converge \/ OutOfRounds)
      BY DEF PixiDies, Converge, OutOfRounds, GiveUp
    <3>3. \A e \in Errors : ~(OverBudget(e) \/ Proposal(e))
      BY DEF OverBudget, Proposal, GiveUp
    <3>4. ~(WriteManifest \/ WriteLedger \/ Evict \/ RollBackManifest
            \/ RollBackLedger \/ EvictAll)
      BY DEF WriteManifest, WriteLedger, Evict, RollBackManifest,
             RollBackLedger, EvictAll
    <3>5. ~(RestoreEnv \/ NextEnv \/ Cleanup \/ End \/ Killed \/ UserEdits)
      BY DEF RestoreEnv, NextEnv, Cleanup, End, Killed, Reset, UserEdits
    <3>6. ~UNCHANGED vars
      BY DEF vars
    <3> QED
      BY <2>1, <2>3, <3>1, <3>2, <3>3, <3>4, <3>5, <3>6 DEF Step
  <2>5. pending # <<>> /\ plan'.doc = Restore(plan.doc, pending)
    <3>1. CASE RevertWiden(e)
      BY <2>2, <3>1 DEF RevertWiden, WidenPending, Plans
    <3>2. CASE Unparseable(e)
      BY <2>2, <3>2 DEF Unparseable, GiveUp, Plans
    <3> QED
      BY <2>4, <3>1, <3>2
  <2>6. Restores(before, plan.doc, pending)
    BY <2>5 DEF IInv, Reverts, Loop
  <2> QED
    BY <2>5, <2>6 DEF Restores
<1> QED
  BY <1>1, Invariant, PTL DEF Spec, RevertUndoesTheRepair
=============================================================================
