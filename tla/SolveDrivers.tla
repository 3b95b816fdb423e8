----------------------------- MODULE SolveDrivers -----------------------------
(***************************************************************************)
(* The runs that climb the repair ladder: `retread lock`                   *)
(* (src/src/solve/lock.rs), `retread solve --edit-manifest` over one or    *)
(* more environments, and its `--clean-pins` (src/src/solve/driver.rs).    *)
(*                                                                         *)
(* A run asks pixi to solve, plans a repair for the conflict it reads out  *)
(* of the answer, writes it to the manifest and to the ledger of           *)
(* overrides, and asks again.  Both files are snapshot before the first    *)
(* write and restored when the run gives up.  pixi keeps a render of the   *)
(* pack that it cannot tell from a stale one.                              *)
(***************************************************************************)
EXTENDS RepairLadder

CONSTANTS
    Drafts,         \* manifests the user writes
    Errors,         \* what can be read out of a failed solve
    Envs,           \* environments `retread solve` is asked for
    Commands,       \* the commands of the first run, the second, ...
    MaxRepairs,     \* --max-repairs and --max-iters
    MaxEdits, MaxCrashes    \* bounds

\* A conflict names the package it is about, some of them who requires it or
\* what caps it; the candidates of the generic engine are no ABI anchors
\* (generate_fallback_candidates).
Candidates == [pkg : Names \ Anchors, tier : {"relax", "unroute"}]
Conflicts ==
    [kind : {"boundary", "internal", "noCandidates", "rangeVsPin", "retread"},
     pkg : Names]
    \cup [kind : {"widen"}, pkg : Names, chain : Seq(Names), pack : BOOLEAN]
    \cup [kind : {"depsFrom"}, pkg : Names, owned : BOOLEAN]
    \cup [kind : {"nestedCap"}, pkg : Names, cap : Caps]
Unrecognized ==
    [kind : {"generic"}, cands : Seq(Candidates) \ {<<>>}]
    \cup [kind : {"postWiden", "unknown"}]

ASSUME DriverAssumption ==
    /\ Drafts \subseteq Docs
    /\ Errors \subseteq Conflicts \cup Unrecognized
    /\ Envs \in Nat \ {0}
    /\ MaxRepairs \in Nat \ {0}
    /\ Commands \in Seq(SUBSET {"lock", "solve", "clean"})
    /\ MaxEdits \in Nat /\ MaxCrashes \in Nat

VARIABLES
    manifest, over,     \* pixi.toml and .retread/auto-overrides.json
    bak, overBak,       \* their snapshots, <<>> without one
    render,             \* the ledger pixi's render of the pack was made with
    lastRun, failed,    \* .retread/solve-ledger.json: the manifest at the
                        \* start of the last run, what it knows to have failed
    pc, cmd, outcome,   \* of the run
    plan,               \* the document in the editor, what was tried
    pending, todo,      \* edits that can be reverted, writes still to do
    widened,            \* packages this run has a widen of in its record
    rounds, repairs,
    env, keepGoing, checkpoint,     \* of `retread solve`
    start, before,      \* the files at the start of the run, the document
                        \* before the last repair
    runs, edits, crashes

files == <<manifest, over>>
snapshots == <<bak, overBak>>
record == <<lastRun, failed>>
working == <<plan, pending, todo, widened, rounds, repairs>>
scope == <<cmd, env, keepGoing, checkpoint, start>>
bounds == <<runs, edits, crashes>>
MaxRuns == Len(Commands)
vars == <<files, snapshots, render, record, pc, outcome, working, scope,
          before, bounds>>

AtMost(n, S, s) == s \in Seq(S) /\ Len(s) <= n
SomeLedgers == Ledgers \cup {NoFile}
Steps == {"idle", "sweep", "pixi", "write", "ledger", "evict", "rollback",
          "rollbackOver", "evictAll", "restore", "nextEnv", "cleanup",
          "ended"}
Outcomes == {"running", "converged", "crashed", "interrupted", "exhausted",
             "unparseable", "max_repairs", "max_iters", "smoke_failed"}

TypeOK ==
    /\ manifest \in Docs /\ over \in SomeLedgers
    /\ AtMost(1, Docs, bak) /\ AtMost(1, SomeLedgers, overBak)
    /\ AtMost(1, SomeLedgers, render)
    /\ AtMost(1, Docs, lastRun)
    /\ failed \subseteq Keys \X Strategies
    /\ pc \in Steps /\ cmd \in {"none", "lock", "solve", "clean"}
    /\ outcome \in Outcomes
    /\ plan.doc \in Docs
    /\ plan.tried \subseteq Keys \X Strategies
    /\ plan.prefer \in {"conda", "pypi"}
    /\ AtMost(2, Places \X Entries, pending)
    /\ todo \subseteq Writes
    /\ widened \subseteq Names
    /\ rounds \in Nat /\ repairs \in Nat
    /\ env \in 1..Envs /\ keepGoing \in BOOLEAN
    /\ checkpoint \in Docs
    /\ start.manifest \in Docs /\ start.over \in SomeLedgers
    /\ before \in Docs
    /\ runs \in 0..MaxRuns /\ edits \in 0..MaxEdits
    /\ crashes \in 0..MaxCrashes

NoDoc == [place \in Places |-> "none"]
Reset ==
    /\ pc' = "idle" /\ cmd' = "none" /\ outcome' = "running"
    /\ plan' = Plan(NoDoc, {}, {}, "conda")
    /\ pending' = <<>> /\ todo' = {} /\ widened' = {}
    /\ rounds' = 0 /\ repairs' = 0
    /\ env' = 1 /\ keepGoing' = FALSE /\ checkpoint' = NoDoc
    /\ start' = [manifest |-> NoDoc, over |-> NoFile]
    /\ before' = NoDoc

Init ==
    /\ manifest \in Drafts /\ over = NoFile
    /\ bak = <<>> /\ overBak = <<>> /\ render = <<>>
    /\ lastRun = <<>> /\ failed = {}
    /\ pc = "idle" /\ cmd = "none" /\ outcome = "running"
    /\ plan = Plan(NoDoc, {}, {}, "conda")
    /\ pending = <<>> /\ todo = {} /\ widened = {}
    /\ rounds = 0 /\ repairs = 0
    /\ env = 1 /\ keepGoing = FALSE /\ checkpoint = NoDoc
    /\ start = [manifest |-> NoDoc, over |-> NoFile]
    /\ before = NoDoc
    /\ runs = 0 /\ edits = 0 /\ crashes = 0
-----------------------------------------------------------------------------
(***************************************************************************)
(* The start of a run.                                                     *)
(***************************************************************************)
\* seed_tried_state: on the manifest of the last run only what failed counts
\* as tried, on another one what its sentinels say.
Seed == IF lastRun = <<manifest>> THEN failed ELSE SentinelStrategies(manifest)

Open(command, prefer) ==
    /\ pc = "idle" /\ runs < MaxRuns
    /\ command \in Commands[runs + 1]
    /\ runs' = runs + 1
    /\ cmd' = command
    /\ start' = [manifest |-> manifest, over |-> over]
    /\ checkpoint' = manifest /\ before' = manifest
    /\ plan' = Plan(manifest, Seed, {}, prefer)
    /\ UNCHANGED <<files, overBak, render, outcome, pending, todo, widened,
                   rounds, repairs, env, edits, crashes>>

StartLock ==
    /\ Open("lock", "conda")
    /\ lastRun' = <<manifest>>
    /\ pc' = "sweep"
    /\ UNCHANGED <<bak, failed, keepGoing>>

\* Mutant: the snapshots of a run that died are kept.
SweepNothing ==
    /\ pc = "sweep"
    /\ pc' = "pixi"
    /\ UNCHANGED <<files, snapshots, render, record, outcome, working, scope,
                   before, bounds>>

\* The snapshots a run has left behind are not those of this run.
Sweep ==
    /\ pc = "sweep"
    /\ bak' = <<>> /\ overBak' = <<>>
    /\ pc' = "pixi"
    /\ UNCHANGED <<files, render, record, outcome, working, scope, before,
                   bounds>>

StartSolve ==
    /\ \E prefer \in {"conda", "pypi"} : Open("solve", prefer)
    /\ keepGoing' \in BOOLEAN
    /\ lastRun' = <<manifest>>
    /\ pc' = "pixi"
    /\ UNCHANGED <<bak, failed>>

\* Mutant: every write is preceded by a snapshot.
EnsuredAnew(snapshot, file) == Append(snapshot, file)

\* ensure_snapshot: the first one stays.  (That of the manifest is renamed into
\* place; that of the ledger is a plain copy, and a kill in the midst of it is
\* left out.)
Ensured(snapshot, file) == IF snapshot = <<>> THEN <<file>> ELSE snapshot

\* run_legacy_manifest_edit with --clean-pins
StartClean ==
    /\ pc = "idle" /\ runs < MaxRuns /\ "clean" \in Commands[runs + 1]
    /\ runs' = runs + 1
    /\ cmd' = "clean"
    /\ bak' = Ensured(bak, manifest)
    /\ plan' = Plan(Cleaned(manifest), {}, {}, "conda")
    /\ start' = [manifest |-> manifest, over |-> over]
    /\ checkpoint' = manifest /\ before' = manifest
    /\ pc' = "write"
    /\ UNCHANGED <<files, overBak, render, record, outcome, pending, todo,
                   widened, rounds, repairs, env, keepGoing, edits, crashes>>
-----------------------------------------------------------------------------
(***************************************************************************)
(* A round: pixi solves, and the run acts on what it says.                 *)
(***************************************************************************)
HardCap == IF cmd = "lock" THEN 2 * MaxRepairs + 8 ELSE MaxRepairs

\* pixi renders the pack with the ledger as it is, or uses the render it has.
PixiRuns ==
    /\ pc = "pixi" /\ rounds < HardCap
    /\ rounds' = rounds + 1
    /\ render' = IF render = <<>> THEN <<over>> ELSE render

\* Where a run goes that does not converge: a lock rolls back, a solve goes on
\* with the next environment, rolls back or, if it could not read the answer,
\* stops.
GiveUp(why) ==
    /\ outcome' = why
    /\ pc' = IF cmd = "solve" /\ keepGoing /\ why # "interrupted"
             THEN "restore"
             ELSE IF cmd = "solve" /\ why = "unparseable" THEN "ended"
             ELSE "rollback"

\* pixi cannot be started, or is interrupted.
PixiDies ==
    /\ PixiRuns
    /\ \E why \in {"crashed", "interrupted"} : GiveUp(why)
    /\ UNCHANGED <<files, snapshots, record, plan, pending, todo, widened,
                   repairs, scope, before, bounds>>

Converge ==
    /\ PixiRuns
    /\ \/ /\ outcome' = "converged"
          /\ pc' = IF cmd = "lock" THEN "cleanup" ELSE "nextEnv"
       \/ /\ cmd = "solve"
          /\ outcome' = "smoke_failed" /\ pc' = "cleanup"
    /\ UNCHANGED <<files, snapshots, record, plan, pending, todo, widened,
                   repairs, scope, before, bounds>>

\* The parser has recognized it.
Readable(e) == e \in Conflicts

\* A repair: its edits go to the manifest, its writes to the ledger.
Apply(s, next) ==
    /\ plan' = [s EXCEPT !.edits = <<>>, !.writes = {}, !.by = "none",
                         !.done = FALSE]
    /\ todo' = s.writes
    /\ repairs' = repairs + Cardinality(s.writes)
                   + (IF s.writes = {} THEN 1 ELSE 0)
    /\ before' = plan.doc
    /\ pc' = next
    /\ UNCHANGED outcome

\* Every tier was tried or refused: a lock has one more.
Exhausted(s, p) ==
    /\ LET t == TerminalUnroute(s, p)
       IN  IF cmd = "lock" /\ t.done
           THEN Apply(t, "ledger") /\ pending' = <<>>
           ELSE /\ GiveUp("exhausted")
                /\ plan' = s
                /\ UNCHANGED <<pending, todo, repairs, before>>
    /\ UNCHANGED widened

\* The budget is spent: what has been repaired is kept.
OverBudget(e) ==
    /\ PixiRuns
    /\ cmd = "lock" /\ repairs >= MaxRepairs
    /\ e.kind \notin {"postWiden", "unknown"}
    /\ outcome' = "max_repairs" /\ pc' = "ended"
    /\ UNCHANGED <<files, snapshots, record, plan, pending, todo, widened,
                   repairs, scope, before, bounds>>

Budget == cmd = "lock" => repairs < MaxRepairs

\* A conflict that was recognized goes to the planner.
Conflict(e) ==
    /\ PixiRuns /\ Budget
    /\ Readable(e)
    /\ cmd = "solve" => e.kind # "retread"
    /\ bak' = Ensured(bak, manifest)
    /\ LET s == Repaired(plan, e, over)
       IN  IF s.done
           THEN /\ Apply(s, "write")
                /\ pending' = s.edits
                /\ widened' = IF s.by = "widen" THEN widened \cup {e.pkg}
                              ELSE widened
           ELSE Exhausted(s, e.pkg)
    /\ UNCHANGED <<files, overBak, record, scope, bounds>>

\* A solve does not edit the manifest for a proposal of the backend.
Proposal(e) ==
    /\ PixiRuns
    /\ cmd = "solve" /\ e.kind = "retread"
    /\ GiveUp("exhausted")
    /\ UNCHANGED <<files, snapshots, record, plan, pending, todo, widened,
                   repairs, scope, before, bounds>>

\* Mutant: an edit of an earlier round stays revertible.
FallbackAndPending(e) ==
    /\ PixiRuns /\ Budget
    /\ cmd = "lock" /\ e.kind = "generic"
    /\ LET s == FallbackBatch(plan, e.cands)
       IN  IF s.done
           THEN /\ Apply(s, "ledger") /\ UNCHANGED <<pending, widened>>
           ELSE Exhausted(s, e.cands[1].pkg)
    /\ UNCHANGED <<files, snapshots, record, scope, bounds>>

\* A lock tries the generic engine on a conflict that was not recognized.
Fallback(e) ==
    /\ PixiRuns /\ Budget
    /\ cmd = "lock" /\ e.kind = "generic"
    /\ LET s == FallbackBatch(plan, e.cands)
       IN  IF s.done
           THEN /\ Apply(s, "ledger") /\ pending' = <<>>
                /\ UNCHANGED widened
           ELSE Exhausted(s, e.cands[1].pkg)
    /\ UNCHANGED <<files, snapshots, record, scope, bounds>>

Unread(e) ==
    /\ PixiRuns
    /\ ~Readable(e) /\ (cmd = "lock" => e.kind # "generic")

WidenPending ==
    pending # <<>> /\ plan.doc[pending[Len(pending)][1]] = "widened"

\* Mutant: the widen stays pending after it was reverted.
RevertWidenAgain(e) ==
    /\ Unread(e) /\ WidenPending
    /\ cmd = "lock" => e.kind = "postWiden"
    /\ plan' = [plan EXCEPT !.doc = Restore(plan.doc, pending)]
    /\ pc' = "write"
    /\ UNCHANGED <<files, snapshots, record, outcome, pending, todo, widened,
                   repairs, scope, before, bounds>>

\* The last edit was a widen that made things worse: it alone is taken back,
\* and it is recorded as failed if the record has a widen of that name.
RevertWiden(e) ==
    /\ Unread(e) /\ WidenPending
    /\ cmd = "lock" => e.kind = "postWiden"
    /\ LET name == pending[Len(pending)][1][2]
           mark == <<Key(name), "widen">>
       IN  /\ plan' = [plan EXCEPT !.doc = Restore(plan.doc, pending),
                                   !.tried = @ \cup {mark}]
           /\ failed' = IF name \in widened THEN failed \cup {mark}
                        ELSE failed
    /\ pending' = <<>>
    /\ pc' = "write"
    /\ UNCHANGED <<files, snapshots, lastRun, outcome, todo, widened, repairs,
                   scope, before, bounds>>

\* The answer says nothing: the last edit is taken back and the run gives up.
Unparseable(e) ==
    /\ Unread(e)
    /\ ~(WidenPending /\ (cmd = "lock" => e.kind = "postWiden"))
    /\ IF pending = <<>>
       THEN GiveUp("unparseable") /\ UNCHANGED plan
       ELSE /\ plan' = [plan EXCEPT !.doc = Restore(plan.doc, pending)]
            /\ outcome' = "unparseable" /\ pc' = "write"
    /\ pending' = <<>>
    /\ UNCHANGED <<files, snapshots, record, todo, widened, repairs, scope,
                   before, bounds>>

\* max_iters: a lock just ends, a solve has failed.
OutOfRounds ==
    /\ pc = "pixi" /\ rounds = HardCap
    /\ IF cmd = "lock" THEN outcome' = "max_iters" /\ pc' = "ended"
       ELSE GiveUp("max_iters")
    /\ UNCHANGED <<files, snapshots, render, record, working, scope, before,
                   bounds>>
-----------------------------------------------------------------------------
(***************************************************************************)
(* What a run writes, call by call.                                        *)
(***************************************************************************)
WriteManifest ==
    /\ pc = "write"
    /\ manifest' = plan.doc
    /\ IF cmd = "clean" THEN pc' = "cleanup" /\ UNCHANGED outcome
       ELSE IF outcome # "running" THEN GiveUp(outcome)
       ELSE /\ pc' = IF todo = {} THEN "pixi" ELSE "ledger"
            /\ UNCHANGED outcome
    /\ UNCHANGED <<over, snapshots, render, record, working, scope, before,
                   bounds>>

\* ensure_snapshot and the atomic write of the ledger.
WriteLedger ==
    /\ pc = "ledger"
    /\ \E w \in todo :
          /\ overBak' = Ensured(overBak, over)
          /\ over' = Written(over, w)
          /\ todo' = todo \ {w}
    /\ pc' = "evict"
    /\ UNCHANGED <<manifest, bak, render, record, outcome, plan, pending,
                   widened, rounds, repairs, scope, before, bounds>>

\* Mutant: pixi's render is left to pixi.
EvictNothing ==
    /\ pc = "evict"
    /\ pc' = IF todo = {} THEN "pixi" ELSE "ledger"
    /\ UNCHANGED <<files, snapshots, render, record, outcome, working, scope,
                   before, bounds>>

\* invalidate_pixi_source_metadata
Evict ==
    /\ pc = "evict"
    /\ render' = <<>>
    /\ pc' = IF todo = {} THEN "pixi" ELSE "ledger"
    /\ UNCHANGED <<files, snapshots, record, outcome, working, scope, before,
                   bounds>>
-----------------------------------------------------------------------------
(***************************************************************************)
(* Giving up, and the end of a run.                                        *)
(***************************************************************************)
\* rollback_snapshot
RollBackManifest ==
    /\ pc = "rollback"
    /\ manifest' = IF bak = <<>> THEN manifest ELSE bak[1]
    /\ bak' = <<>>
    /\ pc' = "rollbackOver"
    /\ UNCHANGED <<over, overBak, render, record, outcome, working, scope,
                   before, bounds>>

RolledBack ==
    IF cmd = "solve" /\ keepGoing /\ outcome # "interrupted" THEN "nextEnv"
    ELSE "ended"

\* rollback_all: the ledger is restored or removed, ...
RollBackLedger ==
    /\ pc = "rollbackOver"
    /\ over' = IF overBak = <<>> THEN over ELSE overBak[1]
    /\ overBak' = <<>>
    /\ pc' = IF NamesAPack(over) THEN "evictAll" ELSE RolledBack
    /\ UNCHANGED <<manifest, bak, render, record, outcome, working, scope,
                   before, bounds>>

\* ... then the packs it named lose their renders.
EvictAll ==
    /\ pc = "evictAll"
    /\ render' = <<>>
    /\ pc' = RolledBack
    /\ UNCHANGED <<files, snapshots, record, outcome, working, scope, before,
                   bounds>>

\* Mutant: the editor keeps the document of the failed environment.
RestoreFileOnly ==
    /\ pc = "restore"
    /\ manifest' = checkpoint
    /\ pc' = "rollbackOver"
    /\ UNCHANGED <<over, snapshots, render, record, outcome, working, scope,
                   before, bounds>>

\* --keep-going: the manifest of the environment's start, in the editor too.
RestoreEnv ==
    /\ pc = "restore"
    /\ manifest' = checkpoint
    /\ plan' = [plan EXCEPT !.doc = checkpoint]
    /\ pc' = "rollbackOver"
    /\ UNCHANGED <<over, snapshots, render, record, outcome, pending, todo,
                   widened, rounds, repairs, scope, before, bounds>>

\* The next environment has a planner of its own, and shares what was tried.
NextEnv ==
    /\ pc = "nextEnv"
    /\ IF env < Envs
       THEN /\ env' = env + 1
            /\ plan' = [plan EXCEPT !.guarded = {}]
            /\ pending' = <<>> /\ widened' = {} /\ rounds' = 0
            /\ checkpoint' = manifest /\ lastRun' = <<manifest>>
            /\ outcome' = "running" /\ pc' = "pixi"
       ELSE /\ pc' = "cleanup"
            /\ UNCHANGED <<env, plan, pending, widened, rounds, checkpoint,
                           lastRun, outcome>>
    /\ UNCHANGED <<files, snapshots, render, failed, todo, repairs, cmd,
                   keepGoing, start, before, bounds>>

\* cleanup_snapshot and cleanup_all; --clean-pins has written no ledger and
\* forgets what the runs have recorded.
Cleanup ==
    /\ pc = "cleanup"
    /\ bak' = <<>>
    /\ IF cmd = "clean"
       THEN lastRun' = <<>> /\ failed' = {} /\ UNCHANGED overBak
       ELSE overBak' = <<>> /\ UNCHANGED record
    /\ pc' = "ended"
    /\ UNCHANGED <<files, render, outcome, working, scope, before, bounds>>

End ==
    /\ pc = "ended"
    /\ Reset
    /\ UNCHANGED <<files, snapshots, render, record, bounds>>

\* The run is killed.
Killed ==
    /\ pc \notin {"idle", "ended"} /\ crashes < MaxCrashes
    /\ crashes' = crashes + 1
    /\ Reset
    /\ UNCHANGED <<files, snapshots, render, record, runs, edits>>

UserEdits ==
    /\ pc = "idle" /\ edits < MaxEdits
    /\ edits' = edits + 1
    /\ manifest' \in Drafts \ {manifest}
    /\ UNCHANGED <<over, snapshots, render, record, pc, outcome, working,
                   scope, before, runs, crashes>>

Done == pc = "idle" /\ runs = MaxRuns /\ UNCHANGED vars

Round(e) ==
    \/ OverBudget(e) \/ Conflict(e) \/ Proposal(e) \/ Fallback(e)
    \/ RevertWiden(e) \/ Unparseable(e)

Next ==
    \/ StartLock \/ Sweep \/ StartSolve \/ StartClean
    \/ PixiDies \/ Converge \/ OutOfRounds
    \/ \E e \in Errors : Round(e)
    \/ WriteManifest \/ WriteLedger \/ Evict
    \/ RollBackManifest \/ RollBackLedger \/ EvictAll
    \/ RestoreEnv \/ NextEnv \/ Cleanup \/ End
    \/ Killed \/ UserEdits \/ Done

Spec == Init /\ [][Next]_vars
-----------------------------------------------------------------------------
(***************************************************************************)
(* Properties.                                                             *)
(***************************************************************************)
GivenUp == {"crashed", "interrupted", "exhausted", "unparseable"}

\* A lock that gives up leaves the manifest and the ledger of overrides as it
\* found them, whatever an earlier run has left behind (the comments on the
\* stale snapshots and on exhaustion in run_with_pixi_bin).
LockRollsBackToItsStart ==
    pc = "ended" /\ cmd = "lock" /\ outcome \in GivenUp
        => start = [manifest |-> manifest, over |-> over]

\* The same of a solve that rolls back: rollback_all promises the "pre-run
\* state".
SolveRollsBackToItsStart ==
    pc = "ended" /\ cmd = "solve" /\ ~keepGoing
    /\ outcome \in {"crashed", "interrupted", "exhausted", "max_iters"}
        => start = [manifest |-> manifest, over |-> over]

\* Unless a run was killed pixi never solves with a render of another ledger
\* than the one there is (write_override, rollback_all).
RendersAreFresh ==
    pc = "pixi" /\ crashes = 0 /\ render # <<>> => render[1] = over

\* pixi solves the manifest that the editor holds: no edit is lost and none of
\* a failed environment comes back.
EditorIsCurrent == pc = "pixi" => manifest = plan.doc

\* The ladder and the reverts are bounded by the budget: the cap on raw rounds
\* "should never bite" (run_with_pixi_bin).
HardCapNeverBites == cmd = "lock" => outcome # "max_iters"

\* No run edits an entry of an ABI anchor, or decides anything about one in
\* the ledger (guard_anchor).
AnchorsAreNeverEdited ==
    \A a \in Anchors :
        /\ cmd \in {"lock", "solve"} =>
             \A t \in Tables : plan.doc[t, a] = start.manifest[t, a]
        /\ Loaded(over).spec[a] = NoSpec /\ a \notin Loaded(over).unrouted

\* What is reverted is the last repair and nothing else: every entry is as it
\* was before, but for inline tables, which a widen overwrites and a revert
\* removes (PendingEdit::restore).
RevertUndoesTheRepair ==
    [][pc = "pixi" /\ pc' = "write" /\ repairs' = repairs
         => \A place \in Places :
              \/ plan'.doc[place] = before[place]
              \/ before[place] = "table"]_vars
=============================================================================
