---------------------------- MODULE CondaOutputs ----------------------------
(***************************************************************************)
(* The two passes of a pixi run over one source package: conda/outputs     *)
(* advertises an identity for each of its outputs, conda/build_v1 is asked *)
(* for exactly that identity, maybe in another process and after sibling   *)
(* packs have written their locks.  In between lie a memo per process, a   *)
(* memo on disk with a fill lock, a store of built outputs shared by all   *)
(* jobs, records of what was advertised, and the plans that a process      *)
(* holds for the builds it expects (handler/mod.rs, advertised_identity.rs,*)
(* built_output_store.rs).                                                 *)
(*                                                                         *)
(* A fingerprint numbers what the sibling packs have locked; it is the     *)
(* part of a cache key and of a build string that moves during a run.  A   *)
(* world is what channels and indexes serve, Content[w] what this package  *)
(* resolves to in it: the version of an output and its dependencies.       *)
(***************************************************************************)
EXTENDS Integers, FiniteSets

CONSTANTS
    Procs,       \* backend processes, each serves one request at a time
    Outputs,     \* the outputs of the package
    MaxFp,       \* bound on what siblings write: fingerprints 0 .. MaxFp
    Worlds,      \* states of the channels and indexes
    Content,     \* what the package resolves to in each
    FirstWorld,  \* the world of the start
    FirstLocks,  \* what earlier jobs may have left as lock of an output
    Faults,      \* which of "lock" and "write" may fail
    Bounds,      \* how many requests, builds and troubles (a crash, a new
                 \* job, records that cannot be written)
    None

Fps == 0 .. MaxFp
Versions == {Content[w] : w \in Worlds}
Maybe(S) == S \cup {None}

\* What pixi is told of one output: its build string, of which the fingerprint
\* is the part that matters, its version and its dependencies, and where they
\* are from.
Identities ==
    [fp : Fps, ver : Versions, deps : Versions,
     src : {"fresh", "incremental", "replay"}]

Results == [Outputs -> Identities]

\* The plan of an output that is held for its build (PreparedBuild).
Plans == [fp : Fps, ver : Versions, deps : Versions, over : Maybe(Versions)]

NoPlans == [o \in Outputs |-> None]

\* A pack lock that an earlier build has committed; it is not full when the
\* manifest has since gained an entry.
Locks == [fp : Fps, ver : Versions, deps : Versions, full : BOOLEAN]

\* A memo says whether its answer needs its plans; the one on disk is marked if
\* it was written under the fill lock; the store's is of a world.
Memos == [res : Results, plan : BOOLEAN]
Shared == [res : Results, locked : BOOLEAN]
Stored == [world : Worlds, res : Results]

\* AdvertisedIdentityRecord.
Records == [fp : Fps, ver : Versions, deps : Versions, universe : Worlds]

ASSUME FpAssumption == MaxFp \in Nat
ASSUME ContentAssumption ==
    Content \in [Worlds -> Nat] /\ FirstWorld \in Worlds
ASSUME LockAssumption == FirstLocks \subseteq Maybe(Locks)
ASSUME NoneAssumption ==
    None \notin UNION {Fps, Versions, Procs, Identities, Results, Records,
                      Locks, Plans, Memos, Stored, Shared}

VARIABLES
    live,      \* the fingerprint of what siblings have locked now
    lock,      \* the committed lock of each output
    disk,      \* the memo on disk of each key
    fill,      \* who has the fill lock of each key
    store,     \* the built-output store
    records,   \* the advertised-identity record under each build string
    unwritten, \* history: the records this job has failed to write
    told,      \* what pixi was last told by each process
    pc,        \* what each process is doing
    view,      \* the world it resolves in, read once and kept
    memo,      \* its memo
    held,      \* the plans it holds and the key they are for
    work,      \* the request it serves
    left       \* what the bounds still allow

vars == <<live, lock, disk, fill, store, records, unwritten, told, pc, view,
          memo, held, work, left>>

\* A request for outputs: its key, whether it has the fill lock, whether it
\* refused the store's entry, the versions it takes from locks, the outputs so
\* far and their plans.
Request(k) ==
    [key |-> k, locked |-> FALSE, refused |-> FALSE, over |-> NoPlans,
     res |-> NoPlans, plans |-> NoPlans]

Requests ==
    [key : Fps, locked : BOOLEAN, refused : BOOLEAN,
     over : [Outputs -> Maybe(Versions)],
     res : [Outputs -> Maybe(Identities)], plans : [Outputs -> Maybe(Plans)]]

\* A request for a build: the output, the identity pixi wants, the record that
\* was read, the fingerprint in effect, the plan that was found and the version
\* that an addition to the lock would have had.
Builds ==
    [out : Outputs, id : Identities, rec : Maybe(Records), eff : Fps,
     plan : Maybe(Plans), detected : Maybe(Versions)]

Idle == [key |-> None]
NothingHeld == [key |-> None, plans |-> NoPlans]

\* Spends one of what the bounds allow.
Spend(b) == left[b] > 0 /\ left' = [left EXCEPT ![b] = @ - 1]

Init ==
    /\ live = 0
    /\ lock \in [Outputs -> FirstLocks]
    /\ disk = [k \in Fps |-> None]
    /\ fill = [k \in Fps |-> None]
    /\ store = [k \in Fps |-> None]
    /\ records = [o \in Outputs |-> [f \in Fps |-> None]]
    /\ unwritten = {}
    /\ told = [p \in Procs |-> None]
    /\ pc = [p \in Procs |-> "idle"]
    /\ view = [p \in Procs |-> FirstWorld]
    /\ memo = [p \in Procs |-> [k \in Fps |-> None]]
    /\ held = [p \in Procs |-> NothingHeld]
    /\ work = [p \in Procs |-> Idle]
    /\ left = Bounds

-----------------------------------------------------------------------------
(* conda/outputs                                                           *)

Goes(p, at) == pc' = [pc EXCEPT ![p] = at]
Works(p, w) == work' = [work EXCEPT ![p] = w]
Holds(p, h) == held' = [held EXCEPT ![p] = h]
Remembers(p, k, m) == memo' = [memo EXCEPT ![p][k] = m]

\* The request ends with r for pixi; the fill lock goes with its descriptor.
Answers(p, r) ==
    /\ told' = [told EXCEPT ![p] = r]
    /\ Goes(p, "idle")
    /\ Works(p, Idle)
    /\ fill' = [k \in Fps |-> IF fill[k] = p THEN None ELSE fill[k]]

\* The plans survive a hit in memory only for the same key and directory.
Retained(p, k, same) ==
    same /\ held[p].key = k /\ held[p].plans # NoPlans

\* A hit in the memory of the process.  A memo that needs its plans and has
\* lost them is dropped, and the request goes on.
HitMemory(p) ==
    /\ pc[p] = "idle" /\ memo[p][live] # None
    /\ Spend("requests")
    /\ \E same \in BOOLEAN :
           LET m == memo[p][live]
               kept == Retained(p, live, same)
           IN  /\ Holds(p, IF kept THEN held[p] ELSE NothingHeld)
               /\ \/ /\ m.plan => kept
                     /\ Answers(p, m.res)
                     /\ UNCHANGED memo
                  \/ /\ m.plan /\ ~kept
                     /\ Remembers(p, live, None)
                     /\ Goes(p, "disk")
                     /\ Works(p, Request(live))
                     /\ UNCHANGED <<told, fill>>
    /\ UNCHANGED <<live, lock, disk, store, records, unwritten, view>>

MissMemory(p) ==
    /\ pc[p] = "idle" /\ memo[p][live] = None
    /\ Spend("requests")
    /\ Goes(p, "disk")
    /\ Works(p, Request(live))
    /\ UNCHANGED <<live, lock, disk, fill, store, records, unwritten, told,
                   view, memo, held>>

\* An answer that somebody else has computed is remembered without plans.
Reuses(p, r) ==
    /\ Remembers(p, work[p].key, [res |-> r, plan |-> FALSE])
    /\ Holds(p, NothingHeld)
    /\ Answers(p, r)

ReadDisk(p) ==
    /\ pc[p] = "disk"
    /\ LET k == work[p].key
       IN  \/ disk[k] # None /\ Reuses(p, disk[k].res)
           \/ /\ disk[k] = None
              /\ Goes(p, "store")
              /\ UNCHANGED <<told, fill, memo, held, work>>
    /\ UNCHANGED <<live, lock, disk, store, records, unwritten, view, left>>

\* The record that the pass which computed r in world w has left for o.
RecordOf(id, w) ==
    [fp |-> id.fp, ver |-> id.ver, deps |-> id.deps, universe |-> w]

\* Records are written for the outputs S of r, which was computed in world w.
\* A write is best-effort, and nobody is told that it failed; what was under
\* the build string before then stays (write_record).
Advertise(r, w, S) ==
    \E fails \in SUBSET S :
        /\ IF fails = {} THEN UNCHANGED left ELSE Spend("troubles")
        /\ records' = [o \in Outputs |-> [f \in Fps |->
               IF o \in S \ fails /\ r[o].fp = f
               THEN RecordOf(r[o], w) ELSE records[o][f]]]
        /\ unwritten' = unwritten \cup {<<o, r[o].fp>> : o \in fails}

\* The outputs of a result that have records; a replayed one has none.
Resolved(r) == {o \in Outputs : r[o].src # "replay"}

\* An entry of the store is adopted if its documents are the reader's or if
\* the candidates it was resolved from are (universe_verdict); its records
\* are restored.
AdoptStored(p) ==
    /\ pc[p] = "store"
    /\ LET e == store[work[p].key]
       IN  /\ e # None
           /\ Content[e.world] = Content[view[p]]
           /\ Advertise(e.res, e.world, Resolved(e.res))
           /\ Reuses(p, e.res)
    /\ UNCHANGED <<live, lock, disk, store, view>>

\* An entry of another world is refused, and so is one without a digest of
\* its candidates unless the documents are the same.
PassStore(p) ==
    /\ pc[p] = "store"
    /\ LET e == store[work[p].key]
       IN  /\ e # None => e.world # view[p]
           /\ Works(p, [work[p] EXCEPT !.refused = e # None])
    /\ Goes(p, "lock")
    /\ UNCHANGED <<live, lock, disk, fill, store, records, unwritten, told,
                   view, memo, held, left>>

\* Mutant: the memo is not looked at again.
TakeFillLockBlindly(p) ==
    /\ pc[p] = "lock" /\ fill[work[p].key] = None
    /\ fill' = [fill EXCEPT ![work[p].key] = p]
    /\ Works(p, [work[p] EXCEPT !.locked = TRUE])
    /\ Holds(p, NothingHeld)
    /\ Goes(p, "resolve")
    /\ UNCHANGED <<live, lock, disk, store, records, unwritten, told, view,
                   memo, left>>

\* Under the fill lock the memo is looked at again; a computation begins
\* without plans.
TakeFillLock(p) ==
    /\ pc[p] = "lock" /\ fill[work[p].key] = None
    /\ LET k == work[p].key
       IN  \/ disk[k] # None /\ Reuses(p, disk[k].res)
           \/ /\ disk[k] = None
              /\ fill' = [fill EXCEPT ![k] = p]
              /\ Works(p, [work[p] EXCEPT !.locked = TRUE])
              /\ Holds(p, NothingHeld)
              /\ Goes(p, "resolve")
              /\ UNCHANGED <<told, memo>>
    /\ UNCHANGED <<live, lock, disk, store, records, unwritten, view, left>>

\* The lock is best-effort.
FillLockFails(p) ==
    /\ "lock" \in Faults
    /\ pc[p] = "lock"
    /\ Holds(p, NothingHeld)
    /\ Goes(p, "resolve")
    /\ UNCHANGED <<live, lock, disk, fill, store, records, unwritten, told,
                   view, memo, work, left>>

\* detect_incremental_add: the lock was made under the present fingerprint and
\* the manifest has only gained an entry.
Addable(o, f) == lock[o] # None /\ ~lock[o].full /\ lock[o].fp = f

\* Everything is resolved; the outputs whose locks can be added to will have
\* the versions of these locks.
Resolve(p) ==
    /\ pc[p] = "resolve"
    /\ Works(p, [work[p] EXCEPT !.over = [o \in Outputs |->
                    IF Addable(o, live) THEN lock[o].ver ELSE None]])
    /\ Goes(p, "emit")
    /\ UNCHANGED <<live, lock, disk, fill, store, records, unwritten, told,
                   view, memo, held, left>>

Replayable(o, f) == lock[o] # None /\ lock[o].full /\ lock[o].fp = f

\* An output is replayed from a committed lock of the present fingerprint.  Its
\* plan is held only if it would reproduce the lock.
EmitReplay(p, o) ==
    /\ pc[p] = "emit" /\ work[p].res[o] = None
    /\ Replayable(o, live)
    /\ LET l == lock[o]
           now == Content[view[p]]
           plan == [fp |-> live, ver |-> now, deps |-> now, over |-> None]
       IN  Works(p, [work[p] EXCEPT
               !.res[o] = [fp |-> live, ver |-> l.ver, deps |-> l.deps,
                           src |-> "replay"],
               !.plans[o] = IF l.ver = now /\ l.deps = now
                            THEN plan ELSE None])
    /\ UNCHANGED <<live, lock, disk, fill, store, records, unwritten, told,
                   pc, view, memo, held, left>>

\* Mutant: the build string is made with the fingerprint of the request.
EmitUnderKey(p, o) ==
    /\ pc[p] = "emit" /\ work[p].res[o] = None
    /\ ~Replayable(o, live)
    /\ LET over == work[p].over[o]
           now == Content[view[p]]
           k == work[p].key
           ver == IF over = None THEN now ELSE over
           id == [fp |-> k, ver |-> ver, deps |-> now,
                  src |-> IF over = None THEN "fresh" ELSE "incremental"]
           plan == [fp |-> k, ver |-> ver, deps |-> now, over |-> over]
       IN  /\ Works(p, [work[p] EXCEPT !.res[o] = id, !.plans[o] = plan])
           /\ records' = [records EXCEPT ![o][live] = RecordOf(id, view[p])]
    /\ UNCHANGED <<live, lock, disk, fill, store, unwritten, told, pc, view,
                   memo, held, left>>

\* An output is produced under the fingerprint of this moment, and the write of
\* a record of it comes before anybody is told of it.
Emit(p, o) ==
    /\ pc[p] = "emit" /\ work[p].res[o] = None
    /\ ~Replayable(o, live)
    /\ LET over == work[p].over[o]
           now == Content[view[p]]
           ver == IF over = None THEN now ELSE over
           id == [fp |-> live, ver |-> ver, deps |-> now,
                  src |-> IF over = None THEN "fresh" ELSE "incremental"]
           plan == [fp |-> live, ver |-> ver, deps |-> now, over |-> over]
       IN  /\ Works(p, [work[p] EXCEPT !.res[o] = id, !.plans[o] = plan])
           /\ Advertise([work[p].res EXCEPT ![o] = id], view[p], {o})
    /\ UNCHANGED <<live, lock, disk, fill, store, told, pc, view, memo,
                   held>>

\* The solve of an output conflicts, or the resolution fails.
Fail(p) ==
    /\ pc[p] \in {"resolve", "emit"}
    /\ Answers(p, told[p])
    /\ UNCHANGED <<live, lock, disk, store, records, unwritten, view, memo,
                   held, left>>

NeedsPlans(r) == \E o \in Outputs : r[o].src = "incremental"

\* The plans are held and the answer is remembered; an answer that needs its
\* plans goes no further.
Publish(p) ==
    /\ pc[p] = "emit" /\ \A o \in Outputs : work[p].res[o] # None
    /\ LET w == work[p]
       IN  /\ Holds(p, [key |-> w.key, plans |-> w.plans])
           /\ Remembers(p, w.key, [res |-> w.res, plan |-> NeedsPlans(w.res)])
           /\ \/ NeedsPlans(w.res) /\ Answers(p, w.res)
              \/ /\ ~NeedsPlans(w.res)
                 /\ Goes(p, "write")
                 /\ UNCHANGED <<told, fill, work>>
    /\ UNCHANGED <<live, lock, disk, store, records, unwritten, view, left>>

WriteDisk(p) ==
    /\ pc[p] = "write"
    /\ \/ disk' = [disk EXCEPT ![work[p].key] =
                      [res |-> work[p].res, locked |-> work[p].locked]]
       \/ "write" \in Faults /\ UNCHANGED disk
    /\ Goes(p, "publish")
    /\ UNCHANGED <<live, lock, fill, store, records, unwritten, told, view,
                   memo, held, work, left>>

\* quarantine_refused moves away whatever is under the key by now.
Quarantine(p) ==
    /\ pc[p] = "publish" /\ work[p].refused
    /\ store' = [store EXCEPT ![work[p].key] = None]
    /\ Works(p, [work[p] EXCEPT !.refused = FALSE])
    /\ UNCHANGED <<live, lock, disk, fill, records, unwritten, told, pc,
                   view, memo, held, left>>

\* publish never replaces a complete entry.
PublishStored(p) ==
    /\ pc[p] = "publish" /\ ~work[p].refused
    /\ LET k == work[p].key
       IN  store' = IF store[k] # None THEN store
                    ELSE [store EXCEPT ![k] =
                             [world |-> view[p], res |-> work[p].res]]
    /\ Answers(p, work[p].res)
    /\ UNCHANGED <<live, lock, disk, records, unwritten, view, memo, held,
                   left>>

-----------------------------------------------------------------------------
(* conda/build_v1                                                          *)

\* A record is usable if it is of the version that is asked for, and of the
\* universe that the process resolves in (load_record).
Usable(p, r, id) == r # None /\ r.universe = view[p] /\ r.ver = id.ver

\* Mutant: the present fingerprint is in effect, whatever was recorded.
BuildAsOfNow(p) ==
    /\ pc[p] = "idle"
    /\ Spend("builds")
    /\ \E q \in Procs, o \in Outputs :
           /\ told[q] # None
           /\ LET id == told[q][o]
                  plan == held[p].plans[o]
                  found == plan # None /\ plan.fp = id.fp
                               /\ plan.ver = id.ver
              IN  Works(p,
                    [out |-> o, id |-> id, rec |-> records[o][id.fp],
                     eff |-> live, plan |-> IF found THEN plan ELSE None,
                     detected |-> None])
    /\ Goes(p, "fast")
    /\ UNCHANGED <<live, lock, disk, fill, store, records, unwritten, told,
                   view, memo, held>>

\* Pixi asks for an output it was told of by any process.  The fingerprint is
\* that of a usable record, else the present one; a plan is found if it was
\* made for this identity in the same directory.
Build(p) ==
    /\ pc[p] = "idle"
    /\ Spend("builds")
    /\ \E q \in Procs, o \in Outputs, same \in BOOLEAN :
           /\ told[q] # None
           /\ LET id == told[q][o]
                  r == records[o][id.fp]
                  plan == held[p].plans[o]
                  found == same /\ plan # None /\ plan.fp = id.fp
                               /\ plan.ver = id.ver
              IN  Works(p,
                    [out |-> o, id |-> id, rec |-> r,
                     eff |-> IF Usable(p, r, id) THEN r.fp ELSE live,
                     plan |-> IF found THEN plan ELSE None,
                     detected |-> None])
    /\ Goes(p, "fast")
    /\ UNCHANGED <<live, lock, disk, fill, store, records, unwritten, told,
                   view, memo, held>>

\* The build succeeds, and the pack lock is committed.
Built(p, ver, deps) ==
    /\ lock' = [lock EXCEPT ![work[p].out] =
                   [fp |-> work[p].eff, ver |-> ver, deps |-> deps,
                    full |-> TRUE]]
    /\ Goes(p, "idle")
    /\ Works(p, Idle)

\* Mutant: the memo stays when a plan it needs is used up.
ConsumePlanOnly(p) ==
    LET rest == [held[p].plans EXCEPT ![work[p].out] = None]
    IN  /\ Holds(p, [key |-> IF rest = NoPlans THEN None ELSE held[p].key,
                     plans |-> rest])
        /\ UNCHANGED memo

\* A plan is used once; the memo of an answer that needs its plans goes with
\* the first of them.
Consume(p) ==
    LET k == held[p].key
        rest == [held[p].plans EXCEPT ![work[p].out] = None]
    IN  /\ Holds(p, [key |-> IF rest = NoPlans THEN None ELSE k,
                     plans |-> rest])
        /\ memo' = [memo EXCEPT ![p] = [f \in Fps |->
                       IF f = k /\ memo[p][f] # None /\ memo[p][f].plan
                       THEN None ELSE memo[p][f]]]

\* The fast ways need the plan, the advertised build string and the version of
\* the lock.
Fast(p) ==
    /\ pc[p] = "fast" /\ work[p].plan # None
    /\ work[p].eff = work[p].id.fp

Replays(p) ==
    /\ Fast(p) /\ Replayable(work[p].out, work[p].eff)
    /\ lock[work[p].out].ver = work[p].id.ver

Adds(p) ==
    /\ Fast(p) /\ Addable(work[p].out, work[p].eff)
    /\ lock[work[p].out].ver = work[p].id.ver

\* The committed lock is materialized again, or it is added to.
BuildFromLock(p) ==
    /\ Replays(p) \/ Adds(p)
    /\ LET l == lock[work[p].out] IN Built(p, l.ver, l.deps)
    /\ Consume(p)
    /\ UNCHANGED <<live, disk, fill, store, records, unwritten, told, view,
                   left>>

\* An addition that cannot be made locally leaves its version to the plan; a
\* lock with a gap in its provenance leaves nothing.
LeaveFast(p) ==
    /\ pc[p] = "fast"
    /\ Works(p, [work[p] EXCEPT
                    !.detected = IF Adds(p) THEN work[p].id.ver ELSE None])
    /\ Goes(p, "build")
    /\ UNCHANGED <<live, lock, disk, fill, store, records, unwritten, told,
                   view, memo, held, left>>

\* What is compared before a plan is built.
PlanFits(w) ==
    w.plan.over = w.detected /\ w.plan.deps = w.id.deps /\ w.eff = w.id.fp

BuildFromPlan(p) ==
    /\ pc[p] = "build" /\ work[p].plan # None
    /\ PlanFits(work[p])
    /\ Built(p, work[p].id.ver, work[p].plan.deps)
    /\ Consume(p)
    /\ UNCHANGED <<live, disk, fill, store, records, unwritten, told, view,
                   left>>

HasRecord(p) == Usable(p, work[p].rec, work[p].id)

\* A cold resolution must have the advertised version, and without a record
\* the advertised dependencies; its build string may have drifted.
ColdFits(p) ==
    /\ Content[view[p]] = work[p].id.ver
    /\ HasRecord(p) \/ Content[view[p]] = work[p].id.deps

\* Mutant: the lock gets the dependencies of the record, and there is none.
BuildColdFromRecord(p) ==
    /\ pc[p] = "build" /\ work[p].plan = None
    /\ ColdFits(p)
    /\ Built(p, work[p].id.ver,
             IF HasRecord(p) THEN work[p].rec.deps ELSE None)
    /\ UNCHANGED <<live, disk, fill, store, records, unwritten, told, view,
                   memo, held, left>>

BuildCold(p) ==
    /\ pc[p] = "build" /\ work[p].plan = None
    /\ ColdFits(p)
    /\ LET w == work[p]
       IN  Built(p, w.id.ver, IF HasRecord(p) THEN w.rec.deps ELSE w.id.deps)
    /\ UNCHANGED <<live, disk, fill, store, records, unwritten, told, view,
                   memo, held, left>>

\* Only the dependencies differ, and the committed lock has the advertised
\* ones (plan_cold_mismatch_recovery).
Recovers(p) ==
    /\ Content[view[p]] = work[p].id.ver /\ ~ColdFits(p)
    /\ Replayable(work[p].out, work[p].eff)
    /\ lock[work[p].out].ver = work[p].id.ver
    /\ lock[work[p].out].deps = work[p].id.deps

BuildRecovered(p) ==
    /\ pc[p] = "build" /\ work[p].plan = None
    /\ Recovers(p)
    /\ Built(p, work[p].id.ver, work[p].id.deps)
    /\ UNCHANGED <<live, disk, fill, store, records, unwritten, told, view,
                   memo, held, left>>

\* The build is refused.
Refuse(p) ==
    /\ pc[p] = "build"
    /\ \/ work[p].plan # None /\ ~PlanFits(work[p])
       \/ work[p].plan = None /\ ~ColdFits(p) /\ ~Recovers(p)
    /\ Goes(p, "refused")
    /\ UNCHANGED <<live, lock, disk, fill, store, records, unwritten, told,
                   view, memo, held, work, left>>

\* Pixi reports the refusal.
Report(p) ==
    /\ pc[p] = "refused"
    /\ Goes(p, "idle")
    /\ Works(p, Idle)
    /\ UNCHANGED <<live, lock, disk, fill, store, records, unwritten, told,
                   view, memo, held, left>>

-----------------------------------------------------------------------------
(* The environment                                                         *)

\* A sibling pack commits its lock.
SiblingWrites ==
    /\ live < MaxFp
    /\ live' = live + 1
    /\ UNCHANGED <<lock, disk, fill, store, records, unwritten, told, pc,
                   view, memo, held, work, left>>

\* A process dies, and pixi starts another, which resolves in what channels and
\* indexes serve by then.
Crash(p) ==
    /\ Spend("troubles")
    /\ fill' = [k \in Fps |-> IF fill[k] = p THEN None ELSE fill[k]]
    /\ Goes(p, "idle")
    /\ \E w \in Worlds : view' = [view EXCEPT ![p] = w]
    /\ memo' = [memo EXCEPT ![p] = [k \in Fps |-> None]]
    /\ Holds(p, NothingHeld)
    /\ Works(p, Idle)
    /\ UNCHANGED <<live, lock, disk, store, records, unwritten, told>>

\* Another job starts with empty caches of its own and the shared store.
NewJob ==
    /\ \A p \in Procs : pc[p] = "idle"
    /\ Spend("troubles")
    /\ disk' = [k \in Fps |-> None]
    /\ records' = [o \in Outputs |-> [f \in Fps |-> None]]
    /\ unwritten' = {}
    /\ told' = [p \in Procs |-> None]
    /\ view' \in [Procs -> Worlds]
    /\ memo' = [p \in Procs |-> [k \in Fps |-> None]]
    /\ held' = [p \in Procs |-> NothingHeld]
    /\ UNCHANGED <<live, lock, fill, store, pc, work>>

-----------------------------------------------------------------------------
CondaOutputs(p) ==
    \/ HitMemory(p) \/ MissMemory(p) \/ ReadDisk(p)
    \/ AdoptStored(p) \/ PassStore(p)
    \/ TakeFillLock(p) \/ FillLockFails(p)
    \/ Resolve(p) \/ Fail(p)
    \/ \E o \in Outputs : EmitReplay(p, o) \/ Emit(p, o)
    \/ Publish(p) \/ WriteDisk(p) \/ Quarantine(p) \/ PublishStored(p)

CondaBuild(p) ==
    \/ Build(p) \/ BuildFromLock(p) \/ LeaveFast(p) \/ BuildFromPlan(p)
    \/ BuildCold(p) \/ BuildRecovered(p) \/ Refuse(p) \/ Report(p)

Next ==
    \/ \E p \in Procs : CondaOutputs(p) \/ CondaBuild(p) \/ Crash(p)
    \/ SiblingWrites \/ NewJob

Spec == Init /\ [][Next]_vars

-----------------------------------------------------------------------------
Computing == {"resolve", "emit", "write", "publish"}

TypeOK ==
    /\ live \in Fps
    /\ lock \in [Outputs -> Maybe(Locks)]
    /\ disk \in [Fps -> Maybe(Shared)]
    /\ fill \in [Fps -> Maybe(Procs)]
    /\ store \in [Fps -> Maybe(Stored)]
    /\ records \in [Outputs -> [Fps -> Maybe(Records)]]
    /\ unwritten \subseteq Outputs \X Fps
    /\ told \in [Procs -> Maybe(Results)]
    /\ pc \in [Procs -> {"idle", "disk", "store", "lock", "fast", "build",
                         "refused"} \cup Computing]
    /\ view \in [Procs -> Worlds]
    /\ memo \in [Procs -> [Fps -> Maybe(Memos)]]
    /\ held \in [Procs ->
           [key : Maybe(Fps), plans : [Outputs -> Maybe(Plans)]]]
    /\ work \in [Procs -> {Idle} \cup Builds \cup Requests]
    /\ \A p \in Procs :
           \/ pc[p] = "idle" /\ work[p] = Idle
           \/ pc[p] \in {"fast", "build", "refused"} /\ work[p] \in Builds
           \/ /\ pc[p] \in {"disk", "store", "lock"} \cup Computing
              /\ work[p] \in Requests

\* The answers of this job that pixi or a process may still come back to.
Known ==
    {told[p] : p \in Procs} \cup
    {IF disk[k] = None THEN None ELSE disk[k].res : k \in Fps} \cup
    UNION {{IF memo[p][k] = None THEN None ELSE memo[p][k].res : k \in Fps} :
              p \in Procs}

\* Every output that was resolved for an answer has a record with the
\* fingerprint of its build string: whoever returns the answer, from whatever
\* memo, and whoever dies on the way, the build pass finds the inputs it needs
\* (write_record before the memos, restore_advertised_identities).  Only an
\* output whose record this job has failed to write may have none, and what is
\* found is never of another build string.
AnswersHaveRecords ==
    \A r \in Known \ {None}, o \in Outputs :
        r[o].src # "replay"
            => IF records[o][r[o].fp] = None
               THEN <<o, r[o].fp>> \in unwritten
               ELSE records[o][r[o].fp].fp = r[o].fp

\* The process holds the plan, no record was found because its write had
\* failed, and siblings have moved since: the build string cannot be made
\* again (validate_advertised_courier_build).
LostItsRecord(w) ==
    /\ w.plan # None /\ w.rec = None /\ w.eff # w.id.fp
    /\ <<w.out, w.id.fp>> \in unwritten

\* An identity that was resolved and not taken from a lock is not refused,
\* whatever siblings lock between the two passes and whichever process builds
\* it (advertised_identity.rs), unless the packages have moved: the record
\* under its build string is of another universe or version, or the process
\* would resolve another version.  One exception is a process whose plan and
\* whose lock disagree on whether the version is that of a lock; another is an
\* identity whose record could not be written, where the best effort "returns
\* to recompute-and-refuse".
FreshIdentitiesAreBuilt ==
    \A p \in Procs :
        pc[p] = "refused" /\ work[p].id.src = "fresh"
            => \/ work[p].rec # None /\ ~HasRecord(p)
               \/ Content[view[p]] # work[p].id.ver
               \/ work[p].plan # None /\ work[p].plan.over # work[p].detected
               \/ LostItsRecord(work[p])

\* An identity that only a held plan can build is never shared with another
\* process, and a process that would repeat it still has every plan it needs
\* (requires_prepared_plan, consume_prepared_build).
IncrementalAnswersKeepTheirPlans ==
    /\ \A k \in Fps : disk[k] # None => ~NeedsPlans(disk[k].res)
    /\ \A k \in Fps : store[k] # None => ~NeedsPlans(store[k].res)
    /\ \A p \in Procs, k \in Fps, o \in Outputs :
           memo[p][k] # None /\ Retained(p, k, TRUE)
             /\ memo[p][k].res[o].src = "incremental"
               => /\ held[p].plans[o] # None
                  /\ held[p].plans[o].over = memo[p][k].res[o].ver

\* Who computes under the fill lock is the first to do so for its key; only a
\* process that could not get the lock computes beside another or again.
LockedComputationsAreFirst ==
    \A p \in Procs :
        pc[p] \in {"resolve", "emit", "write"} /\ work[p].locked
            => LET k == work[p].key
               IN  /\ disk[k] # None => ~disk[k].locked
                   /\ \A q \in Procs \ {p} :
                          pc[q] \in Computing /\ work[q].key = k
                              => ~work[q].locked
=============================================================================
