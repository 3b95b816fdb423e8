--------------------------- MODULE SnapshotStore ---------------------------
(***************************************************************************)
(* The store of canonical git snapshots and its reaper:                    *)
(* ensure_canonical_git_snapshot_in and reap_canonical_git_snapshot_store  *)
(* of src/src/source_build.rs.                                             *)
(*                                                                         *)
(* A snapshot is an immutable tree, published by one rename together with  *)
(* its marker and sealed so that a later hit need not walk it.  Hits on a  *)
(* sealed tree take no lock; clones, unsealed hits and the reaper take the *)
(* entry's lock.  Whoever uses the tree touches a stamp beside it, and the *)
(* reaper moves a tree nobody has referenced for a horizon of days into    *)
(* quarantine.  Users keep the path of the tree, and no lock.              *)
(*                                                                         *)
(* One entry is modelled.  Trees are numbered as they appear at its path.  *)
(***************************************************************************)
EXTENDS Naturals

CONSTANTS
    Callers,        \* calls of ensure_canonical_git_snapshot_in
    Reapers,        \* reaper passes
    Full,           \* the callers configured to verify every snapshot in full
    None,           \* nobody
    MaxTrees,       \* bound: trees
    MaxHorizons,    \* bound: horizons that pass
    MaxCrashes,     \* bound: crashes
    Faults          \* what may go wrong

ASSUME StoreAssumption ==
    /\ Full \subseteq Callers
    /\ Callers \cap Reapers = {}
    /\ None \notin Callers \cup Reapers
    /\ MaxTrees \in Nat \ {0} /\ MaxHorizons \in Nat /\ MaxCrashes \in Nat
    /\ Faults \subseteq {"git", "disk", "stamp", "damage"}

VARIABLES
    entry,      \* the tree at the path, 0 for none
    trees,      \* trees so far
    marked,     \* the trees that were published with a marker
    sealed,     \* the trees whose marker has a seal
    damaged,    \* the trees that were changed after they were published
    recent,     \* the marker at the path is younger than the horizon
    stamp,      \* the use stamp: none, fresh, or older than the horizon
    quarantine, \* the trees the reaper has moved away
    lock,       \* holder of the entry's lock
    reaping,    \* holder of the store's reap lock
    pc,         \* where each caller stands
    held,       \* the callers that stamped the entry while they had its lock
    step,       \* where each reaper stands
    horizons, crashes

content == <<entry, trees, marked, sealed, damaged, recent, quarantine>>
bounds == <<horizons, crashes>>
vars == <<content, stamp, lock, reaping, pc, held, step, bounds>>

Trees == 1..MaxTrees
CallSteps == {"idle", "touch", "lock", "look", "seal", "lockedTouch", "clone",
              "verify", "using", "done", "failed"}
ReapSteps == {"idle", "scan", "tryEntry", "recheck", "rename", "moveStamp",
              "done"}
Ended == {"idle", "done", "failed"}

TypeOK ==
    /\ trees \in 0..MaxTrees /\ entry \in 0..trees
    /\ marked \subseteq Trees /\ sealed \subseteq marked
    /\ damaged \subseteq Trees /\ quarantine \subseteq Trees
    /\ recent \in BOOLEAN
    /\ stamp \in {"none", "fresh", "old"}
    /\ lock \in Callers \cup Reapers \cup {None}
    /\ reaping \in Reapers \cup {None}
    /\ pc \in [Callers -> CallSteps]
    /\ held \subseteq Callers
    /\ step \in [Reapers -> ReapSteps]
    /\ horizons \in 0..MaxHorizons
    /\ crashes \in 0..MaxCrashes

\* An empty store, a tree some version has published with or without a seal,
\* or what an interrupted or purged publication left.
Init ==
    /\ entry \in {0, 1} /\ trees = entry
    /\ marked \in SUBSET (1..entry) /\ sealed \in SUBSET marked
    /\ damaged = {} /\ quarantine = {}
    /\ recent \in BOOLEAN
    /\ stamp \in IF marked = {} THEN {"none"} ELSE {"none", "fresh", "old"}
    /\ recent => stamp # "old"
    /\ lock = None /\ reaping = None
    /\ pc = [c \in Callers |-> "idle"]
    /\ held = {}
    /\ step = [r \in Reapers |-> "idle"]
    /\ horizons = 0 /\ crashes = 0
-----------------------------------------------------------------------------
(***************************************************************************)
(* The caller: ensure_canonical_git_snapshot_in.                           *)
(***************************************************************************)
Go(c, s) == pc' = [pc EXCEPT ![c] = s]
Whole == entry \in marked \ damaged

\* The full walk sees every change; the check of a sealed tree looks at a
\* sample of its files and may see none (verify_canonical_git_seal).
Passes(c) == Whole \/ (entry \in marked \cap sealed /\ c \notin Full)

\* try_unlocked_sealed_canonical_git_hit; whatever is not a plain sealed hit
\* goes on to the lock.
Check(c) ==
    /\ pc[c] = "idle"
    /\ \/ Passes(c) /\ entry \in sealed /\ c \notin Full /\ Go(c, "touch")
       \/ /\ ~(Whole /\ entry \in sealed) \/ c \in Full \/ "git" \in Faults
          /\ Go(c, "lock")
    /\ UNCHANGED <<content, stamp, lock, reaping, held, step, bounds>>

\* touch_use_stamp, best effort, after an unlocked hit or a publication.
Stamp == stamp' = "fresh"
Touch(c) ==
    /\ pc[c] = "touch"
    /\ \/ Stamp
       \/ "stamp" \in Faults /\ UNCHANGED stamp
    /\ Go(c, "using")
    /\ UNCHANGED <<content, lock, reaping, held, step, bounds>>

\* Mutant: the lock of the entry is shared.
TakeSharedLock(c) ==
    /\ pc[c] = "lock" /\ lock' = c
    /\ Go(c, "look")
    /\ UNCHANGED <<content, stamp, reaping, held, step, bounds>>

TakeLock(c) ==
    /\ pc[c] = "lock"
    /\ \/ lock = None /\ lock' = c /\ Go(c, "look")
       \/ "disk" \in Faults /\ UNCHANGED lock /\ Go(c, "failed")
    /\ UNCHANGED <<content, stamp, reaping, held, step, bounds>>

\* Mutant: the locked hit does not ask for a marker.
LookPastMarker(c) ==
    /\ pc[c] = "look"
    /\ Go(c, IF entry = 0 THEN "clone" ELSE "seal")
    /\ UNCHANGED <<content, stamp, lock, reaping, held, step, bounds>>

\* Mutant: a published tree that does not validate is cloned anew.
LookAndHeal(c) ==
    /\ pc[c] = "look"
    /\ IF Whole THEN Go(c, "seal") /\ UNCHANGED entry
       ELSE Go(c, "clone") /\ entry' = 0
    /\ UNCHANGED <<trees, marked, sealed, damaged, recent, quarantine, stamp,
                   lock, reaping, held, step, bounds>>

Fail(c) == Go(c, "failed") /\ lock' = None

\* A tree with a marker is validated and never replaced, one without is what
\* an interrupted publication left.
Look(c) ==
    /\ pc[c] = "look"
    /\ \/ /\ entry \notin marked
          /\ \/ entry' = 0 /\ Go(c, "clone") /\ UNCHANGED lock
             \/ entry # 0 /\ "disk" \in Faults /\ Fail(c) /\ UNCHANGED entry
       \/ /\ Passes(c) /\ UNCHANGED <<entry, lock>>
          /\ Go(c, IF entry \in sealed THEN "lockedTouch" ELSE "seal")
       \/ /\ entry \in damaged \/ (entry \in marked /\ "git" \in Faults)
          /\ Fail(c) /\ UNCHANGED entry
    /\ UNCHANGED <<trees, marked, sealed, damaged, recent, quarantine, stamp,
                   reaping, held, step, bounds>>

\* The tree of an older version is sealed: its marker is written anew.
SealForward(c) ==
    /\ pc[c] = "seal"
    /\ \/ sealed' = sealed \cup {entry} /\ recent' = TRUE
       \/ "disk" \in Faults /\ UNCHANGED <<sealed, recent>>
    /\ Go(c, "lockedTouch")
    /\ UNCHANGED <<entry, trees, marked, damaged, quarantine, stamp, lock,
                   reaping, held, step, bounds>>

LockedTouch(c) ==
    /\ pc[c] = "lockedTouch"
    /\ \/ Stamp /\ held' = held \cup {c}
       \/ "stamp" \in Faults /\ UNCHANGED <<stamp, held>>
    /\ lock' = None
    /\ Go(c, "using")
    /\ UNCHANGED <<content, reaping, step, bounds>>

\* The clone is made in a staging directory of the caller's own.
CloneFails(c) ==
    /\ pc[c] = "clone" /\ "git" \in Faults
    /\ Fail(c)
    /\ UNCHANGED <<content, stamp, reaping, held, step, bounds>>

\* The lock ends at the rename; the full walk comes after it.
Publish(c) ==
    /\ pc[c] = "clone" /\ trees < MaxTrees
    /\ trees' = trees + 1 /\ entry' = trees'
    /\ marked' = marked \cup {entry'} /\ sealed' = sealed \cup {entry'}
    /\ recent' = TRUE
    /\ lock' = None
    /\ Go(c, "verify")
    /\ UNCHANGED <<damaged, quarantine, stamp, reaping, held, step, bounds>>

Verify(c) ==
    /\ pc[c] = "verify"
    /\ \/ Whole /\ Go(c, "touch")
       \/ /\ ~Whole \/ "git" \in Faults
          /\ Go(c, "failed")
    /\ UNCHANGED <<content, stamp, lock, reaping, held, step, bounds>>

\* The build checks the snapshot once more before its wheel counts.
Revalidate(c) ==
    /\ pc[c] = "using"
    /\ \/ Passes(c) /\ Go(c, "done")
       \/ /\ ~Whole \/ "git" \in Faults
          /\ Go(c, "failed")
    /\ UNCHANGED <<content, stamp, lock, reaping, held, step, bounds>>
-----------------------------------------------------------------------------
(***************************************************************************)
(* The reaper: reap_canonical_git_snapshot_store.                          *)
(***************************************************************************)
Advance(r, s) == step' = [step EXCEPT ![r] = s]

\* The pass is over and drops what it holds.
Leave(r) ==
    /\ Advance(r, "done")
    /\ reaping' = IF reaping = r THEN None ELSE reaping
    /\ lock' = IF lock = r THEN None ELSE lock

\* git_snapshot_entry_age: the stamp if there is one, or else the marker.
Referenced ==
    CASE stamp # "none" -> stamp
      [] stamp = "none" /\ entry \in marked -> IF recent THEN "fresh" ELSE "old"
      [] OTHER -> "unknown"

Begin(r) ==
    /\ step[r] = "idle"
    /\ IF reaping = None
       THEN reaping' = r /\ Advance(r, "scan") /\ UNCHANGED lock
       ELSE Leave(r)
    /\ UNCHANGED <<content, stamp, pc, held, bounds>>

Scan(r) ==
    /\ step[r] = "scan"
    /\ IF entry # 0 /\ Referenced = "old"
       THEN Advance(r, "tryEntry") /\ UNCHANGED <<reaping, lock>>
       ELSE Leave(r)
    /\ UNCHANGED <<content, stamp, pc, held, bounds>>

\* An entry whose lock is held is skipped, never waited for.
TryEntry(r) ==
    /\ step[r] = "tryEntry"
    /\ IF lock = None
       THEN lock' = r /\ Advance(r, "recheck") /\ UNCHANGED reaping
       ELSE Leave(r)
    /\ UNCHANGED <<content, stamp, pc, held, bounds>>

\* Mutant: the age that was read before the lock decides.
RecheckNothing(r) ==
    /\ step[r] = "recheck"
    /\ Advance(r, "rename")
    /\ UNCHANGED <<content, stamp, lock, reaping, pc, held, bounds>>

Recheck(r) ==
    /\ step[r] = "recheck"
    /\ IF Referenced = "old"
       THEN Advance(r, "rename") /\ UNCHANGED <<reaping, lock>>
       ELSE Leave(r)
    /\ UNCHANGED <<content, stamp, pc, held, bounds>>

Rename(r) ==
    /\ step[r] = "rename"
    /\ \/ /\ entry # 0
          /\ quarantine' = quarantine \cup {entry} /\ entry' = 0
          /\ Advance(r, "moveStamp") /\ UNCHANGED <<reaping, lock>>
       \/ /\ entry = 0 \/ "disk" \in Faults
          /\ Leave(r) /\ UNCHANGED <<quarantine, entry>>
    /\ UNCHANGED <<trees, marked, sealed, damaged, recent, stamp, pc, held,
                   bounds>>

\* The stamp follows, best effort.
MoveStamp(r) ==
    /\ step[r] = "moveStamp"
    /\ \/ stamp' = "none"
       \/ "disk" \in Faults /\ UNCHANGED stamp
    /\ Leave(r)
    /\ UNCHANGED <<content, pc, held, bounds>>
-----------------------------------------------------------------------------
(***************************************************************************)
(* The environment.                                                        *)
(***************************************************************************)
\* The horizon of the reaper passes.  No call and no pass lasts that long.
HorizonPasses ==
    /\ horizons < MaxHorizons /\ horizons' = horizons + 1
    /\ \A c \in Callers : pc[c] \in Ended
    /\ \A r \in Reapers : step[r] \in Ended
    /\ recent' = FALSE
    /\ stamp' = IF stamp = "none" THEN "none" ELSE "old"
    /\ UNCHANGED <<entry, trees, marked, sealed, damaged, quarantine, lock,
                   reaping, pc, held, step, crashes>>

\* A build changes the tree it uses.
Damage(c) ==
    /\ "damage" \in Faults /\ pc[c] = "using"
    /\ entry # 0 /\ damaged = {}
    /\ damaged' = {entry}
    /\ UNCHANGED <<entry, trees, marked, sealed, recent, quarantine, stamp,
                   lock, reaping, pc, held, step, bounds>>

\* The kernel releases the locks of a process that dies.
CallerDies(c) ==
    /\ crashes < MaxCrashes /\ crashes' = crashes + 1
    /\ pc[c] \notin Ended
    /\ Go(c, "failed")
    /\ lock' = IF lock = c THEN None ELSE lock
    /\ UNCHANGED <<content, stamp, reaping, held, step, horizons>>

ReaperDies(r) ==
    /\ crashes < MaxCrashes /\ crashes' = crashes + 1
    /\ step[r] \notin Ended
    /\ Leave(r)
    /\ UNCHANGED <<content, stamp, pc, held, horizons>>

\* All calls have ended, or need a tree beyond the bound.
Stuck(c) == trees = MaxTrees /\ pc[c] \in {"clone", "lock"}
Done ==
    /\ \A c \in Callers : pc[c] \in Ended \/ Stuck(c)
    /\ \A r \in Reapers : step[r] \in Ended
    /\ UNCHANGED vars

CallStep(c) ==
    \/ Check(c) \/ Touch(c) \/ TakeLock(c) \/ Look(c) \/ SealForward(c)
    \/ LockedTouch(c) \/ CloneFails(c) \/ Publish(c) \/ Verify(c)
    \/ Revalidate(c)
ReapStep(r) ==
    \/ Begin(r) \/ Scan(r) \/ TryEntry(r) \/ Recheck(r) \/ Rename(r)
    \/ MoveStamp(r)

Next ==
    \/ \E c \in Callers : CallStep(c) \/ Damage(c) \/ CallerDies(c)
    \/ \E r \in Reapers : ReapStep(r) \/ ReaperDies(r)
    \/ HorizonPasses
    \/ Done

Spec == Init /\ [][Next]_vars
-----------------------------------------------------------------------------
(***************************************************************************)
(* Properties.                                                             *)
(***************************************************************************)
\* A tree that was published is never deleted or replaced, even one that is
\* damaged: it is at its path or in quarantine (rule 1 of the reaper, and the
\* locked hit that fails closed).
NothingIsLost == marked \subseteq quarantine \cup {entry}

\* Nobody clones a tree that is there, so that a publication never meets one
\* at its path.
ClonesAreNeeded == \A c \in Callers : pc[c] = "clone" => entry = 0

\* A caller that stamped the entry under its lock keeps the tree for as long
\* as it uses it, although it holds no lock then: the reaper reads the age
\* again under that lock (rule 3).
LockedHitsKeepTheirTree ==
    \A c \in held : pc[c] = "using" => entry \in marked
=============================================================================
