---------------------------- MODULE GitCheckout ----------------------------
(***************************************************************************)
(* Shared git checkouts, ensure_git_checkout of src/src/source_build.rs.   *)
(*                                                                         *)
(* All backend processes share one checkout per (url, rev).  The first to  *)
(* find it without a ready marker takes the flock of its lock file         *)
(* exclusively, clones, publishes the marker and turns its lock into a     *)
(* shared one, which it keeps until it exits.  The tasks of a process      *)
(* share that one lock through a registry and a read-write lock of their   *)
(* own.                                                                    *)
(*                                                                         *)
(* One checkout directory is modelled.  Its path holds the hash of the     *)
(* identity; tasks of different identities meet there only through an      *)
(* alias of the directory, which registered_clone_lock and the check of    *)
(* the marker provide for.                                                 *)
(***************************************************************************)
EXTENDS Naturals, FiniteSets

CONSTANTS
    Procs,          \* backend processes; one that crashes is started again
    Tasks,          \* calls of ensure_git_checkout
    Home,           \* Home[t]: the process of t
    Identities,     \* (url, rev) pairs
    Ident,          \* Ident[t]: what t may ask for
    None,           \* no task, no identity
    Partial,        \* a tree that is not, or not yet, checked out
    MaxCrashes,     \* bound: crashes
    Faults          \* what may go wrong

FaultKinds == {"git", "disk", "lock", "unlock", "cancel", "erase"}

ASSUME CheckoutAssumption ==
    /\ Home \in [Tasks -> Procs]
    /\ Ident \in [Tasks -> SUBSET Identities]
    /\ None \notin Tasks \cup Identities
    /\ Partial \notin Identities \cup {None}
    /\ MaxCrashes \in Nat
    /\ Faults \subseteq FaultKinds

VARIABLES
    marker,     \* the identity in the ready marker
    tree,       \* what the working tree holds
    flock,      \* the lock each process holds on the lock file
    bound,      \* the identity the lock is registered for in each process
    shared,     \* the processes that have committed to the shared lock
    poisoned,   \* the processes whose lock could not be released
    writer,     \* the task for which a process runs its initializer
    phase,      \* where that initializer stands
    attempt,    \* clones it has tried
    readers,    \* the tasks with a read guard
    pc,         \* where each task stands
    asks,       \* the identity each task asks for
    crashes,    \* crashes so far
    erased      \* whether the marker was removed by somebody else

disk == <<marker, tree>>
process == <<flock, bound, shared, poisoned, writer, phase, attempt>>
task == <<readers, pc>>
counts == <<asks, crashes, erased>>
vars == <<disk, process, task, counts>>

\* The phases of the initializer; in the mutating ones it changes the tree.
Exclusive == {"recheckExclusive", "clone", "cloning", "wipe", "publish",
              "downgrade"}
Mutating == {"clone", "cloning", "wipe", "publish"}
Phases == {"none", "start", "probe", "tryShared", "recheckShared",
           "tryExclusive", "relock"} \cup Exclusive
Steps == {"idle", "check", "write", "await", "read", "validate", "using",
          "done", "failed"}

TypeOK ==
    /\ marker \in Identities \cup {None}
    /\ tree \in Identities \cup {None, Partial}
    /\ flock \in [Procs -> {"none", "shared", "exclusive"}]
    /\ bound \in [Procs -> Identities \cup {None}]
    /\ shared \subseteq Procs
    /\ poisoned \subseteq Procs
    /\ writer \in [Procs -> Tasks \cup {None}]
    /\ phase \in [Procs -> Phases]
    /\ attempt \in [Procs -> 0..2]
    /\ readers \subseteq Tasks
    /\ pc \in [Tasks -> Steps]
    /\ asks \in [Tasks -> Identities]
    /\ crashes \in 0..MaxCrashes
    /\ erased \in BOOLEAN

\* An empty cache, the unmarked tree of an older version, or a checkout that
\* is ready.
Init ==
    /\ \/ marker = None /\ tree \in {None, Partial}
       \/ marker \in Identities /\ tree = marker
    /\ flock = [p \in Procs |-> "none"]
    /\ bound = [p \in Procs |-> None]
    /\ shared = {}
    /\ poisoned = {}
    /\ writer = [p \in Procs |-> None]
    /\ phase = [p \in Procs |-> "none"]
    /\ attempt = [p \in Procs |-> 0]
    /\ readers = {}
    /\ pc = [t \in Tasks |-> "idle"]
    /\ asks \in [Tasks -> Identities] /\ \A t \in Tasks : asks[t] \in Ident[t]
    /\ crashes = 0
    /\ erased = FALSE
-----------------------------------------------------------------------------
(***************************************************************************)
(* The calling task: ensure_git_checkout.                                  *)
(***************************************************************************)
At(t, step) == pc' = [pc EXCEPT ![t] = step]
Readers(p) == {t \in readers : Home[t] = p}

\* registered_clone_lock: the first caller binds the lock to its identity.
Register(t) ==
    /\ pc[t] = "idle"
    /\ IF bound[Home[t]] \in {None, asks[t]}
       THEN bound' = [bound EXCEPT ![Home[t]] = asks[t]] /\ At(t, "check")
       ELSE UNCHANGED bound /\ At(t, "failed")
    /\ UNCHANGED <<disk, flock, shared, poisoned, writer, phase, attempt,
                   readers, counts>>

Check(t) ==
    /\ pc[t] = "check"
    /\ At(t, IF Home[t] \in shared THEN "read" ELSE "write")
    /\ UNCHANGED <<disk, process, readers, counts>>

\* With the write guard the flag is read again; then the initializer runs as
\* a task of its own that owns the guard.
WriteLock(t) ==
    LET p == Home[t]
    IN  /\ pc[t] = "write"
        /\ writer[p] = None /\ Readers(p) = {}
        /\ IF p \in shared
           THEN At(t, "read") /\ UNCHANGED <<writer, phase>>
           ELSE /\ writer' = [writer EXCEPT ![p] = t]
                /\ phase' = [phase EXCEPT ![p] = "start"]
                /\ At(t, "await")
        /\ UNCHANGED <<disk, flock, bound, shared, poisoned, attempt, readers,
                       counts>>

ReadLock(t) ==
    /\ pc[t] = "read"
    /\ \/ /\ Home[t] \in poisoned
          /\ At(t, "failed") /\ UNCHANGED readers
       \/ /\ Home[t] \notin poisoned
          /\ writer[Home[t]] = None
          /\ IF Home[t] \in shared
             THEN At(t, "validate") /\ readers' = readers \cup {t}
             ELSE At(t, "failed") /\ UNCHANGED readers
    /\ UNCHANGED <<disk, process, counts>>

\* The marker is read once more before the lease is handed out.
Validate(t) ==
    /\ pc[t] = "validate"
    /\ IF marker = asks[t]
       THEN At(t, "using") /\ UNCHANGED readers
       ELSE At(t, "failed") /\ readers' = readers \ {t}
    /\ UNCHANGED <<disk, process, counts>>

\* The last clone of the GitCheckout goes.
Finish(t) ==
    /\ pc[t] = "using"
    /\ At(t, "done")
    /\ readers' = readers \ {t}
    /\ UNCHANGED <<disk, process, counts>>

\* The future is dropped; an initializer it waits for runs on.
Cancel(t) ==
    /\ "cancel" \in Faults
    /\ pc[t] \in {"check", "write", "await", "read", "validate"}
    /\ At(t, "done")
    /\ readers' = readers \ {t}
    /\ UNCHANGED <<disk, process, counts>>
-----------------------------------------------------------------------------
(***************************************************************************)
(* The initializer: initialize_process_clone_lock.                         *)
(***************************************************************************)
Phase(p, ph) == phase' = [phase EXCEPT ![p] = ph]

\* Back to the task that waits, if it still does; the write guard goes.
Ended(p, step) ==
    /\ Phase(p, "none")
    /\ writer' = [writer EXCEPT ![p] = None]
    /\ attempt' = [attempt EXCEPT ![p] = 0]
    /\ pc' = [t \in Tasks |-> IF t = writer[p] /\ pc[t] = "await" THEN step
                              ELSE pc[t]]

\* Drop of PendingOsLock.
Unlock(p) ==
    \/ flock' = [flock EXCEPT ![p] = "none"] /\ UNCHANGED poisoned
    \/ /\ "unlock" \in Faults
       /\ poisoned' = poisoned \cup {p} /\ UNCHANGED flock

GiveUp(p) ==
    /\ Ended(p, "failed")
    /\ Unlock(p)
    /\ UNCHANGED <<disk, bound, shared, readers, counts>>

MoveOn(p, ph) ==
    /\ Phase(p, ph)
    /\ UNCHANGED <<disk, flock, bound, shared, poisoned, writer, attempt,
                   task, counts>>

\* Also at the head of the loop of acquire_initial_os_access, which the
\* process can reach only unpoisoned here.
StartInit(p) ==
    /\ phase[p] = "start"
    /\ IF p \in poisoned
       THEN /\ Ended(p, "failed")
            /\ UNCHANGED <<disk, flock, bound, shared, poisoned, readers,
                           counts>>
       ELSE MoveOn(p, "probe")

\* Mutant: an initializer insists on the exclusive lock.
ProbeExclusive(p) == phase[p] = "probe" /\ MoveOn(p, "tryExclusive")

\* Three states of the marker: missing, matching, invalid.
Probe(p) ==
    /\ phase[p] = "probe"
    /\ IF p \notin poisoned /\ marker \in {None, bound[p]}
       THEN MoveOn(p, IF marker = None THEN "tryExclusive" ELSE "tryShared")
       ELSE /\ Ended(p, "failed")
            /\ UNCHANGED <<disk, flock, bound, shared, poisoned, readers,
                           counts>>

Others(p) == Procs \ {p}

TryShared(p) ==
    /\ phase[p] = "tryShared"
    /\ IF \A q \in Others(p) : flock[q] # "exclusive"
       THEN /\ flock' = [flock EXCEPT ![p] = "shared"]
            /\ Phase(p, "recheckShared")
       ELSE UNCHANGED flock /\ Phase(p, "probe")
    /\ UNCHANGED <<disk, bound, shared, poisoned, writer, attempt, task,
                   counts>>

\* Mutant: the lock is taken on a lock file of the process's own.
TryExclusiveAlone(p) ==
    /\ phase[p] = "tryExclusive"
    /\ flock' = [flock EXCEPT ![p] = "exclusive"]
    /\ Phase(p, "recheckExclusive")
    /\ UNCHANGED <<disk, bound, shared, poisoned, writer, attempt, task,
                   counts>>

TryExclusive(p) ==
    /\ phase[p] = "tryExclusive"
    /\ IF \A q \in Others(p) : flock[q] = "none"
       THEN /\ flock' = [flock EXCEPT ![p] = "exclusive"]
            /\ Phase(p, "recheckExclusive")
       ELSE UNCHANGED flock /\ Phase(p, "probe")
    /\ UNCHANGED <<disk, bound, shared, poisoned, writer, attempt, task,
                   counts>>

Commit(p) ==
    /\ shared' = shared \cup {p}
    /\ Ended(p, "read")
    /\ UNCHANGED <<disk, flock, bound, poisoned, readers, counts>>

RecheckShared(p) ==
    /\ phase[p] = "recheckShared"
    /\ CASE marker = bound[p] -> Commit(p)
         [] marker = None -> /\ Unlock(p) /\ Phase(p, "probe")
                             /\ UNCHANGED <<disk, bound, shared, writer,
                                            attempt, task, counts>>
         [] OTHER -> GiveUp(p)

RecheckExclusive(p) ==
    /\ phase[p] = "recheckExclusive"
    /\ CASE marker = None -> MoveOn(p, "clone")
         [] marker = bound[p] -> MoveOn(p, "downgrade")
         [] OTHER -> GiveUp(p)

\* clone_and_checkout, from its first change of the tree ...
Clone(p) ==
    /\ phase[p] = "clone"
    /\ tree' = Partial
    /\ attempt' = [attempt EXCEPT ![p] = @ + 1]
    /\ Phase(p, "cloning")
    /\ UNCHANGED <<marker, flock, bound, shared, poisoned, writer, task,
                   counts>>

\* ... to its result.
CloneSucceeds(p) ==
    /\ phase[p] = "cloning"
    /\ tree' = bound[p]
    /\ Phase(p, "publish")
    /\ UNCHANGED <<marker, flock, bound, shared, poisoned, writer, attempt,
                   task, counts>>

\* Mutant: every failure leads to another clone.
CloneFailsAgain(p) ==
    /\ phase[p] = "cloning" /\ "git" \in Faults
    /\ MoveOn(p, "wipe")

\* The first failure leads to a second clone, the second one is final.
CloneFails(p) ==
    /\ phase[p] = "cloning" /\ "git" \in Faults
    /\ IF attempt[p] < 2 THEN MoveOn(p, "wipe") ELSE GiveUp(p)

Wipe(p) ==
    /\ phase[p] = "wipe"
    /\ \/ /\ tree' = None
          /\ Phase(p, "clone")
          /\ UNCHANGED <<marker, flock, bound, shared, poisoned, writer,
                         attempt, task, counts>>
       \/ "disk" \in Faults /\ GiveUp(p)

\* Mutant: the marker is published as soon as the lock is held.
PublishFirst(p) ==
    /\ phase[p] \in {"clone", "publish"}
    /\ marker' = bound[p]
    /\ Phase(p, IF phase[p] = "clone" THEN "clone" ELSE "downgrade")
    /\ UNCHANGED <<tree, flock, bound, shared, poisoned, writer, attempt,
                   task, counts>>

Publish(p) ==
    /\ phase[p] = "publish"
    /\ marker' = bound[p]
    /\ Phase(p, "downgrade")
    /\ UNCHANGED <<tree, flock, bound, shared, poisoned, writer, attempt,
                   task, counts>>

\* Writing the marker fails, before or after it has been renamed.
PublishFails(p) ==
    /\ phase[p] = "publish" /\ "disk" \in Faults
    /\ marker' \in {None, bound[p]}
    /\ Ended(p, "failed")
    /\ Unlock(p)
    /\ UNCHANGED <<tree, bound, shared, readers, counts>>

\* Mutant: the process does without the shared lock once it has published.
ReleaseAndCommit(p) ==
    /\ phase[p] = "downgrade"
    /\ flock' = [flock EXCEPT ![p] = "none"]
    /\ shared' = shared \cup {p}
    /\ Ended(p, "read")
    /\ UNCHANGED <<disk, bound, poisoned, readers, counts>>

\* flock(2) releases the exclusive lock before it asks for the shared one.
Downgrade(p) ==
    /\ phase[p] = "downgrade"
    /\ \/ /\ flock' = [flock EXCEPT ![p] = "none"]
          /\ Phase(p, "relock")
          /\ UNCHANGED <<disk, bound, shared, poisoned, writer, attempt, task,
                         counts>>
       \/ "lock" \in Faults /\ GiveUp(p)

Relock(p) ==
    /\ phase[p] = "relock"
    /\ \A q \in Others(p) : flock[q] # "exclusive"
    /\ flock' = [flock EXCEPT ![p] = "shared"]
    /\ shared' = shared \cup {p}
    /\ Ended(p, "read")
    /\ UNCHANGED <<disk, bound, poisoned, readers, counts>>
-----------------------------------------------------------------------------
(***************************************************************************)
(* The environment.                                                        *)
(***************************************************************************)
\* The kernel releases the lock of a process that dies.  Tasks that have not
\* begun belong to its next incarnation.
Crash(p) ==
    /\ crashes < MaxCrashes /\ crashes' = crashes + 1
    /\ flock' = [flock EXCEPT ![p] = "none"]
    /\ bound' = [bound EXCEPT ![p] = None]
    /\ shared' = shared \ {p}
    /\ poisoned' = poisoned \ {p}
    /\ writer' = [writer EXCEPT ![p] = None]
    /\ phase' = [phase EXCEPT ![p] = "none"]
    /\ attempt' = [attempt EXCEPT ![p] = 0]
    /\ readers' = {t \in readers : Home[t] # p}
    /\ pc' = [t \in Tasks |-> IF Home[t] = p /\ pc[t] # "idle" THEN "failed"
                              ELSE pc[t]]
    /\ UNCHANGED <<disk, asks, erased>>

\* A cleaner removes the marker of a checkout, once.
Erase ==
    /\ "erase" \in Faults
    /\ ~erased /\ erased' = TRUE
    /\ marker' = None
    /\ UNCHANGED <<tree, process, task, asks, crashes>>

HasEnded(t) == pc[t] \in {"done", "failed"}
\* All is done, or waits for a process to exit that cannot release its lock.
Done ==
    /\ \/ poisoned # {}
       \/ /\ \A t \in Tasks : HasEnded(t)
          /\ \A p \in Procs : phase[p] = "none"
    /\ UNCHANGED vars

InitStep(p) ==
    \/ StartInit(p) \/ Probe(p) \/ TryShared(p) \/ TryExclusive(p)
    \/ RecheckShared(p) \/ RecheckExclusive(p)
    \/ Clone(p) \/ CloneSucceeds(p) \/ CloneFails(p) \/ Wipe(p)
    \/ Publish(p) \/ PublishFails(p) \/ Downgrade(p) \/ Relock(p)

TaskStep(t) == Check(t) \/ ReadLock(t) \/ Validate(t) \/ Finish(t)

Next ==
    \/ \E t \in Tasks : Register(t) \/ WriteLock(t) \/ TaskStep(t) \/ Cancel(t)
    \/ \E p \in Procs : InitStep(p) \/ Crash(p)
    \/ Erase
    \/ Done

Spec == Init /\ [][Next]_vars

\* Tasks and initializers run on, leases are dropped in the end, and the
\* read-write lock serves its waiters in turn.
Fairness ==
    /\ \A t \in Tasks : WF_vars(TaskStep(t)) /\ SF_vars(WriteLock(t))
    /\ \A p \in Procs : WF_vars(InitStep(p))
FairSpec == Spec /\ Fairness
-----------------------------------------------------------------------------
(***************************************************************************)
(* Properties.                                                             *)
(***************************************************************************)
\* A task that uses the checkout sees the tree of its own url and revision,
\* and no process changes the tree meanwhile, even if the marker disappears
\* (the comment on GitCheckout).
ReadersSeeTheirTree == \A t \in Tasks : pc[t] = "using" => tree = asks[t]

\* A marker stands for a complete tree of its identity: a clone that fails,
\* is killed or is repeated never leaves a ready marker on anything else
\* (initialize_checkout_once, publish_checkout_ready).
MarkedTreeIsWhole == marker # None => tree = marker

\* At most one process changes the tree, and then nobody reads it and no
\* process counts on its shared lock.
OneInitializer ==
    \A p, q \in Procs :
        phase[p] \in Mutating =>
            /\ phase[q] \in Mutating => p = q
            /\ q \notin shared

\* Whatever the processes do with markers and locks, the checkout is a tree
\* that is handed out whole and stays as it is while it is used: a clone, a
\* second clone and a wipe only happen while no task uses it (the comment on
\* GitCheckout).
Tree == INSTANCE SharedTree
            WITH Users <- Tasks, Whole <- Identities, Nothing <- None,
                 content <- tree,
                 using <- [t \in Tasks |-> IF pc[t] = "using" THEN asks[t]
                                           ELSE None]
SharedTreeSpec == Tree!Spec

\* Every call ends, also those that lose the race for a cold checkout or wait
\* behind an initializer that fails, is cancelled or dies, unless a process
\* keeps its lock although the marker is gone or could not be released.
Obstructed == erased \/ poisoned # {}
CallsEnd ==
    \A t \in Tasks : pc[t] # "idle" ~> HasEnded(t) \/ Obstructed
=============================================================================
