---------------------------- MODULE ThreadBudget ----------------------------
(***************************************************************************)
(* The node-wide compression-thread budget of src/src/thread_budget.rs.    *)
(*                                                                         *)
(* Every packaging step of every backend process asks for a lease on part  *)
(* of a per-user thread budget.  The leases are files of one registry      *)
(* directory; an exclusive flock serializes every change to it.  A build   *)
(* that finds no free token publishes a lease of zero threads and polls.   *)
(* A lease is charged until its build removes it, or until nobody can be   *)
(* shown to live behind it and its time to live has run out.               *)
(* A build with RETREAD_COMPRESSION_THREADS, or without a usable registry, *)
(* goes on without a lease: its child is not coordinated with the others   *)
(* and charged nowhere.                                                    *)
(*                                                                         *)
(* A member of Builds is one call of acquire() with the child process it   *)
(* leads to; Owner names the backend process that makes it.  A process is  *)
(* a (pid, starttime) identity, so a reused pid is another process.        *)
(***************************************************************************)
EXTENDS Integers, FiniteSets

CONSTANTS
    Procs,              \* backend processes
    Builds,             \* acquisitions, each with at most one child
    Owner,              \* Owner[b]: the process that performs b
    Nonces,             \* the values random_nonce can return
    Budget,             \* Budget[b]: the node budget as Owner[b] resolves it
    Want,               \* Want[b]: the manifest ceiling (Budget[b] if unset)
    Override,           \* Override[b]: RETREAD_COMPRESSION_THREADS (0: unset)
    MaxBudget,          \* an upper bound of the resolved budgets
    MaxNonceAttempts,   \* MAX_NONCE_ATTEMPTS
    MaxCrashes,         \* a bound of the processes that are killed
    NoBuild,            \* no build, no child
    Faults              \* which of the faults below the environment injects

FaultKinds == {"crash", "cancel", "registry", "procfs"}

ASSUME BudgetAssumption ==
    /\ IsFiniteSet(Procs) /\ IsFiniteSet(Builds) /\ IsFiniteSet(Nonces)
    /\ NoBuild \notin Builds \cup Procs
    /\ MaxBudget \in Nat \ {0}
    /\ MaxNonceAttempts \in Nat \ {0}
    /\ MaxCrashes \in Nat
    /\ Owner \in [Builds -> Procs]
    /\ Budget \in [Builds -> 1..MaxBudget]
    /\ Want \in [Builds -> Nat \ {0}]
    /\ Override \in [Builds -> Nat]
    /\ Faults \subseteq FaultKinds

\* lease-<pid>-<nonce>.json
Files == Procs \X Nonces

VARIABLES
    alive,      \* the processes that run
    lock,       \* the build inside an admission pass, which holds the flock
    leases,     \* the lease files of the registry directory
    granted,    \* granted_threads of each lease
    child,      \* the recorded child of each lease
    aged,       \* the leases refreshed longer ago than LEASE_STALE_AFTER
    phase,      \* where each build stands
    file,       \* the lease file name a build has drawn
    attempts,   \* nonces a build has drawn
    view,       \* what the current admission pass has read
    threads,    \* the thread count handed to the build
    proc,       \* the child process of a build
    recorder,   \* the task that attaches the child to the lease
    cancelled   \* builds whose waiter went away before the grant

registry == <<leases, granted, child, aged>>
consumer == <<proc, recorder>>
vars == <<alive, lock, registry, phase, file, attempts, view, threads,
          consumer, cancelled>>

Phases == {"idle", "naming", "scanned", "waiting", "rollback", "granted",
           "running", "releasing", "released", "leaked", "detached",
           "uncharged", "ended", "dead"}

NoFile == <<NoBuild, NoBuild>>
NoView == [leases |-> {}, granted |-> [f \in Files |-> 0]]

TypeOK ==
    /\ alive \subseteq Procs
    /\ lock \in Builds \cup {NoBuild}
    /\ leases \subseteq Files
    /\ granted \in [Files -> 0..MaxBudget]
    /\ child \in [Files -> Builds \cup {NoBuild}]
    /\ aged \subseteq Files
    /\ phase \in [Builds -> Phases]
    /\ file \in [Builds -> Files \cup {NoFile}]
    /\ attempts \in [Builds -> 0..MaxNonceAttempts]
    /\ view \in [Builds -> [leases : SUBSET Files,
                            granted : [Files -> 0..MaxBudget]]]
    /\ threads \in [Builds -> Nat]
    /\ proc \in [Builds -> {"none", "running", "exited"}]
    /\ recorder \in [Builds -> {"none", "queued", "recorded", "failed"}]
    /\ cancelled \subseteq Builds

Init ==
    /\ alive = Procs
    /\ lock = NoBuild
    /\ leases = {}
    /\ granted = [f \in Files |-> 0]
    /\ child = [f \in Files |-> NoBuild]
    /\ aged = {}
    /\ phase = [b \in Builds |-> "idle"]
    /\ file = [b \in Builds |-> NoFile]
    /\ attempts = [b \in Builds |-> 0]
    /\ view = [b \in Builds |-> NoView]
    /\ threads = [b \in Builds |-> 0]
    /\ proc = [b \in Builds |-> "none"]
    /\ recorder = [b \in Builds |-> "none"]
    /\ cancelled = {}
-----------------------------------------------------------------------------
(***************************************************************************)
(* The registry directory.                                                 *)
(***************************************************************************)
AtMost(x, y) == IF x <= y THEN x ELSE y
AtLeast(x, y) == IF x >= y THEN x ELSE y

\* The grants as allocations of the budget's tokens.
Pool == INSTANCE TokenPool
            WITH Holders <- Files, Capacity <- MaxBudget, alloc <- granted

\* What the granted threads of a set of lease records add up to.
Used(grants) == Cardinality(Pool!Taken(grants))

\* Mutant: the recorded child is not looked at.
IsLiveByOwner(f) == f[1] \in alive \/ f \notin aged

\* lease_is_live: a live owner, a live recorded child, or a fresh record.
IsLive(f) ==
    \/ f[1] \in alive
    \/ child[f] # NoBuild /\ proc[child[f]] = "running"
    \/ f \notin aged

\* The leases load_and_prune_leases unlinks.  A /proc read that fails counts
\* as "not alive", so under "procfs" any aged lease may be taken for dead.
MayPrune == {f \in leases : ~IsLive(f)}
PruneSets ==
    {MayPrune} \cup (IF "procfs" \in Faults
                     THEN {MayPrune \cup S : S \in SUBSET (aged \cap leases)}
                     ELSE {})

Unlink(S) ==
    /\ leases' = leases \ S
    /\ granted' = [f \in Files |-> IF f \in S THEN 0 ELSE granted[f]]
    /\ child' = [f \in Files |-> IF f \in S THEN NoBuild ELSE child[f]]
    /\ aged' = aged \ S

\* write_record_atomic of an admission pass, with a fresh timestamp when the
\* record carries a grant or is new.
Publish(f, grant) ==
    /\ leases' = leases \cup {f}
    /\ granted' = [granted EXCEPT ![f] = grant]
    /\ child' = child
    /\ aged' = aged \ {f}
-----------------------------------------------------------------------------
(***************************************************************************)
(* Acquiring: acquire, acquire_coordinated, registry_admission_pass.       *)
(***************************************************************************)
Runs(b) == Owner[b] \in alive

\* Mutant: the leases of the caller's own process are not counted.
UsedByOthers(b) ==
    Used([f \in Files |-> IF f[1] = Owner[b] THEN 0 ELSE view[b].granted[f]])
RemainingBesideOthers(b) == AtLeast(Budget[b] - UsedByOthers(b), 0)

Remaining(b) == AtLeast(Budget[b] - Used(view[b].granted), 0)
FairShare(b) == Budget[b] \div Cardinality(view[b].leases \cup {file[b]})

\* Mutant: the fair share without its minimum of one.
GrantAtMostShare(b) ==
    LET share == AtMost(AtMost(Remaining(b), FairShare(b)), Want[b])
    IN  IF view[b].granted[file[b]] > 0 THEN view[b].granted[file[b]]
        ELSE share

\* The grant of one pass: what is left of the budget, at most a fair share
\* and the manifest ceiling, but at least one thread while a token is left.
Grant(b) ==
    LET share == AtMost(AtMost(Remaining(b), FairShare(b)), Want[b])
    IN  IF view[b].granted[file[b]] > 0 THEN view[b].granted[file[b]]
        ELSE IF Remaining(b) > 0 THEN AtMost(AtLeast(share, 1), Remaining(b))
        ELSE 0

\* conservative_fallback, the grant of an uncoordinated build.
Fallback(b) == AtMost(AtLeast(Budget[b] \div 8, 1), Want[b])

Start(b) ==
    /\ phase[b] = "idle" /\ Runs(b)
    /\ Override[b] = 0
    /\ phase' = [phase EXCEPT ![b] = "naming"]
    /\ UNCHANGED <<alive, lock, registry, file, attempts, view, threads,
                   consumer, cancelled>>

\* RETREAD_COMPRESSION_THREADS, or a registry that cannot be used at all.
StartDetached(b) ==
    /\ phase[b] = "idle" /\ Runs(b)
    /\ Override[b] > 0 \/ "registry" \in Faults
    /\ phase' = [phase EXCEPT ![b] = "detached"]
    /\ threads' = [threads EXCEPT ![b] =
                     IF Override[b] > 0 THEN Override[b] ELSE Fallback(b)]
    /\ UNCHANGED <<alive, lock, registry, file, attempts, view, consumer,
                   cancelled>>

\* Mutant: one attempt too many.
CollideOnceMore(b, n) ==
    /\ phase[b] = "naming" /\ Runs(b)
    /\ lock = NoBuild
    /\ <<Owner[b], n>> \in leases
    /\ attempts' = [attempts EXCEPT ![b] = @ + 1]
    /\ IF attempts[b] = MaxNonceAttempts
       THEN /\ phase' = [phase EXCEPT ![b] = "detached"]
            /\ threads' = [threads EXCEPT ![b] = Fallback(b)]
       ELSE UNCHANGED <<phase, threads>>
    /\ UNCHANGED <<alive, lock, registry, file, view, consumer, cancelled>>

\* Under the lock: the drawn file name exists, dead or alive.  Draw again, or
\* give up coordinating when the attempts are used up.
Collide(b, n) ==
    /\ phase[b] = "naming" /\ Runs(b)
    /\ lock = NoBuild
    /\ <<Owner[b], n>> \in leases
    /\ attempts' = [attempts EXCEPT ![b] = @ + 1]
    /\ IF attempts[b] + 1 = MaxNonceAttempts
       THEN /\ phase' = [phase EXCEPT ![b] = "detached"]
            /\ threads' = [threads EXCEPT ![b] = Fallback(b)]
       ELSE UNCHANGED <<phase, threads>>
    /\ UNCHANGED <<alive, lock, registry, file, view, consumer, cancelled>>

\* What one pass reads: the leases that are left after pruning.
Survivors(S) ==
    [leases |-> leases \ S,
     granted |-> [g \in Files |-> IF g \in S THEN 0 ELSE granted[g]]]

\* Mutant: the pass reads the registry before it has the lock.
ScanUnlocked(b, f) ==
    /\ lock' = b
    /\ file' = [file EXCEPT ![b] = f]
    /\ phase' = [phase EXCEPT ![b] = "scanned"]
    /\ \E S \in PruneSets :
         /\ Unlink(S)
         /\ view' = [view EXCEPT ![b] = Survivors(S)]
    /\ UNCHANGED <<alive, attempts, threads, consumer, cancelled>>

\* Take the lock, unlink what is dead and read the rest.
ScanAs(b, f) ==
    /\ lock = NoBuild /\ lock' = b
    /\ file' = [file EXCEPT ![b] = f]
    /\ phase' = [phase EXCEPT ![b] = "scanned"]
    /\ \E S \in PruneSets :
         /\ Unlink(S)
         /\ view' = [view EXCEPT ![b] = Survivors(S)]
    /\ UNCHANGED <<alive, attempts, threads, consumer, cancelled>>

\* 128 random bits: the name of a lease that is gone is not drawn again.
ScanFirst(b, n) ==
    /\ phase[b] = "naming" /\ Runs(b)
    /\ <<Owner[b], n>> \notin leases
    /\ \A c \in Builds : file[c] # <<Owner[b], n>>
    /\ ScanAs(b, <<Owner[b], n>>)

ScanAgain(b) ==
    /\ phase[b] = "waiting" /\ Runs(b)
    /\ ScanAs(b, file[b])

LeavePass(b) ==
    /\ lock' = NoBuild
    /\ view' = [view EXCEPT ![b] = NoView]
    /\ UNCHANGED <<alive, file, attempts, consumer, cancelled>>

\* No token: stay in the registry with a grant of zero.  An existing record
\* is not rewritten.
Wait(b) ==
    /\ phase[b] = "scanned" /\ Runs(b)
    /\ Grant(b) = 0
    /\ IF file[b] \in view[b].leases
       THEN UNCHANGED registry
       ELSE Publish(file[b], 0)
    /\ phase' = [phase EXCEPT ![b] = "waiting"]
    /\ UNCHANGED threads
    /\ LeavePass(b)

\* The lease carries its final grant.  When the waiter has been cancelled the
\* blocking task still gets here, and its result is dropped at once.
Admit(b) ==
    /\ phase[b] = "scanned" /\ Runs(b)
    /\ Grant(b) > 0
    /\ IF view[b].granted[file[b]] > 0
       THEN UNCHANGED registry
       ELSE Publish(file[b], Grant(b))
    /\ phase' = [phase EXCEPT ![b] =
                   IF b \in cancelled THEN "releasing" ELSE "granted"]
    /\ threads' = [threads EXCEPT ![b] = Grant(b)]
    /\ LeavePass(b)

\* The pass fails, while pruning (some files are gone) or while publishing.
PassFails(b) ==
    /\ phase[b] = "scanned" /\ Runs(b)
    /\ "registry" \in Faults
    /\ phase' = [phase EXCEPT ![b] =
                   IF file[b] \in leases THEN "rollback" ELSE "detached"]
    /\ threads' = [threads EXCEPT ![b] = Fallback(b)]
    /\ UNCHANGED registry
    /\ LeavePass(b)

PruneFails(b) ==
    /\ phase[b] \in {"naming", "waiting"} /\ Runs(b)
    /\ lock = NoBuild
    /\ "registry" \in Faults
    /\ \E S \in SUBSET MayPrune : Unlink(S)
    /\ phase' = [phase EXCEPT ![b] =
                   IF phase[b] = "waiting" THEN "rollback" ELSE "detached"]
    /\ threads' = [threads EXCEPT ![b] = Fallback(b)]
    /\ UNCHANGED <<alive, lock, file, attempts, view, consumer, cancelled>>

\* Remove the pending lease of a failed acquisition; this may fail as well.
Rollback(b) ==
    /\ phase[b] = "rollback" /\ Runs(b)
    /\ lock = NoBuild
    /\ \/ Unlink({file[b]})
       \/ "registry" \in Faults /\ UNCHANGED registry
    /\ phase' = [phase EXCEPT ![b] = "detached"]
    /\ UNCHANGED <<alive, lock, file, attempts, view, threads, consumer,
                   cancelled>>
-----------------------------------------------------------------------------
(***************************************************************************)
(* Using and releasing: the callers in handler/mod.rs, record_child,       *)
(* release and Drop of CompressionThreadLease.                             *)
(***************************************************************************)
\* Where a build goes when it no longer uses its permit: only a lease has to
\* be given back, release and Drop of a detached permit do nothing.
AfterUse(b) ==
    IF phase[b] \in {"granted", "running"} THEN "releasing" ELSE "ended"

\* rattler-build is told the threads of the permit, whatever it rests on.
\* record_child returns at once when there is no lease.
Spawn(b) ==
    /\ phase[b] \in {"granted", "detached"} /\ Runs(b)
    /\ b \notin cancelled
    /\ proc' = [proc EXCEPT ![b] = "running"]
    /\ IF phase[b] = "granted"
       THEN /\ phase' = [phase EXCEPT ![b] = "running"]
            /\ recorder' = [recorder EXCEPT ![b] = "queued"]
       ELSE /\ phase' = [phase EXCEPT ![b] = "uncharged"]
            /\ UNCHANGED recorder
    /\ UNCHANGED <<alive, lock, registry, file, attempts, view, threads,
                   cancelled>>

SpawnFails(b) ==
    /\ phase[b] \in {"granted", "detached"} /\ Runs(b)
    /\ phase' = [phase EXCEPT ![b] = AfterUse(b)]
    /\ UNCHANGED <<alive, lock, registry, file, attempts, view, threads,
                   consumer, cancelled>>

\* Mutant: the record is written whether or not the lease is still there.
RecordChildBlindly(b) ==
    /\ recorder[b] = "queued" /\ Runs(b)
    /\ lock = NoBuild
    /\ recorder' = [recorder EXCEPT ![b] = "recorded"]
    /\ leases' = leases \cup {file[b]}
    /\ granted' = [granted EXCEPT ![file[b]] = threads[b]]
    /\ child' = [child EXCEPT ![file[b]] = b]
    /\ aged' = aged \ {file[b]}
    /\ UNCHANGED <<alive, lock, phase, file, attempts, view, threads, proc,
                   cancelled>>

\* update_child_identity.  The lease may already be gone (a cancelled build
\* releases while this task is queued) and is then not written again.
RecordChild(b) ==
    /\ recorder[b] = "queued" /\ Runs(b)
    /\ lock = NoBuild
    /\ IF file[b] \in leases
       THEN /\ recorder' = [recorder EXCEPT ![b] = "recorded"]
            /\ child' = [child EXCEPT ![file[b]] = b]
            /\ aged' = aged \ {file[b]}
            /\ UNCHANGED <<leases, granted>>
       ELSE /\ recorder' = [recorder EXCEPT ![b] = "failed"]
            /\ UNCHANGED registry
    /\ UNCHANGED <<alive, lock, phase, file, attempts, view, threads, proc,
                   cancelled>>

\* The child is gone already, or the registry cannot be written: only warn.
RecordChildFails(b) ==
    /\ recorder[b] = "queued" /\ Runs(b)
    /\ proc[b] = "exited" \/ "registry" \in Faults
    /\ recorder' = [recorder EXCEPT ![b] = "failed"]
    /\ UNCHANGED <<alive, lock, registry, phase, file, attempts, view,
                   threads, proc, cancelled>>

\* With its owner alive or as an orphan.
ChildExits(b) ==
    /\ proc[b] = "running"
    /\ proc' = [proc EXCEPT ![b] = "exited"]
    /\ UNCHANGED <<alive, lock, registry, phase, file, attempts, view,
                   threads, recorder, cancelled>>

\* release() after the wait, or Drop.
AtRelease(b) ==
    \/ phase[b] = "releasing"
    \/ phase[b] = "running" /\ recorder[b] # "queued" /\ proc[b] = "exited"

Release(b) ==
    /\ AtRelease(b) /\ Runs(b)
    /\ lock = NoBuild
    /\ Unlink({file[b]})
    /\ phase' = [phase EXCEPT ![b] = "released"]
    /\ UNCHANGED <<alive, lock, file, attempts, view, threads, consumer,
                   cancelled>>

\* The build of a detached permit has waited for its child.
EndUncharged(b) ==
    /\ phase[b] = "uncharged" /\ Runs(b)
    /\ proc[b] = "exited"
    /\ phase' = [phase EXCEPT ![b] = "ended"]
    /\ UNCHANGED <<alive, lock, registry, file, attempts, view, threads,
                   consumer, cancelled>>

\* A failed release() is tried once more by Drop; a failed Drop is final.
ReleaseFails(b) ==
    /\ AtRelease(b) /\ Runs(b)
    /\ "registry" \in Faults
    /\ phase' = [phase EXCEPT ![b] =
                   IF phase[b] = "running" THEN "releasing" ELSE "leaked"]
    /\ UNCHANGED <<alive, lock, registry, file, attempts, view, threads,
                   consumer, cancelled>>

\* Mutant: the lease has no Drop, only release() removes it.
CancelWithoutDrop(b) ==
    /\ "cancel" \in Faults /\ Runs(b)
    /\ phase[b] \in {"granted", "running", "detached", "uncharged"}
    /\ phase' = [phase EXCEPT ![b] =
                   IF AfterUse(b) = "releasing" THEN "released" ELSE "ended"]
    /\ proc' = [proc EXCEPT ![b] = IF @ = "running" THEN "exited" ELSE @]
    /\ UNCHANGED <<alive, lock, registry, file, attempts, view, threads,
                   recorder, cancelled>>

\* The future that drives the build is dropped.  Before the grant the blocking
\* task goes on alone; afterwards kill_on_drop ends the child, then the permit
\* is dropped.  A queued recorder task stays queued.
Cancel(b) ==
    /\ "cancel" \in Faults /\ Runs(b)
    /\ \/ /\ phase[b] \in {"naming", "scanned", "waiting"}
          /\ b \notin cancelled
          /\ cancelled' = cancelled \cup {b}
          /\ UNCHANGED <<phase, proc>>
       \/ /\ phase[b] \in {"granted", "running", "detached", "uncharged"}
          /\ phase' = [phase EXCEPT ![b] = AfterUse(b)]
          /\ proc' = [proc EXCEPT ![b] = IF @ = "running" THEN "exited"
                                         ELSE @]
          /\ UNCHANGED cancelled
    /\ UNCHANGED <<alive, lock, registry, file, attempts, view, threads,
                   recorder>>
-----------------------------------------------------------------------------
(***************************************************************************)
(* The environment.                                                        *)
(***************************************************************************)
\* SIGKILL: no Drop runs, the kernel closes the flock, children are orphaned.
Crash(p) ==
    /\ "crash" \in Faults /\ Cardinality(Procs \ alive) < MaxCrashes
    /\ p \in alive
    /\ alive' = alive \ {p}
    /\ lock' = IF lock \in Builds /\ Owner[lock] = p THEN NoBuild ELSE lock
    /\ phase' = [b \in Builds |-> IF Owner[b] = p THEN "dead" ELSE phase[b]]
    /\ view' = [b \in Builds |-> IF Owner[b] = p THEN NoView ELSE view[b]]
    /\ recorder' = [b \in Builds |->
                      IF Owner[b] = p /\ recorder[b] = "queued" THEN "failed"
                      ELSE recorder[b]]
    /\ UNCHANGED <<registry, file, attempts, threads, proc, cancelled>>

\* LEASE_STALE_AFTER has passed since the last refresh of a lease.
Age(f) ==
    /\ f \in leases \ aged
    /\ aged' = aged \cup {f}
    /\ UNCHANGED <<alive, lock, leases, granted, child, phase, file, attempts,
                   view, threads, consumer, cancelled>>

\* Nothing left to do: every build has ended and every lease is gone or old.
Done ==
    /\ \A b \in Builds :
         /\ \/ phase[b] \in {"released", "leaked", "ended", "dead"}
            \/ phase[b] = "detached" /\ b \in cancelled
         /\ proc[b] # "running"
    /\ UNCHANGED vars

Pass(b) ==
    \/ \E n \in Nonces : Collide(b, n) \/ ScanFirst(b, n)
    \/ ScanAgain(b)

Next ==
    \/ \E b \in Builds :
         \/ Start(b) \/ StartDetached(b)
         \/ Pass(b)
         \/ Wait(b) \/ Admit(b)
         \/ PassFails(b) \/ PruneFails(b) \/ Rollback(b)
         \/ Spawn(b) \/ SpawnFails(b)
         \/ RecordChild(b) \/ RecordChildFails(b)
         \/ ChildExits(b)
         \/ EndUncharged(b)
         \/ Release(b) \/ ReleaseFails(b)
         \/ Cancel(b)
    \/ \E p \in Procs : Crash(p)
    \/ \E f \in Files : Age(f)
    \/ Done

Spec == Init /\ [][Next]_vars

(***************************************************************************)
(* A blocked flock call is woken when the holder leaves and every poll     *)
(* sleeps before it competes again, so whoever keeps asking for the lock   *)
(* gets it: strong fairness.  What runs without the lock is a running      *)
(* thread: weak fairness.  Children end, and time passes.                  *)
(***************************************************************************)
Fairness ==
    /\ \A b \in Builds :
         /\ SF_vars(Pass(b) \/ Rollback(b) \/ Release(b))
         /\ SF_vars(RecordChild(b))
         /\ WF_vars(Wait(b) \/ Admit(b))
         /\ WF_vars(Spawn(b) \/ SpawnFails(b))
         /\ WF_vars(ChildExits(b)) /\ WF_vars(EndUncharged(b))
    /\ \A f \in Files : WF_vars(Age(f))

FairSpec == Spec /\ Fairness
-----------------------------------------------------------------------------
(***************************************************************************)
(* Properties.                                                             *)
(***************************************************************************)
\* The sum of the coordinated grants in the registry never exceeds the budget
\* (the module comment of thread_budget.rs), whoever computed the grants and
\* whatever crashed, was cancelled or was pruned in between.
BudgetRespected == Used(granted) <= MaxBudget

\* The children that compress under a lease and whose lease can be told to be
\* in use: their backend lives, or their identity reached the lease.  The
\* child of a detached permit (phase "uncharged") is none of them.
Coordinated ==
    {b \in Builds : /\ proc[b] = "running" /\ recorder[b] # "none"
                    /\ Runs(b) \/ recorder[b] = "recorded"}

\* A coordinated child is charged with exactly the threads it was told to use:
\* no pass of another build, release of another lease or passage of time takes
\* its tokens away (lease_is_live, the comment on kill_on_drop in the callers).
RunningChildrenCharged ==
    \A b \in Coordinated :
        file[b] \in leases /\ granted[file[b]] = threads[b]

\* No lease outlives its release: a lease file belongs to exactly one build,
\* which has not given it back; a late child update never recreates it
\* (update_child_identity).
LeasesAreOwned ==
    \A f \in leases : \E b \in Builds :
        /\ file[b] = f
        /\ phase[b] \notin {"idle", "naming", "released"}
        /\ \A c \in Builds : file[c] = f => c = b \/ phase[c] \notin
               {"scanned", "waiting", "granted", "running", "releasing"}

\* A new grant fits into the budget of the process that makes it, beside all
\* grants that are in the registry at that moment (registry_admission_pass).
NewGrantFits ==
    [][\A b \in Builds :
           phase[b] = "scanned" /\ granted[file[b]] = 0
             /\ granted'[file[b]] > 0
               => Used(granted') <= Budget[b]]_vars

\* The grants behave as a pool of MaxBudget tokens: a grant never changes and
\* only free tokens are granted.
TokenPoolSpec == Pool!Spec

\* Without registry failures every acquisition that starts comes to a grant,
\* unless its process dies: expired leases of dead processes are reclaimed and
\* a build always gets at least one free thread, however many are waiting.
AcquireTerminates ==
    \A b \in Builds :
        phase[b] = "naming"
            ~> phase[b] \notin {"naming", "scanned", "waiting", "rollback"}

\* Without registry failures no token is lost for good: a build that has ended
\* in a living process leaves no lease behind.
LeasesAreReturned ==
    \A b \in Builds :
        phase[b] = "granted" ~> (Runs(b) => file[b] \notin leases)
=============================================================================
