------------------------------- MODULE Repair -------------------------------
(***************************************************************************)
(* The activation repair: `retread install` (run of src/src/installer.rs   *)
(* over src/src/repair.rs) and the guard of src/src/recipe.rs that runs it *)
(* on every activation.                                                    *)
(*                                                                         *)
(* The wheels of a bundle are replayed into an environment by uv, which    *)
(* first removes every distribution and then installs them again, and can  *)
(* fail or die at any step of it.  A marker with the digest of the lock    *)
(* says that the payload was verified; a state file says that a replay is  *)
(* running, was killed or failed; a log beside it counts the replays and   *)
(* keeps the set that was missing when the last one was asked for.         *)
(*                                                                         *)
(* Bundles share the environment and may share distributions.  A lock pins *)
(* all of its distributions at a version that is its own digest.           *)
(***************************************************************************)
EXTENDS Naturals, FiniteSets

CONSTANTS
    Procs,          \* processes that activate the environment
    Bundles, Dists,
    Locked,         \* the distributions each bundle's lock names
    None,           \* nobody
    Direct,         \* installs are also run by hand
    MaxAttempts,    \* MAX_REPAIR_ATTEMPTS
    MaxDigest,      \* bound: locks of a bundle
    MaxTroubles     \* bound: steps that fail, processes that die and changes
                    \* to the environment from outside

ASSUME RepairAssumption ==
    /\ Locked \in [Bundles -> SUBSET Dists]
    /\ \A b \in Bundles : Locked[b] # {}
    /\ None \notin Procs
    /\ Direct \in BOOLEAN
    /\ MaxAttempts \in Nat \ {0} /\ MaxDigest \in Nat \ {0}
    /\ MaxTroubles \in Nat

VARIABLES
    digest,     \* the lock each bundle has
    marker,     \* the lock the bundle's marker is for, 0 without one
    audited,    \* the bundles whose marker has an audit that still holds
    state,      \* the bundle's state file
    refusal,    \* the lock of a refusal in it, 0 for none
    sentinel,   \* the bundle's .broken file: none, young or old
    attempts,   \* attempts in the repair log, up to the cap
    trigger,    \* the last set recorded as missing
    info,       \* the version a distribution's metadata has, 0 without any
    files,      \* its files, as they are
    bytecode,   \* the distributions with bytecode no RECORD lists
    installLock, uvLock,
    pc, bundle, guarded, want, distrusted, granted, inventory, \* of a process
    doomed, wanted, aborts,     \* of its uv
    open,       \* the bundles whose last replay has not been verified
    settled,    \* the bundles with a replay verified since their trigger
    troubles

trust == <<marker, audited, state, refusal, sentinel>>
log == <<attempts, trigger>>
site == <<info, files, bytecode>>
locks == <<installLock, uvLock>>
call == <<guarded, want, distrusted, granted, inventory>>
uv == <<doomed, wanted, aborts>>
history == <<open, settled>>
vars == <<digest, trust, log, site, locks, pc, bundle, call, uv, history,
          troubles>>

Digests == 1..MaxDigest
Foreign == MaxDigest + 1        \* a version no lock pins
Versions == 0..Foreign
NoTrigger == {Foreign}          \* no set of distributions
Steps == {"idle", "refusal", "clear", "read", "fast", "lock", "decide",
          "prepare", "uvLock", "mark", "start", "uv", "rollback", "markBroken",
          "check", "certify", "clean", "shellOk", "shellFail"}
Replaying == {"mark", "start", "uv", "rollback", "markBroken", "check",
              "certify", "clean"}

TypeOK ==
    /\ digest \in [Bundles -> Digests]
    /\ marker \in [Bundles -> 0..MaxDigest]
    /\ audited \subseteq Bundles
    /\ state \in [Bundles -> {"none", "repairing", "broken"}]
    /\ refusal \in [Bundles -> 0..MaxDigest]
    /\ \A b \in Bundles : refusal[b] # 0 => state[b] = "broken"
    /\ sentinel \in [Bundles -> {"none", "young", "old"}]
    /\ attempts \in [Bundles -> 0..MaxAttempts]
    /\ trigger \in [Bundles -> (SUBSET Dists) \cup {NoTrigger}]
    /\ info \in [Dists -> Versions]
    /\ files \in [Dists -> {"none", "part", "cut", "whole"}]
    /\ bytecode \subseteq Dists
    /\ installLock \in [Bundles -> Procs \cup {None}]
    /\ uvLock \in Procs \cup {None}
    /\ pc \in [Procs -> Steps]
    /\ bundle \in [Procs -> Bundles]
    /\ guarded \subseteq Procs /\ distrusted \subseteq Procs
    /\ granted \subseteq Procs /\ aborts \subseteq Procs
    /\ want \in [Procs -> 0..MaxDigest]
    /\ inventory \in [Procs -> [Dists -> Versions]]
    /\ doomed \in [Procs -> SUBSET Dists]
    /\ wanted \in [Procs -> SUBSET Dists]
    /\ open \subseteq Bundles /\ settled \subseteq Bundles
    /\ troubles \in 0..MaxTroubles

\* An environment in which conda has put the locks, and which has the payload,
\* or other versions of it, or nothing.
Init ==
    /\ digest = [b \in Bundles |-> 1]
    /\ \/ /\ marker = [b \in Bundles |-> 0] /\ audited = {}
          /\ \/ /\ info = [d \in Dists |-> 0]
                /\ files = [d \in Dists |-> "none"]
             \/ /\ info = [d \in Dists |-> Foreign]
                /\ files = [d \in Dists |-> "whole"]
       \/ /\ marker = [b \in Bundles |-> 1] /\ audited = Bundles
          /\ info = [d \in Dists |-> 1]
          /\ files = [d \in Dists |-> "whole"]
    /\ bytecode = {}
    /\ state = [b \in Bundles |-> "none"]
    /\ refusal = [b \in Bundles |-> 0]
    /\ sentinel = [b \in Bundles |-> "none"]
    /\ attempts = [b \in Bundles |-> 0]
    /\ trigger = [b \in Bundles |-> NoTrigger]
    /\ installLock = [b \in Bundles |-> None] /\ uvLock = None
    /\ pc = [p \in Procs |-> "idle"]
    /\ bundle \in [Procs -> Bundles]
    /\ guarded = {} /\ distrusted = {} /\ granted = {} /\ aborts = {}
    /\ want = [p \in Procs |-> 0]
    /\ inventory = [p \in Procs |-> [d \in Dists |-> 0]]
    /\ doomed = [p \in Procs |-> {}] /\ wanted = [p \in Procs |-> {}]
    /\ open = {} /\ settled = {}
    /\ troubles = 0
-----------------------------------------------------------------------------
(***************************************************************************)
(* What the readers of the environment see.                                *)
(***************************************************************************)
Go(p, s) == pc' = [pc EXCEPT ![p] = s]
Mine(p) == bundle[p]

\* missing_after_exemptions: the locked distributions that are not there at
\* the locked version.
Missing(b, v) == {d \in Locked[b] : info[d] # v}

\* verify_record_payload: the files are looked for, not read.
Verified(b, v) ==
    Missing(b, v) = {} /\ \A d \in Locked[b] : files[d] \in {"cut", "whole"}

\* verify, as the guard runs it: the state file, the marker, the payload and
\* the audit.
Healthy(b) ==
    /\ state[b] = "none" /\ marker[b] = digest[b]
    /\ Verified(b, digest[b])
    /\ b \in audited

\* Mutant: the refusal stays in the state file that is written anew.
MarkStateBelow(b, s, r) ==
    /\ state' = [state EXCEPT ![b] = s]
    /\ refusal' = IF r = 0 THEN refusal ELSE [refusal EXCEPT ![b] = r]
    /\ sentinel' =
        CASE s = "none" -> [sentinel EXCEPT ![b] = "none"]
          [] s = "broken" /\ sentinel[b] = "none" ->
                [sentinel EXCEPT ![b] = "young"]
          [] OTHER -> sentinel

\* mark_state
MarkState(b, s, r) ==
    /\ state' = [state EXCEPT ![b] = s]
    /\ refusal' = [refusal EXCEPT ![b] = r]
    /\ sentinel' =
        CASE s = "none" -> [sentinel EXCEPT ![b] = "none"]
          [] s = "broken" /\ sentinel[b] = "none" ->
                [sentinel EXCEPT ![b] = "young"]
          [] OTHER -> sentinel

\* A process returns: its locks are dropped, and the guard goes on.
Release(p) ==
    /\ installLock' = [b \in Bundles |-> IF installLock[b] = p THEN None
                                         ELSE installLock[b]]
    /\ uvLock' = IF uvLock = p THEN None ELSE uvLock
    /\ distrusted' = distrusted \ {p} /\ granted' = granted \ {p}
    /\ aborts' = aborts \ {p}
    /\ want' = [want EXCEPT ![p] = 0]
    /\ inventory' = [inventory EXCEPT ![p] = [d \in Dists |-> 0]]
    /\ doomed' = [doomed EXCEPT ![p] = {}]
    /\ wanted' = [wanted EXCEPT ![p] = {}]

Succeed(p) ==
    /\ Go(p, IF p \in guarded THEN "shellOk" ELSE "idle")
    /\ Release(p)
Fail(p) ==
    /\ Go(p, IF p \in guarded THEN "shellFail" ELSE "idle")
    /\ Release(p)

\* Something goes wrong.
Trouble == troubles < MaxTroubles /\ troubles' = troubles + 1
-----------------------------------------------------------------------------
(***************************************************************************)
(* The guard and the install up to the replay.                             *)
(***************************************************************************)
\* The guard installs when the bundle does not verify and did not fail within
\* the last 300 seconds; a user may install at any time.
Activate(p) ==
    /\ pc[p] = "idle"
    /\ \/ /\ sentinel[Mine(p)] # "young" /\ ~Healthy(Mine(p))
          /\ guarded' = guarded \cup {p}
       \/ Direct /\ UNCHANGED guarded
    /\ want' = [want EXCEPT ![p] = digest[Mine(p)]]
    /\ Go(p, "refusal")
    /\ UNCHANGED <<digest, trust, log, site, locks, bundle, distrusted,
                   granted, inventory, uv, history, troubles>>

ReadRefusal(p) ==
    /\ pc[p] = "refusal"
    /\ IF refusal[Mine(p)] = want[p] THEN Fail(p) /\ UNCHANGED guarded
       ELSE /\ Go(p, IF refusal[Mine(p)] = 0 THEN "read" ELSE "clear")
            /\ UNCHANGED <<locks, call, uv>>
    /\ UNCHANGED <<digest, trust, log, site, bundle, history, troubles>>

\* clear_refusal removes both files, whatever they hold by now.
ClearRefusal(p) ==
    /\ pc[p] = "clear"
    /\ MarkState(Mine(p), "none", 0)
    /\ Go(p, "read")
    /\ UNCHANGED <<digest, marker, audited, log, site, locks, bundle, call, uv,
                   history, troubles>>

ReadState(p) ==
    /\ pc[p] = "read"
    /\ distrusted' = IF state[Mine(p)] # "none" \/ sentinel[Mine(p)] # "none"
                     THEN distrusted \cup {p} ELSE distrusted
    /\ Go(p, "fast")
    /\ UNCHANGED <<digest, trust, log, site, locks, bundle, guarded, want,
                   granted, inventory, uv, history, troubles>>

\* What was read of the state before the lock counts after it, too.
Current(p) == p \notin distrusted /\ marker[Mine(p)] = want[p]
Sound(p) == Verified(Mine(p), want[p]) /\ Mine(p) \in audited

FastPath(p) ==
    /\ pc[p] = "fast"
    /\ IF Current(p) /\ Sound(p) THEN Succeed(p) /\ UNCHANGED guarded
       ELSE Go(p, "lock") /\ UNCHANGED <<locks, call, uv>>
    /\ UNCHANGED <<digest, trust, log, site, bundle, history, troubles>>

\* Mutant: installs of a bundle do not wait for each other.
TakeNoInstallLock(p) ==
    /\ pc[p] = "lock"
    /\ installLock' = [installLock EXCEPT ![Mine(p)] = p]
    /\ Go(p, "decide")
    /\ UNCHANGED <<digest, trust, log, site, uvLock, bundle, call, uv, history,
                   troubles>>

TakeInstallLock(p) ==
    /\ pc[p] = "lock" /\ installLock[Mine(p)] = None
    /\ installLock' = [installLock EXCEPT ![Mine(p)] = p]
    /\ Go(p, "decide")
    /\ UNCHANGED <<digest, trust, log, site, uvLock, bundle, call, uv, history,
                   troubles>>

\* The double check that needs no replay: the payload is there, or only its
\* audit has to be made again.
KeepPayload(p) ==
    /\ pc[p] = "decide" /\ Current(p) /\ Verified(Mine(p), want[p])
    /\ IF Mine(p) \in audited
       THEN Succeed(p) /\ UNCHANGED <<audited, sentinel, troubles>>
       ELSE \/ /\ audited' = audited \cup {Mine(p)}
               /\ sentinel' = [sentinel EXCEPT ![Mine(p)] = "none"]
               /\ Succeed(p) /\ UNCHANGED troubles
            \/ Trouble /\ Fail(p) /\ UNCHANGED <<audited, sentinel>>
    /\ UNCHANGED <<digest, marker, state, refusal, log, site, bundle, guarded,
                   history>>

\* decide_repair
Diverges(p) ==
    /\ Missing(Mine(p), want[p]) # {}
    /\ Missing(Mine(p), want[p]) = trigger[Mine(p)]
Refused(p) == attempts[Mine(p)] = MaxAttempts \/ Diverges(p)

\* refuse_repair
Refuse(p) ==
    /\ pc[p] = "decide" /\ Current(p) /\ ~Verified(Mine(p), want[p])
    /\ Refused(p)
    /\ MarkState(Mine(p), "broken", want[p])
    /\ Fail(p)
    /\ UNCHANGED <<digest, marker, audited, log, site, bundle, guarded,
                   history, troubles>>

Grant(p) ==
    /\ pc[p] = "decide" /\ Current(p) /\ ~Verified(Mine(p), want[p])
    /\ ~Refused(p)
    /\ trigger' = [trigger EXCEPT ![Mine(p)] = Missing(Mine(p), want[p])]
    /\ settled' = settled \ {Mine(p)}
    /\ granted' = granted \cup {p}
    /\ Go(p, "prepare")
    /\ UNCHANGED <<digest, trust, attempts, site, locks, bundle, guarded, want,
                   distrusted, inventory, uv, open, troubles>>

\* Without a marker that can be trusted nothing is asked.
Replay(p) ==
    /\ pc[p] = "decide" /\ ~Current(p)
    /\ Go(p, "prepare")
    /\ UNCHANGED <<digest, trust, log, site, locks, bundle, call, uv, history,
                   troubles>>

\* materialize_locked_wheels and what goes before it may fail, then the
\* inventory is taken and the bytecode removed: prepare_transaction.
Prepare(p) ==
    /\ pc[p] = "prepare"
    /\ \/ /\ inventory' = [inventory EXCEPT ![p] =
                [d \in Dists |-> IF d \in Locked[Mine(p)] THEN info[d] ELSE 0]]
          /\ bytecode' = {d \in bytecode : inventory'[p][d] = 0}
          /\ Go(p, "uvLock")
          /\ UNCHANGED <<locks, want, distrusted, granted, uv, troubles>>
       \/ Trouble /\ Fail(p) /\ UNCHANGED bytecode
    /\ UNCHANGED <<digest, trust, log, info, files, bundle, guarded, history>>
-----------------------------------------------------------------------------
(***************************************************************************)
(* The replay.                                                             *)
(***************************************************************************)
\* Mutant: the replays of two bundles overlap.
BeginUnlockedAttempt(p) ==
    /\ pc[p] = "uvLock"
    /\ uvLock' = p
    /\ attempts' = [attempts EXCEPT ![Mine(p)] =
                        IF @ = MaxAttempts THEN @ ELSE @ + 1]
    /\ Go(p, "mark")
    /\ UNCHANGED <<digest, trust, trigger, site, installLock, bundle, call, uv,
                   history, troubles>>

BeginAttempt(p) ==
    /\ pc[p] = "uvLock" /\ uvLock = None
    /\ uvLock' = p
    /\ attempts' = [attempts EXCEPT ![Mine(p)] =
                        IF @ = MaxAttempts THEN @ ELSE @ + 1]
    /\ Go(p, "mark")
    /\ UNCHANGED <<digest, trust, trigger, site, installLock, bundle, call, uv,
                   history, troubles>>

\* Mutant: the state file is only written when the replay has failed.
MarkNothing(p) ==
    /\ pc[p] = "mark"
    /\ Go(p, "start")
    /\ UNCHANGED <<digest, trust, log, site, locks, bundle, call, uv, history,
                   troubles>>

MarkRepairing(p) ==
    /\ pc[p] = "mark"
    /\ MarkState(Mine(p), "repairing", 0)
    /\ Go(p, "start")
    /\ UNCHANGED <<digest, marker, audited, log, site, locks, bundle, call, uv,
                   history, troubles>>

\* uv does not start, or refuses the platform tag of a wheel for which nothing
\* is declared; or it starts to replay.
StartUv(p) ==
    /\ pc[p] = "start"
    /\ \/ /\ doomed' = [doomed EXCEPT ![p] =
                            {d \in Locked[Mine(p)] : info[d] # 0}]
          /\ wanted' = [wanted EXCEPT ![p] = Locked[Mine(p)]]
          /\ open' = open \cup {Mine(p)}
          /\ Go(p, "uv")
          /\ UNCHANGED <<locks, call, aborts, troubles>>
       \/ Trouble /\ Fail(p) /\ UNCHANGED <<guarded, open>>
    /\ UNCHANGED <<digest, trust, log, site, bundle, settled>>

\* uv deletes the files a RECORD lists.
UvTear(p, d) ==
    /\ pc[p] = "uv" /\ d \in doomed[p] /\ files[d] \in {"cut", "whole"}
    /\ files' = [files EXCEPT ![d] = "part"]
    /\ UNCHANGED <<digest, trust, log, info, bytecode, locks, pc, bundle, call,
                   uv, history, troubles>>

\* Then the metadata and the directories go; one that still holds bytecode
\* stays, and uv gives up before it installs.
UvDrop(p, d) ==
    /\ pc[p] = "uv" /\ d \in doomed[p] /\ files[d] \in {"none", "part"}
    /\ info' = [info EXCEPT ![d] = 0]
    /\ files' = [files EXCEPT ![d] = IF d \in bytecode THEN "part" ELSE "none"]
    /\ doomed' = [doomed EXCEPT ![p] = @ \ {d}]
    /\ aborts' = IF d \in bytecode THEN aborts \cup {p} ELSE aborts
    /\ UNCHANGED <<digest, trust, log, bytecode, locks, pc, bundle, call,
                   wanted, history, troubles>>

Installing(p) == pc[p] = "uv" /\ doomed[p] = {} /\ p \notin aborts

\* uv copies a wheel: every name is there before every byte is.
UvUnpack(p, d) ==
    /\ Installing(p) /\ d \in wanted[p]
    /\ info[d] # want[p] \/ files[d] \in {"none", "part"}
    /\ info' = [info EXCEPT ![d] = want[p]]
    /\ files' = [files EXCEPT ![d] = "cut"]
    /\ UNCHANGED <<digest, trust, log, bytecode, locks, pc, bundle, call, uv,
                   history, troubles>>

UvInstall(p, d) ==
    /\ Installing(p) /\ d \in wanted[p]
    /\ info[d] = want[p] /\ files[d] \in {"cut", "whole"}
    /\ files' = [files EXCEPT ![d] = "whole"]
    /\ wanted' = [wanted EXCEPT ![p] = @ \ {d}]
    /\ UNCHANGED <<digest, trust, log, info, bytecode, locks, pc, bundle, call,
                   doomed, aborts, history, troubles>>

UvExits(p) ==
    /\ Installing(p) /\ wanted[p] = {}
    /\ Go(p, "check")
    /\ UNCHANGED <<digest, trust, log, site, locks, bundle, call, uv, history,
                   troubles>>

UvFails(p) ==
    /\ pc[p] = "uv"
    /\ \/ doomed[p] = {} /\ p \in aborts /\ UNCHANGED troubles
       \/ Trouble
    /\ Go(p, "rollback")
    /\ UNCHANGED <<digest, trust, log, site, locks, bundle, call, uv, history>>
-----------------------------------------------------------------------------
(***************************************************************************)
(* The end of the replay.                                                  *)
(***************************************************************************)
\* rollback_half_removed: what was in the inventory and has lost the metadata
\* it had there loses its directories.
Orphans(p) == {d \in Dists : inventory[p][d] # 0 /\ info[d] # inventory[p][d]}

\* Mutant: nothing is rolled back.
RollBackNothing(p) ==
    /\ pc[p] = "rollback"
    /\ Go(p, "markBroken")
    /\ UNCHANGED <<digest, trust, log, site, locks, bundle, call, uv, history,
                   troubles>>

RollBack(p) ==
    /\ pc[p] = "rollback"
    /\ files' = [d \in Dists |-> IF d \in Orphans(p) THEN "none" ELSE files[d]]
    /\ bytecode' = bytecode \ Orphans(p)
    /\ Go(p, "markBroken")
    /\ UNCHANGED <<digest, trust, log, info, locks, bundle, call, uv, history,
                   troubles>>

MarkBroken(p) ==
    /\ pc[p] = "markBroken"
    /\ MarkState(Mine(p), "broken", 0)
    /\ Fail(p)
    /\ UNCHANGED <<digest, marker, audited, log, site, bundle, guarded,
                   history, troubles>>

\* fail_post_verify: nothing is rolled back.
FailPostVerify(p) ==
    /\ MarkState(Mine(p), "broken", 0)
    /\ Fail(p)
    /\ UNCHANGED <<marker, audited, guarded, history>>

\* finish_repair: the payload is verified and audited,
Check(p) ==
    /\ pc[p] = "check"
    /\ \/ /\ Verified(Mine(p), want[p])
          /\ open' = open \ {Mine(p)}
          /\ Go(p, "certify")
          /\ UNCHANGED <<trust, locks, call, uv, settled, troubles>>
       \/ /\ \/ ~Verified(Mine(p), want[p]) /\ UNCHANGED troubles
             \/ Trouble
          /\ FailPostVerify(p)
    /\ UNCHANGED <<digest, log, site, bundle>>

\* the marker is replaced,
Certify(p) ==
    /\ pc[p] = "certify"
    /\ \/ /\ marker' = [marker EXCEPT ![Mine(p)] = want[p]]
          /\ audited' = audited \cup {Mine(p)}
          /\ settled' = settled \cup {Mine(p)}
          /\ Go(p, "clean")
          /\ UNCHANGED <<state, refusal, sentinel, locks, call, uv, open,
                         troubles>>
       \/ Trouble /\ FailPostVerify(p)
    /\ UNCHANGED <<digest, log, site, bundle>>

\* and the state file and the sentinel are removed.
Clean(p) ==
    /\ pc[p] = "clean"
    /\ MarkState(Mine(p), "none", 0)
    /\ Succeed(p)
    /\ UNCHANGED <<digest, marker, audited, log, site, bundle, guarded,
                   history, troubles>>

\* The guard removes the sentinel, or writes it.
GuardEnds(p) ==
    /\ pc[p] \in {"shellOk", "shellFail"}
    /\ sentinel' = [sentinel EXCEPT ![Mine(p)] =
                        IF pc[p] = "shellOk" THEN "none" ELSE "young"]
    /\ guarded' = guarded \ {p}
    /\ Go(p, "idle")
    /\ UNCHANGED <<digest, marker, audited, state, refusal, log, site, locks,
                   bundle, want, distrusted, granted, inventory, uv, history,
                   troubles>>
-----------------------------------------------------------------------------
(***************************************************************************)
(* The environment.                                                        *)
(***************************************************************************)
\* The process and its uv die, and the kernel drops its locks; the guard dies
\* with it, or sees it fail.
Dies(p) ==
    /\ Trouble
    /\ pc[p] \notin {"idle", "shellOk", "shellFail"}
    /\ \/ Fail(p) /\ UNCHANGED guarded
       \/ /\ p \in guarded /\ guarded' = guarded \ {p}
          /\ Go(p, "idle") /\ Release(p)
    /\ UNCHANGED <<digest, trust, log, site, bundle, history>>

\* A new build of the bundle is linked.
LockChanges(b) ==
    /\ digest[b] < MaxDigest /\ Trouble
    /\ digest' = [digest EXCEPT ![b] = @ + 1]
    /\ UNCHANGED <<trust, log, site, locks, pc, bundle, call, uv, history>>

\* The environment's own packages are installed over those of the bundle, or
\* the payload is wiped, or the host changes under the audit.
Overwritten(d) ==
    /\ Trouble
    /\ info' = [info EXCEPT ![d] = Foreign]
    /\ files' = [files EXCEPT ![d] = "whole"]
    /\ UNCHANGED <<digest, trust, log, bytecode, locks, pc, bundle, call, uv,
                   history>>
Wiped ==
    /\ Trouble
    /\ info' = [d \in Dists |-> 0]
    /\ files' = [d \in Dists |-> "none"] /\ bytecode' = {}
    /\ UNCHANGED <<digest, trust, log, locks, pc, bundle, call, uv, history>>
AuditLapses(b) ==
    /\ Trouble /\ b \in audited
    /\ audited' = audited \ {b}
    /\ UNCHANGED <<digest, marker, state, refusal, sentinel, log, site, locks,
                   pc, bundle, call, uv, history>>

\* A program imports the distribution.
Import(d) ==
    /\ Trouble
    /\ files[d] = "whole" /\ d \notin bytecode
    /\ bytecode' = bytecode \cup {d}
    /\ UNCHANGED <<digest, trust, log, info, files, locks, pc, bundle, call,
                   uv, history>>

\* 300 seconds pass.
SentinelAges(b) ==
    /\ sentinel[b] = "young"
    /\ sentinel' = [sentinel EXCEPT ![b] = "old"]
    /\ UNCHANGED <<digest, marker, audited, state, refusal, log, site, locks,
                   pc, bundle, call, uv, history, troubles>>

\* Nobody activates the environment.
Rest == (\A p \in Procs : pc[p] = "idle") /\ UNCHANGED vars

UvStep(p) ==
    \/ \E d \in Dists : UvTear(p, d) \/ UvDrop(p, d) \/ UvUnpack(p, d)
                        \/ UvInstall(p, d)
    \/ UvExits(p) \/ UvFails(p)
Step(p) ==
    \/ ReadRefusal(p) \/ ClearRefusal(p) \/ ReadState(p) \/ FastPath(p)
    \/ TakeInstallLock(p) \/ KeepPayload(p) \/ Refuse(p) \/ Grant(p)
    \/ Replay(p) \/ Prepare(p) \/ BeginAttempt(p) \/ MarkRepairing(p)
    \/ StartUv(p) \/ UvStep(p) \/ RollBack(p) \/ MarkBroken(p) \/ Check(p)
    \/ Certify(p) \/ Clean(p) \/ GuardEnds(p)

Next ==
    \/ \E p \in Procs : Activate(p) \/ Step(p) \/ Dies(p)
    \/ \E b \in Bundles : LockChanges(b) \/ AuditLapses(b) \/ SentinelAges(b)
    \/ \E d \in Dists : Overwritten(d) \/ Import(d)
    \/ Wiped
    \/ Rest

Spec == Init /\ [][Next]_vars
-----------------------------------------------------------------------------
(***************************************************************************)
(* Properties.                                                             *)
(***************************************************************************)
\* A replay that has begun and has not been verified, because it is running or
\* was killed or has failed, is never taken for a finished one: neither the
\* guard nor an install finds a marker for the lock without a state file that
\* contradicts it.  Nothing else tells a torn copy from a whole one.  This
\* holds until the bundle is rebuilt: a process that is about to clear the
\* refusal of an earlier lock clears whatever the file holds by then.
UnfinishedReplaysAreDistrusted ==
    \A b \in open : digest[b] = 1 => state[b] # "none" \/ marker[b] # 1

\* uv runs once at a time in the environment, whichever bundles are installed.
ReplaysAreSerial ==
    \A p, q \in Procs : pc[p] \in Replaying /\ pc[q] \in Replaying => p = q

\* A replay that the budget has granted begins while the budget lasts, although
\* it waits for the replays of other bundles in between.
GrantsAreWithinBudget ==
    \A p \in granted :
        pc[p] \in {"prepare", "uvLock"} => attempts[Mine(p)] < MaxAttempts

\* When a failed replay is recorded, what it found installed is owned by some
\* metadata or gone, never an empty namespace package.
RolledBackIsOwnedOrAbsent ==
    \A p \in Procs : pc[p] = "markBroken" =>
        \A d \in Dists :
            inventory[p][d] # 0 => info[d] # 0 \/ files[d] = "none"

\* A repair is refused as divergent only when a replay was completed since the
\* set was recorded, which is what the refusal says.
DivergenceFollowsAReplay ==
    [][\A p \in Procs : Refuse(p) /\ attempts[Mine(p)] < MaxAttempts
                            => Mine(p) \in settled]_vars
=============================================================================
