----------------------------- MODULE WheelStore -----------------------------
(***************************************************************************)
(* One entry of the shared content-addressed wheel store of                *)
(* src/src/wheel.rs: the wheel, its integrity marker, and the fill lock    *)
(* that makes concurrent fetchers of one wheel wait for the first.         *)
(*                                                                         *)
(* Backend processes on several hosts fetch the wheel, persist a wheel     *)
(* they have built, look the entry up, or take an abandoned fill lock      *)
(* over.  A file is an inode under a path: a rename replaces the inode,    *)
(* and a flock belongs to the inode, not to the path it was opened by.     *)
(*                                                                         *)
(* Every file system call that another process can come before or after    *)
(* is a step of its own.                                                   *)
(***************************************************************************)
EXTENDS Naturals, FiniteSets

CONSTANTS
    Clients,        \* processes, each with one operation on the entry
    Role,           \* Role[c]: the operations c may be asked for
    Host,           \* Host[c]: the node c runs on
    Wheels,         \* inodes of the wheel file
    Locks,          \* inodes of the fill-lock file
    None,           \* no inode, no process
    MaxTouches,     \* bound: how often the mtime of an inode moves
    Starts,         \* what is in the entry at first
    Faults          \* what the environment does

Roles == {"fetch", "persist", "lookup", "retry"}
StartKinds == {"absent", "abandoned", "good", "attested", "empty", "bad"}
FaultKinds == {"crash", "lock", "network", "disk", "touch", "age", "damage"}

ASSUME StoreAssumption ==
    /\ IsFiniteSet(Clients) /\ IsFiniteSet(Wheels) /\ IsFiniteSet(Locks)
    /\ None \notin Clients \cup Wheels \cup Locks
    /\ Role \in [Clients -> SUBSET Roles]
    /\ MaxTouches \in Nat
    /\ Starts \subseteq StartKinds
    /\ Faults \subseteq FaultKinds

\* A rename or a create never runs out of inodes: there is one that nobody
\* refers to.
ASSUME InodeAssumption ==
    /\ Cardinality(Wheels) > Cardinality(Clients) + 2
    /\ Cardinality(Locks) > Cardinality(Clients)

VARIABLES
    wheel,      \* the inode at the entry's path
    bytes,      \* what each wheel inode holds
    mtime,      \* modification time of each wheel inode
    marker,     \* the fingerprint in the integrity marker
    lockPath,   \* the inode at the fill-lock path
    record,     \* the holder written into each lock inode
    aged,       \* lock inodes taken longer ago than the stale limit
    flock,      \* the process that holds the flock of each lock inode
    fd,         \* the lock inode a process has opened
    entryLock,  \* the holder of the entry lock of store_wheel_in_cache
    pc,         \* where each process stands
    at,         \* which call of inspect_store_entry it is in
    seen,       \* the fingerprint it has taken
    tries,      \* inspections of the current loop
    got         \* what the fetch delivered

store == <<wheel, bytes, mtime, marker>>
fill == <<lockPath, record, aged>>
held == <<flock, fd, entryLock>>
client == <<at, seen, tries, got>>
vars == <<store, fill, held, pc, client>>

Labels == {"idle", "inspect", "hash", "seal", "mark", "evict", "evictMarker",
           "copy", "copying", "open", "lock", "download", "publish", "entry",
           "await", "probe", "probeOpen", "probeLock", "unlink", "end",
           "dead"}
Contexts == {"first", "locked", "unlocked", "persist", "lookup", "publish"}

Fingerprints == Wheels \X (0..MaxTouches)
NoStat == <<None, 0>>
Stat == IF wheel = None THEN NoStat ELSE <<wheel, mtime[wheel]>>

TypeOK ==
    /\ wheel \in Wheels \cup {None}
    /\ bytes \in [Wheels -> {"good", "bad", "empty"}]
    /\ mtime \in [Wheels -> 0..MaxTouches]
    /\ marker \in Fingerprints \cup {NoStat}
    /\ lockPath \in Locks \cup {None}
    /\ record \in [Locks -> Clients \cup {None}]
    /\ aged \subseteq Locks
    /\ flock \in [Locks -> Clients \cup {None}]
    /\ fd \in [Clients -> Locks \cup {None}]
    /\ entryLock \in Clients \cup {None}
    /\ pc \in [Clients -> Labels]
    /\ at \in [Clients -> Contexts]
    /\ seen \in [Clients -> Fingerprints \cup {NoStat}]
    /\ tries \in [Clients -> 0..2]
    /\ got \in [Clients -> {"none", "network", "good", "bad", "empty"}]

\* What earlier backends have left in the entry: nothing, the lock of a dead
\* process that wrote no record, a wheel with or without its marker, a
\* placeholder, or a wheel with wrong bytes.
InitialEntry(start) ==
    LET w == CHOOSE i \in Wheels : TRUE
        l == CHOOSE i \in Locks : TRUE
        present == start \notin {"absent", "abandoned"}
    IN  /\ wheel = (IF present THEN w ELSE None)
        /\ bytes = [i \in Wheels |->
                      IF i = w /\ start \in {"bad", "empty"} THEN start
                      ELSE "good"]
        /\ marker = (IF start = "attested" THEN <<w, 0>> ELSE NoStat)
        /\ lockPath = (IF start \in {"absent", "attested"} THEN None ELSE l)
        /\ aged = (IF start = "abandoned" THEN {l} ELSE {})

Init ==
    /\ \E start \in Starts : InitialEntry(start)
    /\ mtime = [i \in Wheels |-> 0]
    /\ record = [i \in Locks |-> None]
    /\ flock = [i \in Locks |-> None]
    /\ fd = [c \in Clients |-> None]
    /\ entryLock = None
    /\ pc = [c \in Clients |-> "idle"]
    /\ at = [c \in Clients |-> "first"]
    /\ seen = [c \in Clients |-> NoStat]
    /\ tries = [c \in Clients |-> 0]
    /\ got = [c \in Clients |-> "none"]
-----------------------------------------------------------------------------
(***************************************************************************)
(* Control.  Leaving the operation drops its locks; the lock file stays.   *)
(***************************************************************************)
\* Mutant: the guard of the flock outlives the operation.
KeepLocks(c) == UNCHANGED held

DropLocks(c) ==
    /\ flock' = [l \in Locks |-> IF flock[l] = c THEN None ELSE flock[l]]
    /\ entryLock' = IF entryLock = c THEN None ELSE entryLock
    /\ fd' = [fd EXCEPT ![c] = None]

Goto(c, label) ==
    /\ pc' = [pc EXCEPT ![c] = label]
    /\ IF label = "end" THEN DropLocks(c) ELSE UNCHANGED held

Inspect(c, context) ==
    /\ Goto(c, "inspect")
    /\ at' = [at EXCEPT ![c] = context]
    /\ tries' = [tries EXCEPT ![c] = 1]

\* What the caller of inspect_store_entry does with each verdict.
Follow == [
    first |-> [valid |-> "copy", corrupt |-> "open", missing |-> "open",
               unstable |-> "open", error |-> "open"],
    locked |-> [valid |-> "copy", corrupt |-> "evict",
                missing |-> "download", unstable |-> "download",
                error |-> "download"],
    unlocked |-> [valid |-> "download", corrupt |-> "evict",
                  missing |-> "download", unstable |-> "download",
                  error |-> "download"],
    persist |-> [valid |-> "end", corrupt |-> "evict",
                 missing |-> "publish", unstable |-> "end",
                 error |-> "end"],
    lookup |-> [valid |-> "end", corrupt |-> "evict", missing |-> "end",
                unstable |-> "end", error |-> "end"],
    publish |-> [valid |-> "end", error |-> "end"]]

Judge(c, verdict) == Goto(c, Follow[at[c]][verdict])
AfterEviction(c) ==
    CASE at[c] = "persist" -> "publish" [] at[c] = "lookup" -> "end"
      [] OTHER -> "download"
\* Mutant: one inspection too many.
AfterFailedCopyOnceMore(c) ==
    IF tries[c] <= 2 THEN "inspect"
    ELSE IF at[c] = "first" THEN "open" ELSE "download"

AfterFailedCopy(c) ==
    IF tries[c] < 2 THEN "inspect"
    ELSE IF at[c] = "first" THEN "open" ELSE "download"

Start(c) ==
    /\ pc[c] = "idle"
    /\ \/ "fetch" \in Role[c] /\ Inspect(c, "first")
       \/ "lookup" \in Role[c] /\ Inspect(c, "lookup")
       \/ /\ "persist" \in Role[c]
          /\ Goto(c, "entry")
          /\ UNCHANGED <<at, tries>>
       \/ /\ "retry" \in Role[c]
          /\ Goto(c, "await")
          /\ UNCHANGED <<at, tries>>
    /\ UNCHANGED <<store, fill, seen, got>>
-----------------------------------------------------------------------------
(***************************************************************************)
(* Inspecting and evicting: inspect_store_entry, stable_file_sha256,       *)
(* set_store_file_readonly, write_store_integrity_marker.                  *)
(***************************************************************************)
Look(c) ==
    /\ pc[c] = "inspect"
    /\ seen' = [seen EXCEPT ![c] = Stat]
    /\ IF wheel = None THEN Judge(c, "missing")
       ELSE IF marker = Stat THEN Judge(c, "valid")
       ELSE Goto(c, "hash")
    /\ UNCHANGED <<store, fill, at, tries, got>>

HashVanished(c) ==
    /\ pc[c] = "hash" /\ wheel = None
    /\ \E verdict \in {"missing", "error"} : Judge(c, verdict)
    /\ UNCHANGED <<store, fill, client>>

\* Mutant: a window that does not settle counts as corruption.
HashUnsettledIsCorrupt(c) ==
    /\ pc[c] = "hash" /\ wheel # None /\ Stat # seen[c]
    /\ Judge(c, "corrupt")
    /\ UNCHANGED <<store, fill, client>>

\* The stat tuple has moved: hash once more, or after three attempts refuse
\* to judge.
HashUnsettled(c) ==
    /\ pc[c] = "hash" /\ wheel # None /\ Stat # seen[c]
    /\ \/ /\ seen' = [seen EXCEPT ![c] = Stat]
          /\ Goto(c, "hash")
       \/ Judge(c, "unstable") /\ UNCHANGED seen
    /\ UNCHANGED <<store, fill, at, tries, got>>

\* The digest is compared once two stats agree.
HashSettled(c) ==
    /\ pc[c] = "hash" /\ wheel # None /\ Stat = seen[c]
    /\ IF bytes[wheel] = "good" THEN Goto(c, "seal") ELSE Judge(c, "corrupt")
    /\ UNCHANGED <<store, fill, client>>

\* The fingerprint to attest is taken from the path once more.
Seal(c) ==
    /\ pc[c] = "seal"
    /\ seen' = [seen EXCEPT ![c] = Stat]
    /\ IF wheel = None THEN Judge(c, "error") ELSE Goto(c, "mark")
    /\ UNCHANGED <<store, fill, at, tries, got>>

Mark(c) ==
    /\ pc[c] = "mark"
    /\ \/ marker' = seen[c] /\ Judge(c, "valid")
       \/ "disk" \in Faults /\ Judge(c, "error") /\ UNCHANGED marker
    /\ UNCHANGED <<wheel, bytes, mtime, fill, client>>

\* quarantine_store_entry: the wheel is renamed first, then its marker,
\* whether or not that succeeded; nothing is if there is no directory for them.
Evict(c) ==
    /\ pc[c] = "evict"
    /\ \/ wheel' = None /\ Goto(c, "evictMarker")
       \/ /\ "disk" \in Faults
          /\ \E next \in {"evictMarker", AfterEviction(c)} : Goto(c, next)
          /\ UNCHANGED wheel
    /\ UNCHANGED <<bytes, mtime, marker, fill, client>>

EvictMarker(c) ==
    /\ pc[c] = "evictMarker"
    /\ \/ marker' = NoStat
       \/ "disk" \in Faults /\ UNCHANGED marker
    /\ Goto(c, AfterEviction(c))
    /\ UNCHANGED <<wheel, bytes, mtime, fill, client>>
-----------------------------------------------------------------------------
(***************************************************************************)
(* Fetching: atomic_owned_copy out of the store, the fill lock, the        *)
(* download and its publication (fetch_wheel_cached).                      *)
(***************************************************************************)
CopyFails(c) ==
    /\ Goto(c, AfterFailedCopy(c))
    /\ tries' = [tries EXCEPT ![c] =
                   IF AfterFailedCopy(c) = "inspect" THEN @ + 1 ELSE @]
    /\ UNCHANGED got

\* A source that vanishes before it is opened fails the whole fetch, as any
\* I/O error does; the caller then takes it for a race with the store.
Copy(c) ==
    /\ pc[c] = "copy"
    /\ \/ /\ Stat = seen[c]
          /\ Goto(c, "copying") /\ UNCHANGED <<tries, got>>
       \/ Stat # seen[c] /\ CopyFails(c)
       \/ /\ wheel = None \/ "disk" \in Faults
          /\ Goto(c, "end") /\ UNCHANGED <<tries, got>>
    /\ UNCHANGED <<store, fill, at, seen>>

\* Mutant: the source is not looked at again after the copy.
CopyDoneUnchecked(c) ==
    /\ pc[c] = "copying"
    /\ got' = [got EXCEPT ![c] = bytes[seen[c][1]]]
    /\ Goto(c, "end")
    /\ UNCHANGED <<store, fill, at, seen, tries>>

\* The copy is published for the consumer only if the source is unchanged.
CopyDone(c) ==
    /\ pc[c] = "copying"
    /\ \/ /\ Stat = seen[c]
          /\ got' = [got EXCEPT ![c] = bytes[wheel]]
          /\ Goto(c, "end")
          /\ UNCHANGED tries
       \/ Stat # seen[c] /\ CopyFails(c)
       \/ "disk" \in Faults /\ Goto(c, "end") /\ UNCHANGED <<tries, got>>
    /\ UNCHANGED <<store, fill, at, seen>>

Fresh(inodes, used) == CHOOSE i \in inodes : i \notin used

OpenedLocks == {fd[c] : c \in Clients} \cup {lockPath}

\* Mutant: whoever comes first to the lock clears away what is there.
OpenLockAnew(c) ==
    /\ pc[c] = "open"
    /\ \E l \in {Fresh(Locks, OpenedLocks)} :
          /\ lockPath' = l
          /\ fd' = [fd EXCEPT ![c] = l]
          /\ record' = [record EXCEPT ![l] = None]
          /\ aged' = aged \ {l}
    /\ pc' = [pc EXCEPT ![c] = "lock"]
    /\ UNCHANGED <<store, flock, entryLock, client>>

\* acquire_wheel_store_fill_lock: open or create the file, ...
OpenLock(c) ==
    /\ pc[c] = "open"
    /\ LET l == IF lockPath # None THEN lockPath
                ELSE Fresh(Locks, OpenedLocks)
       IN  /\ lockPath' = l
           /\ fd' = [fd EXCEPT ![c] = l]
           /\ IF lockPath # None THEN UNCHANGED <<record, aged>>
              ELSE record' = [record EXCEPT ![l] = None] /\ aged' = aged \ {l}
    /\ pc' = [pc EXCEPT ![c] = "lock"]
    /\ UNCHANGED <<store, flock, entryLock, client>>

\* ... wait for the flock of the inode that was opened, write who holds it,
\* and inspect the entry again.
TakeLock(c) ==
    /\ pc[c] = "lock" /\ flock[fd[c]] = None
    /\ flock' = [flock EXCEPT ![fd[c]] = c]
    /\ \E holder \in {c} \cup (IF "disk" \in Faults THEN {None} ELSE {}) :
         record' = [record EXCEPT ![fd[c]] = holder]
    /\ aged' = aged \ {fd[c]}
    /\ pc' = [pc EXCEPT ![c] = "inspect"]
    /\ at' = [at EXCEPT ![c] = "locked"]
    /\ tries' = [tries EXCEPT ![c] = 1]
    /\ UNCHANGED <<store, lockPath, fd, entryLock, seen, got>>

\* No lock, for whatever reason: go on without it.
LockFails(c) ==
    /\ pc[c] = "open" /\ "lock" \in Faults
    /\ Inspect(c, "unlocked")
    /\ UNCHANGED <<store, fill, seen, got>>

Download(c) ==
    /\ pc[c] = "download"
    /\ \/ /\ got' = [got EXCEPT ![c] = "network"]
          /\ Goto(c, "publish")
       \/ "network" \in Faults /\ Goto(c, "end") /\ UNCHANGED got
    /\ UNCHANGED <<store, fill, at, seen, tries>>

\* atomic_owned_copy into the store: verified bytes, a fresh inode, a rename.
Publish(c) ==
    /\ pc[c] = "publish"
    /\ \/ /\ wheel' = Fresh(Wheels, {wheel, marker[1]}
                                      \cup {seen[d][1] : d \in Clients})
          /\ bytes' = [bytes EXCEPT ![wheel'] = "good"]
          /\ mtime' = [mtime EXCEPT ![wheel'] = 0]
          /\ at' = [at EXCEPT ![c] = "publish"]
          /\ Goto(c, "seal")
       \/ /\ "disk" \in Faults /\ Goto(c, "end")
          /\ UNCHANGED <<wheel, bytes, mtime, at>>
    /\ UNCHANGED <<marker, fill, seen, tries, got>>

\* store_wheel_in_cache has a lock of its own.
TakeEntryLock(c) ==
    /\ pc[c] = "entry" /\ entryLock = None
    /\ entryLock' = c
    /\ pc' = [pc EXCEPT ![c] = "inspect"]
    /\ at' = [at EXCEPT ![c] = "persist"]
    /\ tries' = [tries EXCEPT ![c] = 1]
    /\ UNCHANGED <<store, fill, flock, fd, seen, got>>
-----------------------------------------------------------------------------
(***************************************************************************)
(* Taking an abandoned fill lock over: wheel_store_second_chance,          *)
(* await_wheel_store_fill, reclaim_stale_fill_lock.                        *)
(***************************************************************************)
Filled == wheel # None /\ bytes[wheel] # "empty"

\* fill_lock_holder_is_live, for the record of the lock at the path.
HolderIsLive(c) ==
    LET h == record[lockPath]
    IN  h # None /\ (Host[h] = Host[c] => pc[h] # "dead")

\* The wait ends with a wheel, or it expires.
Await(c) ==
    /\ pc[c] = "await"
    /\ IF Filled THEN Inspect(c, "first")
       ELSE Goto(c, "probe") /\ UNCHANGED <<at, tries>>
    /\ UNCHANGED <<store, fill, seen, got>>

Probe(c) ==
    /\ pc[c] = "probe"
    /\ IF ~Filled /\ lockPath \in aged /\ ~HolderIsLive(c)
       THEN Goto(c, "probeOpen")
       ELSE Goto(c, "end")
    /\ UNCHANGED <<store, fill, client>>

ProbeOpen(c) ==
    /\ pc[c] = "probeOpen"
    /\ IF lockPath = None THEN Goto(c, "end")
       ELSE /\ fd' = [fd EXCEPT ![c] = lockPath]
            /\ pc' = [pc EXCEPT ![c] = "probeLock"]
            /\ UNCHANGED <<flock, entryLock>>
    /\ UNCHANGED <<store, fill, client>>

\* Mutant: age and record decide, the flock is not tried.
ProbeWithoutLock(c) ==
    /\ pc[c] = "probeLock"
    /\ Goto(c, IF Filled THEN "end" ELSE "unlink")
    /\ UNCHANGED <<store, fill, client>>

ProbeLock(c) ==
    /\ pc[c] = "probeLock"
    /\ IF flock[fd[c]] # None \/ Filled THEN Goto(c, "end")
       ELSE /\ flock' = [flock EXCEPT ![fd[c]] = c]
            /\ pc' = [pc EXCEPT ![c] = "unlink"]
            /\ UNCHANGED <<fd, entryLock>>
    /\ UNCHANGED <<store, fill, client>>

\* Whatever is at the lock path is removed, then the fetch is tried again.
\* If another process has removed it the call fails: a miss.
Unlink(c) ==
    /\ pc[c] = "unlink"
    /\ DropLocks(c)
    /\ lockPath' = None
    /\ IF lockPath = None
       THEN pc' = [pc EXCEPT ![c] = "end"] /\ UNCHANGED <<at, tries>>
       ELSE /\ pc' = [pc EXCEPT ![c] = "inspect"]
            /\ at' = [at EXCEPT ![c] = "first"]
            /\ tries' = [tries EXCEPT ![c] = 1]
    /\ UNCHANGED <<store, record, aged, seen, got>>
-----------------------------------------------------------------------------
(***************************************************************************)
(* The environment.                                                        *)
(***************************************************************************)
Crash(c) ==
    /\ "crash" \in Faults
    /\ pc[c] \notin {"idle", "dead"}
    /\ pc' = [pc EXCEPT ![c] = "dead"]
    /\ DropLocks(c)
    /\ UNCHANGED <<store, fill, client>>

AgeLock ==
    /\ "age" \in Faults
    /\ lockPath # None
    /\ aged' = aged \cup {lockPath}
    /\ UNCHANGED <<store, lockPath, record, held, pc, client>>

\* Another program touches the wheel, or changes what it holds.
Attesting == \E c \in Clients : pc[c] \in {"seal", "mark"}
Meddle(content) ==
    /\ wheel # None /\ mtime[wheel] < MaxTouches
    /\ bytes' = [bytes EXCEPT ![wheel] = content]
    /\ mtime' = [mtime EXCEPT ![wheel] = @ + 1]
    /\ UNCHANGED <<wheel, marker, fill, held, pc, client>>
Touch == "touch" \in Faults /\ wheel # None /\ Meddle(bytes[wheel])
\* Not between the hash and the marker: what is damaged there is attested.
Damage ==
    /\ "damage" \in Faults /\ ~Attesting
    /\ Meddle("bad")

Done ==
    /\ \A c \in Clients : pc[c] \in {"end", "dead"}
    /\ UNCHANGED vars

Judging(c) ==
    \/ Look(c) \/ HashVanished(c) \/ HashUnsettled(c) \/ HashSettled(c)
    \/ Seal(c) \/ Mark(c) \/ Evict(c) \/ EvictMarker(c)
Fetching(c) ==
    \/ Copy(c) \/ CopyDone(c) \/ OpenLock(c) \/ LockFails(c) \/ Download(c)
    \/ Publish(c)
Reclaiming(c) ==
    Await(c) \/ Probe(c) \/ ProbeOpen(c) \/ ProbeLock(c) \/ Unlink(c)
Local(c) == Judging(c) \/ Fetching(c) \/ Reclaiming(c)
Waiting(c) == TakeLock(c) \/ TakeEntryLock(c)

Next ==
    \/ \E c \in Clients : Start(c) \/ Local(c) \/ Waiting(c) \/ Crash(c)
    \/ AgeLock \/ Touch \/ Damage
    \/ Done

Spec == Init /\ [][Next]_vars

\* A started operation runs on, and the kernel hands a flock to a waiter.
Fairness == \A c \in Clients : WF_vars(Local(c)) /\ SF_vars(Waiting(c))
FairSpec == Spec /\ Fairness
-----------------------------------------------------------------------------
(***************************************************************************)
(* Properties.                                                             *)
(***************************************************************************)
\* A fetch that is served from the store delivers the right bytes: neither a
\* torn, empty or damaged file nor a file exchanged during the copy is ever
\* adopted (atomic_owned_copy).  And the marker lets the next reader skip the
\* hash only over right bytes (the comment on inspect_store_entry).
OnlyRightBytes ==
    /\ \A c \in Clients : got[c] \notin {"bad", "empty"}
    /\ wheel # None /\ marker = Stat => bytes[wheel] = "good"

\* One process at a time fills the entry (the comment on
\* acquire_wheel_store_fill_lock).
FillPhases == {"inspect", "hash", "seal", "mark", "evict", "evictMarker",
               "copy", "copying", "download", "publish"}
Filling(c) == fd[c] # None /\ pc[c] \in FillPhases
OneFiller == \A c, d \in Clients : Filling(c) /\ Filling(d) => c = d

\* While no wheel file, in the entry or moved away, holds wrong bytes, the
\* entry keeps its wheel, however often its stat tuple moves and whatever
\* crashes: readers that cannot get a stable window never evict it
\* (StoreEntryState::Unstable).  After wrong bytes were there, a verdict on
\* them may still be carried out on a good wheel published since.
GoodWheelStays ==
    [][(\A i \in Wheels : bytes[i] = "good") /\ wheel # None
         => wheel' # None]_vars

\* A takeover never removes the lock file of a live filler, which "is the one
\* thing that would be worse" (the comment on reclaim_stale_fill_lock).
LiveLockStays ==
    [][lockPath # None /\ lockPath' = None
         => \A c \in Clients : flock[lockPath] = c => pc[c] = "unlink"]_vars

\* Every operation that starts comes to an end, whoever dies with the lock.
OperationsEnd ==
    \A c \in Clients : pc[c] # "idle" ~> pc[c] \in {"end", "dead"}
=============================================================================
