-------------------------- MODULE WheelStoreProofs --------------------------
(***************************************************************************)
(* Proofs about WheelStore for every number of processes, every contents   *)
(* of the entry and every combination of faults.                           *)
(***************************************************************************)
EXTENDS WheelStore, FiniteSetTheorems, TLAPS

(***************************************************************************)
(* The inductive invariant.                                                *)
(***************************************************************************)
Holds(c) == fd[c] # None /\ flock[fd[c]] = c

\* The labels of a takeover.
Takers == {"await", "probe", "probeOpen", "probeLock", "unlink"}

\* Where a process stands when it has the lock file open.
Place(c) ==
    /\ fd[c] # None =>
         \/ pc[c] \in {"lock", "probeLock"}
         \/ pc[c] = "unlink" /\ Holds(c)
         \/ pc[c] \in FillPhases /\ at[c] \in {"locked", "publish"} /\ Holds(c)
    /\ pc[c] \in {"lock", "probeLock", "unlink"} => fd[c] # None
    /\ at[c] = "publish" => pc[c] \in {"seal", "mark", "end", "dead"}
    /\ pc[c] \in {"inspect", "hash", "evict", "evictMarker", "copy", "copying"}
         => at[c] # "publish"
    /\ pc[c] \in Takers => "retry" \in Role[c]

\* A fingerprint is of the past, and as long as it is current it names right
\* bytes.
Past(f) == f[1] \in Wheels => f[2] <= mtime[f[1]]
Right(f) == f[1] \in Wheels /\ f[2] = mtime[f[1]] => bytes[f[1]] = "good"

\* What a process may conclude from the fingerprint it has taken.
Sound(c) ==
    /\ Past(seen[c])
    /\ pc[c] \in {"mark", "copy", "copying"} =>
         seen[c] \in Fingerprints /\ Right(seen[c])
    /\ pc[c] = "seal" /\ wheel # None => bytes[wheel] = "good"
    /\ pc[c] = "evict" => seen[c][1] \in Wheels /\ bytes[seen[c][1]] # "good"
    /\ got[c] \notin {"bad", "empty"}

Places == \A c \in Clients : Place(c)
Bytes == Past(marker) /\ Right(marker) /\ \A c \in Clients : Sound(c)

IInv == TypeOK /\ Places /\ Bytes

(***************************************************************************)
(* Operators of the model.                                                 *)
(***************************************************************************)
Verdicts == {"valid", "corrupt", "missing", "unstable", "error"}

\* What a verdict leads to: only a valid entry is copied, only a corrupt one
\* evicted, and only the first inspection, without the lock, goes for it.
LEMMA FollowLabels ==
    ASSUME NEW x \in Contexts \ {"publish"}, NEW v \in Verdicts
    PROVE  /\ Follow[x][v] \in {"copy", "open", "evict", "download",
                                "publish", "end"}
           /\ Follow[x][v] = "copy" => v = "valid"
           /\ Follow[x][v] = "evict" => v = "corrupt"
           /\ Follow[x][v] = "open" => x = "first"
<1>1. CASE x = "first"
  BY <1>1 DEF Follow, Verdicts
<1>2. CASE x = "locked"
  BY <1>2 DEF Follow, Verdicts
<1>3. CASE x = "unlocked"
  BY <1>3 DEF Follow, Verdicts
<1>4. CASE x = "persist"
  BY <1>4 DEF Follow, Verdicts
<1>5. CASE x = "lookup"
  BY <1>5 DEF Follow, Verdicts
<1> QED
  BY <1>1, <1>2, <1>3, <1>4, <1>5 DEF Contexts

LEMMA FollowPublish ==
    Follow["publish"]["valid"] = "end" /\ Follow["publish"]["error"] = "end"
  BY DEF Follow

LEMMA StatType ==
    ASSUME TypeOK
    PROVE  /\ Stat \in Fingerprints \cup {NoStat}
           /\ wheel # None => Stat \in Fingerprints /\ Stat = <<wheel, mtime[wheel]>>
           /\ Stat \in Fingerprints => wheel # None
           /\ NoStat \notin Fingerprints
           /\ \A f \in Fingerprints \cup {NoStat} :
                /\ f[1] \in Wheels \cup {None}
                /\ f[2] \in 0..MaxTouches
                /\ f \in Fingerprints <=> f[1] \in Wheels
  BY StoreAssumption DEF TypeOK, Stat, NoStat, Fingerprints

\* A step to another label keeps the locks, one to the end drops them.
LEMMA GotoFrame ==
    ASSUME TypeOK, NEW c \in Clients, NEW label \in Labels, Goto(c, label)
    PROVE  /\ pc' \in [Clients -> Labels] /\ pc'[c] = label
           /\ flock' \in [Locks -> Clients \cup {None}]
           /\ fd' \in [Clients -> Locks \cup {None}]
           /\ entryLock' \in Clients \cup {None}
           /\ label # "end" => UNCHANGED held
           /\ label = "end" => fd'[c] = None
           /\ \A d \in Clients \ {c} : pc'[d] = pc[d] /\ fd'[d] = fd[d]
           /\ \A l \in Locks : flock[l] \notin {None, c} => flock'[l] = flock[l]
  BY DEF TypeOK, Goto, DropLocks, held

LEMMA DropFrame ==
    ASSUME TypeOK, NEW c \in Clients, DropLocks(c)
    PROVE  /\ flock' \in [Locks -> Clients \cup {None}]
           /\ fd' \in [Clients -> Locks \cup {None}]
           /\ entryLock' \in Clients \cup {None}
           /\ fd'[c] = None
           /\ \A d \in Clients \ {c} : fd'[d] = fd[d]
           /\ \A l \in Locks : flock[l] \notin {None, c} => flock'[l] = flock[l]
  BY DEF TypeOK, DropLocks

\* The image of the processes is no larger than their number.
LEMMA ImageOfClients ==
    ASSUME NEW f, f = [c \in Clients |-> f[c]]
    PROVE  LET T == {f[c] : c \in Clients}
           IN  /\ IsFiniteSet(T)
               /\ Cardinality(T) \in Nat
               /\ Cardinality(T) <= Cardinality(Clients)
<1> DEFINE T == {f[c] : c \in Clients}
<1>1. f \in Surjection(Clients, T)
  BY DEF Surjection
<1>2. IsFiniteSet(T) /\ Cardinality(T) <= Cardinality(Clients)
  BY <1>1, StoreAssumption, FS_Surjection
<1> QED
  BY <1>2, FS_CardinalityType

\* There is an inode that nobody refers to.
LEMMA FreshInode ==
    ASSUME NEW S, NEW used, IsFiniteSet(used),
           Cardinality(S) > Cardinality(used)
    PROVE  \/ ~IsFiniteSet(S)
           \/ Fresh(S, used) \in S /\ Fresh(S, used) \notin used
<1> SUFFICES ASSUME IsFiniteSet(S)
             PROVE  \E i \in S : i \notin used
  BY DEF Fresh
<1>1. ASSUME S \subseteq used PROVE FALSE
  BY <1>1, FS_Subset, FS_CardinalityType
<1> QED
  BY <1>1

LEMMA OneMore ==
    ASSUME NEW S, NEW x, IsFiniteSet(S)
    PROVE  /\ IsFiniteSet(S \cup {x})
           /\ Cardinality(S \cup {x}) \in Nat
           /\ Cardinality(S \cup {x}) <= Cardinality(S) + 1
<1>1. Cardinality(S) \in Nat
  BY FS_CardinalityType
<1>2. /\ IsFiniteSet(S \cup {x})
      /\ Cardinality(S \cup {x}) =
           IF x \in S THEN Cardinality(S) ELSE Cardinality(S) + 1
  BY FS_AddElement
<1> QED
  BY <1>1, <1>2

LEMMA FreshWheel ==
    ASSUME TypeOK, NEW w,
           w = Fresh(Wheels, {wheel, marker[1]} \cup {seen[d][1] : d \in Clients})
    PROVE  /\ w \in Wheels /\ w # wheel /\ w # marker[1]
           /\ \A d \in Clients : seen[d][1] # w
<1> DEFINE f == [d \in Clients |-> seen[d][1]]
           T == {f[d] : d \in Clients}
           used == {wheel, marker[1]} \cup T
<1>1. IsFiniteSet(T) /\ Cardinality(T) \in Nat
      /\ Cardinality(T) <= Cardinality(Clients)
  <2>1. f = [d \in Clients |-> f[d]]
    OBVIOUS
  <2> HIDE DEF f
  <2> QED
    BY <2>1, ImageOfClients
<1>2. T = {seen[d][1] : d \in Clients}
  OBVIOUS
<1> HIDE DEF T, f
<1>0. Cardinality(Clients) \in Nat /\ Cardinality(Wheels) \in Nat
  BY StoreAssumption, FS_CardinalityType
<1>3. IsFiniteSet(T \cup {wheel}) /\ Cardinality(T \cup {wheel}) \in Nat
      /\ Cardinality(T \cup {wheel}) <= Cardinality(Clients) + 1
  <2>1. /\ IsFiniteSet(T \cup {wheel}) /\ Cardinality(T \cup {wheel}) \in Nat
        /\ Cardinality(T \cup {wheel}) <= Cardinality(T) + 1
    BY <1>1, OneMore, Zenon
  <2> QED
    BY <1>0, <1>1, <2>1
<1>4. LET U == (T \cup {wheel}) \cup {marker[1]}
      IN  IsFiniteSet(U) /\ Cardinality(U) \in Nat
          /\ Cardinality(U) <= Cardinality(Clients) + 2
  <2> DEFINE V == T \cup {wheel}
  <2>1. IsFiniteSet(V) /\ Cardinality(V) \in Nat
        /\ Cardinality(V) <= Cardinality(Clients) + 1
    BY <1>3
  <2> HIDE DEF V
  <2>2. IsFiniteSet(V \cup {marker[1]}) /\ Cardinality(V \cup {marker[1]}) \in Nat
        /\ Cardinality(V \cup {marker[1]}) <= Cardinality(V) + 1
    BY <2>1, OneMore
  <2>3. Cardinality(V \cup {marker[1]}) <= Cardinality(Clients) + 2
    BY <1>0, <2>1, <2>2
  <2> QED
    BY <2>2, <2>3 DEF V
<1>5. used = (T \cup {wheel}) \cup {marker[1]}
  OBVIOUS
<1>6. Cardinality(Wheels) > Cardinality(used) /\ IsFiniteSet(used)
  <2>1. IsFiniteSet(used) /\ Cardinality(used) \in Nat
        /\ Cardinality(used) <= Cardinality(Clients) + 2
    BY <1>4, <1>5, Zenon
  <2> QED
    BY <1>0, <2>1, InodeAssumption
<1>7. Fresh(Wheels, used) \in Wheels /\ Fresh(Wheels, used) \notin used
  BY <1>6, FreshInode, StoreAssumption
<1> QED
  BY <1>2, <1>7

LEMMA FreshLock ==
    ASSUME TypeOK, lockPath = None, NEW c \in Clients, fd[c] = None
    PROVE  /\ Fresh(Locks, OpenedLocks) \in Locks
           /\ \A d \in Clients : fd[d] # Fresh(Locks, OpenedLocks)
<1>1. fd = [d \in Clients |-> fd[d]]
  BY DEF TypeOK
<1>2. OpenedLocks = {fd[d] : d \in Clients}
  BY DEF OpenedLocks
<1>3. IsFiniteSet(OpenedLocks) /\ Cardinality(OpenedLocks) \in Nat
      /\ Cardinality(OpenedLocks) <= Cardinality(Clients)
  BY <1>1, <1>2, ImageOfClients
<1>4. /\ Fresh(Locks, OpenedLocks) \in Locks
      /\ Fresh(Locks, OpenedLocks) \notin OpenedLocks
  BY <1>3, FreshInode, StoreAssumption, InodeAssumption, FS_CardinalityType
<1> QED
  BY <1>2, <1>4

\* Where judging an entry may lead.
Outcomes == {"copy", "open", "evict", "download", "publish", "end"}

LEMMA JudgeLabel ==
    ASSUME TypeOK, NEW c \in Clients, NEW v \in Verdicts, Judge(c, v),
           at[c] = "publish" => v \in {"valid", "error"}
    PROVE  \E label \in Outcomes :
             /\ Goto(c, label)
             /\ label = "copy" => v = "valid"
             /\ label = "evict" => v = "corrupt"
             /\ label = "open" => at[c] = "first"
             /\ at[c] = "publish" => label = "end"
<1> DEFINE label == Follow[at[c]][v]
<1>1. Goto(c, label)
  BY DEF Judge
<1>2. at[c] \in Contexts
  BY DEF TypeOK
<1>3. CASE at[c] = "publish"
  BY <1>1, <1>3, FollowPublish DEF Outcomes
<1>4. CASE at[c] # "publish"
  <2>1. /\ label \in Outcomes
        /\ label = "copy" => v = "valid"
        /\ label = "evict" => v = "corrupt"
        /\ label = "open" => at[c] = "first"
    BY <1>2, <1>4, FollowLabels DEF Outcomes
  <2> HIDE DEF label
  <2> QED
    BY <1>1, <1>4, <2>1
<1> QED
  BY <1>3, <1>4

LEMMA CopyFailsLabel ==
    ASSUME TypeOK, NEW c \in Clients, CopyFails(c)
    PROVE  /\ \E label \in {"inspect", "open", "download"} :
                Goto(c, label) /\ (label = "open" => at[c] = "first")
           /\ tries' \in [Clients -> 0..2]
           /\ got' = got
<1>1. AfterFailedCopy(c) \in {"inspect", "open", "download"}
  BY DEF AfterFailedCopy
<1>2. AfterFailedCopy(c) = "open" => at[c] = "first"
  BY DEF AfterFailedCopy
<1>3. AfterFailedCopy(c) = "inspect" => tries[c] \in 0..1
  BY DEF AfterFailedCopy, TypeOK
<1>4. tries' \in [Clients -> 0..2]
  BY <1>3 DEF CopyFails, TypeOK
<1> QED
  BY <1>1, <1>2, <1>4 DEF CopyFails

(***************************************************************************)
(* Type correctness.                                                       *)
(***************************************************************************)
LEMMA TypeStep ==
    ASSUME IInv, [Next]_vars
    PROVE  TypeOK'
<1> USE StoreAssumption DEF IInv, Places, Place, TypeOK, store, fill, held,
        client, Goto, DropLocks, Inspect, Labels, Contexts, Verdicts, Outcomes
<1>1. ASSUME NEW c \in Clients, Start(c) PROVE TypeOK'
  BY <1>1 DEF Start
<1>2. ASSUME NEW c \in Clients, Look(c) PROVE TypeOK'
  BY <1>2, StatType, JudgeLabel DEF Look
<1>3. ASSUME NEW c \in Clients, HashVanished(c) PROVE TypeOK'
  BY <1>3, JudgeLabel DEF HashVanished
<1>4. ASSUME NEW c \in Clients, HashUnsettled(c) PROVE TypeOK'
  BY <1>4, StatType, JudgeLabel DEF HashUnsettled
<1>5. ASSUME NEW c \in Clients, HashSettled(c) PROVE TypeOK'
  BY <1>5, JudgeLabel DEF HashSettled
<1>6. ASSUME NEW c \in Clients, Seal(c) PROVE TypeOK'
  BY <1>6, StatType, JudgeLabel DEF Seal
<1>7. ASSUME NEW c \in Clients, Mark(c) PROVE TypeOK'
  BY <1>7, JudgeLabel DEF Mark
<1>8. ASSUME NEW c \in Clients, Evict(c) PROVE TypeOK'
  BY <1>8 DEF Evict, AfterEviction
<1>9. ASSUME NEW c \in Clients, EvictMarker(c) PROVE TypeOK'
  BY <1>9 DEF EvictMarker, AfterEviction
<1>10. ASSUME NEW c \in Clients, Copy(c) PROVE TypeOK'
  <2>1. /\ tries' \in [Clients -> 0..2]
        /\ got' \in [Clients -> {"none", "network", "good", "bad", "empty"}]
        /\ \E label \in {"copying", "inspect", "open", "download", "end"} :
             Goto(c, label)
    BY <1>10, CopyFailsLabel DEF Copy
  <2> QED
    BY <1>10, <2>1 DEF Copy
<1>11. ASSUME NEW c \in Clients, CopyDone(c) PROVE TypeOK'
  <2>1. /\ tries' \in [Clients -> 0..2]
        /\ got' \in [Clients -> {"none", "network", "good", "bad", "empty"}]
        /\ \E label \in {"inspect", "open", "download", "end"} :
             Goto(c, label)
    BY <1>11, StatType, CopyFailsLabel DEF CopyDone, Bytes, Sound
  <2>2. PICK label \in {"inspect", "open", "download", "end"} : Goto(c, label)
    BY <2>1
  <2>3. UNCHANGED <<store, fill, at, seen>>
    BY <1>11 DEF CopyDone
  <2> QED
    BY <2>1, <2>2, <2>3
<1>12. ASSUME NEW c \in Clients, OpenLock(c) PROVE TypeOK'
  <2>1. fd[c] = None
    BY <1>12, Zenon DEF OpenLock, FillPhases
  <2>2. lockPath = None => Fresh(Locks, OpenedLocks) \in Locks
    BY <2>1, FreshLock
  <2>3. PICK l \in Locks :
          /\ lockPath' = l /\ fd' = [fd EXCEPT ![c] = l]
          /\ \/ UNCHANGED <<record, aged>>
             \/ record' = [record EXCEPT ![l] = None] /\ aged' = aged \ {l}
    BY <1>12, <2>2 DEF OpenLock
  <2> QED
    BY <1>12, <2>3 DEF OpenLock
<1>13. ASSUME NEW c \in Clients, LockFails(c) PROVE TypeOK'
  BY <1>13 DEF LockFails
<1>14. ASSUME NEW c \in Clients, Download(c) PROVE TypeOK'
  BY <1>14 DEF Download
<1>15. ASSUME NEW c \in Clients, Publish(c) PROVE TypeOK'
  BY <1>15, FreshWheel DEF Publish
<1>16. ASSUME NEW c \in Clients, Await(c) PROVE TypeOK'
  BY <1>16 DEF Await
<1>17. ASSUME NEW c \in Clients, Probe(c) PROVE TypeOK'
  BY <1>17 DEF Probe
<1>18. ASSUME NEW c \in Clients, ProbeOpen(c) PROVE TypeOK'
  BY <1>18 DEF ProbeOpen
<1>19. ASSUME NEW c \in Clients, ProbeLock(c) PROVE TypeOK'
  BY <1>19 DEF ProbeLock
<1>20. ASSUME NEW c \in Clients, Unlink(c) PROVE TypeOK'
  BY <1>20 DEF Unlink
<1>21. ASSUME NEW c \in Clients, TakeLock(c) PROVE TypeOK'
  BY <1>21 DEF TakeLock
<1>22. ASSUME NEW c \in Clients, TakeEntryLock(c) PROVE TypeOK'
  BY <1>22 DEF TakeEntryLock
<1>23. ASSUME NEW c \in Clients, Crash(c) PROVE TypeOK'
  BY <1>23 DEF Crash
<1>24. ASSUME AgeLock PROVE TypeOK'
  BY <1>24 DEF AgeLock
<1>25. ASSUME NEW content \in {"good", "bad", "empty"}, Meddle(content)
      PROVE  TypeOK'
  BY <1>25 DEF Meddle
<1>26. ASSUME UNCHANGED vars PROVE TypeOK'
  BY <1>26 DEF vars
<1>27. ASSUME Touch \/ Damage PROVE TypeOK'
  <2>1. wheel # None => bytes[wheel] \in {"good", "bad", "empty"}
    OBVIOUS
  <2> QED
    BY <1>25, <1>27, <2>1 DEF Touch, Damage
<1> HIDE DEF TypeOK, Places, Place, store, fill, held, client, Goto, DropLocks,
             Inspect, Labels, Contexts, Verdicts, Outcomes, IInv
<1> QED
  BY <1>1, <1>2, <1>3, <1>4, <1>5, <1>6, <1>7, <1>8, <1>9, <1>10, <1>11, <1>12, <1>13, <1>14, <1>15, <1>16, <1>17, <1>18, <1>19, <1>20, <1>21, <1>22, <1>23, <1>24, <1>26, <1>27
     DEF Next, Local, Judging, Fetching, Reclaiming, Waiting, Done

(***************************************************************************)
(* Where the processes stand.                                              *)
(***************************************************************************)
\* The place of a process is not touched by a step of another.
LEMMA OthersPlace ==
    ASSUME TypeOK, Places, NEW c \in Clients, Place(c)',
           \A d \in Clients \ {c} : pc'[d] = pc[d] /\ at'[d] = at[d] /\ fd'[d] = fd[d],
           \A l \in Locks : flock[l] \notin {None, c} => flock'[l] = flock[l]
    PROVE  Places'
<1> SUFFICES ASSUME NEW d \in Clients \ {c} PROVE Place(d)'
  BY DEF Places
<1>1. Place(d) /\ (fd[d] # None => fd[d] \in Locks)
  BY DEF Places, TypeOK
<1>2. Holds(d) => Holds(d)'
  BY <1>1, StoreAssumption DEF Holds
<1> QED
  BY <1>1, <1>2 DEF Place

LEMMA PlacesStep ==
    ASSUME IInv, [Next]_vars
    PROVE  Places'
<1> USE StoreAssumption DEF IInv, Place, Holds, FillPhases, Takers, TypeOK, held,
        client, Inspect, Labels, Contexts, Verdicts, Outcomes
<1>0. \A c \in Clients : Place(c)
  BY DEF Places
<1>1. ASSUME NEW c \in Clients, Start(c) PROVE Places'
  <2>1. /\ Place(c)'
        /\ \A d \in Clients \ {c} : /\ pc'[d] = pc[d] /\ at'[d] = at[d]
                                   /\ fd'[d] = fd[d]
        /\ \A l \in Locks : flock[l] \notin {None, c} => flock'[l] = flock[l]
    BY <1>0, <1>1, GotoFrame DEF Start
  <2> QED
    BY <2>1, OthersPlace
<1>2. ASSUME NEW c \in Clients, Look(c) PROVE Places'
  <2>1. /\ Place(c)'
        /\ \A d \in Clients \ {c} : /\ pc'[d] = pc[d] /\ at'[d] = at[d]
                                   /\ fd'[d] = fd[d]
        /\ \A l \in Locks : flock[l] \notin {None, c} => flock'[l] = flock[l]
    BY <1>0, <1>2, GotoFrame, JudgeLabel DEF Look
  <2> QED
    BY <2>1, OthersPlace
<1>3. ASSUME NEW c \in Clients, HashVanished(c) PROVE Places'
  <2>1. /\ Place(c)'
        /\ \A d \in Clients \ {c} : /\ pc'[d] = pc[d] /\ at'[d] = at[d]
                                   /\ fd'[d] = fd[d]
        /\ \A l \in Locks : flock[l] \notin {None, c} => flock'[l] = flock[l]
    BY <1>0, <1>3, GotoFrame, JudgeLabel DEF HashVanished
  <2> QED
    BY <2>1, OthersPlace
<1>4. ASSUME NEW c \in Clients, HashUnsettled(c) PROVE Places'
  <2>1. /\ Place(c)'
        /\ \A d \in Clients \ {c} : /\ pc'[d] = pc[d] /\ at'[d] = at[d]
                                   /\ fd'[d] = fd[d]
        /\ \A l \in Locks : flock[l] \notin {None, c} => flock'[l] = flock[l]
    BY <1>0, <1>4, GotoFrame, JudgeLabel DEF HashUnsettled
  <2> QED
    BY <2>1, OthersPlace
<1>5. ASSUME NEW c \in Clients, HashSettled(c) PROVE Places'
  <2>1. /\ Place(c)'
        /\ \A d \in Clients \ {c} : /\ pc'[d] = pc[d] /\ at'[d] = at[d]
                                   /\ fd'[d] = fd[d]
        /\ \A l \in Locks : flock[l] \notin {None, c} => flock'[l] = flock[l]
    BY <1>0, <1>5, GotoFrame, JudgeLabel DEF HashSettled
  <2> QED
    BY <2>1, OthersPlace
<1>6. ASSUME NEW c \in Clients, Seal(c) PROVE Places'
  <2>1. /\ Place(c)'
        /\ \A d \in Clients \ {c} : /\ pc'[d] = pc[d] /\ at'[d] = at[d]
                                   /\ fd'[d] = fd[d]
        /\ \A l \in Locks : flock[l] \notin {None, c} => flock'[l] = flock[l]
    BY <1>0, <1>6, GotoFrame, JudgeLabel DEF Seal
  <2> QED
    BY <2>1, OthersPlace
<1>7. ASSUME NEW c \in Clients, Mark(c) PROVE Places'
  <2>1. /\ Place(c)'
        /\ \A d \in Clients \ {c} : /\ pc'[d] = pc[d] /\ at'[d] = at[d]
                                   /\ fd'[d] = fd[d]
        /\ \A l \in Locks : flock[l] \notin {None, c} => flock'[l] = flock[l]
    BY <1>0, <1>7, GotoFrame, JudgeLabel DEF Mark
  <2> QED
    BY <2>1, OthersPlace
<1>8. ASSUME NEW c \in Clients, Evict(c) PROVE Places'
  <2>1. /\ Place(c)'
        /\ \A d \in Clients \ {c} : /\ pc'[d] = pc[d] /\ at'[d] = at[d]
                                   /\ fd'[d] = fd[d]
        /\ \A l \in Locks : flock[l] \notin {None, c} => flock'[l] = flock[l]
    BY <1>0, <1>8, GotoFrame DEF Evict, AfterEviction
  <2> QED
    BY <2>1, OthersPlace
<1>9. ASSUME NEW c \in Clients, EvictMarker(c) PROVE Places'
  <2>1. /\ Place(c)'
        /\ \A d \in Clients \ {c} : /\ pc'[d] = pc[d] /\ at'[d] = at[d]
                                   /\ fd'[d] = fd[d]
        /\ \A l \in Locks : flock[l] \notin {None, c} => flock'[l] = flock[l]
    BY <1>0, <1>9, GotoFrame DEF EvictMarker, AfterEviction
  <2> QED
    BY <2>1, OthersPlace
<1>10. ASSUME NEW c \in Clients, Copy(c) PROVE Places'
  <2>1. /\ Place(c)'
        /\ \A d \in Clients \ {c} : /\ pc'[d] = pc[d] /\ at'[d] = at[d]
                                   /\ fd'[d] = fd[d]
        /\ \A l \in Locks : flock[l] \notin {None, c} => flock'[l] = flock[l]
    BY <1>0, <1>10, GotoFrame, CopyFailsLabel DEF Copy
  <2> QED
    BY <2>1, OthersPlace
<1>11. ASSUME NEW c \in Clients, CopyDone(c) PROVE Places'
  <2>1. /\ Place(c)'
        /\ \A d \in Clients \ {c} : /\ pc'[d] = pc[d] /\ at'[d] = at[d]
                                   /\ fd'[d] = fd[d]
        /\ \A l \in Locks : flock[l] \notin {None, c} => flock'[l] = flock[l]
    BY <1>0, <1>11, GotoFrame, CopyFailsLabel DEF CopyDone
  <2> QED
    BY <2>1, OthersPlace
<1>12. ASSUME NEW c \in Clients, OpenLock(c) PROVE Places'
  <2>1. /\ Place(c)'
        /\ \A d \in Clients \ {c} : /\ pc'[d] = pc[d] /\ at'[d] = at[d]
                                   /\ fd'[d] = fd[d]
        /\ \A l \in Locks : flock[l] \notin {None, c} => flock'[l] = flock[l]
    BY <1>0, <1>12, FreshLock DEF OpenLock
  <2> QED
    BY <2>1, OthersPlace
<1>13. ASSUME NEW c \in Clients, LockFails(c) PROVE Places'
  <2>1. /\ Place(c)'
        /\ \A d \in Clients \ {c} : /\ pc'[d] = pc[d] /\ at'[d] = at[d]
                                   /\ fd'[d] = fd[d]
        /\ \A l \in Locks : flock[l] \notin {None, c} => flock'[l] = flock[l]
    BY <1>0, <1>13, GotoFrame DEF LockFails
  <2> QED
    BY <2>1, OthersPlace
<1>14. ASSUME NEW c \in Clients, Download(c) PROVE Places'
  <2>1. /\ Place(c)'
        /\ \A d \in Clients \ {c} : /\ pc'[d] = pc[d] /\ at'[d] = at[d]
                                   /\ fd'[d] = fd[d]
        /\ \A l \in Locks : flock[l] \notin {None, c} => flock'[l] = flock[l]
    BY <1>0, <1>14, GotoFrame DEF Download
  <2> QED
    BY <2>1, OthersPlace
<1>15. ASSUME NEW c \in Clients, Publish(c) PROVE Places'
  <2>1. /\ Place(c)'
        /\ \A d \in Clients \ {c} : /\ pc'[d] = pc[d] /\ at'[d] = at[d]
                                   /\ fd'[d] = fd[d]
        /\ \A l \in Locks : flock[l] \notin {None, c} => flock'[l] = flock[l]
    BY <1>0, <1>15, GotoFrame DEF Publish
  <2> QED
    BY <2>1, OthersPlace
<1>16. ASSUME NEW c \in Clients, Await(c) PROVE Places'
  <2>1. /\ Place(c)'
        /\ \A d \in Clients \ {c} : /\ pc'[d] = pc[d] /\ at'[d] = at[d]
                                   /\ fd'[d] = fd[d]
        /\ \A l \in Locks : flock[l] \notin {None, c} => flock'[l] = flock[l]
    BY <1>0, <1>16, GotoFrame DEF Await
  <2> QED
    BY <2>1, OthersPlace
<1>17. ASSUME NEW c \in Clients, Probe(c) PROVE Places'
  <2>1. /\ Place(c)'
        /\ \A d \in Clients \ {c} : /\ pc'[d] = pc[d] /\ at'[d] = at[d]
                                   /\ fd'[d] = fd[d]
        /\ \A l \in Locks : flock[l] \notin {None, c} => flock'[l] = flock[l]
    BY <1>0, <1>17, GotoFrame DEF Probe
  <2> QED
    BY <2>1, OthersPlace
<1>18. ASSUME NEW c \in Clients, ProbeOpen(c) PROVE Places'
  <2>1. /\ Place(c)'
        /\ \A d \in Clients \ {c} : /\ pc'[d] = pc[d] /\ at'[d] = at[d]
                                   /\ fd'[d] = fd[d]
        /\ \A l \in Locks : flock[l] \notin {None, c} => flock'[l] = flock[l]
    BY <1>0, <1>18, GotoFrame DEF ProbeOpen
  <2> QED
    BY <2>1, OthersPlace
<1>19. ASSUME NEW c \in Clients, ProbeLock(c) PROVE Places'
  <2>1. /\ Place(c)'
        /\ \A d \in Clients \ {c} : /\ pc'[d] = pc[d] /\ at'[d] = at[d]
                                   /\ fd'[d] = fd[d]
        /\ \A l \in Locks : flock[l] \notin {None, c} => flock'[l] = flock[l]
    BY <1>0, <1>19, GotoFrame DEF ProbeLock
  <2> QED
    BY <2>1, OthersPlace
<1>20. ASSUME NEW c \in Clients, Unlink(c) PROVE Places'
  <2>1. /\ Place(c)'
        /\ \A d \in Clients \ {c} : /\ pc'[d] = pc[d] /\ at'[d] = at[d]
                                   /\ fd'[d] = fd[d]
        /\ \A l \in Locks : flock[l] \notin {None, c} => flock'[l] = flock[l]
    BY <1>0, <1>20, DropFrame DEF Unlink
  <2> QED
    BY <2>1, OthersPlace
<1>21. ASSUME NEW c \in Clients, TakeLock(c) PROVE Places'
  <2>1. /\ Place(c)'
        /\ \A d \in Clients \ {c} : /\ pc'[d] = pc[d] /\ at'[d] = at[d]
                                   /\ fd'[d] = fd[d]
        /\ \A l \in Locks : flock[l] \notin {None, c} => flock'[l] = flock[l]
    BY <1>0, <1>21 DEF TakeLock
  <2> QED
    BY <2>1, OthersPlace
<1>22. ASSUME NEW c \in Clients, TakeEntryLock(c) PROVE Places'
  <2>1. /\ Place(c)'
        /\ \A d \in Clients \ {c} : /\ pc'[d] = pc[d] /\ at'[d] = at[d]
                                   /\ fd'[d] = fd[d]
        /\ \A l \in Locks : flock[l] \notin {None, c} => flock'[l] = flock[l]
    BY <1>0, <1>22 DEF TakeEntryLock
  <2> QED
    BY <2>1, OthersPlace
<1>23. ASSUME NEW c \in Clients, Crash(c) PROVE Places'
  <2>1. /\ Place(c)'
        /\ \A d \in Clients \ {c} : /\ pc'[d] = pc[d] /\ at'[d] = at[d]
                                   /\ fd'[d] = fd[d]
        /\ \A l \in Locks : flock[l] \notin {None, c} => flock'[l] = flock[l]
    BY <1>0, <1>23, DropFrame DEF Crash
  <2> QED
    BY <2>1, OthersPlace
<1>24. ASSUME UNCHANGED <<held, pc, client>> PROVE Places'
  BY <1>24 DEF Places
<1> QED
  BY <1>1, <1>2, <1>3, <1>4, <1>5, <1>6, <1>7, <1>8, <1>9, <1>10, <1>11, <1>12, <1>13, <1>14, <1>15, <1>16, <1>17, <1>18, <1>19, <1>20, <1>21, <1>22, <1>23, <1>24
     DEF Next, Local, Judging, Fetching, Reclaiming, Waiting, AgeLock, Touch,
         Damage, Meddle, Done, vars

(***************************************************************************)
(* What the fingerprints say.                                              *)
(***************************************************************************)
\* While no file changes, what a process knows is not touched by a step of
\* another.
LEMMA OthersSound ==
    ASSUME TypeOK, Bytes, NEW c \in Clients, Sound(c)',
           UNCHANGED <<bytes, mtime>>, wheel' \in {wheel, None},
           \/ marker' = marker
           \/ marker' = NoStat
           \/ marker' = seen[c] /\ seen' = seen /\ Right(seen[c]),
           \A d \in Clients \ {c} : pc'[d] = pc[d] /\ seen'[d] = seen[d] /\ got'[d] = got[d]
    PROVE  Bytes'
<1>1. Past(marker)' /\ Right(marker)'
  BY StoreAssumption DEF Bytes, Sound, Past, Right, NoStat
<1>2. ASSUME NEW d \in Clients \ {c} PROVE Sound(d)'
  <2>1. Sound(d)
    BY DEF Bytes
  <2>2. Past(seen[d])' /\ (Right(seen[d]) => Right(seen[d])')
    BY <2>1 DEF Sound, Past, Right
  <2> QED
    BY <2>1, <2>2 DEF Sound
<1> QED
  BY <1>1, <1>2 DEF Bytes

\* Whoever touches or damages the wheel moves its mtime, so that no
\* fingerprint of it is current.
LEMMA MeddleSound ==
    ASSUME TypeOK, Bytes, NEW content, Meddle(content),
           content = bytes[wheel] \/ (content = "bad" /\ ~Attesting)
    PROVE  Bytes'
<1> USE StoreAssumption DEF TypeOK
<1>1. /\ wheel \in Wheels /\ UNCHANGED <<wheel, marker, pc, seen, got>>
      /\ bytes' = [bytes EXCEPT ![wheel] = content]
      /\ mtime' = [mtime EXCEPT ![wheel] = @ + 1]
  BY DEF Meddle, client
<1>2. ASSUME NEW f \in Fingerprints \cup {NoStat}, Past(f)
      PROVE  Past(f)' /\ (Right(f) => Right(f)')
  BY <1>1, <1>2, StatType DEF Past, Right
<1>3. ASSUME NEW c \in Clients PROVE Sound(c)'
  <2>1. Sound(c) /\ seen[c] \in Fingerprints \cup {NoStat}
    BY DEF Bytes
  <2>2. Past(seen[c])' /\ (Right(seen[c]) => Right(seen[c])')
    BY <1>1, <1>2, <2>1 DEF Sound, Past, Right
  <2>3. pc[c] = "seal" => bytes'[wheel] = bytes[wheel]
    BY <1>1 DEF Attesting
  <2>4. ASSUME NEW i \in Wheels, bytes[i] # "good" PROVE bytes'[i] # "good"
    BY <1>1, <2>4
  <2> QED
    BY <1>1, <2>1, <2>2, <2>3, <2>4 DEF Sound
<1> QED
  BY <1>1, <1>2, <1>3 DEF Bytes

LEMMA BytesStep ==
    ASSUME IInv, [Next]_vars
    PROVE  Bytes'
<1> USE StoreAssumption DEF IInv, Past, Right, Sound, TypeOK, store,
        client, Inspect, Labels, Contexts, Verdicts, Outcomes
<1>0. /\ Past(marker) /\ Right(marker)
      /\ \A c \in Clients : Sound(c) /\ Place(c)
  BY DEF Bytes, Places
<1>1. ASSUME NEW c \in Clients, Start(c) PROVE Bytes'
  <2>1. Sound(c)'
    BY <1>0, <1>1, GotoFrame DEF Start
  <2>2. /\ UNCHANGED <<bytes, mtime>> /\ wheel' \in {wheel, None}
        /\ \/ marker' = marker
           \/ marker' = NoStat
           \/ marker' = seen[c] /\ seen' = seen /\ Right(seen[c])
        /\ \A d \in Clients \ {c} : /\ pc'[d] = pc[d] /\ seen'[d] = seen[d]
                                   /\ got'[d] = got[d]
    BY <1>0, <1>1, GotoFrame DEF Start
  <2> QED
    BY <2>1, <2>2, OthersSound
<1>2. ASSUME NEW c \in Clients, Look(c) PROVE Bytes'
  <2>1. Sound(c)'
    BY <1>0, <1>2, GotoFrame, JudgeLabel, StatType DEF Look, Place
  <2>2. /\ UNCHANGED <<bytes, mtime>> /\ wheel' \in {wheel, None}
        /\ \/ marker' = marker
           \/ marker' = NoStat
           \/ marker' = seen[c] /\ seen' = seen /\ Right(seen[c])
        /\ \A d \in Clients \ {c} : /\ pc'[d] = pc[d] /\ seen'[d] = seen[d]
                                   /\ got'[d] = got[d]
    BY <1>0, <1>2, GotoFrame, JudgeLabel, StatType DEF Look, Place
  <2> QED
    BY <2>1, <2>2, OthersSound
<1>3. ASSUME NEW c \in Clients, HashVanished(c) PROVE Bytes'
  <2>1. Sound(c)'
    BY <1>0, <1>3, GotoFrame, JudgeLabel DEF HashVanished, Place
  <2>2. /\ UNCHANGED <<bytes, mtime>> /\ wheel' \in {wheel, None}
        /\ \/ marker' = marker
           \/ marker' = NoStat
           \/ marker' = seen[c] /\ seen' = seen /\ Right(seen[c])
        /\ \A d \in Clients \ {c} : /\ pc'[d] = pc[d] /\ seen'[d] = seen[d]
                                   /\ got'[d] = got[d]
    BY <1>0, <1>3, GotoFrame, JudgeLabel DEF HashVanished, Place
  <2> QED
    BY <2>1, <2>2, OthersSound
<1>4. ASSUME NEW c \in Clients, HashUnsettled(c) PROVE Bytes'
  <2>1. Sound(c)'
    BY <1>0, <1>4, GotoFrame, JudgeLabel, StatType DEF HashUnsettled, Place
  <2>2. /\ UNCHANGED <<bytes, mtime>> /\ wheel' \in {wheel, None}
        /\ \/ marker' = marker
           \/ marker' = NoStat
           \/ marker' = seen[c] /\ seen' = seen /\ Right(seen[c])
        /\ \A d \in Clients \ {c} : /\ pc'[d] = pc[d] /\ seen'[d] = seen[d]
                                   /\ got'[d] = got[d]
    BY <1>0, <1>4, GotoFrame, JudgeLabel, StatType DEF HashUnsettled, Place
  <2> QED
    BY <2>1, <2>2, OthersSound
<1>5. ASSUME NEW c \in Clients, HashSettled(c) PROVE Bytes'
  <2>1. Sound(c)'
    BY <1>0, <1>5, GotoFrame, JudgeLabel, StatType DEF HashSettled, Place
  <2>2. /\ UNCHANGED <<bytes, mtime>> /\ wheel' \in {wheel, None}
        /\ \/ marker' = marker
           \/ marker' = NoStat
           \/ marker' = seen[c] /\ seen' = seen /\ Right(seen[c])
        /\ \A d \in Clients \ {c} : /\ pc'[d] = pc[d] /\ seen'[d] = seen[d]
                                   /\ got'[d] = got[d]
    BY <1>0, <1>5, GotoFrame, JudgeLabel, StatType DEF HashSettled, Place
  <2> QED
    BY <2>1, <2>2, OthersSound
<1>6. ASSUME NEW c \in Clients, Seal(c) PROVE Bytes'
  <2>1. Sound(c)'
    BY <1>0, <1>6, GotoFrame, JudgeLabel, StatType DEF Seal, Place
  <2>2. /\ UNCHANGED <<bytes, mtime>> /\ wheel' \in {wheel, None}
        /\ \/ marker' = marker
           \/ marker' = NoStat
           \/ marker' = seen[c] /\ seen' = seen /\ Right(seen[c])
        /\ \A d \in Clients \ {c} : /\ pc'[d] = pc[d] /\ seen'[d] = seen[d]
                                   /\ got'[d] = got[d]
    BY <1>0, <1>6, GotoFrame, JudgeLabel, StatType DEF Seal, Place
  <2> QED
    BY <2>1, <2>2, OthersSound
<1>7. ASSUME NEW c \in Clients, Mark(c) PROVE Bytes'
  <2>1. Sound(c)'
    BY <1>0, <1>7, GotoFrame, JudgeLabel DEF Mark, Place
  <2>2. /\ UNCHANGED <<bytes, mtime>> /\ wheel' \in {wheel, None}
        /\ \/ marker' = marker
           \/ marker' = NoStat
           \/ marker' = seen[c] /\ seen' = seen /\ Right(seen[c])
        /\ \A d \in Clients \ {c} : /\ pc'[d] = pc[d] /\ seen'[d] = seen[d]
                                   /\ got'[d] = got[d]
    BY <1>0, <1>7, GotoFrame, JudgeLabel DEF Mark, Place
  <2> QED
    BY <2>1, <2>2, OthersSound
<1>8. ASSUME NEW c \in Clients, Evict(c) PROVE Bytes'
  <2>1. Sound(c)'
    BY <1>0, <1>8, GotoFrame DEF Evict, AfterEviction
  <2>2. /\ UNCHANGED <<bytes, mtime>> /\ wheel' \in {wheel, None}
        /\ \/ marker' = marker
           \/ marker' = NoStat
           \/ marker' = seen[c] /\ seen' = seen /\ Right(seen[c])
        /\ \A d \in Clients \ {c} : /\ pc'[d] = pc[d] /\ seen'[d] = seen[d]
                                   /\ got'[d] = got[d]
    BY <1>0, <1>8, GotoFrame DEF Evict, AfterEviction
  <2> QED
    BY <2>1, <2>2, OthersSound
<1>9. ASSUME NEW c \in Clients, EvictMarker(c) PROVE Bytes'
  <2>1. Sound(c)'
    BY <1>0, <1>9, GotoFrame DEF EvictMarker, AfterEviction
  <2>2. /\ UNCHANGED <<bytes, mtime>> /\ wheel' \in {wheel, None}
        /\ \/ marker' = marker
           \/ marker' = NoStat
           \/ marker' = seen[c] /\ seen' = seen /\ Right(seen[c])
        /\ \A d \in Clients \ {c} : /\ pc'[d] = pc[d] /\ seen'[d] = seen[d]
                                   /\ got'[d] = got[d]
    BY <1>0, <1>9, GotoFrame DEF EvictMarker, AfterEviction
  <2> QED
    BY <2>1, <2>2, OthersSound
<1>10. ASSUME NEW c \in Clients, Copy(c) PROVE Bytes'
  <2>1. Sound(c)'
    BY <1>0, <1>10, GotoFrame, CopyFailsLabel DEF Copy
  <2>2. /\ UNCHANGED <<bytes, mtime>> /\ wheel' \in {wheel, None}
        /\ \/ marker' = marker
           \/ marker' = NoStat
           \/ marker' = seen[c] /\ seen' = seen /\ Right(seen[c])
        /\ \A d \in Clients \ {c} : /\ pc'[d] = pc[d] /\ seen'[d] = seen[d]
                                   /\ got'[d] = got[d]
    BY <1>0, <1>10, GotoFrame, CopyFailsLabel DEF Copy
  <2> QED
    BY <2>1, <2>2, OthersSound
<1>11. ASSUME NEW c \in Clients, CopyDone(c) PROVE Bytes'
  <2>1. Sound(c)'
    BY <1>0, <1>11, GotoFrame, CopyFailsLabel, StatType DEF CopyDone
  <2>2. /\ UNCHANGED <<bytes, mtime>> /\ wheel' \in {wheel, None}
        /\ \/ marker' = marker
           \/ marker' = NoStat
           \/ marker' = seen[c] /\ seen' = seen /\ Right(seen[c])
        /\ \A d \in Clients \ {c} : /\ pc'[d] = pc[d] /\ seen'[d] = seen[d]
                                   /\ got'[d] = got[d]
    BY <1>0, <1>11, GotoFrame, CopyFailsLabel, StatType DEF CopyDone
  <2> QED
    BY <2>1, <2>2, OthersSound
<1>12. ASSUME NEW c \in Clients, OpenLock(c) PROVE Bytes'
  <2>1. Sound(c)'
    BY <1>0, <1>12 DEF OpenLock
  <2>2. /\ UNCHANGED <<bytes, mtime>> /\ wheel' \in {wheel, None}
        /\ \/ marker' = marker
           \/ marker' = NoStat
           \/ marker' = seen[c] /\ seen' = seen /\ Right(seen[c])
        /\ \A d \in Clients \ {c} : /\ pc'[d] = pc[d] /\ seen'[d] = seen[d]
                                   /\ got'[d] = got[d]
    BY <1>0, <1>12 DEF OpenLock
  <2> QED
    BY <2>1, <2>2, OthersSound
<1>13. ASSUME NEW c \in Clients, LockFails(c) PROVE Bytes'
  <2>1. Sound(c)'
    BY <1>0, <1>13, GotoFrame DEF LockFails
  <2>2. /\ UNCHANGED <<bytes, mtime>> /\ wheel' \in {wheel, None}
        /\ \/ marker' = marker
           \/ marker' = NoStat
           \/ marker' = seen[c] /\ seen' = seen /\ Right(seen[c])
        /\ \A d \in Clients \ {c} : /\ pc'[d] = pc[d] /\ seen'[d] = seen[d]
                                   /\ got'[d] = got[d]
    BY <1>0, <1>13, GotoFrame DEF LockFails
  <2> QED
    BY <2>1, <2>2, OthersSound
<1>14. ASSUME NEW c \in Clients, Download(c) PROVE Bytes'
  <2>1. Sound(c)'
    BY <1>0, <1>14, GotoFrame DEF Download
  <2>2. /\ UNCHANGED <<bytes, mtime>> /\ wheel' \in {wheel, None}
        /\ \/ marker' = marker
           \/ marker' = NoStat
           \/ marker' = seen[c] /\ seen' = seen /\ Right(seen[c])
        /\ \A d \in Clients \ {c} : /\ pc'[d] = pc[d] /\ seen'[d] = seen[d]
                                   /\ got'[d] = got[d]
    BY <1>0, <1>14, GotoFrame DEF Download
  <2> QED
    BY <2>1, <2>2, OthersSound
<1>15. ASSUME NEW c \in Clients, Await(c) PROVE Bytes'
  <2>1. Sound(c)'
    BY <1>0, <1>15, GotoFrame DEF Await
  <2>2. /\ UNCHANGED <<bytes, mtime>> /\ wheel' \in {wheel, None}
        /\ \/ marker' = marker
           \/ marker' = NoStat
           \/ marker' = seen[c] /\ seen' = seen /\ Right(seen[c])
        /\ \A d \in Clients \ {c} : /\ pc'[d] = pc[d] /\ seen'[d] = seen[d]
                                   /\ got'[d] = got[d]
    BY <1>0, <1>15, GotoFrame DEF Await
  <2> QED
    BY <2>1, <2>2, OthersSound
<1>16. ASSUME NEW c \in Clients, Probe(c) PROVE Bytes'
  <2>1. Sound(c)'
    BY <1>0, <1>16, GotoFrame DEF Probe
  <2>2. /\ UNCHANGED <<bytes, mtime>> /\ wheel' \in {wheel, None}
        /\ \/ marker' = marker
           \/ marker' = NoStat
           \/ marker' = seen[c] /\ seen' = seen /\ Right(seen[c])
        /\ \A d \in Clients \ {c} : /\ pc'[d] = pc[d] /\ seen'[d] = seen[d]
                                   /\ got'[d] = got[d]
    BY <1>0, <1>16, GotoFrame DEF Probe
  <2> QED
    BY <2>1, <2>2, OthersSound
<1>17. ASSUME NEW c \in Clients, ProbeOpen(c) PROVE Bytes'
  <2>1. Sound(c)'
    BY <1>0, <1>17, GotoFrame DEF ProbeOpen
  <2>2. /\ UNCHANGED <<bytes, mtime>> /\ wheel' \in {wheel, None}
        /\ \/ marker' = marker
           \/ marker' = NoStat
           \/ marker' = seen[c] /\ seen' = seen /\ Right(seen[c])
        /\ \A d \in Clients \ {c} : /\ pc'[d] = pc[d] /\ seen'[d] = seen[d]
                                   /\ got'[d] = got[d]
    BY <1>0, <1>17, GotoFrame DEF ProbeOpen
  <2> QED
    BY <2>1, <2>2, OthersSound
<1>18. ASSUME NEW c \in Clients, ProbeLock(c) PROVE Bytes'
  <2>1. Sound(c)'
    BY <1>0, <1>18, GotoFrame DEF ProbeLock
  <2>2. /\ UNCHANGED <<bytes, mtime>> /\ wheel' \in {wheel, None}
        /\ \/ marker' = marker
           \/ marker' = NoStat
           \/ marker' = seen[c] /\ seen' = seen /\ Right(seen[c])
        /\ \A d \in Clients \ {c} : /\ pc'[d] = pc[d] /\ seen'[d] = seen[d]
                                   /\ got'[d] = got[d]
    BY <1>0, <1>18, GotoFrame DEF ProbeLock
  <2> QED
    BY <2>1, <2>2, OthersSound
<1>19. ASSUME NEW c \in Clients, Unlink(c) PROVE Bytes'
  <2>1. Sound(c)'
    BY <1>0, <1>19 DEF Unlink
  <2>2. /\ UNCHANGED <<bytes, mtime>> /\ wheel' \in {wheel, None}
        /\ \/ marker' = marker
           \/ marker' = NoStat
           \/ marker' = seen[c] /\ seen' = seen /\ Right(seen[c])
        /\ \A d \in Clients \ {c} : /\ pc'[d] = pc[d] /\ seen'[d] = seen[d]
                                   /\ got'[d] = got[d]
    BY <1>0, <1>19 DEF Unlink
  <2> QED
    BY <2>1, <2>2, OthersSound
<1>20. ASSUME NEW c \in Clients, TakeLock(c) PROVE Bytes'
  <2>1. Sound(c)'
    BY <1>0, <1>20 DEF TakeLock
  <2>2. /\ UNCHANGED <<bytes, mtime>> /\ wheel' \in {wheel, None}
        /\ \/ marker' = marker
           \/ marker' = NoStat
           \/ marker' = seen[c] /\ seen' = seen /\ Right(seen[c])
        /\ \A d \in Clients \ {c} : /\ pc'[d] = pc[d] /\ seen'[d] = seen[d]
                                   /\ got'[d] = got[d]
    BY <1>0, <1>20 DEF TakeLock
  <2> QED
    BY <2>1, <2>2, OthersSound
<1>21. ASSUME NEW c \in Clients, TakeEntryLock(c) PROVE Bytes'
  <2>1. Sound(c)'
    BY <1>0, <1>21 DEF TakeEntryLock
  <2>2. /\ UNCHANGED <<bytes, mtime>> /\ wheel' \in {wheel, None}
        /\ \/ marker' = marker
           \/ marker' = NoStat
           \/ marker' = seen[c] /\ seen' = seen /\ Right(seen[c])
        /\ \A d \in Clients \ {c} : /\ pc'[d] = pc[d] /\ seen'[d] = seen[d]
                                   /\ got'[d] = got[d]
    BY <1>0, <1>21 DEF TakeEntryLock
  <2> QED
    BY <2>1, <2>2, OthersSound
<1>22. ASSUME NEW c \in Clients, Crash(c) PROVE Bytes'
  <2>1. Sound(c)'
    BY <1>0, <1>22 DEF Crash
  <2>2. /\ UNCHANGED <<bytes, mtime>> /\ wheel' \in {wheel, None}
        /\ \/ marker' = marker
           \/ marker' = NoStat
           \/ marker' = seen[c] /\ seen' = seen /\ Right(seen[c])
        /\ \A d \in Clients \ {c} : /\ pc'[d] = pc[d] /\ seen'[d] = seen[d]
                                   /\ got'[d] = got[d]
    BY <1>0, <1>22 DEF Crash
  <2> QED
    BY <2>1, <2>2, OthersSound
<1>23. ASSUME NEW c \in Clients, Publish(c) PROVE Bytes'
  <2>1. CASE Goto(c, "end") /\ UNCHANGED <<wheel, bytes, mtime, at>>
    <3>1. UNCHANGED <<marker, seen, tries, got>>
      BY <1>23 DEF Publish
    <3>2. pc'[c] = "end" /\ \A d \in Clients \ {c} : pc'[d] = pc[d]
      BY <2>1, GotoFrame
    <3>3. Sound(c)'
      BY <1>0, <2>1, <3>1, <3>2
    <3> QED
      BY <2>1, <3>1, <3>2, <3>3, OthersSound
  <2>2. ASSUME NEW w, w = Fresh(Wheels, {wheel, marker[1]}
                                          \cup {seen[d][1] : d \in Clients}),
               wheel' = w, bytes' = [bytes EXCEPT ![w] = "good"],
               mtime' = [mtime EXCEPT ![w] = 0], Goto(c, "seal")
        PROVE  Bytes'
    <3>1. /\ w \in Wheels /\ w # marker[1]
          /\ \A d \in Clients : seen[d][1] # w
      BY <2>2, FreshWheel
    <3>2. UNCHANGED <<marker, seen, got>>
      BY <1>23 DEF Publish
    <3>3. Past(marker)' /\ Right(marker)'
      BY <1>0, <2>2, <3>1, <3>2
    <3>4. ASSUME NEW d \in Clients PROVE Sound(d)'
      <4>1. Sound(d) /\ d # c => pc'[d] = pc[d]
        BY <1>0, <2>2, GotoFrame
      <4>2. pc'[c] = "seal"
        BY <2>2, GotoFrame
      <4>3. /\ Past(seen[d])' /\ (Right(seen[d]) => Right(seen[d])')
            /\ seen[d][1] \in Wheels => bytes'[seen[d][1]] = bytes[seen[d][1]]
            /\ bytes'[wheel'] = "good"
        BY <1>0, <2>2, <3>1, <3>2
      <4> QED
        BY <1>0, <3>2, <4>1, <4>2, <4>3
    <3> QED
      BY <3>3, <3>4 DEF Bytes
  <2> QED
    BY <1>23, <2>1, <2>2 DEF Publish
<1>24. ASSUME Touch PROVE Bytes'
  BY <1>24, MeddleSound DEF Touch
<1>25. ASSUME Damage PROVE Bytes'
  BY <1>25, MeddleSound DEF Damage
<1>26. ASSUME UNCHANGED <<store, pc, client>> PROVE Bytes'
  BY <1>26 DEF Bytes
<1> QED
  BY <1>1, <1>2, <1>3, <1>4, <1>5, <1>6, <1>7, <1>8, <1>9, <1>10, <1>11, <1>12, <1>13, <1>14, <1>15, <1>16, <1>17, <1>18, <1>19, <1>20, <1>21, <1>22, <1>23, <1>24, <1>25, <1>26
     DEF Next, Local, Judging, Fetching, Reclaiming, Waiting, AgeLock, Done, vars

(***************************************************************************)
(* The invariant holds.                                                    *)
(***************************************************************************)
LEMMA InitInvariant == Init => IInv
<1> SUFFICES ASSUME Init PROVE IInv
  OBVIOUS
<1> USE StoreAssumption DEF Init
<1>1. /\ (CHOOSE i \in Wheels : TRUE) \in Wheels
      /\ (CHOOSE i \in Locks : TRUE) \in Locks
  <2>1. Wheels # {} /\ Locks # {}
    BY InodeAssumption, FS_EmptySet, FS_CardinalityType
  <2> QED
    BY <2>1
<1>2. PICK start \in Starts : InitialEntry(start)
  OBVIOUS
<1>3. /\ wheel \in Wheels \cup {None}
      /\ bytes \in [Wheels -> {"good", "bad", "empty"}]
      /\ lockPath \in Locks \cup {None}
      /\ aged \subseteq Locks
      /\ \/ marker = NoStat
         \/ marker \in Fingerprints /\ bytes[marker[1]] = "good" /\ marker[2] = 0
  BY <1>1, <1>2 DEF InitialEntry, StartKinds, Fingerprints, NoStat
<1>4. TypeOK
  BY <1>3 DEF TypeOK, Labels, Contexts, Fingerprints, NoStat
<1>5. Places
  BY DEF Places, Place, FillPhases, Takers
<1>6. Bytes
  BY <1>3 DEF Bytes, Sound, Past, Right, NoStat, Fingerprints
<1> QED
  BY <1>4, <1>5, <1>6 DEF IInv

LEMMA Invariant == Spec => []IInv
<1>1. IInv /\ [Next]_vars => IInv'
  BY TypeStep, PlacesStep, BytesStep DEF IInv
<1> QED
  BY <1>1, InitInvariant, PTL DEF Spec

\* Every value of the model is of its type (TypeOK).
THEOREM TypeCorrect == Spec => []TypeOK
<1>1. IInv => TypeOK
  BY DEF IInv
<1> QED
  BY <1>1, Invariant, PTL

\* A fetch served from the store delivers right bytes, and a marker that is
\* current attests right bytes, whoever fails, touches and damages.
THEOREM BytesAreRight == Spec => []OnlyRightBytes
<1>1. IInv => OnlyRightBytes
  BY DEF IInv, TypeOK, Bytes, Sound, Right, Stat, OnlyRightBytes, NoStat
<1> QED
  BY <1>1, Invariant, PTL

\* A stat tuple that moves is never taken for corruption: as long as no wheel
\* file holds wrong bytes, nobody takes the wheel out of the entry, since only
\* a process that has seen wrong bytes evicts.
THEOREM GoodWheelIsKept == Spec => GoodWheelStays
<1>1. ASSUME IInv, [Next]_vars
      PROVE  (\A i \in Wheels : bytes[i] = "good") /\ wheel # None
               => wheel' # None
  <2> SUFFICES ASSUME \A i \in Wheels : bytes[i] = "good", wheel # None
               PROVE  wheel' # None
    OBVIOUS
  <2>1. ASSUME NEW c \in Clients, Evict(c) PROVE FALSE
    BY <1>1, <2>1 DEF Evict, IInv, Bytes, Sound
  <2>2. ASSUME NEW c \in Clients, Publish(c) PROVE wheel' # None
    BY <1>1, <2>2, FreshWheel, StoreAssumption DEF Publish, IInv
  <2>3. \/ UNCHANGED wheel
        \/ \E c \in Clients : Evict(c) \/ Publish(c)
    BY <1>1
       DEF Next, Start, Local, Judging, Fetching, Reclaiming, Waiting, Look,
           HashVanished, HashUnsettled, HashSettled, Seal, Mark, EvictMarker,
           Copy, CopyDone, OpenLock, LockFails, Download, Await, Probe,
           ProbeOpen, ProbeLock, Unlink, TakeLock, TakeEntryLock, Crash,
           AgeLock, Touch, Damage, Meddle, Done, vars, store
  <2> QED
    BY <2>1, <2>2, <2>3
<1> QED
  BY <1>1, Invariant, PTL DEF Spec, GoodWheelStays

(***************************************************************************)
(* The fill lock.  A flock is on an inode and the waiters are on a path:   *)
(* what holds depends on who may remove the file at the path.              *)
(***************************************************************************)
NoTakeover == \A c \in Clients : "retry" \notin Role[c]
OneTakeover ==
    \A c, d \in Clients : "retry" \in Role[c] /\ "retry" \in Role[d] => c = d

\* Everybody who has the lock file open has the one at the path.
AllAtPath == \A c \in Clients : fd[c] \in {None, lockPath}
\* So has the one that takes over.
TakerAtPath ==
    \A c \in Clients : pc[c] \in {"probeLock", "unlink"} => fd[c] = lockPath

\* Only a takeover removes the lock file, and whoever opens it opens what is
\* at the path then.
LEMMA LockFrame ==
    ASSUME IInv, [Next]_vars
    PROVE  /\ \/ lockPath' = lockPath
              \/ lockPath = None
              \/ \E c \in Clients : Unlink(c)
           /\ \A c \in Clients : fd'[c] \in {fd[c], None, lockPath'}
           /\ \A c \in Clients : pc'[c] \in {"probeLock", "unlink"} =>
                \/ pc[c] \in {"probeLock", "unlink"} /\ fd'[c] = fd[c]
                \/ lockPath' = lockPath /\ fd'[c] = lockPath
<1> DEFINE G == /\ \/ lockPath' = lockPath
                   \/ lockPath = None
                   \/ \E c \in Clients : Unlink(c)
                /\ \A c \in Clients : fd'[c] \in {fd[c], None, lockPath'}
                /\ \A c \in Clients : pc'[c] \in {"probeLock", "unlink"} =>
                     \/ pc[c] \in {"probeLock", "unlink"} /\ fd'[c] = fd[c]
                     \/ lockPath' = lockPath /\ fd'[c] = lockPath
<1> SUFFICES G
  OBVIOUS
<1>0. TypeOK /\ \A c \in Clients : Place(c)
  BY DEF IInv, Places
<1>1. ASSUME NEW c \in Clients, lockPath' = lockPath,
             NEW label \in Labels \ {"probeLock", "unlink"}, Goto(c, label)
      PROVE  G
  BY <1>0, <1>1, GotoFrame DEF held
<1> USE DEF fill, Labels
<1>2. ASSUME NEW c \in Clients, Start(c) PROVE G
  BY <1>1, <1>2 DEF Start, Inspect
<1>3. ASSUME NEW c \in Clients, NEW v \in Verdicts, Judge(c, v),
             at[c] = "publish" => v \in {"valid", "error"},
             lockPath' = lockPath
      PROVE  G
  BY <1>0, <1>1, <1>3, JudgeLabel DEF Outcomes
<1>4. ASSUME NEW c \in Clients, Judging(c) PROVE G
  <2>1. CASE Look(c)
    BY <1>0, <1>1, <1>3, <2>1 DEF Look, Place, Verdicts
  <2>2. CASE HashVanished(c)
    BY <1>0, <1>3, <2>2 DEF HashVanished, Place, Verdicts
  <2>3. CASE HashUnsettled(c)
    BY <1>0, <1>1, <1>3, <2>3 DEF HashUnsettled, Place, Verdicts
  <2>4. CASE HashSettled(c)
    BY <1>0, <1>1, <1>3, <2>4 DEF HashSettled, Place, Verdicts
  <2>5. CASE Seal(c)
    BY <1>1, <1>3, <2>5 DEF Seal, Verdicts
  <2>6. CASE Mark(c)
    BY <1>3, <2>6 DEF Mark, Verdicts
  <2>7. CASE Evict(c) \/ EvictMarker(c)
    <3>1. AfterEviction(c) \in Labels \ {"probeLock", "unlink"}
      BY DEF AfterEviction
    <3> QED
      BY <1>1, <2>7, <3>1 DEF Evict, EvictMarker
  <2> QED
    BY <1>4, <2>1, <2>2, <2>3, <2>4, <2>5, <2>6, <2>7 DEF Judging
<1>5. ASSUME NEW c \in Clients, Copy(c) \/ CopyDone(c) PROVE G
  <2>1. ASSUME CopyFails(c), lockPath' = lockPath PROVE G
    BY <1>0, <1>1, <2>1, CopyFailsLabel
  <2> QED
    BY <1>1, <1>5, <2>1 DEF Copy, CopyDone
<1>6. ASSUME NEW c \in Clients,
             LockFails(c) \/ Download(c) \/ Publish(c) \/ Await(c) \/ Probe(c)
      PROVE  G
  BY <1>1, <1>6 DEF LockFails, Download, Publish, Await, Probe, Inspect
<1>7. ASSUME NEW c \in Clients, OpenLock(c) PROVE G
  BY <1>0, <1>7 DEF OpenLock, TypeOK
<1>8. ASSUME NEW c \in Clients, ProbeOpen(c) PROVE G
  BY <1>0, <1>1, <1>8 DEF ProbeOpen, TypeOK
<1>9. ASSUME NEW c \in Clients, ProbeLock(c) PROVE G
  BY <1>0, <1>1, <1>9 DEF ProbeLock, TypeOK
<1>10. ASSUME NEW c \in Clients, Unlink(c) PROVE G
  BY <1>0, <1>10, DropFrame DEF Unlink, TypeOK
<1>11. ASSUME NEW c \in Clients, TakeLock(c) \/ TakeEntryLock(c) PROVE G
  BY <1>0, <1>11 DEF TakeLock, TakeEntryLock, TypeOK
<1>12. ASSUME NEW c \in Clients, Crash(c) PROVE G
  BY <1>0, <1>12, DropFrame DEF Crash, TypeOK
<1>13. ASSUME AgeLock \/ Touch \/ Damage \/ Done \/ UNCHANGED vars PROVE G
  BY <1>13 DEF AgeLock, Touch, Damage, Meddle, Done, vars, held
<1> QED
  BY <1>2, <1>4, <1>5, <1>6, <1>7, <1>8, <1>9, <1>10, <1>11, <1>12, <1>13
     DEF Next, Local, Fetching, Reclaiming, Waiting

\* While no lock file is removed the lock does what it is for: one process at
\* a time fills the entry.
THEOREM OneFillerWithoutTakeover ==
    ASSUME NoTakeover PROVE Spec => []OneFiller
<1>1. Init => AllAtPath
  BY DEF Init, AllAtPath
<1>2. IInv /\ AllAtPath /\ [Next]_vars => AllAtPath'
  <2> SUFFICES ASSUME IInv, AllAtPath, [Next]_vars PROVE AllAtPath'
    OBVIOUS
  <2>1. \A c \in Clients : ~Unlink(c)
    BY DEF NoTakeover, IInv, Places, Place, Takers, Unlink
  <2> QED
    BY <2>1, LockFrame DEF AllAtPath
<1>3. IInv /\ AllAtPath => OneFiller
  BY DEF IInv, Places, Place, Holds, AllAtPath, OneFiller, Filling, FillPhases
<1> QED
  BY <1>1, <1>2, <1>3, Invariant, PTL DEF Spec

\* A single takeover removes only the lock file that it has locked itself,
\* so never that of a live filler.  With two of them this is false.
THEOREM LiveLockIsKept ==
    ASSUME OneTakeover PROVE Spec => LiveLockStays
<1>1. Init => TakerAtPath
  BY DEF Init, TakerAtPath
<1>2. ASSUME IInv, TakerAtPath, NEW c \in Clients, Unlink(c)
      PROVE  \A d \in Clients : pc[d] \in {"probeLock", "unlink"} => d = c
  BY <1>2 DEF OneTakeover, IInv, Places, Place, Takers, Unlink
<1>3. IInv /\ TakerAtPath /\ [Next]_vars => TakerAtPath'
  <2> SUFFICES ASSUME IInv, TakerAtPath, [Next]_vars,
                      NEW c \in Clients, pc'[c] \in {"probeLock", "unlink"}
               PROVE  fd'[c] = lockPath'
    BY DEF TakerAtPath
  <2>1. CASE lockPath' = lockPath
    BY <2>1, LockFrame DEF TakerAtPath
  <2>2. CASE lockPath = None /\ lockPath' # lockPath
    <3>1. \A d \in Clients : pc[d] \notin {"probeLock", "unlink"}
      BY <2>2 DEF TakerAtPath, IInv, Places, Place
    <3> QED
      BY <2>2, <3>1, LockFrame
  <2>3. ASSUME NEW d \in Clients, Unlink(d) PROVE FALSE
    <3>1. pc'[d] \notin {"probeLock", "unlink"}
      BY <2>3 DEF Unlink, IInv, TypeOK
    <3>2. \A e \in Clients \ {d} : pc'[e] = pc[e]
      BY <2>3 DEF Unlink, IInv, TypeOK
    <3> QED
      BY <1>2, <2>3, <3>1, <3>2
  <2> QED
    BY <2>1, <2>2, <2>3, LockFrame
<1>4. IInv /\ TakerAtPath /\ [Next]_vars
        => (lockPath # None /\ lockPath' = None
              => \A c \in Clients : flock[lockPath] = c => pc[c] = "unlink")
  <2> SUFFICES ASSUME IInv, TakerAtPath, [Next]_vars,
                      lockPath # None, lockPath' = None,
                      NEW c \in Clients, flock[lockPath] = c
               PROVE  pc[c] = "unlink"
    OBVIOUS
  <2>1. PICK d \in Clients : Unlink(d)
    BY LockFrame
  <2>2. pc[d] = "unlink" /\ Holds(d) /\ fd[d] = lockPath
    BY <2>1 DEF Unlink, TakerAtPath, IInv, Places, Place, FillPhases
  <2> QED
    BY <2>2 DEF Holds
<1> QED
  BY <1>1, <1>3, <1>4, Invariant, PTL DEF Spec, LiveLockStays

(***************************************************************************)
(* Who holds a lock is at work: the safety half of OperationsEnd.          *)
(***************************************************************************)
\* A process holds at most one of the entry's locks, and while it does it
\* inspects, fetches, publishes or removes the lock file: it neither waits for
\* a lock or a fill, nor has it ended or died.  So nobody waits in a circle,
\* and a waiter waits for work that is being done
\* (acquire_wheel_store_fill_lock, store_wheel_in_cache).
LocksAreInUse ==
    /\ \A l \in Locks, c \in Clients :
         flock[l] = c => fd[c] = l /\ pc[c] \in FillPhases \cup {"unlink"}
    /\ \A c \in Clients :
         entryLock = c => fd[c] = None /\ pc[c] \in FillPhases

\* The same, and where the holder of the entry lock was asked for.
Working == FillPhases \cup {"unlink"}
UsesFlock(c) ==
    \A l \in Locks : flock[l] = c => fd[c] = l /\ pc[c] \in Working
UsesEntryLock(c) ==
    entryLock = c => /\ fd[c] = None /\ pc[c] \in FillPhases
                     /\ at[c] \in {"persist", "publish"}
Uses(c) == UsesFlock(c) /\ UsesEntryLock(c)
AllUse == \A c \in Clients : Uses(c)

\* A step of one process leaves to the others what they hold.
LEMMA OthersUse ==
    ASSUME TypeOK, AllUse, NEW c \in Clients, Uses(c)',
           \A d \in Clients \ {c} : pc'[d] = pc[d] /\ at'[d] = at[d] /\ fd'[d] = fd[d],
           \A l \in Locks : flock'[l] \in {flock[l], None, c},
           entryLock' \in {entryLock, None, c}
    PROVE  AllUse'
<1> SUFFICES ASSUME NEW d \in Clients \ {c} PROVE Uses(d)'
  BY DEF AllUse
<1>1. Uses(d) /\ d # None /\ d # c
  BY StoreAssumption DEF AllUse
<1>2. UsesFlock(d)'
  BY <1>1 DEF Uses, UsesFlock
<1>3. UsesEntryLock(d)'
  BY <1>1 DEF Uses, UsesEntryLock
<1> QED
  BY <1>2, <1>3 DEF Uses

\* Who works on keeps its locks, who ends drops them.
LEMMA WorkOn ==
    ASSUME TypeOK, AllUse, NEW c \in Clients,
           NEW label \in FillPhases \cup {"end"}, Goto(c, label),
           pc[c] \in FillPhases, at'[c] \in {at[c], "publish"},
           \A d \in Clients \ {c} : at'[d] = at[d]
    PROVE  AllUse'
<1>1. /\ pc' = [pc EXCEPT ![c] = label]
      /\ IF label = "end" THEN DropLocks(c) ELSE UNCHANGED held
  BY DEF Goto
<1>2. Uses(c)
  BY DEF AllUse
<1>3. CASE label = "end"
  <2>1. Uses(c)'
    BY <1>1, <1>3, StoreAssumption
       DEF DropLocks, Uses, UsesFlock, UsesEntryLock, TypeOK
  <2>2. \A l \in Locks : flock'[l] \in {flock[l], None, c}
    BY <1>1, <1>3 DEF DropLocks
  <2>3. entryLock' \in {entryLock, None, c}
    BY <1>1, <1>3 DEF DropLocks
  <2>4. \A d \in Clients \ {c} : pc'[d] = pc[d] /\ at'[d] = at[d] /\ fd'[d] = fd[d]
    BY <1>1, <1>3 DEF DropLocks, TypeOK
  <2> QED
    BY <2>1, <2>2, <2>3, <2>4, OthersUse
<1>4. CASE label \in FillPhases
  <2>1. flock' = flock /\ fd' = fd /\ entryLock' = entryLock
    BY <1>1, <1>4 DEF held, FillPhases
  <2>2. pc'[c] = label /\ \A d \in Clients \ {c} : pc'[d] = pc[d]
    BY <1>1 DEF TypeOK
  <2>3. UsesFlock(c)'
    BY <1>2, <1>4, <2>1, <2>2 DEF Uses, UsesFlock, Working
  <2>4. UsesEntryLock(c)'
    BY <1>2, <1>4, <2>1, <2>2 DEF Uses, UsesEntryLock
  <2> QED
    BY <2>1, <2>2, <2>3, <2>4, OthersUse DEF Uses
<1> QED
  BY <1>3, <1>4

\* Who is not at work holds nothing, and opening a file takes no lock.
LEMMA TakeNothing ==
    ASSUME TypeOK, AllUse, NEW c \in Clients, pc[c] \notin Working,
           \A d \in Clients \ {c} : pc'[d] = pc[d] /\ at'[d] = at[d] /\ fd'[d] = fd[d],
           \A l \in Locks : flock'[l] \in {flock[l], None},
           entryLock' \in {entryLock, None}
    PROVE  AllUse'
<1>1. (\A l \in Locks : flock[l] # c) /\ entryLock # c
  BY DEF AllUse, Uses, UsesFlock, UsesEntryLock, Working
<1>2. Uses(c)'
  BY <1>1, StoreAssumption DEF Uses, UsesFlock, UsesEntryLock
<1> QED
  BY <1>2, OthersUse

\* The first inspection of a fetch is made without any lock.
LEMMA FirstHoldsNothing ==
    ASSUME IInv, AllUse, NEW c \in Clients, pc[c] \in FillPhases,
           at[c] = "first"
    PROVE  (\A l \in Locks : flock[l] # c) /\ entryLock # c
<1>1. fd[c] = None
  BY DEF IInv, Places, Place, FillPhases
<1> QED
  BY <1>1, StoreAssumption DEF AllUse, Uses, UsesFlock, UsesEntryLock

\* So it may go for the fill lock.
LEMMA GoForLock ==
    ASSUME IInv, AllUse, NEW c \in Clients, Goto(c, "open"),
           pc[c] \in FillPhases, at[c] = "first", at' = at
    PROVE  AllUse'
<1>1. (\A l \in Locks : flock[l] # c) /\ entryLock # c
  BY FirstHoldsNothing
<1>2. /\ pc' = [pc EXCEPT ![c] = "open"]
      /\ flock' = flock /\ fd' = fd /\ entryLock' = entryLock
  BY DEF Goto, held
<1>3. Uses(c)'
  BY <1>1, <1>2 DEF Uses, UsesFlock, UsesEntryLock
<1>4. \A d \in Clients \ {c} : pc'[d] = pc[d] /\ at'[d] = at[d] /\ fd'[d] = fd[d]
  BY <1>2 DEF IInv, TypeOK
<1> QED
  BY <1>2, <1>3, <1>4, OthersUse DEF IInv

LEMMA JudgeUse ==
    ASSUME IInv, AllUse, NEW c \in Clients, NEW v \in Verdicts, Judge(c, v),
           at[c] = "publish" => v \in {"valid", "error"},
           pc[c] \in FillPhases, at' = at
    PROVE  AllUse'
<1>1. PICK label \in Outcomes :
        Goto(c, label) /\ (label = "open" => at[c] = "first")
  BY JudgeLabel DEF IInv
<1>2. CASE label = "open"
  BY <1>1, <1>2, GoForLock
<1>3. CASE label # "open"
  <2>1. label \in FillPhases \cup {"end"}
    BY <1>3 DEF Outcomes, FillPhases
  <2> QED
    BY <1>1, <2>1, WorkOn DEF IInv
<1> QED
  BY <1>2, <1>3

LEMMA CopyFailsUse ==
    ASSUME IInv, AllUse, NEW c \in Clients, CopyFails(c),
           pc[c] \in FillPhases, at' = at
    PROVE  AllUse'
<1>1. PICK label \in {"inspect", "open", "download"} :
        Goto(c, label) /\ (label = "open" => at[c] = "first")
  BY CopyFailsLabel DEF IInv
<1>2. CASE label = "open"
  BY <1>1, <1>2, GoForLock
<1>3. CASE label # "open"
  <2>1. label \in FillPhases \cup {"end"}
    BY <1>1, <1>3 DEF FillPhases
  <2> QED
    BY <1>1, <2>1, WorkOn DEF IInv
<1> QED
  BY <1>2, <1>3

LEMMA JudgingUse ==
    ASSUME IInv, AllUse, NEW c \in Clients, Judging(c)
    PROVE  AllUse'
<1>1. TypeOK /\ Place(c)
  BY DEF IInv, Places
<1>2. {"hash", "seal", "mark", "evictMarker"} \subseteq FillPhases \cup {"end"}
  BY DEF FillPhases
<1>3. CASE Look(c)
  <2>1. pc[c] \in FillPhases /\ at' = at /\ at[c] # "publish"
    BY <1>1, <1>3 DEF Look, FillPhases, Place
  <2> QED
    BY <1>1, <1>2, <1>3, <2>1, JudgeUse, WorkOn DEF Look, Verdicts
<1>4. CASE HashVanished(c) \/ HashUnsettled(c) \/ HashSettled(c)
  <2>1. pc[c] \in FillPhases /\ at' = at /\ at[c] # "publish"
    BY <1>1, <1>4
       DEF HashVanished, HashUnsettled, HashSettled, FillPhases, Place, client
  <2> QED
    BY <1>1, <1>2, <1>4, <2>1, JudgeUse, WorkOn
       DEF HashVanished, HashUnsettled, HashSettled, Verdicts
<1>5. CASE Seal(c) \/ Mark(c)
  <2>1. pc[c] \in FillPhases /\ at' = at
    BY <1>5 DEF Seal, Mark, FillPhases, client
  <2> QED
    BY <1>1, <1>2, <1>5, <2>1, JudgeUse, WorkOn DEF Seal, Mark, Verdicts
<1>6. CASE Evict(c) \/ EvictMarker(c)
  <2>1. pc[c] \in FillPhases /\ at' = at
    BY <1>6 DEF Evict, EvictMarker, FillPhases, client
  <2>2. AfterEviction(c) \in FillPhases \cup {"end"}
    BY DEF AfterEviction, FillPhases
  <2> QED
    BY <1>1, <1>2, <1>6, <2>1, <2>2, WorkOn DEF Evict, EvictMarker
<1> QED
  BY <1>3, <1>4, <1>5, <1>6 DEF Judging

LEMMA FetchingUse ==
    ASSUME IInv, AllUse, NEW c \in Clients, Fetching(c)
    PROVE  AllUse'
<1>1. TypeOK /\ Place(c)
  BY DEF IInv, Places
<1>2. {"copying", "publish", "seal", "end"} \subseteq FillPhases \cup {"end"}
  BY DEF FillPhases
<1>3. CASE Copy(c) \/ CopyDone(c)
  <2>1. pc[c] \in FillPhases /\ at' = at
    BY <1>3 DEF Copy, CopyDone, FillPhases
  <2> QED
    BY <1>1, <1>2, <1>3, <2>1, CopyFailsUse, WorkOn DEF Copy, CopyDone
<1>4. CASE Download(c)
  BY <1>1, <1>2, <1>4, WorkOn DEF Download, FillPhases
<1>5. CASE Publish(c)
  <2>1. /\ pc[c] \in FillPhases /\ at'[c] \in {at[c], "publish"}
        /\ \A d \in Clients \ {c} : at'[d] = at[d]
    BY <1>1, <1>5 DEF Publish, FillPhases, TypeOK
  <2> QED
    BY <1>1, <1>2, <1>5, <2>1, WorkOn DEF Publish
<1>6. CASE OpenLock(c)
  <2>1. PICK l : /\ fd' = [fd EXCEPT ![c] = l]
                 /\ pc' = [pc EXCEPT ![c] = "lock"]
                 /\ UNCHANGED <<flock, entryLock, at>>
    BY <1>6 DEF OpenLock, client
  <2>2. pc[c] \notin Working
    BY <1>6 DEF OpenLock, Working, FillPhases
  <2> QED
    BY <1>1, <2>1, <2>2, TakeNothing DEF TypeOK
<1>7. CASE LockFails(c)
  <2>1. /\ pc' = [pc EXCEPT ![c] = "inspect"]
        /\ at' = [at EXCEPT ![c] = "unlocked"] /\ UNCHANGED held
    BY <1>7 DEF LockFails, Inspect, Goto
  <2>2. pc[c] \notin Working
    BY <1>7 DEF LockFails, Working, FillPhases
  <2> QED
    BY <1>1, <2>1, <2>2, TakeNothing DEF TypeOK, held
<1> QED
  BY <1>3, <1>4, <1>5, <1>6, <1>7 DEF Fetching

\* A step to a label, by who holds nothing.
LEMMA GoUse ==
    ASSUME TypeOK, AllUse, NEW c \in Clients, NEW label, Goto(c, label),
           pc[c] \notin Working,
           \A d \in Clients \ {c} : at'[d] = at[d]
    PROVE  AllUse'
<1>1. pc' = [pc EXCEPT ![c] = label]
  BY DEF Goto
<1>2. /\ \A l \in Locks : flock'[l] \in {flock[l], None}
      /\ entryLock' \in {entryLock, None}
      /\ \A d \in Clients \ {c} : fd'[d] = fd[d]
  BY DEF Goto, DropLocks, held, TypeOK
<1>3. \A d \in Clients \ {c} : pc'[d] = pc[d]
  BY <1>1 DEF TypeOK
<1> QED
  BY <1>2, <1>3, TakeNothing

\* Who drops its locks holds none.
LEMMA DropUse ==
    ASSUME TypeOK, AllUse, NEW c \in Clients, DropLocks(c),
           \A d \in Clients \ {c} : pc'[d] = pc[d] /\ at'[d] = at[d]
    PROVE  AllUse'
<1>1. /\ \A l \in Locks : flock'[l] \in {flock[l], None} /\ flock'[l] # c
      /\ entryLock' \in {entryLock, None} /\ entryLock' # c
      /\ \A d \in Clients \ {c} : fd'[d] = fd[d]
  BY StoreAssumption DEF DropLocks, TypeOK
<1>2. Uses(c)'
  BY <1>1 DEF Uses, UsesFlock, UsesEntryLock
<1> QED
  BY <1>1, <1>2, OthersUse

LEMMA ReclaimingUse ==
    ASSUME IInv, AllUse, NEW c \in Clients, Reclaiming(c)
    PROVE  AllUse'
<1>1. TypeOK /\ Place(c)
  BY DEF IInv, Places
<1>2. CASE Await(c) \/ Probe(c)
  <2>1. pc[c] \notin Working /\ \A d \in Clients \ {c} : at'[d] = at[d]
    BY <1>1, <1>2
       DEF Await, Probe, Inspect, Working, FillPhases, client, TypeOK
  <2> QED
    BY <1>1, <1>2, <2>1, GoUse DEF Await, Probe, Inspect
<1>3. CASE ProbeOpen(c)
  <2>1. pc[c] \notin Working /\ at' = at
    BY <1>3 DEF ProbeOpen, Working, FillPhases, client
  <2>2. CASE Goto(c, "end")
    BY <1>1, <2>1, <2>2, GoUse
  <2>3. CASE /\ fd' = [fd EXCEPT ![c] = lockPath]
             /\ pc' = [pc EXCEPT ![c] = "probeLock"]
             /\ UNCHANGED <<flock, entryLock>>
    BY <1>1, <2>1, <2>3, TakeNothing DEF TypeOK
  <2> QED
    BY <1>3, <2>2, <2>3 DEF ProbeOpen
<1>4. CASE ProbeLock(c)
  <2>1. pc[c] \notin Working /\ at' = at
    BY <1>4 DEF ProbeLock, Working, FillPhases, client
  <2>2. CASE Goto(c, "end")
    BY <1>1, <2>1, <2>2, GoUse
  <2>3. CASE /\ flock' = [flock EXCEPT ![fd[c]] = c]
             /\ pc' = [pc EXCEPT ![c] = "unlink"]
             /\ UNCHANGED <<fd, entryLock>>
    <3>1. (\A l \in Locks : flock[l] # c) /\ entryLock # c
      BY <2>1 DEF AllUse, Uses, UsesFlock, UsesEntryLock, Working
    <3>2. \A l \in Locks : flock'[l] \in {flock[l], c} /\ (flock'[l] = c => l = fd[c])
      BY <1>1, <2>3, <3>1 DEF TypeOK
    <3>3. pc'[c] = "unlink" /\ \A d \in Clients \ {c} : pc'[d] = pc[d]
      BY <1>1, <2>3 DEF TypeOK
    <3>4. Uses(c)'
      BY <2>3, <3>1, <3>2, <3>3 DEF Uses, UsesFlock, UsesEntryLock, Working
    <3> QED
      BY <1>1, <2>1, <2>3, <3>2, <3>3, <3>4, OthersUse
  <2> QED
    BY <1>4, <2>2, <2>3 DEF ProbeLock
<1>5. CASE Unlink(c)
  <2>1. \A d \in Clients \ {c} : pc'[d] = pc[d] /\ at'[d] = at[d]
    BY <1>1, <1>5 DEF Unlink, TypeOK
  <2> QED
    BY <1>1, <1>5, <2>1, DropUse DEF Unlink
<1> QED
  BY <1>2, <1>3, <1>4, <1>5 DEF Reclaiming

LEMMA WaitingUse ==
    ASSUME IInv, AllUse, NEW c \in Clients, Waiting(c)
    PROVE  AllUse'
<1>1. TypeOK /\ Place(c)
  BY DEF IInv, Places
<1>2. pc[c] \in {"lock", "entry"}
  BY DEF Waiting, TakeLock, TakeEntryLock
<1>3. (\A l \in Locks : flock[l] # c) /\ entryLock # c
  BY <1>2
     DEF AllUse, Uses, UsesFlock, UsesEntryLock, Working, FillPhases
<1>4. pc'[c] = "inspect" /\ fd' = fd
  BY <1>1 DEF Waiting, TakeLock, TakeEntryLock, TypeOK
<1>5. \A d \in Clients \ {c} : pc'[d] = pc[d] /\ at'[d] = at[d]
  BY <1>1 DEF Waiting, TakeLock, TakeEntryLock, TypeOK
<1>6. CASE TakeLock(c)
  <2>1. flock' = [flock EXCEPT ![fd[c]] = c] /\ entryLock' = entryLock
    BY <1>6 DEF TakeLock
  <2>2. \A l \in Locks : flock'[l] \in {flock[l], c} /\ (flock'[l] = c => l = fd[c])
    BY <1>1, <1>3, <2>1 DEF TypeOK
  <2>3. Uses(c)'
    BY <1>3, <1>4, <2>1, <2>2
       DEF Uses, UsesFlock, UsesEntryLock, Working, FillPhases
  <2> QED
    BY <1>1, <1>4, <1>5, <2>1, <2>2, <2>3, OthersUse
<1>7. CASE TakeEntryLock(c)
  <2>1. entryLock' = c /\ flock' = flock /\ at'[c] = "persist"
    BY <1>1, <1>7 DEF TakeEntryLock, TypeOK
  <2>2. fd[c] = None
    BY <1>1, <1>7 DEF TakeEntryLock, Place, FillPhases
  <2>3. Uses(c)'
    BY <1>3, <1>4, <2>1, <2>2
       DEF Uses, UsesFlock, UsesEntryLock, FillPhases
  <2> QED
    BY <1>1, <1>4, <1>5, <2>1, <2>3, OthersUse
<1> QED
  BY <1>6, <1>7 DEF Waiting

LEMMA UseStep == IInv /\ AllUse /\ [Next]_vars => AllUse'
<1> SUFFICES ASSUME IInv, AllUse, [Next]_vars PROVE AllUse'
  OBVIOUS
<1>1. TypeOK
  BY DEF IInv
<1>2. ASSUME NEW c \in Clients, Start(c) PROVE AllUse'
  <2>1. pc[c] \notin Working /\ \A d \in Clients \ {c} : at'[d] = at[d]
    BY <1>1, <1>2 DEF Start, Inspect, Working, FillPhases, TypeOK
  <2> QED
    BY <1>1, <1>2, <2>1, GoUse DEF Start, Inspect
<1>3. ASSUME NEW c \in Clients, Local(c) \/ Waiting(c) PROVE AllUse'
  BY <1>3, JudgingUse, FetchingUse, ReclaimingUse, WaitingUse DEF Local
<1>4. ASSUME NEW c \in Clients, Crash(c) PROVE AllUse'
  <2>1. \A d \in Clients \ {c} : pc'[d] = pc[d] /\ at'[d] = at[d]
    BY <1>1, <1>4 DEF Crash, client, TypeOK
  <2> QED
    BY <1>1, <1>4, <2>1, DropUse DEF Crash
<1>5. ASSUME UNCHANGED <<held, pc, client>> PROVE AllUse'
  BY <1>5 DEF AllUse, Uses, UsesFlock, UsesEntryLock, held, client
<1> QED
  BY <1>2, <1>3, <1>4, <1>5
     DEF Next, AgeLock, Touch, Damage, Meddle, Done, vars

\* Whatever fails, dies or is taken over: no lock of the entry outlives the
\* operation it was taken for, nobody holds two of them or waits while it
\* holds one, and a waiter waits for a process at work.
THEOREM WaitersWaitForWork == Spec => []LocksAreInUse
<1>1. Init => AllUse
  BY StoreAssumption DEF Init, AllUse, Uses, UsesFlock, UsesEntryLock
<1>2. AllUse => LocksAreInUse
  BY DEF AllUse, Uses, UsesFlock, UsesEntryLock, Working, LocksAreInUse
<1> QED
  BY <1>1, <1>2, UseStep, Invariant, PTL DEF Spec
=============================================================================
