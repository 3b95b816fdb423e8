------------------------ MODULE SnapshotStoreProofs ------------------------
(***************************************************************************)
(* Proofs about SnapshotStore for any number of calls, reaper passes,      *)
(* trees, horizons and crashes, and every combination of faults.           *)
(***************************************************************************)
EXTENDS SnapshotStore, TLAPS

(***************************************************************************)
(* The inductive invariant.                                                *)
(***************************************************************************)
\* Between taking the lock and dropping it, and only there, a call or a pass
\* is the holder.
LockedSteps == {"look", "seal", "lockedTouch", "clone"}
LockedReapSteps == {"recheck", "rename", "moveStamp"}
LockIsHeld ==
    /\ \A c \in Callers : pc[c] \in LockedSteps <=> lock = c
    /\ \A r \in Reapers : step[r] \in LockedReapSteps <=> lock = r

\* Trees are marked when they appear at the path.
MarkedTreesExist == marked \subseteq 1..trees

\* What is sealed or stamped under the lock is a published tree.
HitsAreMarked ==
    \A c \in Callers : pc[c] \in {"seal", "lockedTouch"} => entry \in marked

\* A call stamps the entry under its lock once, when it begins to use it.
StampsAreLate ==
    \A c \in held : c \in Callers /\ pc[c] \in {"using", "done", "failed"}

\* As long as a locked hit uses the entry its stamp is fresh, and the reaper
\* has not decided against it.
UsedEntriesAreFresh ==
    \A c \in held :
        pc[c] = "using" =>
            /\ entry \in marked
            /\ stamp = "fresh"
            /\ \A r \in Reapers : step[r] \notin {"rename", "moveStamp"}

Inv ==
    /\ TypeOK
    /\ LockIsHeld
    /\ MarkedTreesExist
    /\ HitsAreMarked
    /\ StampsAreLate
    /\ ClonesAreNeeded
    /\ NothingIsLost
    /\ UsedEntriesAreFresh

LEMMA InitInv ==
    ASSUME Init PROVE Inv
<1> USE StoreAssumption DEF Init
<1>1. TypeOK
  <2>1. trees \in 0..MaxTrees /\ entry \in 0..trees
    OBVIOUS
  <2>2. marked \subseteq Trees /\ sealed \subseteq marked
    BY DEF Trees
  <2>3. pc \in [Callers -> CallSteps] /\ step \in [Reapers -> ReapSteps]
    BY DEF CallSteps, ReapSteps
  <2> QED
    BY <2>1, <2>2, <2>3 DEF TypeOK, Trees
<1>2. LockIsHeld
  BY DEF LockIsHeld, LockedSteps, LockedReapSteps
<1>3. MarkedTreesExist /\ NothingIsLost
  BY DEF MarkedTreesExist, NothingIsLost
<1>4. HitsAreMarked /\ StampsAreLate /\ ClonesAreNeeded /\ UsedEntriesAreFresh
  BY DEF HitsAreMarked, StampsAreLate, ClonesAreNeeded, UsedEntriesAreFresh
<1> QED
  BY <1>1, <1>2, <1>3, <1>4 DEF Inv

\* Types.
LEMMA TypeStep ==
    ASSUME Inv, [Next]_vars PROVE TypeOK'
<1> USE StoreAssumption DEF Inv, TypeOK, Trees, CallSteps, ReapSteps,
        HitsAreMarked, content, bounds
<1>1. ASSUME NEW c \in Callers, Check(c) PROVE TypeOK'
  BY <1>1 DEF Check, Go, Whole, Passes
<1>2. ASSUME NEW c \in Callers, Touch(c) PROVE TypeOK'
  BY <1>2 DEF Touch, Stamp, Go
<1>3. ASSUME NEW c \in Callers, TakeLock(c) PROVE TypeOK'
  BY <1>3 DEF TakeLock, Go
<1>4. ASSUME NEW c \in Callers, Look(c) PROVE TypeOK'
  BY <1>4 DEF Look, Fail, Go, Whole, Passes
<1>5. ASSUME NEW c \in Callers, SealForward(c) PROVE TypeOK'
  BY <1>5 DEF SealForward, Go
<1>6. ASSUME NEW c \in Callers, LockedTouch(c) PROVE TypeOK'
  BY <1>6 DEF LockedTouch, Stamp, Go
<1>7. ASSUME NEW c \in Callers, CloneFails(c) PROVE TypeOK'
  BY <1>7 DEF CloneFails, Fail, Go
<1>8. ASSUME NEW c \in Callers, Publish(c) PROVE TypeOK'
  BY <1>8 DEF Publish, Go
<1>9. ASSUME NEW c \in Callers, Verify(c) PROVE TypeOK'
  BY <1>9 DEF Verify, Go, Whole
<1>10. ASSUME NEW c \in Callers, Revalidate(c) PROVE TypeOK'
  BY <1>10 DEF Revalidate, Go, Whole, Passes
<1>11. ASSUME NEW c \in Callers, Damage(c) PROVE TypeOK'
  BY <1>11 DEF Damage
<1>12. ASSUME NEW c \in Callers, CallerDies(c) PROVE TypeOK'
  BY <1>12 DEF CallerDies, Go
<1>13. ASSUME NEW r \in Reapers, Begin(r) PROVE TypeOK'
  BY <1>13 DEF Begin, Leave, Advance
<1>14. ASSUME NEW r \in Reapers, Scan(r) PROVE TypeOK'
  BY <1>14 DEF Scan, Leave, Advance, Referenced
<1>15. ASSUME NEW r \in Reapers, TryEntry(r) PROVE TypeOK'
  BY <1>15 DEF TryEntry, Leave, Advance
<1>16. ASSUME NEW r \in Reapers, Recheck(r) PROVE TypeOK'
  BY <1>16 DEF Recheck, Leave, Advance, Referenced
<1>17. ASSUME NEW r \in Reapers, Rename(r) PROVE TypeOK'
  <2>1. entry # 0 => entry \in Trees
    OBVIOUS
  <2>2. quarantine' \subseteq Trees
    BY <1>17, <2>1, Zenon DEF Rename
  <2>3. entry' \in 0..trees'
    BY <1>17 DEF Rename
  <2>4. step' \in [Reapers -> ReapSteps]
    BY <1>17 DEF Rename, Leave, Advance
  <2>5. lock' \in Callers \cup Reapers \cup {None}
    BY <1>17 DEF Rename, Leave
  <2>6. reaping' \in Reapers \cup {None}
    BY <1>17 DEF Rename, Leave
  <2> QED
    BY <1>17, <2>2, <2>3, <2>4, <2>5, <2>6 DEF Rename
<1>18. ASSUME NEW r \in Reapers, MoveStamp(r) PROVE TypeOK'
  BY <1>18 DEF MoveStamp, Leave, Advance
<1>19. ASSUME NEW r \in Reapers, ReaperDies(r) PROVE TypeOK'
  BY <1>19 DEF ReaperDies, Leave, Advance
<1>20. CASE HorizonPasses
  <2>1. horizons' \in 0..MaxHorizons
    BY <1>20 DEF HorizonPasses
  <2>2. stamp' \in {"none", "fresh", "old"}
    BY <1>20 DEF HorizonPasses
  <2> QED
    BY <1>20, <2>1, <2>2 DEF HorizonPasses
<1>21. CASE UNCHANGED vars
  BY <1>21 DEF vars
<1> QED
  BY <1>1, <1>2, <1>3, <1>4, <1>5, <1>6, <1>7, <1>8, <1>9, <1>10, <1>11,
     <1>12, <1>13, <1>14, <1>15, <1>16, <1>17, <1>18, <1>19, <1>20, <1>21
     DEF Next, CallStep, ReapStep, Done

\* The lock excludes callers and passes, whoever dies.
LEMMA LockStep ==
    ASSUME Inv, [Next]_vars PROVE LockIsHeld'
<1> USE StoreAssumption DEF Inv, TypeOK, LockIsHeld, LockedSteps,
        LockedReapSteps, CallSteps, ReapSteps, content, bounds
<1>1. ASSUME NEW c \in Callers, Check(c) PROVE LockIsHeld'
  BY <1>1 DEF Check, Go, Whole, Passes
<1>2. ASSUME NEW c \in Callers, Touch(c) PROVE LockIsHeld'
  BY <1>2 DEF Touch, Stamp, Go
<1>3. ASSUME NEW c \in Callers, TakeLock(c) PROVE LockIsHeld'
  BY <1>3 DEF TakeLock, Go
<1>4. ASSUME NEW c \in Callers, Look(c) PROVE LockIsHeld'
  BY <1>4 DEF Look, Fail, Go, Whole, Passes
<1>5. ASSUME NEW c \in Callers, SealForward(c) PROVE LockIsHeld'
  BY <1>5 DEF SealForward, Go
<1>6. ASSUME NEW c \in Callers, LockedTouch(c) PROVE LockIsHeld'
  BY <1>6 DEF LockedTouch, Stamp, Go
<1>7. ASSUME NEW c \in Callers, CloneFails(c) PROVE LockIsHeld'
  BY <1>7 DEF CloneFails, Fail, Go
<1>8. ASSUME NEW c \in Callers, Publish(c) PROVE LockIsHeld'
  BY <1>8 DEF Publish, Go
<1>9. ASSUME NEW c \in Callers, Verify(c) PROVE LockIsHeld'
  BY <1>9 DEF Verify, Go, Whole
<1>10. ASSUME NEW c \in Callers, Revalidate(c) PROVE LockIsHeld'
  BY <1>10 DEF Revalidate, Go, Whole, Passes
<1>11. ASSUME NEW c \in Callers, Damage(c) PROVE LockIsHeld'
  BY <1>11 DEF Damage
<1>12. ASSUME NEW c \in Callers, CallerDies(c) PROVE LockIsHeld'
  BY <1>12 DEF CallerDies, Go
<1>13. ASSUME NEW r \in Reapers, Begin(r) PROVE LockIsHeld'
  BY <1>13 DEF Begin, Leave, Advance
<1>14. ASSUME NEW r \in Reapers, Scan(r) PROVE LockIsHeld'
  BY <1>14 DEF Scan, Leave, Advance, Referenced
<1>15. ASSUME NEW r \in Reapers, TryEntry(r) PROVE LockIsHeld'
  BY <1>15 DEF TryEntry, Leave, Advance
<1>16. ASSUME NEW r \in Reapers, Recheck(r) PROVE LockIsHeld'
  BY <1>16 DEF Recheck, Leave, Advance, Referenced
<1>17. ASSUME NEW r \in Reapers, Rename(r) PROVE LockIsHeld'
  BY <1>17 DEF Rename, Leave, Advance
<1>18. ASSUME NEW r \in Reapers, MoveStamp(r) PROVE LockIsHeld'
  BY <1>18 DEF MoveStamp, Leave, Advance
<1>19. ASSUME NEW r \in Reapers, ReaperDies(r) PROVE LockIsHeld'
  BY <1>19 DEF ReaperDies, Leave, Advance
<1>20. CASE HorizonPasses
  BY <1>20 DEF HorizonPasses, Ended
<1>21. CASE UNCHANGED vars
  BY <1>21 DEF vars
<1> QED
  BY <1>1, <1>2, <1>3, <1>4, <1>5, <1>6, <1>7, <1>8, <1>9, <1>10, <1>11,
     <1>12, <1>13, <1>14, <1>15, <1>16, <1>17, <1>18, <1>19, <1>20, <1>21
     DEF Next, CallStep, ReapStep, Done

\* A new tree is the first of its number.
LEMMA MarkedStep ==
    ASSUME Inv, [Next]_vars PROVE MarkedTreesExist'
<1> USE StoreAssumption DEF Inv, TypeOK, MarkedTreesExist, HitsAreMarked,
        Trees, content, bounds
<1>1. ASSUME NEW c \in Callers, Check(c) PROVE MarkedTreesExist'
  BY <1>1 DEF Check, Go, Whole, Passes
<1>2. ASSUME NEW c \in Callers, Touch(c) PROVE MarkedTreesExist'
  BY <1>2 DEF Touch, Stamp, Go
<1>3. ASSUME NEW c \in Callers, TakeLock(c) PROVE MarkedTreesExist'
  BY <1>3 DEF TakeLock, Go
<1>4. ASSUME NEW c \in Callers, Look(c) PROVE MarkedTreesExist'
  BY <1>4 DEF Look, Fail, Go, Whole, Passes
<1>5. ASSUME NEW c \in Callers, SealForward(c) PROVE MarkedTreesExist'
  BY <1>5 DEF SealForward, Go
<1>6. ASSUME NEW c \in Callers, LockedTouch(c) PROVE MarkedTreesExist'
  BY <1>6 DEF LockedTouch, Stamp, Go
<1>7. ASSUME NEW c \in Callers, CloneFails(c) PROVE MarkedTreesExist'
  BY <1>7 DEF CloneFails, Fail, Go
<1>8. ASSUME NEW c \in Callers, Publish(c) PROVE MarkedTreesExist'
  BY <1>8 DEF Publish, Go
<1>9. ASSUME NEW c \in Callers, Verify(c) PROVE MarkedTreesExist'
  BY <1>9 DEF Verify, Go, Whole
<1>10. ASSUME NEW c \in Callers, Revalidate(c) PROVE MarkedTreesExist'
  BY <1>10 DEF Revalidate, Go, Whole, Passes
<1>11. ASSUME NEW c \in Callers, Damage(c) PROVE MarkedTreesExist'
  BY <1>11 DEF Damage
<1>12. ASSUME NEW c \in Callers, CallerDies(c) PROVE MarkedTreesExist'
  BY <1>12 DEF CallerDies, Go
<1>13. ASSUME NEW r \in Reapers, Begin(r) PROVE MarkedTreesExist'
  BY <1>13 DEF Begin, Leave, Advance
<1>14. ASSUME NEW r \in Reapers, Scan(r) PROVE MarkedTreesExist'
  BY <1>14 DEF Scan, Leave, Advance, Referenced
<1>15. ASSUME NEW r \in Reapers, TryEntry(r) PROVE MarkedTreesExist'
  BY <1>15 DEF TryEntry, Leave, Advance
<1>16. ASSUME NEW r \in Reapers, Recheck(r) PROVE MarkedTreesExist'
  BY <1>16 DEF Recheck, Leave, Advance, Referenced
<1>17. ASSUME NEW r \in Reapers, Rename(r) PROVE MarkedTreesExist'
  BY <1>17 DEF Rename, Leave, Advance
<1>18. ASSUME NEW r \in Reapers, MoveStamp(r) PROVE MarkedTreesExist'
  BY <1>18 DEF MoveStamp, Leave, Advance
<1>19. ASSUME NEW r \in Reapers, ReaperDies(r) PROVE MarkedTreesExist'
  BY <1>19 DEF ReaperDies, Leave, Advance
<1>20. CASE HorizonPasses
  BY <1>20 DEF HorizonPasses, Ended
<1>21. CASE UNCHANGED vars
  BY <1>21 DEF vars
<1> QED
  BY <1>1, <1>2, <1>3, <1>4, <1>5, <1>6, <1>7, <1>8, <1>9, <1>10, <1>11,
     <1>12, <1>13, <1>14, <1>15, <1>16, <1>17, <1>18, <1>19, <1>20, <1>21
     DEF Next, CallStep, ReapStep, Done

\* The entry stays while a call holds its lock.
LEMMA HitStep ==
    ASSUME Inv, [Next]_vars PROVE HitsAreMarked'
<1> USE StoreAssumption DEF Inv, TypeOK, HitsAreMarked, Trees, LockIsHeld,
        LockedSteps, LockedReapSteps, content, bounds
<1>1. ASSUME NEW c \in Callers, Check(c) PROVE HitsAreMarked'
  BY <1>1 DEF Check, Go, Whole, Passes
<1>2. ASSUME NEW c \in Callers, Touch(c) PROVE HitsAreMarked'
  BY <1>2 DEF Touch, Stamp, Go
<1>3. ASSUME NEW c \in Callers, TakeLock(c) PROVE HitsAreMarked'
  BY <1>3 DEF TakeLock, Go
<1>4. ASSUME NEW c \in Callers, Look(c) PROVE HitsAreMarked'
  BY <1>4 DEF Look, Fail, Go, Whole, Passes
<1>5. ASSUME NEW c \in Callers, SealForward(c) PROVE HitsAreMarked'
  BY <1>5 DEF SealForward, Go
<1>6. ASSUME NEW c \in Callers, LockedTouch(c) PROVE HitsAreMarked'
  BY <1>6 DEF LockedTouch, Stamp, Go
<1>7. ASSUME NEW c \in Callers, CloneFails(c) PROVE HitsAreMarked'
  BY <1>7 DEF CloneFails, Fail, Go
<1>8. ASSUME NEW c \in Callers, Publish(c) PROVE HitsAreMarked'
  BY <1>8 DEF Publish, Go
<1>9. ASSUME NEW c \in Callers, Verify(c) PROVE HitsAreMarked'
  BY <1>9 DEF Verify, Go, Whole
<1>10. ASSUME NEW c \in Callers, Revalidate(c) PROVE HitsAreMarked'
  BY <1>10 DEF Revalidate, Go, Whole, Passes
<1>11. ASSUME NEW c \in Callers, Damage(c) PROVE HitsAreMarked'
  BY <1>11 DEF Damage
<1>12. ASSUME NEW c \in Callers, CallerDies(c) PROVE HitsAreMarked'
  BY <1>12 DEF CallerDies, Go
<1>13. ASSUME NEW r \in Reapers, Begin(r) PROVE HitsAreMarked'
  BY <1>13 DEF Begin, Leave, Advance
<1>14. ASSUME NEW r \in Reapers, Scan(r) PROVE HitsAreMarked'
  BY <1>14 DEF Scan, Leave, Advance, Referenced
<1>15. ASSUME NEW r \in Reapers, TryEntry(r) PROVE HitsAreMarked'
  BY <1>15 DEF TryEntry, Leave, Advance
<1>16. ASSUME NEW r \in Reapers, Recheck(r) PROVE HitsAreMarked'
  BY <1>16 DEF Recheck, Leave, Advance, Referenced
<1>17. ASSUME NEW r \in Reapers, Rename(r) PROVE HitsAreMarked'
  BY <1>17 DEF Rename, Leave, Advance
<1>18. ASSUME NEW r \in Reapers, MoveStamp(r) PROVE HitsAreMarked'
  BY <1>18 DEF MoveStamp, Leave, Advance
<1>19. ASSUME NEW r \in Reapers, ReaperDies(r) PROVE HitsAreMarked'
  BY <1>19 DEF ReaperDies, Leave, Advance
<1>20. CASE HorizonPasses
  BY <1>20 DEF HorizonPasses, Ended
<1>21. CASE UNCHANGED vars
  BY <1>21 DEF vars
<1> QED
  BY <1>1, <1>2, <1>3, <1>4, <1>5, <1>6, <1>7, <1>8, <1>9, <1>10, <1>11,
     <1>12, <1>13, <1>14, <1>15, <1>16, <1>17, <1>18, <1>19, <1>20, <1>21
     DEF Next, CallStep, ReapStep, Done

\* No step leads back from the use of a tree.
LEMMA LateStep ==
    ASSUME Inv, [Next]_vars PROVE StampsAreLate'
<1> USE StoreAssumption DEF Inv, TypeOK, StampsAreLate, content, bounds
<1>1. ASSUME NEW c \in Callers, Check(c) PROVE StampsAreLate'
  BY <1>1 DEF Check, Go, Whole, Passes
<1>2. ASSUME NEW c \in Callers, Touch(c) PROVE StampsAreLate'
  BY <1>2 DEF Touch, Stamp, Go
<1>3. ASSUME NEW c \in Callers, TakeLock(c) PROVE StampsAreLate'
  BY <1>3 DEF TakeLock, Go
<1>4. ASSUME NEW c \in Callers, Look(c) PROVE StampsAreLate'
  BY <1>4 DEF Look, Fail, Go, Whole, Passes
<1>5. ASSUME NEW c \in Callers, SealForward(c) PROVE StampsAreLate'
  BY <1>5 DEF SealForward, Go
<1>6. ASSUME NEW c \in Callers, LockedTouch(c) PROVE StampsAreLate'
  BY <1>6 DEF LockedTouch, Stamp, Go
<1>7. ASSUME NEW c \in Callers, CloneFails(c) PROVE StampsAreLate'
  BY <1>7 DEF CloneFails, Fail, Go
<1>8. ASSUME NEW c \in Callers, Publish(c) PROVE StampsAreLate'
  BY <1>8 DEF Publish, Go
<1>9. ASSUME NEW c \in Callers, Verify(c) PROVE StampsAreLate'
  BY <1>9 DEF Verify, Go, Whole
<1>10. ASSUME NEW c \in Callers, Revalidate(c) PROVE StampsAreLate'
  BY <1>10 DEF Revalidate, Go, Whole, Passes
<1>11. ASSUME NEW c \in Callers, Damage(c) PROVE StampsAreLate'
  BY <1>11 DEF Damage
<1>12. ASSUME NEW c \in Callers, CallerDies(c) PROVE StampsAreLate'
  BY <1>12 DEF CallerDies, Go
<1>13. ASSUME NEW r \in Reapers, Begin(r) PROVE StampsAreLate'
  BY <1>13 DEF Begin, Leave, Advance
<1>14. ASSUME NEW r \in Reapers, Scan(r) PROVE StampsAreLate'
  BY <1>14 DEF Scan, Leave, Advance, Referenced
<1>15. ASSUME NEW r \in Reapers, TryEntry(r) PROVE StampsAreLate'
  BY <1>15 DEF TryEntry, Leave, Advance
<1>16. ASSUME NEW r \in Reapers, Recheck(r) PROVE StampsAreLate'
  BY <1>16 DEF Recheck, Leave, Advance, Referenced
<1>17. ASSUME NEW r \in Reapers, Rename(r) PROVE StampsAreLate'
  BY <1>17 DEF Rename, Leave, Advance
<1>18. ASSUME NEW r \in Reapers, MoveStamp(r) PROVE StampsAreLate'
  BY <1>18 DEF MoveStamp, Leave, Advance
<1>19. ASSUME NEW r \in Reapers, ReaperDies(r) PROVE StampsAreLate'
  BY <1>19 DEF ReaperDies, Leave, Advance
<1>20. CASE HorizonPasses
  BY <1>20 DEF HorizonPasses, Ended
<1>21. CASE UNCHANGED vars
  BY <1>21 DEF vars
<1> QED
  BY <1>1, <1>2, <1>3, <1>4, <1>5, <1>6, <1>7, <1>8, <1>9, <1>10, <1>11,
     <1>12, <1>13, <1>14, <1>15, <1>16, <1>17, <1>18, <1>19, <1>20, <1>21
     DEF Next, CallStep, ReapStep, Done

\* The path stays empty while a call clones under the lock.
LEMMA NeededStep ==
    ASSUME Inv, [Next]_vars PROVE ClonesAreNeeded'
<1> USE StoreAssumption DEF Inv, TypeOK, ClonesAreNeeded, HitsAreMarked,
        Trees, LockIsHeld, LockedSteps, LockedReapSteps, content, bounds
<1>1. ASSUME NEW c \in Callers, Check(c) PROVE ClonesAreNeeded'
  BY <1>1 DEF Check, Go, Whole, Passes
<1>2. ASSUME NEW c \in Callers, Touch(c) PROVE ClonesAreNeeded'
  BY <1>2 DEF Touch, Stamp, Go
<1>3. ASSUME NEW c \in Callers, TakeLock(c) PROVE ClonesAreNeeded'
  BY <1>3 DEF TakeLock, Go
<1>4. ASSUME NEW c \in Callers, Look(c) PROVE ClonesAreNeeded'
  BY <1>4 DEF Look, Fail, Go, Whole, Passes
<1>5. ASSUME NEW c \in Callers, SealForward(c) PROVE ClonesAreNeeded'
  BY <1>5 DEF SealForward, Go
<1>6. ASSUME NEW c \in Callers, LockedTouch(c) PROVE ClonesAreNeeded'
  BY <1>6 DEF LockedTouch, Stamp, Go
<1>7. ASSUME NEW c \in Callers, CloneFails(c) PROVE ClonesAreNeeded'
  BY <1>7 DEF CloneFails, Fail, Go
<1>8. ASSUME NEW c \in Callers, Publish(c) PROVE ClonesAreNeeded'
  BY <1>8 DEF Publish, Go
<1>9. ASSUME NEW c \in Callers, Verify(c) PROVE ClonesAreNeeded'
  BY <1>9 DEF Verify, Go, Whole
<1>10. ASSUME NEW c \in Callers, Revalidate(c) PROVE ClonesAreNeeded'
  BY <1>10 DEF Revalidate, Go, Whole, Passes
<1>11. ASSUME NEW c \in Callers, Damage(c) PROVE ClonesAreNeeded'
  BY <1>11 DEF Damage
<1>12. ASSUME NEW c \in Callers, CallerDies(c) PROVE ClonesAreNeeded'
  BY <1>12 DEF CallerDies, Go
<1>13. ASSUME NEW r \in Reapers, Begin(r) PROVE ClonesAreNeeded'
  BY <1>13 DEF Begin, Leave, Advance
<1>14. ASSUME NEW r \in Reapers, Scan(r) PROVE ClonesAreNeeded'
  BY <1>14 DEF Scan, Leave, Advance, Referenced
<1>15. ASSUME NEW r \in Reapers, TryEntry(r) PROVE ClonesAreNeeded'
  BY <1>15 DEF TryEntry, Leave, Advance
<1>16. ASSUME NEW r \in Reapers, Recheck(r) PROVE ClonesAreNeeded'
  BY <1>16 DEF Recheck, Leave, Advance, Referenced
<1>17. ASSUME NEW r \in Reapers, Rename(r) PROVE ClonesAreNeeded'
  BY <1>17 DEF Rename, Leave, Advance
<1>18. ASSUME NEW r \in Reapers, MoveStamp(r) PROVE ClonesAreNeeded'
  BY <1>18 DEF MoveStamp, Leave, Advance
<1>19. ASSUME NEW r \in Reapers, ReaperDies(r) PROVE ClonesAreNeeded'
  BY <1>19 DEF ReaperDies, Leave, Advance
<1>20. CASE HorizonPasses
  BY <1>20 DEF HorizonPasses, Ended
<1>21. CASE UNCHANGED vars
  BY <1>21 DEF vars
<1> QED
  BY <1>1, <1>2, <1>3, <1>4, <1>5, <1>6, <1>7, <1>8, <1>9, <1>10, <1>11,
     <1>12, <1>13, <1>14, <1>15, <1>16, <1>17, <1>18, <1>19, <1>20, <1>21
     DEF Next, CallStep, ReapStep, Done

\* Only what has no marker is deleted, and a clone replaces nothing.
LEMMA LostStep ==
    ASSUME Inv, [Next]_vars PROVE NothingIsLost'
<1> USE StoreAssumption DEF Inv, TypeOK, NothingIsLost, ClonesAreNeeded,
        MarkedTreesExist, Trees, content, bounds
<1>1. ASSUME NEW c \in Callers, Check(c) PROVE NothingIsLost'
  BY <1>1 DEF Check, Go, Whole, Passes
<1>2. ASSUME NEW c \in Callers, Touch(c) PROVE NothingIsLost'
  BY <1>2 DEF Touch, Stamp, Go
<1>3. ASSUME NEW c \in Callers, TakeLock(c) PROVE NothingIsLost'
  BY <1>3 DEF TakeLock, Go
<1>4. ASSUME NEW c \in Callers, Look(c) PROVE NothingIsLost'
  BY <1>4 DEF Look, Fail, Go, Whole, Passes
<1>5. ASSUME NEW c \in Callers, SealForward(c) PROVE NothingIsLost'
  BY <1>5 DEF SealForward, Go
<1>6. ASSUME NEW c \in Callers, LockedTouch(c) PROVE NothingIsLost'
  BY <1>6 DEF LockedTouch, Stamp, Go
<1>7. ASSUME NEW c \in Callers, CloneFails(c) PROVE NothingIsLost'
  BY <1>7 DEF CloneFails, Fail, Go
<1>8. ASSUME NEW c \in Callers, Publish(c) PROVE NothingIsLost'
  BY <1>8 DEF Publish, Go
<1>9. ASSUME NEW c \in Callers, Verify(c) PROVE NothingIsLost'
  BY <1>9 DEF Verify, Go, Whole
<1>10. ASSUME NEW c \in Callers, Revalidate(c) PROVE NothingIsLost'
  BY <1>10 DEF Revalidate, Go, Whole, Passes
<1>11. ASSUME NEW c \in Callers, Damage(c) PROVE NothingIsLost'
  BY <1>11 DEF Damage
<1>12. ASSUME NEW c \in Callers, CallerDies(c) PROVE NothingIsLost'
  BY <1>12 DEF CallerDies, Go
<1>13. ASSUME NEW r \in Reapers, Begin(r) PROVE NothingIsLost'
  BY <1>13 DEF Begin, Leave, Advance
<1>14. ASSUME NEW r \in Reapers, Scan(r) PROVE NothingIsLost'
  BY <1>14 DEF Scan, Leave, Advance, Referenced
<1>15. ASSUME NEW r \in Reapers, TryEntry(r) PROVE NothingIsLost'
  BY <1>15 DEF TryEntry, Leave, Advance
<1>16. ASSUME NEW r \in Reapers, Recheck(r) PROVE NothingIsLost'
  BY <1>16 DEF Recheck, Leave, Advance, Referenced
<1>17. ASSUME NEW r \in Reapers, Rename(r) PROVE NothingIsLost'
  BY <1>17 DEF Rename, Leave, Advance
<1>18. ASSUME NEW r \in Reapers, MoveStamp(r) PROVE NothingIsLost'
  BY <1>18 DEF MoveStamp, Leave, Advance
<1>19. ASSUME NEW r \in Reapers, ReaperDies(r) PROVE NothingIsLost'
  BY <1>19 DEF ReaperDies, Leave, Advance
<1>20. CASE HorizonPasses
  BY <1>20 DEF HorizonPasses, Ended
<1>21. CASE UNCHANGED vars
  BY <1>21 DEF vars
<1> QED
  BY <1>1, <1>2, <1>3, <1>4, <1>5, <1>6, <1>7, <1>8, <1>9, <1>10, <1>11,
     <1>12, <1>13, <1>14, <1>15, <1>16, <1>17, <1>18, <1>19, <1>20, <1>21
     DEF Next, CallStep, ReapStep, Done

\* The reaper reads the age under the lock that the stamping call has held.
LEMMA FreshStep ==
    ASSUME Inv, [Next]_vars PROVE UsedEntriesAreFresh'
<1> USE StoreAssumption DEF Inv, TypeOK, UsedEntriesAreFresh, StampsAreLate,
        HitsAreMarked, LockIsHeld, LockedSteps, LockedReapSteps, content,
        bounds
<1>1. ASSUME NEW c \in Callers, Check(c) PROVE UsedEntriesAreFresh'
  BY <1>1 DEF Check, Go, Whole, Passes
<1>2. ASSUME NEW c \in Callers, Touch(c) PROVE UsedEntriesAreFresh'
  BY <1>2 DEF Touch, Stamp, Go
<1>3. ASSUME NEW c \in Callers, TakeLock(c) PROVE UsedEntriesAreFresh'
  BY <1>3 DEF TakeLock, Go
<1>4. ASSUME NEW c \in Callers, Look(c) PROVE UsedEntriesAreFresh'
  BY <1>4 DEF Look, Fail, Go, Whole, Passes
<1>5. ASSUME NEW c \in Callers, SealForward(c) PROVE UsedEntriesAreFresh'
  BY <1>5 DEF SealForward, Go
<1>6. ASSUME NEW c \in Callers, LockedTouch(c) PROVE UsedEntriesAreFresh'
  BY <1>6 DEF LockedTouch, Stamp, Go
<1>7. ASSUME NEW c \in Callers, CloneFails(c) PROVE UsedEntriesAreFresh'
  BY <1>7 DEF CloneFails, Fail, Go
<1>8. ASSUME NEW c \in Callers, Publish(c) PROVE UsedEntriesAreFresh'
  BY <1>8 DEF Publish, Go
<1>9. ASSUME NEW c \in Callers, Verify(c) PROVE UsedEntriesAreFresh'
  BY <1>9 DEF Verify, Go, Whole
<1>10. ASSUME NEW c \in Callers, Revalidate(c) PROVE UsedEntriesAreFresh'
  BY <1>10 DEF Revalidate, Go, Whole, Passes
<1>11. ASSUME NEW c \in Callers, Damage(c) PROVE UsedEntriesAreFresh'
  BY <1>11 DEF Damage
<1>12. ASSUME NEW c \in Callers, CallerDies(c) PROVE UsedEntriesAreFresh'
  BY <1>12 DEF CallerDies, Go
<1>13. ASSUME NEW r \in Reapers, Begin(r) PROVE UsedEntriesAreFresh'
  BY <1>13 DEF Begin, Leave, Advance
<1>14. ASSUME NEW r \in Reapers, Scan(r) PROVE UsedEntriesAreFresh'
  BY <1>14 DEF Scan, Leave, Advance, Referenced
<1>15. ASSUME NEW r \in Reapers, TryEntry(r) PROVE UsedEntriesAreFresh'
  BY <1>15 DEF TryEntry, Leave, Advance
<1>16. ASSUME NEW r \in Reapers, Recheck(r) PROVE UsedEntriesAreFresh'
  BY <1>16 DEF Recheck, Leave, Advance, Referenced
<1>17. ASSUME NEW r \in Reapers, Rename(r) PROVE UsedEntriesAreFresh'
  BY <1>17 DEF Rename, Leave, Advance
<1>18. ASSUME NEW r \in Reapers, MoveStamp(r) PROVE UsedEntriesAreFresh'
  BY <1>18 DEF MoveStamp, Leave, Advance
<1>19. ASSUME NEW r \in Reapers, ReaperDies(r) PROVE UsedEntriesAreFresh'
  BY <1>19 DEF ReaperDies, Leave, Advance
<1>20. CASE HorizonPasses
  BY <1>20 DEF HorizonPasses, Ended
<1>21. CASE UNCHANGED vars
  BY <1>21 DEF vars
<1> QED
  BY <1>1, <1>2, <1>3, <1>4, <1>5, <1>6, <1>7, <1>8, <1>9, <1>10, <1>11,
     <1>12, <1>13, <1>14, <1>15, <1>16, <1>17, <1>18, <1>19, <1>20, <1>21
     DEF Next, CallStep, ReapStep, Done

LEMMA InvInductive == Inv /\ [Next]_vars => Inv'
  BY TypeStep, LockStep, MarkedStep, HitStep, LateStep, NeededStep, LostStep,
     FreshStep DEF Inv

LEMMA Invariance == Spec => []Inv
<1>1. Init => Inv
  BY InitInv
<1>2. Inv /\ [Next]_vars => Inv'
  BY InvInductive
<1> QED
  BY <1>1, <1>2, PTL DEF Spec

\* Every variable keeps to its type; in particular only marked trees have a
\* seal (ensure_canonical_git_snapshot_in).
THEOREM TypeCorrect == Spec => []TypeOK
  BY Invariance, PTL DEF Inv

\* A published tree is at its path or in quarantine for ever (rule 1 of the
\* reaper; a locked hit fails closed).
THEOREM PublishedTreesRemain == Spec => []NothingIsLost
  BY Invariance, PTL DEF Inv

\* A call that clones finds no tree at the path, until its rename.
THEOREM ClonesReplaceNothing == Spec => []ClonesAreNeeded
  BY Invariance, PTL DEF Inv

\* No reaper takes the tree of a call that stamped it under the lock (rule 3
\* of the reaper, for locked hits).
THEOREM LockedHitsSafe == Spec => []LockedHitsKeepTheirTree
<1>1. Inv => LockedHitsKeepTheirTree
  BY DEF Inv, UsedEntriesAreFresh, LockedHitsKeepTheirTree
<1> QED
  BY <1>1, Invariance, PTL

(***************************************************************************)
(* How a published tree leaves its path.                                   *)
(***************************************************************************)
\* No call works on the entry under its lock, or uses it after it has stamped
\* it there.
Alone ==
    \A c \in Callers :
        pc[c] \notin LockedSteps /\ (c \in held => pc[c] # "using")

\* A step in which a published tree leaves its path moves it into quarantine,
\* while nobody works on it or counts on it.
LeavesUnused ==
    entry \in marked /\ entry' # entry =>
        /\ entry' = 0
        /\ quarantine' = quarantine \cup {entry}
        /\ Alone

\* A published tree leaves its path in one way only: it is moved into
\* quarantine, at a moment when no call validates it, seals it or stamps it
\* under the lock, and no call uses it that has stamped it under the lock.  It
\* is never replaced in place (the rename of reap_canonical_git_snapshot_store
\* and the one that publishes in ensure_canonical_git_snapshot_in).
TreesLeaveUnused == [][LeavesUnused]_vars

\* The reaper that moves a tree holds the entry's lock, so nobody else is
\* between taking and dropping it; who used the tree from under the lock keeps
\* the reaper from its rename.
LEMMA RenameIsAlone ==
    ASSUME Inv, NEW r \in Reapers, Rename(r)
    PROVE  Alone
<1> SUFFICES ASSUME NEW c \in Callers
             PROVE  pc[c] \notin LockedSteps /\ (c \in held => pc[c] # "using")
  BY DEF Alone
<1>1. step[r] = "rename" /\ lock = r
  BY DEF Inv, LockIsHeld, LockedReapSteps, Rename
<1>2. pc[c] \notin LockedSteps
  BY <1>1, StoreAssumption DEF Inv, LockIsHeld
<1>3. c \in held => pc[c] # "using"
  BY <1>1 DEF Inv, UsedEntriesAreFresh
<1> QED
  BY <1>2, <1>3

\* A call changes what is at the path only where there is no published tree.
LEMMA CallsKeepTrees ==
    ASSUME Inv, NEW c \in Callers, CallStep(c), entry \in marked
    PROVE  entry' = entry
<1>1. entry # 0
  BY DEF Inv, TypeOK, Trees
<1>2. pc[c] # "clone"
  BY <1>1 DEF Inv, ClonesAreNeeded
<1>3. CASE Look(c)
  BY <1>3 DEF Look
<1>4. CASE Check(c) \/ Touch(c) \/ TakeLock(c) \/ LockedTouch(c)
           \/ Verify(c) \/ Revalidate(c)
  BY <1>4 DEF Check, Touch, TakeLock, LockedTouch, Verify, Revalidate, content
<1>5. CASE SealForward(c)
  BY <1>5 DEF SealForward
<1>6. CASE CloneFails(c) \/ Publish(c)
  BY <1>2, <1>6 DEF CloneFails, Publish
<1> QED
  BY <1>3, <1>4, <1>5, <1>6 DEF CallStep

\* A published tree goes into quarantine whole and in no other way, while nobody
\* works on it under the lock or counts on a stamp made there (rules 1 and 3 of
\* the reaper).  Unlocked hits are not spared.
THEOREM TreesGoUnused == Spec => TreesLeaveUnused
<1>1. ASSUME Inv, [Next]_vars PROVE LeavesUnused
  <2>1. SUFFICES ASSUME entry \in marked, entry' # entry PROVE LeavesUnused
    BY DEF LeavesUnused
  <2>2. ASSUME NEW c \in Callers, CallStep(c) \/ Damage(c) \/ CallerDies(c)
        PROVE  FALSE
    BY <1>1, <2>1, <2>2, CallsKeepTrees DEF Damage, CallerDies, content
  <2>3. ASSUME NEW r \in Reapers, ReapStep(r) \/ ReaperDies(r)
        PROVE  LeavesUnused
    <3>1. Rename(r)
      BY <2>1, <2>3 DEF ReapStep, ReaperDies, Begin, Scan, TryEntry, Recheck,
         MoveStamp, content
    <3>2. entry' = 0 /\ quarantine' = quarantine \cup {entry}
      BY <2>1, <3>1 DEF Rename
    <3> QED
      BY <1>1, <3>1, <3>2, RenameIsAlone DEF LeavesUnused
  <2>4. CASE HorizonPasses \/ Done \/ UNCHANGED vars
    BY <2>1, <2>4 DEF HorizonPasses, Done, vars, content
  <2> QED
    BY <1>1, <2>2, <2>3, <2>4 DEF Next
<1> QED
  BY <1>1, Invariance, PTL DEF Spec, TreesLeaveUnused
=============================================================================
