------------------------- MODULE GitCheckoutProofs -------------------------
(***************************************************************************)
(* Proofs about GitCheckout for any number of processes, tasks, identities *)
(* and crashes, and every combination of faults.                           *)
(***************************************************************************)
EXTENDS GitCheckout, TLAPS

(***************************************************************************)
(* The inductive invariant.                                                *)
(***************************************************************************)
\* flock(2) itself.
LocksExclude ==
    \A p, q \in Procs : flock[p] = "exclusive" /\ p # q => flock[q] = "none"

\* The phases of the initializer in which it counts on its lock.
LocksHeld ==
    \A p \in Procs :
        /\ phase[p] \in Exclusive => flock[p] = "exclusive"
        /\ phase[p] = "recheckShared" => flock[p] = "shared"

\* A process that has committed keeps its shared lock and never starts
\* another initializer.
CommittedShare ==
    \A p \in shared : flock[p] = "shared" /\ phase[p] = "none"

\* The tree changes only while it has no marker ...
ChangesAreUnmarked == \A p \in Procs : phase[p] \in Mutating => marker = None

\* ... and is whole when the marker is about to be written.
PublishedIsBuilt ==
    \A p \in Procs : phase[p] = "publish" => tree = bound[p]

\* A second clone that fails is the last.
ClonesAreBounded ==
    \A p \in Procs :
        attempt[p] = 2 =>
            phase[p] \in {"cloning", "publish", "downgrade", "relock"}

\* A call that is under way, and an initializer, have registered the lock.
CallsAreRegistered ==
    \A t \in Tasks :
        pc[t] \notin {"idle", "done", "failed"} => bound[Home[t]] = asks[t]
InitializersAreOwned ==
    \A p \in Procs : phase[p] # "none" => writer[p] # None /\ bound[p] # None

\* A reader's process has committed, and its tree is the one it asked for.
ReadersAreCommitted ==
    \A t \in Tasks :
        /\ pc[t] \in {"validate", "using"} => Home[t] \in shared
        /\ pc[t] = "using" => tree = asks[t]

Inv ==
    /\ TypeOK
    /\ CallsAreRegistered
    /\ InitializersAreOwned
    /\ ClonesAreBounded
    /\ LocksExclude
    /\ LocksHeld
    /\ CommittedShare
    /\ ChangesAreUnmarked
    /\ PublishedIsBuilt
    /\ MarkedTreeIsWhole
    /\ ReadersAreCommitted

LEMMA InitInv ==
    ASSUME Init PROVE Inv
<1>1. TypeOK
  <2>1. /\ marker \in Identities \cup {None}
        /\ tree \in Identities \cup {None, Partial}
    BY DEF Init
  <2>2. flock \in [Procs -> {"none", "shared", "exclusive"}]
    BY DEF Init
  <2>3. bound \in [Procs -> Identities \cup {None}]
    BY DEF Init
  <2>4. writer \in [Procs -> Tasks \cup {None}] /\ attempt \in [Procs -> 0..2]
    BY DEF Init
  <2>5. phase \in [Procs -> Phases] /\ pc \in [Tasks -> Steps]
    BY DEF Init, Phases, Steps
  <2>6. /\ shared \subseteq Procs /\ poisoned \subseteq Procs
        /\ readers \subseteq Tasks
    BY DEF Init
  <2>7. asks \in [Tasks -> Identities] /\ erased \in BOOLEAN
    BY DEF Init
  <2>8. crashes \in 0..MaxCrashes
    BY CheckoutAssumption DEF Init
  <2> QED
    BY <2>1, <2>2, <2>3, <2>4, <2>5, <2>6, <2>7, <2>8 DEF TypeOK
<1>2. CallsAreRegistered /\ InitializersAreOwned
  BY DEF Init, CallsAreRegistered, InitializersAreOwned
<1>3. ClonesAreBounded
  BY DEF Init, ClonesAreBounded
<1>4. LocksExclude /\ LocksHeld /\ CommittedShare
  BY DEF Init, LocksExclude, LocksHeld, CommittedShare, Exclusive
<1>5. ChangesAreUnmarked /\ PublishedIsBuilt
  BY DEF Init, ChangesAreUnmarked, PublishedIsBuilt, Mutating
<1>6. MarkedTreeIsWhole /\ ReadersAreCommitted
  BY DEF Init, MarkedTreeIsWhole, ReadersAreCommitted
<1> QED
  BY <1>1, <1>2, <1>3, <1>4, <1>5, <1>6 DEF Inv
-----------------------------------------------------------------------------
(***************************************************************************)
(* Every step preserves it, one conjunct after the other.                  *)
(***************************************************************************)
\* Types; the clone counter stays in range because a clone begins only below
\* two attempts.
LEMMA TypeStep ==
    ASSUME Inv, [Next]_vars PROVE TypeOK'
<1> USE CheckoutAssumption DEF Inv, TypeOK, Phases, Steps, Exclusive,
        ClonesAreBounded, disk, process, task, counts
<1>1. ASSUME NEW t \in Tasks, Register(t) PROVE TypeOK'
  <2>1. Home[t] \in Procs /\ asks[t] \in Identities
    OBVIOUS
  <2>2. bound' \in [Procs -> Identities \cup {None}]
    BY <1>1, <2>1 DEF Register
  <2>3. pc' \in [Tasks -> Steps]
    BY <1>1 DEF Register, At
  <2> QED
    BY <1>1, <2>2, <2>3 DEF Register
<1>2. ASSUME NEW t \in Tasks, WriteLock(t) PROVE TypeOK'
  BY <1>2 DEF WriteLock, At, Readers
<1>3. ASSUME NEW t \in Tasks, Check(t) PROVE TypeOK'
  BY <1>3 DEF Check, At
<1>4. ASSUME NEW t \in Tasks, ReadLock(t) PROVE TypeOK'
  BY <1>4 DEF ReadLock, At
<1>5. ASSUME NEW t \in Tasks, Validate(t) PROVE TypeOK'
  BY <1>5 DEF Validate, At
<1>6. ASSUME NEW t \in Tasks, Finish(t) PROVE TypeOK'
  BY <1>6 DEF Finish, At
<1>7. ASSUME NEW t \in Tasks, Cancel(t) PROVE TypeOK'
  BY <1>7 DEF Cancel, At
<1>8. ASSUME NEW p \in Procs, StartInit(p) PROVE TypeOK'
  BY <1>8 DEF StartInit, MoveOn, Phase, Ended
<1>9. ASSUME NEW p \in Procs, Probe(p) PROVE TypeOK'
  BY <1>9 DEF Probe, MoveOn, Phase, Ended
<1>10. ASSUME NEW p \in Procs, TryShared(p) PROVE TypeOK'
  BY <1>10 DEF TryShared, Phase, Others
<1>11. ASSUME NEW p \in Procs, TryExclusive(p) PROVE TypeOK'
  BY <1>11 DEF TryExclusive, Phase, Others
<1>12. ASSUME NEW p \in Procs, RecheckShared(p) PROVE TypeOK'
  BY <1>12 DEF RecheckShared, Commit, GiveUp, Unlock, Phase, Ended
<1>13. ASSUME NEW p \in Procs, RecheckExclusive(p) PROVE TypeOK'
  BY <1>13 DEF RecheckExclusive, MoveOn, GiveUp, Unlock, Phase, Ended
<1>14. ASSUME NEW p \in Procs, Clone(p) PROVE TypeOK'
  BY <1>14 DEF Clone, Phase
<1>15. ASSUME NEW p \in Procs, CloneSucceeds(p) PROVE TypeOK'
  BY <1>15 DEF CloneSucceeds, Phase
<1>16. ASSUME NEW p \in Procs, CloneFails(p) PROVE TypeOK'
  BY <1>16 DEF CloneFails, MoveOn, GiveUp, Unlock, Phase, Ended
<1>17. ASSUME NEW p \in Procs, Wipe(p) PROVE TypeOK'
  BY <1>17 DEF Wipe, GiveUp, Unlock, Phase, Ended
<1>18. ASSUME NEW p \in Procs, Publish(p) PROVE TypeOK'
  BY <1>18 DEF Publish, Phase
<1>19. ASSUME NEW p \in Procs, PublishFails(p) PROVE TypeOK'
  BY <1>19 DEF PublishFails, Unlock, Ended, Phase
<1>20. ASSUME NEW p \in Procs, Downgrade(p) PROVE TypeOK'
  BY <1>20 DEF Downgrade, GiveUp, Unlock, Phase, Ended
<1>21. ASSUME NEW p \in Procs, Relock(p) PROVE TypeOK'
  BY <1>21 DEF Relock, Others, Ended, Phase
<1>22. ASSUME NEW p \in Procs, Crash(p) PROVE TypeOK'
  BY <1>22 DEF Crash
<1>23. CASE Erase
  BY <1>23 DEF Erase
<1>24. CASE UNCHANGED vars
  BY <1>24 DEF vars
<1> QED
  BY <1>1, <1>2, <1>3, <1>4, <1>5, <1>6, <1>7, <1>8, <1>9, <1>10, <1>11,
     <1>12, <1>13, <1>14, <1>15, <1>16, <1>17, <1>18, <1>19, <1>20, <1>21,
     <1>22, <1>23, <1>24 DEF Next, TaskStep, InitStep, Done

\* The number of clones.
LEMMA BoundStep ==
    ASSUME Inv, [Next]_vars PROVE ClonesAreBounded'
<1> USE CheckoutAssumption DEF Inv, TypeOK, Phases, Steps, Exclusive,
        ClonesAreBounded, InitializersAreOwned, disk, process, task, counts
<1>1. ASSUME NEW t \in Tasks, Register(t) PROVE ClonesAreBounded'
  BY <1>1 DEF Register, At
<1>2. ASSUME NEW t \in Tasks, WriteLock(t) PROVE ClonesAreBounded'
  BY <1>2 DEF WriteLock, At, Readers
<1>3. ASSUME NEW t \in Tasks, Check(t) PROVE ClonesAreBounded'
  BY <1>3 DEF Check, At
<1>4. ASSUME NEW t \in Tasks, ReadLock(t) PROVE ClonesAreBounded'
  BY <1>4 DEF ReadLock, At
<1>5. ASSUME NEW t \in Tasks, Validate(t) PROVE ClonesAreBounded'
  BY <1>5 DEF Validate, At
<1>6. ASSUME NEW t \in Tasks, Finish(t) PROVE ClonesAreBounded'
  BY <1>6 DEF Finish, At
<1>7. ASSUME NEW t \in Tasks, Cancel(t) PROVE ClonesAreBounded'
  BY <1>7 DEF Cancel, At
<1>8. ASSUME NEW p \in Procs, StartInit(p) PROVE ClonesAreBounded'
  BY <1>8 DEF StartInit, MoveOn, Phase, Ended
<1>9. ASSUME NEW p \in Procs, Probe(p) PROVE ClonesAreBounded'
  BY <1>9 DEF Probe, MoveOn, Phase, Ended
<1>10. ASSUME NEW p \in Procs, TryShared(p) PROVE ClonesAreBounded'
  BY <1>10 DEF TryShared, Phase, Others
<1>11. ASSUME NEW p \in Procs, TryExclusive(p) PROVE ClonesAreBounded'
  BY <1>11 DEF TryExclusive, Phase, Others
<1>12. ASSUME NEW p \in Procs, RecheckShared(p) PROVE ClonesAreBounded'
  BY <1>12 DEF RecheckShared, Commit, GiveUp, Unlock, Phase, Ended
<1>13. ASSUME NEW p \in Procs, RecheckExclusive(p) PROVE ClonesAreBounded'
  BY <1>13 DEF RecheckExclusive, MoveOn, GiveUp, Unlock, Phase, Ended
<1>14. ASSUME NEW p \in Procs, Clone(p) PROVE ClonesAreBounded'
  BY <1>14 DEF Clone, Phase
<1>15. ASSUME NEW p \in Procs, CloneSucceeds(p) PROVE ClonesAreBounded'
  BY <1>15 DEF CloneSucceeds, Phase
<1>16. ASSUME NEW p \in Procs, CloneFails(p) PROVE ClonesAreBounded'
  BY <1>16 DEF CloneFails, MoveOn, GiveUp, Unlock, Phase, Ended
<1>17. ASSUME NEW p \in Procs, Wipe(p) PROVE ClonesAreBounded'
  BY <1>17 DEF Wipe, GiveUp, Unlock, Phase, Ended
<1>18. ASSUME NEW p \in Procs, Publish(p) PROVE ClonesAreBounded'
  BY <1>18 DEF Publish, Phase
<1>19. ASSUME NEW p \in Procs, PublishFails(p) PROVE ClonesAreBounded'
  BY <1>19 DEF PublishFails, Unlock, Ended, Phase
<1>20. ASSUME NEW p \in Procs, Downgrade(p) PROVE ClonesAreBounded'
  BY <1>20 DEF Downgrade, GiveUp, Unlock, Phase, Ended
<1>21. ASSUME NEW p \in Procs, Relock(p) PROVE ClonesAreBounded'
  BY <1>21 DEF Relock, Others, Ended, Phase
<1>22. ASSUME NEW p \in Procs, Crash(p) PROVE ClonesAreBounded'
  BY <1>22 DEF Crash
<1>23. CASE Erase
  BY <1>23 DEF Erase
<1>24. CASE UNCHANGED vars
  BY <1>24 DEF vars
<1> QED
  BY <1>1, <1>2, <1>3, <1>4, <1>5, <1>6, <1>7, <1>8, <1>9, <1>10, <1>11,
     <1>12, <1>13, <1>14, <1>15, <1>16, <1>17, <1>18, <1>19, <1>20, <1>21,
     <1>22, <1>23, <1>24 DEF Next, TaskStep, InitStep, Done

\* A registration lasts as long as the process.
LEMMA RegisteredStep ==
    ASSUME Inv, [Next]_vars PROVE CallsAreRegistered'
<1> USE CheckoutAssumption DEF Inv, TypeOK, CallsAreRegistered, disk,
        process, task, counts
<1>1. ASSUME NEW t \in Tasks, Register(t) PROVE CallsAreRegistered'
  BY <1>1 DEF Register, At
<1>2. ASSUME NEW t \in Tasks, WriteLock(t) PROVE CallsAreRegistered'
  BY <1>2 DEF WriteLock, At, Readers
<1>3. ASSUME NEW t \in Tasks, Check(t) PROVE CallsAreRegistered'
  BY <1>3 DEF Check, At
<1>4. ASSUME NEW t \in Tasks, ReadLock(t) PROVE CallsAreRegistered'
  BY <1>4 DEF ReadLock, At
<1>5. ASSUME NEW t \in Tasks, Validate(t) PROVE CallsAreRegistered'
  BY <1>5 DEF Validate, At
<1>6. ASSUME NEW t \in Tasks, Finish(t) PROVE CallsAreRegistered'
  BY <1>6 DEF Finish, At
<1>7. ASSUME NEW t \in Tasks, Cancel(t) PROVE CallsAreRegistered'
  BY <1>7 DEF Cancel, At
<1>8. ASSUME NEW p \in Procs, StartInit(p) PROVE CallsAreRegistered'
  BY <1>8 DEF StartInit, MoveOn, Phase, Ended
<1>9. ASSUME NEW p \in Procs, Probe(p) PROVE CallsAreRegistered'
  BY <1>9 DEF Probe, MoveOn, Phase, Ended
<1>10. ASSUME NEW p \in Procs, TryShared(p) PROVE CallsAreRegistered'
  BY <1>10 DEF TryShared, Phase, Others
<1>11. ASSUME NEW p \in Procs, TryExclusive(p) PROVE CallsAreRegistered'
  BY <1>11 DEF TryExclusive, Phase, Others
<1>12. ASSUME NEW p \in Procs, RecheckShared(p) PROVE CallsAreRegistered'
  BY <1>12 DEF RecheckShared, Commit, GiveUp, Unlock, Phase, Ended
<1>13. ASSUME NEW p \in Procs, RecheckExclusive(p) PROVE CallsAreRegistered'
  BY <1>13 DEF RecheckExclusive, MoveOn, GiveUp, Unlock, Phase, Ended
<1>14. ASSUME NEW p \in Procs, Clone(p) PROVE CallsAreRegistered'
  BY <1>14 DEF Clone, Phase
<1>15. ASSUME NEW p \in Procs, CloneSucceeds(p) PROVE CallsAreRegistered'
  BY <1>15 DEF CloneSucceeds, Phase
<1>16. ASSUME NEW p \in Procs, CloneFails(p) PROVE CallsAreRegistered'
  BY <1>16 DEF CloneFails, MoveOn, GiveUp, Unlock, Phase, Ended
<1>17. ASSUME NEW p \in Procs, Wipe(p) PROVE CallsAreRegistered'
  BY <1>17 DEF Wipe, GiveUp, Unlock, Phase, Ended
<1>18. ASSUME NEW p \in Procs, Publish(p) PROVE CallsAreRegistered'
  BY <1>18 DEF Publish, Phase
<1>19. ASSUME NEW p \in Procs, PublishFails(p) PROVE CallsAreRegistered'
  BY <1>19 DEF PublishFails, Unlock, Ended, Phase
<1>20. ASSUME NEW p \in Procs, Downgrade(p) PROVE CallsAreRegistered'
  BY <1>20 DEF Downgrade, GiveUp, Unlock, Phase, Ended
<1>21. ASSUME NEW p \in Procs, Relock(p) PROVE CallsAreRegistered'
  BY <1>21 DEF Relock, Others, Ended, Phase
<1>22. ASSUME NEW p \in Procs, Crash(p) PROVE CallsAreRegistered'
  BY <1>22 DEF Crash
<1>23. CASE Erase
  BY <1>23 DEF Erase
<1>24. CASE UNCHANGED vars
  BY <1>24 DEF vars
<1> QED
  BY <1>1, <1>2, <1>3, <1>4, <1>5, <1>6, <1>7, <1>8, <1>9, <1>10, <1>11,
     <1>12, <1>13, <1>14, <1>15, <1>16, <1>17, <1>18, <1>19, <1>20, <1>21,
     <1>22, <1>23, <1>24 DEF Next, TaskStep, InitStep, Done

\* An initializer starts for a registered call and ends with its owner.
LEMMA OwnedStep ==
    ASSUME Inv, [Next]_vars PROVE InitializersAreOwned'
<1> USE CheckoutAssumption DEF Inv, TypeOK, CallsAreRegistered,
        InitializersAreOwned, Steps, disk, process, task, counts
<1>1. ASSUME NEW t \in Tasks, Register(t) PROVE InitializersAreOwned'
  BY <1>1 DEF Register, At
<1>2. ASSUME NEW t \in Tasks, WriteLock(t) PROVE InitializersAreOwned'
  BY <1>2 DEF WriteLock, At, Readers
<1>3. ASSUME NEW t \in Tasks, Check(t) PROVE InitializersAreOwned'
  BY <1>3 DEF Check, At
<1>4. ASSUME NEW t \in Tasks, ReadLock(t) PROVE InitializersAreOwned'
  BY <1>4 DEF ReadLock, At
<1>5. ASSUME NEW t \in Tasks, Validate(t) PROVE InitializersAreOwned'
  BY <1>5 DEF Validate, At
<1>6. ASSUME NEW t \in Tasks, Finish(t) PROVE InitializersAreOwned'
  BY <1>6 DEF Finish, At
<1>7. ASSUME NEW t \in Tasks, Cancel(t) PROVE InitializersAreOwned'
  BY <1>7 DEF Cancel, At
<1>8. ASSUME NEW p \in Procs, StartInit(p) PROVE InitializersAreOwned'
  BY <1>8 DEF StartInit, MoveOn, Phase, Ended
<1>9. ASSUME NEW p \in Procs, Probe(p) PROVE InitializersAreOwned'
  BY <1>9 DEF Probe, MoveOn, Phase, Ended
<1>10. ASSUME NEW p \in Procs, TryShared(p) PROVE InitializersAreOwned'
  BY <1>10 DEF TryShared, Phase, Others
<1>11. ASSUME NEW p \in Procs, TryExclusive(p) PROVE InitializersAreOwned'
  BY <1>11 DEF TryExclusive, Phase, Others
<1>12. ASSUME NEW p \in Procs, RecheckShared(p) PROVE InitializersAreOwned'
  BY <1>12 DEF RecheckShared, Commit, GiveUp, Unlock, Phase, Ended
<1>13. ASSUME NEW p \in Procs, RecheckExclusive(p) PROVE InitializersAreOwned'
  BY <1>13 DEF RecheckExclusive, MoveOn, GiveUp, Unlock, Phase, Ended
<1>14. ASSUME NEW p \in Procs, Clone(p) PROVE InitializersAreOwned'
  BY <1>14 DEF Clone, Phase
<1>15. ASSUME NEW p \in Procs, CloneSucceeds(p) PROVE InitializersAreOwned'
  BY <1>15 DEF CloneSucceeds, Phase
<1>16. ASSUME NEW p \in Procs, CloneFails(p) PROVE InitializersAreOwned'
  BY <1>16 DEF CloneFails, MoveOn, GiveUp, Unlock, Phase, Ended
<1>17. ASSUME NEW p \in Procs, Wipe(p) PROVE InitializersAreOwned'
  BY <1>17 DEF Wipe, GiveUp, Unlock, Phase, Ended
<1>18. ASSUME NEW p \in Procs, Publish(p) PROVE InitializersAreOwned'
  BY <1>18 DEF Publish, Phase
<1>19. ASSUME NEW p \in Procs, PublishFails(p) PROVE InitializersAreOwned'
  BY <1>19 DEF PublishFails, Unlock, Ended, Phase
<1>20. ASSUME NEW p \in Procs, Downgrade(p) PROVE InitializersAreOwned'
  BY <1>20 DEF Downgrade, GiveUp, Unlock, Phase, Ended
<1>21. ASSUME NEW p \in Procs, Relock(p) PROVE InitializersAreOwned'
  BY <1>21 DEF Relock, Others, Ended, Phase
<1>22. ASSUME NEW p \in Procs, Crash(p) PROVE InitializersAreOwned'
  BY <1>22 DEF Crash
<1>23. CASE Erase
  BY <1>23 DEF Erase
<1>24. CASE UNCHANGED vars
  BY <1>24 DEF vars
<1> QED
  BY <1>1, <1>2, <1>3, <1>4, <1>5, <1>6, <1>7, <1>8, <1>9, <1>10, <1>11,
     <1>12, <1>13, <1>14, <1>15, <1>16, <1>17, <1>18, <1>19, <1>20, <1>21,
     <1>22, <1>23, <1>24 DEF Next, TaskStep, InitStep, Done

\* Locks exclude each other.
LEMMA ExcludeStep ==
    ASSUME Inv, [Next]_vars PROVE LocksExclude'
<1> USE CheckoutAssumption DEF Inv, TypeOK, LocksExclude, disk, process,
        task, counts
<1>1. ASSUME NEW t \in Tasks, Register(t) PROVE LocksExclude'
  BY <1>1 DEF Register, At
<1>2. ASSUME NEW t \in Tasks, WriteLock(t) PROVE LocksExclude'
  BY <1>2 DEF WriteLock, At, Readers
<1>3. ASSUME NEW t \in Tasks, Check(t) PROVE LocksExclude'
  BY <1>3 DEF Check, At
<1>4. ASSUME NEW t \in Tasks, ReadLock(t) PROVE LocksExclude'
  BY <1>4 DEF ReadLock, At
<1>5. ASSUME NEW t \in Tasks, Validate(t) PROVE LocksExclude'
  BY <1>5 DEF Validate, At
<1>6. ASSUME NEW t \in Tasks, Finish(t) PROVE LocksExclude'
  BY <1>6 DEF Finish, At
<1>7. ASSUME NEW t \in Tasks, Cancel(t) PROVE LocksExclude'
  BY <1>7 DEF Cancel, At
<1>8. ASSUME NEW p \in Procs, StartInit(p) PROVE LocksExclude'
  BY <1>8 DEF StartInit, MoveOn, Phase, Ended
<1>9. ASSUME NEW p \in Procs, Probe(p) PROVE LocksExclude'
  BY <1>9 DEF Probe, MoveOn, Phase, Ended
<1>10. ASSUME NEW p \in Procs, TryShared(p) PROVE LocksExclude'
  BY <1>10 DEF TryShared, Phase, Others
<1>11. ASSUME NEW p \in Procs, TryExclusive(p) PROVE LocksExclude'
  BY <1>11 DEF TryExclusive, Phase, Others
<1>12. ASSUME NEW p \in Procs, RecheckShared(p) PROVE LocksExclude'
  BY <1>12 DEF RecheckShared, Commit, GiveUp, Unlock, Phase, Ended
<1>13. ASSUME NEW p \in Procs, RecheckExclusive(p) PROVE LocksExclude'
  BY <1>13 DEF RecheckExclusive, MoveOn, GiveUp, Unlock, Phase, Ended
<1>14. ASSUME NEW p \in Procs, Clone(p) PROVE LocksExclude'
  BY <1>14 DEF Clone, Phase
<1>15. ASSUME NEW p \in Procs, CloneSucceeds(p) PROVE LocksExclude'
  BY <1>15 DEF CloneSucceeds, Phase
<1>16. ASSUME NEW p \in Procs, CloneFails(p) PROVE LocksExclude'
  BY <1>16 DEF CloneFails, MoveOn, GiveUp, Unlock, Phase, Ended
<1>17. ASSUME NEW p \in Procs, Wipe(p) PROVE LocksExclude'
  BY <1>17 DEF Wipe, GiveUp, Unlock, Phase, Ended
<1>18. ASSUME NEW p \in Procs, Publish(p) PROVE LocksExclude'
  BY <1>18 DEF Publish, Phase
<1>19. ASSUME NEW p \in Procs, PublishFails(p) PROVE LocksExclude'
  BY <1>19 DEF PublishFails, Unlock, Ended, Phase
<1>20. ASSUME NEW p \in Procs, Downgrade(p) PROVE LocksExclude'
  BY <1>20 DEF Downgrade, GiveUp, Unlock, Phase, Ended
<1>21. ASSUME NEW p \in Procs, Relock(p) PROVE LocksExclude'
  BY <1>21 DEF Relock, Others, Ended, Phase
<1>22. ASSUME NEW p \in Procs, Crash(p) PROVE LocksExclude'
  BY <1>22 DEF Crash
<1>23. CASE Erase
  BY <1>23 DEF Erase
<1>24. CASE UNCHANGED vars
  BY <1>24 DEF vars
<1> QED
  BY <1>1, <1>2, <1>3, <1>4, <1>5, <1>6, <1>7, <1>8, <1>9, <1>10, <1>11,
     <1>12, <1>13, <1>14, <1>15, <1>16, <1>17, <1>18, <1>19, <1>20, <1>21,
     <1>22, <1>23, <1>24 DEF Next, TaskStep, InitStep, Done

\* The initializer has the lock it counts on.
LEMMA HeldStep ==
    ASSUME Inv, [Next]_vars PROVE LocksHeld'
<1> USE CheckoutAssumption DEF Inv, TypeOK, LocksHeld, Exclusive, disk,
        process, task, counts
<1>1. ASSUME NEW t \in Tasks, Register(t) PROVE LocksHeld'
  BY <1>1 DEF Register, At
<1>2. ASSUME NEW t \in Tasks, WriteLock(t) PROVE LocksHeld'
  BY <1>2 DEF WriteLock, At, Readers
<1>3. ASSUME NEW t \in Tasks, Check(t) PROVE LocksHeld'
  BY <1>3 DEF Check, At
<1>4. ASSUME NEW t \in Tasks, ReadLock(t) PROVE LocksHeld'
  BY <1>4 DEF ReadLock, At
<1>5. ASSUME NEW t \in Tasks, Validate(t) PROVE LocksHeld'
  BY <1>5 DEF Validate, At
<1>6. ASSUME NEW t \in Tasks, Finish(t) PROVE LocksHeld'
  BY <1>6 DEF Finish, At
<1>7. ASSUME NEW t \in Tasks, Cancel(t) PROVE LocksHeld'
  BY <1>7 DEF Cancel, At
<1>8. ASSUME NEW p \in Procs, StartInit(p) PROVE LocksHeld'
  BY <1>8 DEF StartInit, MoveOn, Phase, Ended
<1>9. ASSUME NEW p \in Procs, Probe(p) PROVE LocksHeld'
  BY <1>9 DEF Probe, MoveOn, Phase, Ended
<1>10. ASSUME NEW p \in Procs, TryShared(p) PROVE LocksHeld'
  BY <1>10 DEF TryShared, Phase, Others
<1>11. ASSUME NEW p \in Procs, TryExclusive(p) PROVE LocksHeld'
  BY <1>11 DEF TryExclusive, Phase, Others
<1>12. ASSUME NEW p \in Procs, RecheckShared(p) PROVE LocksHeld'
  BY <1>12 DEF RecheckShared, Commit, GiveUp, Unlock, Phase, Ended
<1>13. ASSUME NEW p \in Procs, RecheckExclusive(p) PROVE LocksHeld'
  BY <1>13 DEF RecheckExclusive, MoveOn, GiveUp, Unlock, Phase, Ended
<1>14. ASSUME NEW p \in Procs, Clone(p) PROVE LocksHeld'
  BY <1>14 DEF Clone, Phase
<1>15. ASSUME NEW p \in Procs, CloneSucceeds(p) PROVE LocksHeld'
  BY <1>15 DEF CloneSucceeds, Phase
<1>16. ASSUME NEW p \in Procs, CloneFails(p) PROVE LocksHeld'
  BY <1>16 DEF CloneFails, MoveOn, GiveUp, Unlock, Phase, Ended
<1>17. ASSUME NEW p \in Procs, Wipe(p) PROVE LocksHeld'
  BY <1>17 DEF Wipe, GiveUp, Unlock, Phase, Ended
<1>18. ASSUME NEW p \in Procs, Publish(p) PROVE LocksHeld'
  BY <1>18 DEF Publish, Phase
<1>19. ASSUME NEW p \in Procs, PublishFails(p) PROVE LocksHeld'
  BY <1>19 DEF PublishFails, Unlock, Ended, Phase
<1>20. ASSUME NEW p \in Procs, Downgrade(p) PROVE LocksHeld'
  BY <1>20 DEF Downgrade, GiveUp, Unlock, Phase, Ended
<1>21. ASSUME NEW p \in Procs, Relock(p) PROVE LocksHeld'
  BY <1>21 DEF Relock, Others, Ended, Phase
<1>22. ASSUME NEW p \in Procs, Crash(p) PROVE LocksHeld'
  BY <1>22 DEF Crash
<1>23. CASE Erase
  BY <1>23 DEF Erase
<1>24. CASE UNCHANGED vars
  BY <1>24 DEF vars
<1> QED
  BY <1>1, <1>2, <1>3, <1>4, <1>5, <1>6, <1>7, <1>8, <1>9, <1>10, <1>11,
     <1>12, <1>13, <1>14, <1>15, <1>16, <1>17, <1>18, <1>19, <1>20, <1>21,
     <1>22, <1>23, <1>24 DEF Next, TaskStep, InitStep, Done

\* A committed process gives nothing up.
LEMMA ShareStep ==
    ASSUME Inv, [Next]_vars PROVE CommittedShare'
<1> USE CheckoutAssumption DEF Inv, TypeOK, CommittedShare, LocksHeld, disk,
        process, task, counts
<1>1. ASSUME NEW t \in Tasks, Register(t) PROVE CommittedShare'
  BY <1>1 DEF Register, At
<1>2. ASSUME NEW t \in Tasks, WriteLock(t) PROVE CommittedShare'
  BY <1>2 DEF WriteLock, At, Readers
<1>3. ASSUME NEW t \in Tasks, Check(t) PROVE CommittedShare'
  BY <1>3 DEF Check, At
<1>4. ASSUME NEW t \in Tasks, ReadLock(t) PROVE CommittedShare'
  BY <1>4 DEF ReadLock, At
<1>5. ASSUME NEW t \in Tasks, Validate(t) PROVE CommittedShare'
  BY <1>5 DEF Validate, At
<1>6. ASSUME NEW t \in Tasks, Finish(t) PROVE CommittedShare'
  BY <1>6 DEF Finish, At
<1>7. ASSUME NEW t \in Tasks, Cancel(t) PROVE CommittedShare'
  BY <1>7 DEF Cancel, At
<1>8. ASSUME NEW p \in Procs, StartInit(p) PROVE CommittedShare'
  BY <1>8 DEF StartInit, MoveOn, Phase, Ended
<1>9. ASSUME NEW p \in Procs, Probe(p) PROVE CommittedShare'
  BY <1>9 DEF Probe, MoveOn, Phase, Ended
<1>10. ASSUME NEW p \in Procs, TryShared(p) PROVE CommittedShare'
  BY <1>10 DEF TryShared, Phase, Others
<1>11. ASSUME NEW p \in Procs, TryExclusive(p) PROVE CommittedShare'
  BY <1>11 DEF TryExclusive, Phase, Others
<1>12. ASSUME NEW p \in Procs, RecheckShared(p) PROVE CommittedShare'
  BY <1>12 DEF RecheckShared, Commit, GiveUp, Unlock, Phase, Ended
<1>13. ASSUME NEW p \in Procs, RecheckExclusive(p) PROVE CommittedShare'
  BY <1>13 DEF RecheckExclusive, MoveOn, GiveUp, Unlock, Phase, Ended
<1>14. ASSUME NEW p \in Procs, Clone(p) PROVE CommittedShare'
  BY <1>14 DEF Clone, Phase
<1>15. ASSUME NEW p \in Procs, CloneSucceeds(p) PROVE CommittedShare'
  BY <1>15 DEF CloneSucceeds, Phase
<1>16. ASSUME NEW p \in Procs, CloneFails(p) PROVE CommittedShare'
  BY <1>16 DEF CloneFails, MoveOn, GiveUp, Unlock, Phase, Ended
<1>17. ASSUME NEW p \in Procs, Wipe(p) PROVE CommittedShare'
  BY <1>17 DEF Wipe, GiveUp, Unlock, Phase, Ended
<1>18. ASSUME NEW p \in Procs, Publish(p) PROVE CommittedShare'
  BY <1>18 DEF Publish, Phase
<1>19. ASSUME NEW p \in Procs, PublishFails(p) PROVE CommittedShare'
  BY <1>19 DEF PublishFails, Unlock, Ended, Phase
<1>20. ASSUME NEW p \in Procs, Downgrade(p) PROVE CommittedShare'
  BY <1>20 DEF Downgrade, GiveUp, Unlock, Phase, Ended
<1>21. ASSUME NEW p \in Procs, Relock(p) PROVE CommittedShare'
  BY <1>21 DEF Relock, Others, Ended, Phase
<1>22. ASSUME NEW p \in Procs, Crash(p) PROVE CommittedShare'
  BY <1>22 DEF Crash
<1>23. CASE Erase
  BY <1>23 DEF Erase
<1>24. CASE UNCHANGED vars
  BY <1>24 DEF vars
<1> QED
  BY <1>1, <1>2, <1>3, <1>4, <1>5, <1>6, <1>7, <1>8, <1>9, <1>10, <1>11,
     <1>12, <1>13, <1>14, <1>15, <1>16, <1>17, <1>18, <1>19, <1>20, <1>21,
     <1>22, <1>23, <1>24 DEF Next, TaskStep, InitStep, Done

\* Only the holder of the exclusive lock writes the marker.
LEMMA UnmarkedStep ==
    ASSUME Inv, [Next]_vars PROVE ChangesAreUnmarked'
<1> USE CheckoutAssumption DEF Inv, TypeOK, ChangesAreUnmarked, LocksHeld,
        LocksExclude, Exclusive, Mutating, disk, process, task, counts
<1>1. ASSUME NEW t \in Tasks, Register(t) PROVE ChangesAreUnmarked'
  BY <1>1 DEF Register, At
<1>2. ASSUME NEW t \in Tasks, WriteLock(t) PROVE ChangesAreUnmarked'
  BY <1>2 DEF WriteLock, At, Readers
<1>3. ASSUME NEW t \in Tasks, Check(t) PROVE ChangesAreUnmarked'
  BY <1>3 DEF Check, At
<1>4. ASSUME NEW t \in Tasks, ReadLock(t) PROVE ChangesAreUnmarked'
  BY <1>4 DEF ReadLock, At
<1>5. ASSUME NEW t \in Tasks, Validate(t) PROVE ChangesAreUnmarked'
  BY <1>5 DEF Validate, At
<1>6. ASSUME NEW t \in Tasks, Finish(t) PROVE ChangesAreUnmarked'
  BY <1>6 DEF Finish, At
<1>7. ASSUME NEW t \in Tasks, Cancel(t) PROVE ChangesAreUnmarked'
  BY <1>7 DEF Cancel, At
<1>8. ASSUME NEW p \in Procs, StartInit(p) PROVE ChangesAreUnmarked'
  BY <1>8 DEF StartInit, MoveOn, Phase, Ended
<1>9. ASSUME NEW p \in Procs, Probe(p) PROVE ChangesAreUnmarked'
  BY <1>9 DEF Probe, MoveOn, Phase, Ended
<1>10. ASSUME NEW p \in Procs, TryShared(p) PROVE ChangesAreUnmarked'
  BY <1>10 DEF TryShared, Phase, Others
<1>11. ASSUME NEW p \in Procs, TryExclusive(p) PROVE ChangesAreUnmarked'
  BY <1>11 DEF TryExclusive, Phase, Others
<1>12. ASSUME NEW p \in Procs, RecheckShared(p) PROVE ChangesAreUnmarked'
  BY <1>12 DEF RecheckShared, Commit, GiveUp, Unlock, Phase, Ended
<1>13. ASSUME NEW p \in Procs, RecheckExclusive(p) PROVE ChangesAreUnmarked'
  BY <1>13 DEF RecheckExclusive, MoveOn, GiveUp, Unlock, Phase, Ended
<1>14. ASSUME NEW p \in Procs, Clone(p) PROVE ChangesAreUnmarked'
  BY <1>14 DEF Clone, Phase
<1>15. ASSUME NEW p \in Procs, CloneSucceeds(p) PROVE ChangesAreUnmarked'
  BY <1>15 DEF CloneSucceeds, Phase
<1>16. ASSUME NEW p \in Procs, CloneFails(p) PROVE ChangesAreUnmarked'
  BY <1>16 DEF CloneFails, MoveOn, GiveUp, Unlock, Phase, Ended
<1>17. ASSUME NEW p \in Procs, Wipe(p) PROVE ChangesAreUnmarked'
  BY <1>17 DEF Wipe, GiveUp, Unlock, Phase, Ended
<1>18. ASSUME NEW p \in Procs, Publish(p) PROVE ChangesAreUnmarked'
  BY <1>18 DEF Publish, Phase
<1>19. ASSUME NEW p \in Procs, PublishFails(p) PROVE ChangesAreUnmarked'
  BY <1>19 DEF PublishFails, Unlock, Ended, Phase
<1>20. ASSUME NEW p \in Procs, Downgrade(p) PROVE ChangesAreUnmarked'
  BY <1>20 DEF Downgrade, GiveUp, Unlock, Phase, Ended
<1>21. ASSUME NEW p \in Procs, Relock(p) PROVE ChangesAreUnmarked'
  BY <1>21 DEF Relock, Others, Ended, Phase
<1>22. ASSUME NEW p \in Procs, Crash(p) PROVE ChangesAreUnmarked'
  BY <1>22 DEF Crash
<1>23. CASE Erase
  BY <1>23 DEF Erase
<1>24. CASE UNCHANGED vars
  BY <1>24 DEF vars
<1> QED
  BY <1>1, <1>2, <1>3, <1>4, <1>5, <1>6, <1>7, <1>8, <1>9, <1>10, <1>11,
     <1>12, <1>13, <1>14, <1>15, <1>16, <1>17, <1>18, <1>19, <1>20, <1>21,
     <1>22, <1>23, <1>24 DEF Next, TaskStep, InitStep, Done

\* Nobody else changes the tree before the marker is written.
LEMMA BuiltStep ==
    ASSUME Inv, [Next]_vars PROVE PublishedIsBuilt'
<1> USE CheckoutAssumption DEF Inv, TypeOK, PublishedIsBuilt,
        InitializersAreOwned, LocksHeld, LocksExclude, Exclusive, disk,
        process, task, counts
<1>1. ASSUME NEW t \in Tasks, Register(t) PROVE PublishedIsBuilt'
  BY <1>1 DEF Register, At
<1>2. ASSUME NEW t \in Tasks, WriteLock(t) PROVE PublishedIsBuilt'
  BY <1>2 DEF WriteLock, At, Readers
<1>3. ASSUME NEW t \in Tasks, Check(t) PROVE PublishedIsBuilt'
  BY <1>3 DEF Check, At
<1>4. ASSUME NEW t \in Tasks, ReadLock(t) PROVE PublishedIsBuilt'
  BY <1>4 DEF ReadLock, At
<1>5. ASSUME NEW t \in Tasks, Validate(t) PROVE PublishedIsBuilt'
  BY <1>5 DEF Validate, At
<1>6. ASSUME NEW t \in Tasks, Finish(t) PROVE PublishedIsBuilt'
  BY <1>6 DEF Finish, At
<1>7. ASSUME NEW t \in Tasks, Cancel(t) PROVE PublishedIsBuilt'
  BY <1>7 DEF Cancel, At
<1>8. ASSUME NEW p \in Procs, StartInit(p) PROVE PublishedIsBuilt'
  BY <1>8 DEF StartInit, MoveOn, Phase, Ended
<1>9. ASSUME NEW p \in Procs, Probe(p) PROVE PublishedIsBuilt'
  BY <1>9 DEF Probe, MoveOn, Phase, Ended
<1>10. ASSUME NEW p \in Procs, TryShared(p) PROVE PublishedIsBuilt'
  BY <1>10 DEF TryShared, Phase, Others
<1>11. ASSUME NEW p \in Procs, TryExclusive(p) PROVE PublishedIsBuilt'
  BY <1>11 DEF TryExclusive, Phase, Others
<1>12. ASSUME NEW p \in Procs, RecheckShared(p) PROVE PublishedIsBuilt'
  BY <1>12 DEF RecheckShared, Commit, GiveUp, Unlock, Phase, Ended
<1>13. ASSUME NEW p \in Procs, RecheckExclusive(p) PROVE PublishedIsBuilt'
  BY <1>13 DEF RecheckExclusive, MoveOn, GiveUp, Unlock, Phase, Ended
<1>14. ASSUME NEW p \in Procs, Clone(p) PROVE PublishedIsBuilt'
  BY <1>14 DEF Clone, Phase
<1>15. ASSUME NEW p \in Procs, CloneSucceeds(p) PROVE PublishedIsBuilt'
  BY <1>15 DEF CloneSucceeds, Phase
<1>16. ASSUME NEW p \in Procs, CloneFails(p) PROVE PublishedIsBuilt'
  BY <1>16 DEF CloneFails, MoveOn, GiveUp, Unlock, Phase, Ended
<1>17. ASSUME NEW p \in Procs, Wipe(p) PROVE PublishedIsBuilt'
  BY <1>17 DEF Wipe, GiveUp, Unlock, Phase, Ended
<1>18. ASSUME NEW p \in Procs, Publish(p) PROVE PublishedIsBuilt'
  BY <1>18 DEF Publish, Phase
<1>19. ASSUME NEW p \in Procs, PublishFails(p) PROVE PublishedIsBuilt'
  BY <1>19 DEF PublishFails, Unlock, Ended, Phase
<1>20. ASSUME NEW p \in Procs, Downgrade(p) PROVE PublishedIsBuilt'
  BY <1>20 DEF Downgrade, GiveUp, Unlock, Phase, Ended
<1>21. ASSUME NEW p \in Procs, Relock(p) PROVE PublishedIsBuilt'
  BY <1>21 DEF Relock, Others, Ended, Phase
<1>22. ASSUME NEW p \in Procs, Crash(p) PROVE PublishedIsBuilt'
  BY <1>22 DEF Crash
<1>23. CASE Erase
  BY <1>23 DEF Erase
<1>24. CASE UNCHANGED vars
  BY <1>24 DEF vars
<1> QED
  BY <1>1, <1>2, <1>3, <1>4, <1>5, <1>6, <1>7, <1>8, <1>9, <1>10, <1>11,
     <1>12, <1>13, <1>14, <1>15, <1>16, <1>17, <1>18, <1>19, <1>20, <1>21,
     <1>22, <1>23, <1>24 DEF Next, TaskStep, InitStep, Done

\* The marker stands for the tree.
LEMMA MarkedStep ==
    ASSUME Inv, [Next]_vars PROVE MarkedTreeIsWhole'
<1> USE CheckoutAssumption DEF Inv, TypeOK, MarkedTreeIsWhole,
        PublishedIsBuilt, ChangesAreUnmarked, Mutating, disk, process, task,
        counts
<1>1. ASSUME NEW t \in Tasks, Register(t) PROVE MarkedTreeIsWhole'
  BY <1>1 DEF Register, At
<1>2. ASSUME NEW t \in Tasks, WriteLock(t) PROVE MarkedTreeIsWhole'
  BY <1>2 DEF WriteLock, At, Readers
<1>3. ASSUME NEW t \in Tasks, Check(t) PROVE MarkedTreeIsWhole'
  BY <1>3 DEF Check, At
<1>4. ASSUME NEW t \in Tasks, ReadLock(t) PROVE MarkedTreeIsWhole'
  BY <1>4 DEF ReadLock, At
<1>5. ASSUME NEW t \in Tasks, Validate(t) PROVE MarkedTreeIsWhole'
  BY <1>5 DEF Validate, At
<1>6. ASSUME NEW t \in Tasks, Finish(t) PROVE MarkedTreeIsWhole'
  BY <1>6 DEF Finish, At
<1>7. ASSUME NEW t \in Tasks, Cancel(t) PROVE MarkedTreeIsWhole'
  BY <1>7 DEF Cancel, At
<1>8. ASSUME NEW p \in Procs, StartInit(p) PROVE MarkedTreeIsWhole'
  BY <1>8 DEF StartInit, MoveOn, Phase, Ended
<1>9. ASSUME NEW p \in Procs, Probe(p) PROVE MarkedTreeIsWhole'
  BY <1>9 DEF Probe, MoveOn, Phase, Ended
<1>10. ASSUME NEW p \in Procs, TryShared(p) PROVE MarkedTreeIsWhole'
  BY <1>10 DEF TryShared, Phase, Others
<1>11. ASSUME NEW p \in Procs, TryExclusive(p) PROVE MarkedTreeIsWhole'
  BY <1>11 DEF TryExclusive, Phase, Others
<1>12. ASSUME NEW p \in Procs, RecheckShared(p) PROVE MarkedTreeIsWhole'
  BY <1>12 DEF RecheckShared, Commit, GiveUp, Unlock, Phase, Ended
<1>13. ASSUME NEW p \in Procs, RecheckExclusive(p) PROVE MarkedTreeIsWhole'
  BY <1>13 DEF RecheckExclusive, MoveOn, GiveUp, Unlock, Phase, Ended
<1>14. ASSUME NEW p \in Procs, Clone(p) PROVE MarkedTreeIsWhole'
  BY <1>14 DEF Clone, Phase
<1>15. ASSUME NEW p \in Procs, CloneSucceeds(p) PROVE MarkedTreeIsWhole'
  BY <1>15 DEF CloneSucceeds, Phase
<1>16. ASSUME NEW p \in Procs, CloneFails(p) PROVE MarkedTreeIsWhole'
  BY <1>16 DEF CloneFails, MoveOn, GiveUp, Unlock, Phase, Ended
<1>17. ASSUME NEW p \in Procs, Wipe(p) PROVE MarkedTreeIsWhole'
  BY <1>17 DEF Wipe, GiveUp, Unlock, Phase, Ended
<1>18. ASSUME NEW p \in Procs, Publish(p) PROVE MarkedTreeIsWhole'
  BY <1>18 DEF Publish, Phase
<1>19. ASSUME NEW p \in Procs, PublishFails(p) PROVE MarkedTreeIsWhole'
  BY <1>19 DEF PublishFails, Unlock, Ended, Phase
<1>20. ASSUME NEW p \in Procs, Downgrade(p) PROVE MarkedTreeIsWhole'
  BY <1>20 DEF Downgrade, GiveUp, Unlock, Phase, Ended
<1>21. ASSUME NEW p \in Procs, Relock(p) PROVE MarkedTreeIsWhole'
  BY <1>21 DEF Relock, Others, Ended, Phase
<1>22. ASSUME NEW p \in Procs, Crash(p) PROVE MarkedTreeIsWhole'
  BY <1>22 DEF Crash
<1>23. CASE Erase
  BY <1>23 DEF Erase
<1>24. CASE UNCHANGED vars
  BY <1>24 DEF vars
<1> QED
  BY <1>1, <1>2, <1>3, <1>4, <1>5, <1>6, <1>7, <1>8, <1>9, <1>10, <1>11,
     <1>12, <1>13, <1>14, <1>15, <1>16, <1>17, <1>18, <1>19, <1>20, <1>21,
     <1>22, <1>23, <1>24 DEF Next, TaskStep, InitStep, Done

\* A tree that is read does not change.
LEMMA ReaderStep ==
    ASSUME Inv, [Next]_vars PROVE ReadersAreCommitted'
<1> USE CheckoutAssumption DEF Inv, TypeOK, ReadersAreCommitted,
        CommittedShare, LocksHeld, LocksExclude, MarkedTreeIsWhole,
        Exclusive, disk, process, task, counts
<1>1. ASSUME NEW t \in Tasks, Register(t) PROVE ReadersAreCommitted'
  BY <1>1 DEF Register, At
<1>2. ASSUME NEW t \in Tasks, WriteLock(t) PROVE ReadersAreCommitted'
  BY <1>2 DEF WriteLock, At, Readers
<1>3. ASSUME NEW t \in Tasks, Check(t) PROVE ReadersAreCommitted'
  BY <1>3 DEF Check, At
<1>4. ASSUME NEW t \in Tasks, ReadLock(t) PROVE ReadersAreCommitted'
  BY <1>4 DEF ReadLock, At
<1>5. ASSUME NEW t \in Tasks, Validate(t) PROVE ReadersAreCommitted'
  BY <1>5 DEF Validate, At
<1>6. ASSUME NEW t \in Tasks, Finish(t) PROVE ReadersAreCommitted'
  BY <1>6 DEF Finish, At
<1>7. ASSUME NEW t \in Tasks, Cancel(t) PROVE ReadersAreCommitted'
  BY <1>7 DEF Cancel, At
<1>8. ASSUME NEW p \in Procs, StartInit(p) PROVE ReadersAreCommitted'
  BY <1>8 DEF StartInit, MoveOn, Phase, Ended
<1>9. ASSUME NEW p \in Procs, Probe(p) PROVE ReadersAreCommitted'
  BY <1>9 DEF Probe, MoveOn, Phase, Ended
<1>10. ASSUME NEW p \in Procs, TryShared(p) PROVE ReadersAreCommitted'
  BY <1>10 DEF TryShared, Phase, Others
<1>11. ASSUME NEW p \in Procs, TryExclusive(p) PROVE ReadersAreCommitted'
  BY <1>11 DEF TryExclusive, Phase, Others
<1>12. ASSUME NEW p \in Procs, RecheckShared(p) PROVE ReadersAreCommitted'
  BY <1>12 DEF RecheckShared, Commit, GiveUp, Unlock, Phase, Ended
<1>13. ASSUME NEW p \in Procs, RecheckExclusive(p) PROVE ReadersAreCommitted'
  BY <1>13 DEF RecheckExclusive, MoveOn, GiveUp, Unlock, Phase, Ended
<1>14. ASSUME NEW p \in Procs, Clone(p) PROVE ReadersAreCommitted'
  BY <1>14 DEF Clone, Phase
<1>15. ASSUME NEW p \in Procs, CloneSucceeds(p) PROVE ReadersAreCommitted'
  BY <1>15 DEF CloneSucceeds, Phase
<1>16. ASSUME NEW p \in Procs, CloneFails(p) PROVE ReadersAreCommitted'
  BY <1>16 DEF CloneFails, MoveOn, GiveUp, Unlock, Phase, Ended
<1>17. ASSUME NEW p \in Procs, Wipe(p) PROVE ReadersAreCommitted'
  BY <1>17 DEF Wipe, GiveUp, Unlock, Phase, Ended
<1>18. ASSUME NEW p \in Procs, Publish(p) PROVE ReadersAreCommitted'
  BY <1>18 DEF Publish, Phase
<1>19. ASSUME NEW p \in Procs, PublishFails(p) PROVE ReadersAreCommitted'
  BY <1>19 DEF PublishFails, Unlock, Ended, Phase
<1>20. ASSUME NEW p \in Procs, Downgrade(p) PROVE ReadersAreCommitted'
  BY <1>20 DEF Downgrade, GiveUp, Unlock, Phase, Ended
<1>21. ASSUME NEW p \in Procs, Relock(p) PROVE ReadersAreCommitted'
  BY <1>21 DEF Relock, Others, Ended, Phase
<1>22. ASSUME NEW p \in Procs, Crash(p) PROVE ReadersAreCommitted'
  BY <1>22 DEF Crash
<1>23. CASE Erase
  BY <1>23 DEF Erase
<1>24. CASE UNCHANGED vars
  BY <1>24 DEF vars
<1> QED
  BY <1>1, <1>2, <1>3, <1>4, <1>5, <1>6, <1>7, <1>8, <1>9, <1>10, <1>11,
     <1>12, <1>13, <1>14, <1>15, <1>16, <1>17, <1>18, <1>19, <1>20, <1>21,
     <1>22, <1>23, <1>24 DEF Next, TaskStep, InitStep, Done
-----------------------------------------------------------------------------
LEMMA InvInductive == Inv /\ [Next]_vars => Inv'
  BY TypeStep, BoundStep, RegisteredStep, OwnedStep, ExcludeStep, HeldStep,
     ShareStep, UnmarkedStep, BuiltStep, MarkedStep, ReaderStep DEF Inv

LEMMA Invariance == Spec => []Inv
<1>1. Init => Inv
  BY InitInv
<1>2. Inv /\ [Next]_vars => Inv'
  BY InvInductive
<1> QED
  BY <1>1, <1>2, PTL DEF Spec

\* Every variable keeps to its type; in particular no initializer clones a
\* third time (initialize_checkout_once).
THEOREM TypeCorrect == Spec => []TypeOK
  BY Invariance, PTL DEF Inv

\* A task reads the tree of its own identity, and nobody changes it.
THEOREM ReadersSafe == Spec => []ReadersSeeTheirTree
<1>1. Inv => ReadersSeeTheirTree
  BY DEF Inv, ReadersAreCommitted, ReadersSeeTheirTree
<1> QED
  BY <1>1, Invariance, PTL

\* A ready marker stands for a complete tree.
THEOREM MarkerSafe == Spec => []MarkedTreeIsWhole
  BY Invariance, PTL DEF Inv

\* One process at a time changes the tree, and no other counts on reading it.
THEOREM InitializersExclude == Spec => []OneInitializer
<1>1. Inv => OneInitializer
  <2> SUFFICES ASSUME Inv, NEW p \in Procs, NEW q \in Procs,
                      phase[p] \in Mutating
               PROVE  /\ phase[q] \in Mutating => p = q
                      /\ q \notin shared
    BY DEF OneInitializer
  <2>1. flock[p] = "exclusive"
    BY DEF Inv, LocksHeld, Exclusive, Mutating
  <2>2. phase[q] \in Mutating => flock[q] = "exclusive"
    BY DEF Inv, LocksHeld, Exclusive, Mutating
  <2>3. q \in shared => flock[q] = "shared"
    BY DEF Inv, CommittedShare
  <2> QED
    BY <2>1, <2>2, <2>3 DEF Inv, LocksExclude
<1> QED
  BY <1>1, Invariance, PTL
-----------------------------------------------------------------------------
(***************************************************************************)
(* The refinement of SharedTree.                                           *)
(***************************************************************************)
\* What a step shows of itself to those who use the tree: it changes the tree
\* and no task, or it lets a task in that has validated the marker, or it only
\* lets tasks out.
Changes == pc' = pc /\ \E p \in Procs : phase[p] \in Mutating
LetsIn == \E t \in Tasks : Validate(t) /\ marker = asks[t] /\ At(t, "using")
OnlyLetsOut == \A t \in Tasks : pc'[t] = "using" => pc[t] = "using"
Seen ==
    /\ asks' = asks
    /\ tree' = tree \/ Changes
    /\ (tree' = tree /\ LetsIn) \/ OnlyLetsOut

LEMMA SeenStep ==
    ASSUME Inv, [Next]_vars PROVE Seen
<1> USE DEF Inv, TypeOK, Seen, Changes, OnlyLetsOut, Mutating, disk, process,
        task, counts
<1>1. ASSUME NEW t \in Tasks, Register(t) PROVE Seen
  BY <1>1 DEF Register, At
<1>2. ASSUME NEW t \in Tasks, WriteLock(t) PROVE Seen
  BY <1>2 DEF WriteLock, At
<1>3. ASSUME NEW t \in Tasks, Check(t) PROVE Seen
  BY <1>3 DEF Check, At
<1>4. ASSUME NEW t \in Tasks, ReadLock(t) PROVE Seen
  BY <1>4 DEF ReadLock, At
<1>5. ASSUME NEW t \in Tasks, Validate(t) PROVE Seen
  <2>1. asks' = asks /\ tree' = tree
    BY <1>5 DEF Validate
  <2>2. CASE marker = asks[t]
    <3>1. At(t, "using")
      BY <1>5, <2>2 DEF Validate
    <3> QED
      BY <1>5, <2>1, <2>2, <3>1 DEF LetsIn
  <2>3. CASE marker # asks[t]
    BY <1>5, <2>1, <2>3 DEF Validate, At
  <2> QED
    BY <2>2, <2>3
<1>6. ASSUME NEW t \in Tasks, Finish(t) PROVE Seen
  BY <1>6 DEF Finish, At
<1>7. ASSUME NEW t \in Tasks, Cancel(t) PROVE Seen
  BY <1>7 DEF Cancel, At
<1>8. ASSUME NEW p \in Procs, StartInit(p) PROVE Seen
  BY <1>8 DEF StartInit, MoveOn, Ended
<1>9. ASSUME NEW p \in Procs, Probe(p) PROVE Seen
  BY <1>9 DEF Probe, MoveOn, Ended
<1>10. ASSUME NEW p \in Procs, TryShared(p) PROVE Seen
  BY <1>10 DEF TryShared
<1>11. ASSUME NEW p \in Procs, TryExclusive(p) PROVE Seen
  BY <1>11 DEF TryExclusive
<1>12. ASSUME NEW p \in Procs, RecheckShared(p) PROVE Seen
  BY <1>12 DEF RecheckShared, Commit, GiveUp, Ended
<1>13. ASSUME NEW p \in Procs, RecheckExclusive(p) PROVE Seen
  BY <1>13 DEF RecheckExclusive, MoveOn, GiveUp, Ended
<1>14. ASSUME NEW p \in Procs, Clone(p) PROVE Seen
  BY <1>14 DEF Clone
<1>15. ASSUME NEW p \in Procs, CloneSucceeds(p) PROVE Seen
  BY <1>15 DEF CloneSucceeds
<1>16. ASSUME NEW p \in Procs, CloneFails(p) PROVE Seen
  BY <1>16 DEF CloneFails, MoveOn, GiveUp, Ended
<1>17. ASSUME NEW p \in Procs, Wipe(p) PROVE Seen
  BY <1>17 DEF Wipe, GiveUp, Ended
<1>18. ASSUME NEW p \in Procs, Publish(p) PROVE Seen
  BY <1>18 DEF Publish
<1>19. ASSUME NEW p \in Procs, PublishFails(p) PROVE Seen
  BY <1>19 DEF PublishFails, Ended
<1>20. ASSUME NEW p \in Procs, Downgrade(p) PROVE Seen
  BY <1>20 DEF Downgrade, GiveUp, Ended
<1>21. ASSUME NEW p \in Procs, Relock(p) PROVE Seen
  BY <1>21 DEF Relock, Ended
<1>22. ASSUME NEW p \in Procs, Crash(p) PROVE Seen
  BY <1>22 DEF Crash
<1>23. CASE Erase
  BY <1>23 DEF Erase
<1>24. CASE UNCHANGED vars
  BY <1>24 DEF vars
<1> QED
  BY <1>1, <1>2, <1>3, <1>4, <1>5, <1>6, <1>7, <1>8, <1>9, <1>10, <1>11,
     <1>12, <1>13, <1>14, <1>15, <1>16, <1>17, <1>18, <1>19, <1>20, <1>21,
     <1>22, <1>23, <1>24 DEF Next, TaskStep, InitStep, Done

\* What the tasks use.
Used == [t \in Tasks |-> IF pc[t] = "using" THEN asks[t] ELSE None]

\* While the tree is changed nobody uses it: each reader's process keeps the
\* shared lock, which excludes the exclusive one.
LEMMA UnusedWhileChanged ==
    ASSUME Inv, NEW p \in Procs, phase[p] \in Mutating, NEW t \in Tasks
    PROVE  pc[t] # "using"
<1> SUFFICES ASSUME pc[t] = "using" PROVE FALSE
  OBVIOUS
<1>1. flock[p] = "exclusive"
  BY DEF Inv, LocksHeld, Exclusive, Mutating
<1>2. Home[t] \in Procs /\ flock[Home[t]] = "shared"
  BY CheckoutAssumption DEF Inv, ReadersAreCommitted, CommittedShare
<1> QED
  BY <1>1, <1>2 DEF Inv, LocksExclude

\* A task is let in with the tree it has asked for.
LEMMA TakeStep ==
    ASSUME Inv, asks' = asks, tree' = tree, NEW t \in Tasks, Validate(t),
           NEW w \in Identities, w = asks[t], marker = w, At(t, "using")
    PROVE  Tree!Take(t, w)
<1>1. pc[t] = "validate" /\ pc' = [pc EXCEPT ![t] = "using"]
  BY DEF Validate, At
<1>2. tree = w /\ pc \in [Tasks -> Steps]
  BY CheckoutAssumption DEF Inv, TypeOK, MarkedTreeIsWhole
<1>3. Used[t] = None /\ Used' = [Used EXCEPT ![t] = w]
  BY <1>1, <1>2 DEF Used
<1> QED
  BY <1>2, <1>3 DEF Tree!Take, Used

\* The checkout of all processes is a tree that is handed out whole and stays
\* as it is while it is used, whatever happens to markers, locks and processes:
\* the specification SharedTree (ensure_git_checkout, GitCheckout).
THEOREM ImplementsSharedTree == Spec => SharedTreeSpec
<1>1. Init => Tree!Init
  BY DEF Init, Tree!Init, Tree!Idle
<1>2. ASSUME Inv, [Next]_vars
      PROVE  Tree!Next
  <2>1. Seen
    BY <1>2, SeenStep
  <2>2. CASE tree' = tree /\ LetsIn
    <3>1. PICK t \in Tasks :
              Validate(t) /\ marker = asks[t] /\ At(t, "using")
      BY <2>2 DEF LetsIn
    <3>2. PICK w \in Identities : w = asks[t]
      BY <1>2 DEF Inv, TypeOK
    <3>3. Tree!Take(t, w)
      BY <1>2, <2>1, <2>2, <3>1, <3>2, TakeStep DEF Seen
    <3> QED
      BY <3>3 DEF Tree!Next
  <2>3. CASE tree' = tree /\ OnlyLetsOut
    <3>1. PICK gone \in SUBSET Tasks : gone = {t \in Tasks : pc'[t] # "using"}
      OBVIOUS
    <3>2. Used' = [t \in Tasks |-> IF t \in gone THEN None ELSE Used[t]]
      BY <2>1, <2>3, <3>1 DEF OnlyLetsOut, Used, Seen
    <3>3. Tree!GiveBack(gone)
      BY <2>3, <3>2 DEF Tree!GiveBack, Used
    <3> QED
      BY <3>3 DEF Tree!Next
  <2>4. CASE Changes
    <3>1. \A t \in Tasks : pc[t] # "using"
      BY <1>2, <2>4, UnusedWhileChanged DEF Changes
    <3>2. Used = [t \in Tasks |-> None] /\ UNCHANGED Used
      BY <2>1, <2>4, <3>1 DEF Used, Changes, Seen
    <3>3. Tree!Change
      BY <3>2 DEF Tree!Change, Tree!Idle, Used
    <3> QED
      BY <3>3 DEF Tree!Next
  <2> QED
    BY <2>1, <2>2, <2>3, <2>4 DEF Seen
<1> QED
  BY <1>1, <1>2, Invariance, PTL DEF Spec, SharedTreeSpec, Tree!Spec
=============================================================================
