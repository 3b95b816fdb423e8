------------------------- MODULE ThreadBudgetProofs -------------------------
(***************************************************************************)
(* Proofs about ThreadBudget for every set of processes and builds, every  *)
(* budget and every combination of faults.                                 *)
(***************************************************************************)
EXTENDS ThreadBudget, FiniteSetTheorems, TLAPS

(***************************************************************************)
(* Arithmetic of the grants.                                               *)
(***************************************************************************)
LEMMA FilesFinite == IsFiniteSet(Files)
  BY FS_Product, BudgetAssumption DEF Files

LEMMA TakenFinite ==
    ASSUME NEW a
    PROVE  /\ IsFiniteSet(Pool!Taken(a))
           /\ Used(a) \in Nat
<1>1. IsFiniteSet(1..MaxBudget)
  BY FS_Interval, BudgetAssumption
<1>2. IsFiniteSet(Files \X (1..MaxBudget))
  BY <1>1, FilesFinite, FS_Product
<1>3. Pool!Taken(a) \subseteq Files \X (1..MaxBudget)
  BY DEF Pool!Taken
<1>4. IsFiniteSet(Pool!Taken(a))
  BY <1>2, <1>3, FS_Subset
<1> QED
  BY <1>4, FS_CardinalityType DEF Used

\* The instance of TokenPool counts with the same cardinality.
LEMMA PoolCardinality == \A S : Pool!Cardinality(S) = Cardinality(S)
  BY Zenon DEF Pool!Cardinality, Cardinality

\* Raising one allocation from zero takes that many tokens more.
LEMMA TakenByGrant ==
    ASSUME NEW a \in [Files -> 0..MaxBudget],
           NEW f \in Files, NEW n \in 1..MaxBudget
    PROVE  Used([a EXCEPT ![f] = n]) <= Used(a) + n
<1> DEFINE new == {f} \X (1..n)
           b == [a EXCEPT ![f] = n]
<1>1. IsFiniteSet(new) /\ Cardinality(new) = n
  <2>1. IsFiniteSet({f}) /\ Cardinality({f}) = 1
    BY FS_Singleton
  <2>2. IsFiniteSet(1..n) /\ Cardinality(1..n) = n
    BY FS_Interval
  <2>3. Cardinality(new) = 1 * n /\ IsFiniteSet(new)
    BY <2>1, <2>2, FS_Product
  <2> QED
    BY <2>3
<1>2. Pool!Taken(b) \subseteq Pool!Taken(a) \cup new
  BY DEF Pool!Taken
<1>3. IsFiniteSet(Pool!Taken(a)) /\ Cardinality(Pool!Taken(a)) \in Nat
  BY TakenFinite, FS_CardinalityType
<1>4. /\ IsFiniteSet(Pool!Taken(a) \cup new)
      /\ Cardinality(Pool!Taken(a) \cup new)
           = Cardinality(Pool!Taken(a)) + Cardinality(new)
               - Cardinality(Pool!Taken(a) \cap new)
  BY <1>1, <1>3, FS_Union
<1>5. Cardinality(Pool!Taken(a) \cap new) \in Nat
  BY <1>3, FS_Intersection, FS_CardinalityType
<1>6. Cardinality(Pool!Taken(b)) <= Cardinality(Pool!Taken(a) \cup new)
  BY <1>2, <1>4, FS_Subset
<1>7. Cardinality(Pool!Taken(b)) \in Nat
  BY TakenFinite, FS_CardinalityType
<1> QED
  BY <1>1, <1>3, <1>4, <1>5, <1>6, <1>7 DEF Used

\* Taking allocations back never takes a token more.
LEMMA TakenAfterFree ==
    ASSUME NEW a \in [Files -> 0..MaxBudget], NEW S
    PROVE  Used([f \in Files |-> IF f \in S THEN 0 ELSE a[f]]) <= Used(a)
<1> DEFINE b == [f \in Files |-> IF f \in S THEN 0 ELSE a[f]]
<1>1. Pool!Taken(b) \subseteq Pool!Taken(a)
  <2> SUFFICES ASSUME NEW t \in Pool!Taken(b)
               PROVE  t \in Pool!Taken(a)
    OBVIOUS
  <2>1. t \in Files \X (1..MaxBudget) /\ t[2] <= b[t[1]]
    BY DEF Pool!Taken
  <2>2. t[1] \in Files /\ t[2] \in 1..MaxBudget
    BY <2>1
  <2>3. t[1] \notin S /\ t[2] <= a[t[1]]
    BY <2>1, <2>2
  <2> QED
    BY <2>1, <2>3 DEF Pool!Taken
<1> QED
  BY <1>1, TakenFinite, FS_Subset DEF Used

\* A pass never grants more than the budget leaves.
LEMMA GrantFits ==
    ASSUME TypeOK, NEW b \in Builds, file[b] \in Files
    PROVE  /\ Fallback(b) \in 1..MaxBudget
           /\ Grant(b) \in 0..MaxBudget
           /\ view[b].granted[file[b]] = 0 /\ Grant(b) > 0
                => Used(view[b].granted) + Grant(b) <= Budget[b]
<1>1. Budget[b] \in 1..MaxBudget /\ Want[b] \in Nat \ {0} /\ MaxBudget \in Nat
  BY BudgetAssumption
<1>2. Used(view[b].granted) \in Nat
  BY TakenFinite
<1>3. Remaining(b) \in 0..MaxBudget
      /\ (Remaining(b) > 0 => Remaining(b) = Budget[b] - Used(view[b].granted))
  BY <1>1, <1>2 DEF Remaining, AtLeast
<1>4. Cardinality(view[b].leases \cup {file[b]}) \in Nat \ {0}
  <2>1. view[b].leases \subseteq Files
    BY DEF TypeOK
  <2>2. IsFiniteSet(view[b].leases \cup {file[b]})
    BY <2>1, FilesFinite, FS_Subset
  <2> QED
    BY <2>2, FS_CardinalityType, FS_EmptySet
<1>5. FairShare(b) \in Int
  BY <1>1, <1>4 DEF FairShare
<1>6. view[b].granted[file[b]] \in 0..MaxBudget
  BY DEF TypeOK
<1>7. Fallback(b) \in 1..MaxBudget
  BY <1>1 DEF Fallback, AtMost, AtLeast
<1> QED
  BY <1>1, <1>2, <1>3, <1>5, <1>6, <1>7 DEF Grant, AtMost, AtLeast
-----------------------------------------------------------------------------
(***************************************************************************)
(* The inductive invariant.  A pass works on what it has read, so it must  *)
(* be true that nobody changes a grant while a pass has the lock.          *)
(***************************************************************************)
PassSeesRegistry ==
    \A b \in Builds :
        phase[b] = "scanned" =>
            /\ file[b] \in Files
            /\ lock = b
            /\ view[b].leases = leases
            /\ view[b].granted = granted

WaitersHaveFiles == \A b \in Builds : phase[b] = "waiting" => file[b] \in Files

\* The for loop over the nonces has an attempt left as long as it runs.
AttemptsLeft ==
    \A b \in Builds :
        phase[b] \in {"idle", "naming"} => attempts[b] < MaxNonceAttempts

Inv == TypeOK /\ WaitersHaveFiles /\ AttemptsLeft /\ PassSeesRegistry /\ BudgetRespected

LEMMA InitInv == Init => Inv
<1> SUFFICES ASSUME Init PROVE Inv
  OBVIOUS
<1>1. TypeOK
  BY BudgetAssumption DEF Init, TypeOK, Phases, NoFile, NoView
<1>2. Pool!Taken(granted) = {}
  BY BudgetAssumption DEF Init, Pool!Taken
<1>3. BudgetRespected
  BY <1>2, FS_EmptySet, BudgetAssumption DEF BudgetRespected, Used
<1> QED
  BY <1>1, <1>3, BudgetAssumption
  DEF Init, Inv, WaitersHaveFiles, AttemptsLeft, PassSeesRegistry

LEMMA UnlinkType ==
    ASSUME TypeOK, NEW S, Unlink(S)
    PROVE  /\ leases' \subseteq Files
           /\ granted' \in [Files -> 0..MaxBudget]
           /\ child' \in [Files -> Builds \cup {NoBuild}]
           /\ aged' \subseteq Files
  BY BudgetAssumption DEF TypeOK, Unlink

LEMMA PublishType ==
    ASSUME TypeOK, NEW f \in Files, NEW n \in 0..MaxBudget, Publish(f, n)
    PROVE  /\ leases' \subseteq Files
           /\ granted' \in [Files -> 0..MaxBudget]
           /\ child' \in [Files -> Builds \cup {NoBuild}]
           /\ aged' \subseteq Files
  BY DEF TypeOK, Publish

\* Every step keeps every variable within its type.
LEMMA TypeStep == Inv /\ [Next]_vars => TypeOK'
<1> SUFFICES ASSUME Inv, [Next]_vars PROVE TypeOK'
  OBVIOUS
<1>a. TypeOK
  BY DEF Inv
<1>b. \A b \in Builds : Fallback(b) \in Nat /\ Override[b] \in Nat
  BY BudgetAssumption DEF Fallback, AtMost, AtLeast
<1>0. CASE UNCHANGED vars
  BY <1>a, <1>0 DEF TypeOK, vars, registry, consumer
<1>1. ASSUME NEW b \in Builds, Start(b) \/ StartDetached(b) PROVE TypeOK'
  <2>1. phase' \in [Builds -> Phases]
    BY <1>a, <1>1 DEF TypeOK, Start, StartDetached, Phases
  <2>2. threads' \in [Builds -> Nat]
    BY <1>a, <1>b, <1>1 DEF TypeOK, Start, StartDetached
  <2>3. UNCHANGED <<alive, lock, registry, file, attempts, view, consumer,
                    cancelled>>
    BY <1>1 DEF Start, StartDetached
  <2> QED
    BY <1>a, <2>1, <2>2, <2>3 DEF TypeOK, registry, consumer
<1>2. ASSUME NEW b \in Builds, NEW n \in Nonces, Collide(b, n) PROVE TypeOK'
  <2>1. attempts[b] + 1 \in 0..MaxNonceAttempts
    BY <1>a, <1>2, BudgetAssumption DEF TypeOK, Collide, Inv, AttemptsLeft
  <2>2. attempts' \in [Builds -> 0..MaxNonceAttempts]
    BY <1>a, <1>2, <2>1 DEF TypeOK, Collide
  <2>3. phase' \in [Builds -> Phases]
    BY <1>a, <1>2 DEF TypeOK, Collide, Phases
  <2>4. threads' \in [Builds -> Nat]
    <3>1. threads' \in {threads, [threads EXCEPT ![b] = Fallback(b)]}
      BY <1>2, Zenon DEF Collide
    <3>2. threads \in [Builds -> Nat] /\ Fallback(b) \in Nat
      BY <1>a, <1>b DEF TypeOK
    <3> QED
      BY <3>1, <3>2
  <2>5. UNCHANGED <<alive, lock, registry, file, view, consumer, cancelled>>
    BY <1>2 DEF Collide
  <2> QED
    BY <1>a, <2>2, <2>3, <2>4, <2>5 DEF TypeOK, registry, consumer
<1>3. ASSUME NEW b \in Builds, NEW f \in Files, ScanAs(b, f) PROVE TypeOK'
  <2>1. PICK S : Unlink(S) /\ view' = [view EXCEPT ![b] = Survivors(S)]
    BY <1>3 DEF ScanAs
  <2>2. Survivors(S) \in [leases : SUBSET Files,
                          granted : [Files -> 0..MaxBudget]]
    BY <1>a, BudgetAssumption DEF TypeOK, Survivors
  <2>3. view' \in [Builds -> [leases : SUBSET Files,
                              granted : [Files -> 0..MaxBudget]]]
    BY <1>a, <2>1, <2>2 DEF TypeOK
  <2> QED
    BY <1>a, <1>3, <2>1, <2>3, UnlinkType DEF TypeOK, ScanAs, consumer, Phases
<1>4. ASSUME NEW b \in Builds, Pass(b) PROVE TypeOK'
  <2>1. CASE ScanAgain(b)
    <3>1. file[b] \in Files
      BY <2>1 DEF Inv, WaitersHaveFiles, ScanAgain
    <3> QED
      BY <1>3, <2>1, <3>1 DEF ScanAgain
  <2>2. CASE \E n \in Nonces : ScanFirst(b, n)
    <3>1. PICK n \in Nonces : ScanFirst(b, n)
      BY <2>2
    <3>2. <<Owner[b], n>> \in Files
      BY BudgetAssumption DEF Files
    <3> QED
      BY <1>3, <3>1, <3>2 DEF ScanFirst
  <2> QED
    BY <1>2, <1>4, <2>1, <2>2 DEF Pass
<1>5. ASSUME NEW b \in Builds, Wait(b) \/ Admit(b) \/ PassFails(b)
      PROVE  TypeOK'
  <2>1. file[b] \in Files
    BY <1>5 DEF Inv, PassSeesRegistry, Wait, Admit, PassFails
  <2>2. Grant(b) \in 0..MaxBudget /\ 0 \in 0..MaxBudget
    BY <1>a, <2>1, GrantFits, BudgetAssumption
  <2>3. NoView \in [leases : SUBSET Files, granted : [Files -> 0..MaxBudget]]
    BY BudgetAssumption DEF NoView
  <2>4. /\ leases' \subseteq Files
        /\ granted' \in [Files -> 0..MaxBudget]
        /\ child' \in [Files -> Builds \cup {NoBuild}]
        /\ aged' \subseteq Files
    <3>1. CASE UNCHANGED registry
      BY <1>a, <3>1 DEF TypeOK, registry
    <3>2. CASE \E n \in {0, Grant(b)} : Publish(file[b], n)
      BY <1>a, <2>1, <2>2, <3>2, PublishType
    <3> QED
      BY <1>5, <3>1, <3>2 DEF Wait, Admit, PassFails
  <2>5. view' \in [Builds -> [leases : SUBSET Files,
                              granted : [Files -> 0..MaxBudget]]]
    <3>1. LeavePass(b)
      BY <1>5 DEF Wait, Admit, PassFails
    <3> QED
      BY <1>a, <2>3, <3>1 DEF TypeOK, LeavePass
  <2>6. /\ phase' \in [Builds -> Phases]
        /\ threads' \in [Builds -> Nat]
    <3>1. CASE Wait(b)
      BY <1>a, <3>1 DEF TypeOK, Wait, Phases
    <3>2. CASE Admit(b)
      BY <1>a, <2>2, <3>2 DEF TypeOK, Admit, Phases
    <3>3. CASE PassFails(b)
      BY <1>a, <1>b, <3>3 DEF TypeOK, PassFails, Phases
    <3> QED
      BY <1>5, <3>1, <3>2, <3>3
  <2>7. LeavePass(b)
    BY <1>5 DEF Wait, Admit, PassFails
  <2> QED
    BY <1>a, <2>4, <2>5, <2>6, <2>7 DEF TypeOK, LeavePass, consumer
<1>6. ASSUME NEW b \in Builds, PruneFails(b) \/ Rollback(b) \/ Release(b)
      PROVE  TypeOK'
  <2>1. /\ leases' \subseteq Files
        /\ granted' \in [Files -> 0..MaxBudget]
        /\ child' \in [Files -> Builds \cup {NoBuild}]
        /\ aged' \subseteq Files
    <3>1. CASE UNCHANGED registry
      BY <1>a, <3>1 DEF TypeOK, registry
    <3>2. CASE \E S : Unlink(S)
      BY <1>a, <3>2, UnlinkType
    <3> QED
      BY <1>6, <3>1, <3>2 DEF PruneFails, Rollback, Release
  <2>2. CASE PruneFails(b)
    BY <1>a, <1>b, <2>1, <2>2 DEF TypeOK, PruneFails, consumer, Phases
  <2>3. CASE Rollback(b)
    BY <1>a, <2>1, <2>3 DEF TypeOK, Rollback, consumer, Phases
  <2>4. CASE Release(b)
    BY <1>a, <2>1, <2>4 DEF TypeOK, Release, consumer, Phases
  <2> QED
    BY <1>6, <2>2, <2>3, <2>4
<1>7. ASSUME NEW b \in Builds,
             \/ Spawn(b) \/ SpawnFails(b) \/ ReleaseFails(b) \/ ChildExits(b)
             \/ EndUncharged(b) \/ RecordChildFails(b) \/ Cancel(b)
      PROVE  TypeOK'
  <2>1. phase' = phase \/ \E s \in Phases : phase' = [phase EXCEPT ![b] = s]
    BY <1>7 DEF Spawn, SpawnFails, ReleaseFails, ChildExits, EndUncharged,
                RecordChildFails, Cancel, Phases, AfterUse
  <2>2. proc' \in [Builds -> {"none", "running", "exited"}]
    BY <1>a, <1>7 DEF TypeOK, Spawn, SpawnFails, ReleaseFails, ChildExits,
                      EndUncharged, RecordChildFails, Cancel, consumer
  <2>3. recorder' \in [Builds -> {"none", "queued", "recorded", "failed"}]
    BY <1>a, <1>7 DEF TypeOK, Spawn, SpawnFails, ReleaseFails, ChildExits,
                      EndUncharged, RecordChildFails, Cancel, consumer
  <2>4. cancelled' \subseteq Builds
    BY <1>a, <1>7 DEF TypeOK, Spawn, SpawnFails, ReleaseFails, ChildExits,
                      EndUncharged, RecordChildFails, Cancel
  <2>5. UNCHANGED <<alive, lock, registry, file, attempts, view, threads>>
    BY <1>7 DEF Spawn, SpawnFails, ReleaseFails, ChildExits,
                EndUncharged, RecordChildFails, Cancel
  <2> QED
    BY <1>a, <2>1, <2>2, <2>3, <2>4, <2>5 DEF TypeOK, registry
<1>8. ASSUME NEW b \in Builds, RecordChild(b) PROVE TypeOK'
  <2>1. recorder' \in [Builds -> {"none", "queued", "recorded", "failed"}]
    BY <1>a, <1>8 DEF TypeOK, RecordChild
  <2>2. /\ \/ /\ child' = [child EXCEPT ![file[b]] = b]
              /\ aged' = aged \ {file[b]}
           \/ UNCHANGED <<child, aged>>
        /\ UNCHANGED <<leases, granted>>
    BY <1>8 DEF RecordChild, registry
  <2>4. child' \in [Files -> Builds \cup {NoBuild}] /\ aged' \subseteq Files
    <3>1. /\ child \in [Files -> Builds \cup {NoBuild}] /\ aged \subseteq Files
          /\ b \in Builds \cup {NoBuild}
      BY <1>a DEF TypeOK
    <3> QED
      BY <2>2, <3>1
  <2>3. UNCHANGED <<alive, lock, phase, file, attempts, view, threads, proc,
                    cancelled>>
    BY <1>8 DEF RecordChild
  <2> QED
    BY <1>a, <2>1, <2>2, <2>3, <2>4 DEF TypeOK
<1>9. ASSUME NEW p \in Procs, Crash(p) PROVE TypeOK'
  <2>1. NoView \in [leases : SUBSET Files, granted : [Files -> 0..MaxBudget]]
    BY BudgetAssumption DEF NoView
  <2> QED
    BY <1>a, <1>9, <2>1 DEF TypeOK, Crash, registry, Phases
<1>10. ASSUME NEW f \in Files, Age(f) PROVE TypeOK'
  BY <1>a, <1>10 DEF TypeOK, Age, consumer
<1>11. CASE Done
  BY <1>0, <1>11 DEF Done
<1> QED
  BY <1>0, <1>1, <1>4, <1>5, <1>6, <1>7, <1>8, <1>9, <1>10, <1>11 DEF Next

\* What a step does to the grants: nothing, it takes some back, or one pass
\* grants free tokens to a lease without any.
Taking(S) == [f \in Files |-> IF f \in S THEN 0 ELSE granted[f]]

PassGrants(b) ==
    /\ phase[b] = "scanned"
    /\ granted[file[b]] = 0
    /\ Grant(b) > 0
    /\ granted' = [granted EXCEPT ![file[b]] = Grant(b)]

LEMMA GrantedStep ==
    ASSUME Inv, [Next]_vars
    PROVE  \/ granted' = granted
           \/ \E S : granted' = Taking(S)
           \/ \E b \in Builds : PassGrants(b)
<1>a. TypeOK
  BY DEF Inv
<1>0. CASE granted' = granted
  BY <1>0
<1>1. CASE \E S : Unlink(S)
  BY <1>1 DEF Unlink, Taking
<1>2. ASSUME NEW b \in Builds, Pass(b)
      PROVE  granted' = granted \/ \E S : Unlink(S)
  BY <1>2 DEF Pass, Collide, ScanFirst, ScanAgain, ScanAs, registry
<1>3. ASSUME NEW b \in Builds, Wait(b)
      PROVE  granted' = granted \/ \E S : granted' = Taking(S)
  <2>1. CASE Publish(file[b], 0)
    <3>1. granted' = Taking({file[b]})
      BY <1>a, <2>1 DEF TypeOK, Publish, Taking
    <3> QED
      BY <3>1
  <2> QED
    BY <1>3, <2>1 DEF Wait, registry
<1>4. ASSUME NEW b \in Builds, Admit(b)
      PROVE  granted' = granted \/ PassGrants(b)
  <2>1. phase[b] = "scanned" /\ view[b].granted = granted /\ file[b] \in Files
    BY <1>4 DEF Inv, PassSeesRegistry, Admit
  <2>2. granted[file[b]] \in 0..MaxBudget
    BY <1>a, <2>1 DEF TypeOK
  <2>3. CASE view[b].granted[file[b]] > 0
    BY <1>4, <2>3 DEF Admit, registry
  <2>4. CASE ~(view[b].granted[file[b]] > 0)
    <3>1. granted[file[b]] = 0
      BY <2>1, <2>2, <2>4, BudgetAssumption
    <3> QED
      BY <1>4, <2>1, <2>4, <3>1 DEF Admit, Publish, PassGrants
  <2> QED
    BY <2>3, <2>4
<1>5. ASSUME NEW b \in Builds, PruneFails(b) \/ Rollback(b) \/ Release(b)
      PROVE  granted' = granted \/ \E S : Unlink(S)
  BY <1>5 DEF PruneFails, Rollback, Release, registry
<1>6. CASE Done \/ UNCHANGED vars
  BY <1>6 DEF Done, vars, registry
<1>7. ASSUME NEW b \in Builds,
             \/ Start(b) \/ StartDetached(b) \/ PassFails(b)
             \/ Spawn(b) \/ SpawnFails(b) \/ EndUncharged(b) \/ ReleaseFails(b) \/ ChildExits(b)
             \/ RecordChild(b) \/ RecordChildFails(b) \/ Cancel(b)
      PROVE  granted' = granted
  BY <1>7 DEF Start, StartDetached, PassFails, Spawn, SpawnFails, AfterUse,
              EndUncharged, ReleaseFails, ChildExits, RecordChild,
              RecordChildFails, Cancel, registry
<1>8. ASSUME NEW p \in Procs, Crash(p) PROVE granted' = granted
  BY <1>8 DEF Crash, registry
<1>9. ASSUME NEW f \in Files, Age(f) PROVE granted' = granted
  BY <1>9 DEF Age
<1> QED
  BY <1>0, <1>1, <1>2, <1>3, <1>4, <1>5, <1>6, <1>7, <1>8, <1>9 DEF Next

\* A pass that grants stays within the budget its process resolved.
LEMMA PassGrantFits ==
    ASSUME Inv, NEW b \in Builds, PassGrants(b)
    PROVE  /\ file[b] \in Files /\ Grant(b) \in 1..MaxBudget
           /\ Used(granted') <= Budget[b]
<1>1. /\ file[b] \in Files /\ lock = b
      /\ view[b].granted = granted
  BY DEF Inv, PassSeesRegistry, PassGrants
<1>2. /\ Grant(b) \in 1..MaxBudget
      /\ Used(granted) + Grant(b) <= Budget[b]
  BY <1>1, GrantFits, BudgetAssumption DEF Inv, PassGrants
<1>3. granted \in [Files -> 0..MaxBudget]
  BY DEF Inv, TypeOK
<1>4. Used(granted') <= Used(granted) + Grant(b)
  BY <1>1, <1>2, <1>3, TakenByGrant DEF PassGrants
<1>5. Used(granted) \in Nat /\ Used(granted') \in Nat
  BY TakenFinite
<1>6. Budget[b] \in 1..MaxBudget
  BY BudgetAssumption
<1> QED
  BY <1>1, <1>2, <1>4, <1>5, <1>6, BudgetAssumption

LEMMA BudgetStep ==
    ASSUME Inv, [Next]_vars
    PROVE  BudgetRespected'
<1>1. granted \in [Files -> 0..MaxBudget] /\ Used(granted) <= MaxBudget
  BY DEF Inv, TypeOK, BudgetRespected
<1>2. Used(granted) \in Nat /\ Used(granted') \in Nat /\ MaxBudget \in Nat
  BY TakenFinite, BudgetAssumption
<1>3. ASSUME NEW S, granted' = Taking(S) PROVE Used(granted') <= MaxBudget
  <2>1. Used(Taking(S)) <= Used(granted)
    BY <1>1, TakenAfterFree DEF Taking
  <2> QED
    BY <1>1, <1>2, <1>3, <2>1
<1>4. ASSUME NEW b \in Builds, PassGrants(b) PROVE Used(granted') <= MaxBudget
  <2>1. Used(granted') <= Budget[b] /\ Budget[b] \in 1..MaxBudget
    BY <1>4, PassGrantFits, BudgetAssumption
  <2> QED
    BY <1>2, <2>1
<1>5. Used(granted') <= MaxBudget
  BY <1>1, <1>3, <1>4, GrantedStep
<1>6. BudgetRespected' <=> Used(granted') <= MaxBudget
  BY DEF BudgetRespected, Used, Pool!Taken
<1> QED
  BY <1>5, <1>6

\* Whatever does not touch the builds inside a pass, their lock or the
\* grants leaves the pass with a true picture.
LEMMA PassUntouched ==
    ASSUME Inv, UNCHANGED <<lock, leases, granted, view, file>>,
           \A c \in Builds : phase'[c] = "scanned" => phase[c] = "scanned"
    PROVE  PassSeesRegistry'
  BY DEF Inv, PassSeesRegistry

\* Nobody is inside a pass while the lock is free.
LEMMA PassExcluded ==
    ASSUME Inv, NEW b \in Builds \cup {NoBuild}, lock = b,
           \A c \in Builds : phase'[c] = "scanned" =>
               phase[c] = "scanned" /\ c # b
    PROVE  PassSeesRegistry'
<1>1. \A c \in Builds : phase[c] = "scanned" => c = b
  BY BudgetAssumption DEF Inv, PassSeesRegistry
<1> QED
  BY <1>1 DEF PassSeesRegistry

LEMMA PassStep ==
    ASSUME Inv, [Next]_vars
    PROVE  PassSeesRegistry'
<1>a. TypeOK
  BY DEF Inv
<1>0. CASE Done \/ UNCHANGED vars
  BY <1>0, PassUntouched DEF Done, vars, registry
<1>1. ASSUME NEW b \in Builds,
             \/ Start(b) \/ StartDetached(b) \/ Spawn(b) \/ SpawnFails(b) \/ EndUncharged(b)
             \/ ReleaseFails(b) \/ ChildExits(b) \/ RecordChildFails(b)
             \/ Cancel(b) \/ RecordChild(b)
             \/ \E n \in Nonces : Collide(b, n)
      PROVE  PassSeesRegistry'
  <2>1. UNCHANGED <<lock, leases, granted, view, file>>
    BY <1>1 DEF Start, StartDetached, Spawn, SpawnFails, AfterUse,
                EndUncharged, ReleaseFails, ChildExits, RecordChild,
                RecordChildFails, Cancel, Collide, registry
  <2>2. phase' = phase \/ \E ph \in Phases \ {"scanned"} :
                              phase' = [phase EXCEPT ![b] = ph]
    <3>1. "naming" # "scanned" /\ "detached" # "scanned"
      OBVIOUS
    <3>2. CASE \/ Start(b) \/ StartDetached(b) \/ SpawnFails(b)
               \/ EndUncharged(b) \/ ReleaseFails(b)
      BY <3>2 DEF Start, StartDetached, SpawnFails, AfterUse, EndUncharged,
                  ReleaseFails, Phases
    <3>3. CASE Spawn(b) \/ Cancel(b)
      <4>1. \/ phase' = phase
            \/ phase' = [phase EXCEPT ![b] = "running"]
            \/ phase' = [phase EXCEPT ![b] = "uncharged"]
            \/ phase' = [phase EXCEPT ![b] = "releasing"]
            \/ phase' = [phase EXCEPT ![b] = "ended"]
        BY <3>3, Zenon DEF Spawn, Cancel, AfterUse
      <4> QED
        BY <4>1 DEF Phases
    <3>4. CASE \E n \in Nonces : Collide(b, n)
      BY <3>4 DEF Collide, Phases
    <3>5. CASE ChildExits(b) \/ RecordChild(b) \/ RecordChildFails(b)
      BY <3>5 DEF ChildExits, RecordChild, RecordChildFails
    <3> QED
      BY <1>1, <3>2, <3>3, <3>4, <3>5
  <2>3. \A c \in Builds : phase'[c] = "scanned" => phase[c] = "scanned"
    BY <1>a, <2>2 DEF TypeOK
  <2> QED
    BY <2>1, <2>3, PassUntouched
<1>2. ASSUME NEW b \in Builds, NEW f \in Files, ScanAs(b, f)
      PROVE  PassSeesRegistry'
  <2>1. PICK S : Unlink(S) /\ view' = [view EXCEPT ![b] = Survivors(S)]
    BY <1>2 DEF ScanAs
  <2>2. \A c \in Builds : c # b => phase'[c] # "scanned"
    BY <1>a, <1>2, BudgetAssumption DEF Inv, TypeOK, PassSeesRegistry, ScanAs
  <2>3. /\ file'[b] = f /\ lock' = b
        /\ view'[b] = Survivors(S)
    BY <1>a, <1>2, <2>1 DEF TypeOK, ScanAs
  <2>4. view'[b].leases = leases' /\ view'[b].granted = granted'
    BY <2>1, <2>3 DEF Survivors, Unlink
  <2> QED
    BY <2>2, <2>3, <2>4 DEF PassSeesRegistry
<1>3. ASSUME NEW b \in Builds, Pass(b) PROVE PassSeesRegistry'
  <2>1. CASE ScanAgain(b)
    BY <1>2, <2>1 DEF Inv, WaitersHaveFiles, ScanAgain
  <2>2. ASSUME NEW n \in Nonces, ScanFirst(b, n) PROVE PassSeesRegistry'
    <3>1. <<Owner[b], n>> \in Files
      BY BudgetAssumption DEF Files
    <3> QED
      BY <1>2, <2>2, <3>1 DEF ScanFirst
  <2> QED
    BY <1>1, <1>3, <2>1, <2>2 DEF Pass
<1>4. ASSUME NEW b \in Builds, Wait(b) \/ Admit(b) \/ PassFails(b)
      PROVE  PassSeesRegistry'
  <2>1. lock = b
    BY <1>4 DEF Inv, PassSeesRegistry, Wait, Admit, PassFails
  <2>2. \A c \in Builds : phase'[c] = "scanned" =>
            phase[c] = "scanned" /\ c # b
    BY <1>a, <1>4 DEF TypeOK, Wait, Admit, PassFails
  <2> QED
    BY <2>1, <2>2, PassExcluded
<1>5. ASSUME NEW b \in Builds, PruneFails(b) \/ Rollback(b) \/ Release(b)
      PROVE  PassSeesRegistry'
  <2>1. lock = NoBuild
    BY <1>5 DEF PruneFails, Rollback, Release
  <2>2. \A c \in Builds : phase'[c] = "scanned" => phase[c] = "scanned"
    BY <1>a, <1>5 DEF TypeOK, PruneFails, Rollback, Release
  <2> QED
    BY <2>1, <2>2, PassExcluded, BudgetAssumption
<1>6. ASSUME NEW p \in Procs, Crash(p) PROVE PassSeesRegistry'
  <2>1. \A c \in Builds : phase'[c] = "scanned" =>
            phase[c] = "scanned" /\ Owner[c] # p
    BY <1>6 DEF Crash
  <2>2. \A c \in Builds : phase'[c] = "scanned" =>
            lock' = c /\ view'[c] = view[c]
    BY <1>6, <2>1 DEF Inv, PassSeesRegistry, Crash
  <2> QED
    BY <1>6, <2>1, <2>2 DEF Inv, PassSeesRegistry, Crash, registry
<1>7. ASSUME NEW f \in Files, Age(f) PROVE PassSeesRegistry'
  BY <1>7, PassUntouched DEF Age
<1> QED
  BY <1>0, <1>1, <1>3, <1>4, <1>5, <1>6, <1>7 DEF Next

LEMMA FilesStep ==
    ASSUME Inv, [Next]_vars
    PROVE  WaitersHaveFiles' /\ AttemptsLeft'
<1>a. TypeOK
  BY DEF Inv
<1>0. CASE Done \/ UNCHANGED vars
  BY <1>0 DEF Inv, WaitersHaveFiles, AttemptsLeft, Done, vars
<1> DEFINE Kept ==
             \A c \in Builds :
               /\ phase'[c] = "waiting" =>
                    file'[c] = file[c] /\ phase[c] \in {"waiting", "scanned"}
               /\ phase'[c] \in {"idle", "naming"} =>
                    /\ phase[c] \in {"idle", "naming"}
                    /\ attempts'[c] < MaxNonceAttempts
<1>1. ASSUME Kept PROVE WaitersHaveFiles' /\ AttemptsLeft'
  BY <1>1 DEF Inv, WaitersHaveFiles, AttemptsLeft, PassSeesRegistry
<1>2. ASSUME NEW b \in Builds,
             \/ Start(b) \/ StartDetached(b) \/ Spawn(b) \/ SpawnFails(b) \/ EndUncharged(b)
             \/ ReleaseFails(b) \/ ChildExits(b) \/ RecordChildFails(b)
             \/ Cancel(b) \/ RecordChild(b)
      PROVE  Kept
  <2>1. file' = file /\ attempts' = attempts
    BY <1>2 DEF Start, StartDetached, Spawn, SpawnFails, AfterUse,
                EndUncharged, ReleaseFails, ChildExits, RecordChild,
                RecordChildFails, Cancel
  <2>2. CASE Start(b) \/ StartDetached(b)
    BY <1>a, <2>1, <2>2 DEF TypeOK, Inv, AttemptsLeft, Start, StartDetached
  <2>3. CASE Spawn(b) \/ SpawnFails(b) \/ EndUncharged(b) \/ ReleaseFails(b) \/ Cancel(b)
    BY <1>a, <2>1, <2>3 DEF TypeOK, Inv, AttemptsLeft, Spawn, SpawnFails,
                            AfterUse, EndUncharged, ReleaseFails, Cancel
  <2>4. CASE ChildExits(b) \/ RecordChild(b) \/ RecordChildFails(b)
    BY <2>1, <2>4 DEF Inv, AttemptsLeft, ChildExits, RecordChild,
                      RecordChildFails
  <2> QED
    BY <1>2, <2>2, <2>3, <2>4
<1>3. ASSUME NEW b \in Builds, NEW n \in Nonces, Collide(b, n) PROVE Kept
  <2>0. phase[b] = "naming" /\ attempts[b] \in 0..MaxNonceAttempts
    BY <1>a, <1>3 DEF TypeOK, Collide
  <2>1. attempts[b] + 1 # MaxNonceAttempts => attempts[b] + 1 < MaxNonceAttempts
    BY <2>0, BudgetAssumption DEF Inv, AttemptsLeft
  <2> QED
    BY <1>a, <1>3, <2>1 DEF TypeOK, Inv, AttemptsLeft, Collide
<1>4. ASSUME NEW b \in Builds, NEW f \in Files, ScanAs(b, f) PROVE Kept
  BY <1>a, <1>4 DEF TypeOK, Inv, AttemptsLeft, ScanAs
<1>5. ASSUME NEW b \in Builds, Pass(b) PROVE Kept
  <2>1. CASE ScanAgain(b)
    BY <1>4, <2>1 DEF Inv, WaitersHaveFiles, ScanAgain
  <2>2. ASSUME NEW n \in Nonces, ScanFirst(b, n) PROVE Kept
    <3>1. <<Owner[b], n>> \in Files
      BY BudgetAssumption DEF Files
    <3> QED
      BY <1>4, <2>2, <3>1 DEF ScanFirst
  <2> QED
    BY <1>3, <1>5, <2>1, <2>2 DEF Pass
<1>6. ASSUME NEW b \in Builds,
             \/ Wait(b) \/ Admit(b) \/ PassFails(b)
             \/ PruneFails(b) \/ Rollback(b) \/ Release(b)
      PROVE  Kept
  <2>1. file' = file /\ attempts' = attempts
    BY <1>6 DEF Wait, Admit, PassFails, LeavePass, PruneFails, Rollback,
                Release
  <2>2. \E ph \in {"waiting", "releasing", "granted", "rollback", "detached",
                   "released"} :
          /\ phase' = [phase EXCEPT ![b] = ph]
          /\ ph = "waiting" => phase[b] = "scanned"
    BY <1>6 DEF Wait, Admit, PassFails, PruneFails, Rollback, Release
  <2> QED
    BY <1>a, <2>1, <2>2 DEF TypeOK, Inv, AttemptsLeft
<1>7. ASSUME NEW p \in Procs, Crash(p) PROVE Kept
  BY <1>7 DEF Inv, AttemptsLeft, Crash
<1>8. ASSUME NEW f \in Files, Age(f) PROVE Kept
  BY <1>8 DEF Inv, AttemptsLeft, Age
<1> QED
  BY <1>0, <1>1, <1>2, <1>5, <1>6, <1>7, <1>8 DEF Next

LEMMA InvInductive == Spec => []Inv
<1>1. Inv /\ [Next]_vars => Inv'
  BY TypeStep, FilesStep, PassStep, BudgetStep DEF Inv
<1> QED
  BY <1>1, InitInv, PTL DEF Spec
-----------------------------------------------------------------------------
(***************************************************************************)
(* The theorems.                                                           *)
(***************************************************************************)
\* Every variable keeps to its type (the data structures of
\* thread_budget.rs), whatever the faults.
THEOREM TypeCorrect == Spec => []TypeOK
<1>1. Inv => TypeOK
  BY DEF Inv
<1> QED
  BY <1>1, InvInductive, PTL

\* The grants of the registry never add up to more than the budget
\* (registry_admission_pass under RegistryLock), for any number of processes
\* and builds and with every fault.
THEOREM BudgetSafe == Spec => []BudgetRespected
<1>1. Inv => BudgetRespected
  BY DEF Inv
<1> QED
  BY <1>1, InvInductive, PTL

\* Each grant fits into the budget of the process that computes it, beside
\* everything granted at that moment (registry_admission_pass).
THEOREM GrantsFit == Spec => NewGrantFits
<1>1. ASSUME Inv, [Next]_vars
      PROVE  [\A b \in Builds :
                 phase[b] = "scanned" /\ granted[file[b]] = 0
                   /\ granted'[file[b]] > 0
                     => Used(granted') <= Budget[b]]_vars
  <2> SUFFICES ASSUME NEW b \in Builds,
                      phase[b] = "scanned", granted[file[b]] = 0,
                      granted'[file[b]] > 0
               PROVE  Used(granted') <= Budget[b]
    OBVIOUS
  <2>1. file[b] \in Files /\ lock = b
    BY <1>1 DEF Inv, PassSeesRegistry
  <2>2. \A S : granted' # Taking(S)
    BY <2>1 DEF Taking
  <2>3. PICK c \in Builds : PassGrants(c)
    BY <1>1, <2>2, GrantedStep
  <2>4. lock = c
    BY <1>1, <2>3 DEF Inv, PassSeesRegistry, PassGrants
  <2> QED
    BY <1>1, <2>1, <2>3, <2>4, PassGrantFits
<1> QED
  BY <1>1, InvInductive, PTL DEF Spec, NewGrantFits

\* The registry of lease files implements a pool of tokens: a grant is given
\* once, from free tokens, and stays as it is until it is taken back whole.
THEOREM ImplementsTokenPool == Spec => TokenPoolSpec
<1>1. Init => Pool!Init
  BY DEF Init, Pool!Init
<1>2. ASSUME Inv, [Next]_vars
      PROVE  [Pool!Next]_granted
  <2>1. ASSUME NEW S, granted' = Taking(S) PROVE Pool!Next
    <3>1. granted' = Taking(S \cap Files)
      BY <2>1 DEF Taking
    <3>2. Pool!Free(S \cap Files)
      BY <3>1 DEF Pool!Free, Taking
    <3> QED
      BY <3>2 DEF Pool!Next
  <2>2. ASSUME NEW b \in Builds, PassGrants(b) PROVE Pool!Next
    <3>1. /\ file[b] \in Files /\ Grant(b) \in 1..MaxBudget
          /\ Used(granted') <= Budget[b]
      BY <1>2, <2>2, PassGrantFits
    <3>2. Used(granted') <= MaxBudget
      BY <3>1, BudgetAssumption, TakenFinite
    <3>3. Pool!Grant(file[b], Grant(b))
      BY <2>2, <3>2, PoolCardinality DEF Pool!Grant, PassGrants, Used
    <3> QED
      BY <3>1, <3>3 DEF Pool!Next
  <2> QED
    BY <1>2, <2>1, <2>2, GrantedStep
<1> QED
  BY <1>1, <1>2, InvInductive, PTL DEF Spec, TokenPoolSpec, Pool!Spec
-----------------------------------------------------------------------------
(***************************************************************************)
(* Who owns a lease file.                                                  *)
(***************************************************************************)
OwnName(b) ==
    file[b] \in Files =>
        /\ file[b][1] = Owner[b]
        /\ \A c \in Builds : file[c] = file[b] => c = b
NamesDiffer == \A b \in Builds : OwnName(b)

Keeps(b) == phase[b] \notin {"idle", "naming", "released"}
LeasesAreKept == \A f \in leases : \E b \in Builds : file[b] = f /\ Keeps(b)

\* A build gets another name only while it has none in the registry.
LEMMA FileFrame ==
    ASSUME Inv, [Next]_vars
    PROVE  \/ file' = file
           \/ \E b \in Builds, n \in Nonces :
                /\ phase[b] = "naming" /\ file' = [file EXCEPT ![b] = <<Owner[b], n>>]
                /\ \A c \in Builds : file[c] # <<Owner[b], n>>
<1>a. TypeOK
  BY DEF Inv
<1>1. ASSUME NEW b \in Builds, ScanAgain(b) PROVE file' = file
  BY <1>a, <1>1 DEF TypeOK, ScanAgain, ScanAs
<1>2. ASSUME NEW b \in Builds, NEW n \in Nonces, ScanFirst(b, n)
      PROVE  /\ phase[b] = "naming" /\ file' = [file EXCEPT ![b] = <<Owner[b], n>>]
             /\ \A c \in Builds : file[c] # <<Owner[b], n>>
  BY <1>2 DEF ScanFirst, ScanAs
<1>3. ASSUME NEW b \in Builds,
             \/ Start(b) \/ StartDetached(b) \/ Wait(b) \/ Admit(b) \/ PassFails(b)
             \/ PruneFails(b) \/ Rollback(b) \/ \E n \in Nonces : Collide(b, n)
      PROVE  file' = file
  BY <1>3 DEF Start, StartDetached, Collide, Wait, Admit, PassFails, LeavePass,
              PruneFails, Rollback
<1>4. ASSUME NEW b \in Builds,
             \/ Spawn(b) \/ SpawnFails(b) \/ EndUncharged(b) \/ RecordChild(b) \/ RecordChildFails(b)
             \/ ChildExits(b) \/ Release(b) \/ ReleaseFails(b) \/ Cancel(b)
      PROVE  file' = file
  BY <1>4 DEF Spawn, SpawnFails, AfterUse, EndUncharged, RecordChild,
              RecordChildFails, ChildExits, Release, ReleaseFails, Cancel
<1>5. ASSUME \/ \E p \in Procs : Crash(p)
             \/ \E f \in Files : Age(f)
             \/ Done \/ UNCHANGED vars
      PROVE  file' = file
  BY <1>5 DEF Crash, Age, Done, vars
<1> QED
  BY <1>1, <1>2, <1>3, <1>4, <1>5, Zenon DEF Next, Pass

LEMMA NamesStep ==
    ASSUME Inv, NamesDiffer, [Next]_vars
    PROVE  NamesDiffer'
<1>1. CASE file' = file
  BY <1>1 DEF NamesDiffer, OwnName
<1>2. ASSUME NEW b \in Builds, NEW n \in Nonces,
             file' = [file EXCEPT ![b] = <<Owner[b], n>>],
             \A c \in Builds : file[c] # <<Owner[b], n>>
      PROVE  NamesDiffer'
  BY <1>2 DEF NamesDiffer, OwnName, Inv, TypeOK
<1> QED
  BY <1>1, <1>2, FileFrame

\* What a step adds to the registry is the lease of the build inside a pass,
\* and a build is done with its lease only when it has removed it.
LEMMA LeaseFrame ==
    ASSUME Inv, [Next]_vars
    PROVE  /\ \A f \in leases' \ leases : \E b \in Builds :
                 phase[b] = "scanned" /\ file[b] = f /\ file' = file /\ Keeps(b)'
           /\ \A b \in Builds : Keeps(b) =>
                Keeps(b)' \/ (file' = file /\ leases' = leases \ {file[b]})
<1> DEFINE G == /\ \A f \in leases' \ leases : \E b \in Builds :
                      phase[b] = "scanned" /\ file[b] = f /\ file' = file /\ Keeps(b)'
                /\ \A b \in Builds : Keeps(b) =>
                     Keeps(b)' \/ (file' = file /\ leases' = leases \ {file[b]})
<1> SUFFICES G
  OBVIOUS
<1> USE DEF Keeps
<1>a. TypeOK
  BY DEF Inv
<1>1. ASSUME NEW b \in Builds, Start(b) \/ StartDetached(b) PROVE G
  BY <1>a, <1>1 DEF TypeOK, Start, StartDetached, registry
<1>2. ASSUME NEW b \in Builds, NEW n \in Nonces, Collide(b, n) PROVE G
  BY <1>a, <1>2 DEF TypeOK, Collide, registry
<1>3. ASSUME NEW b \in Builds, NEW f, ScanAs(b, f), phase[b] \in {"naming", "waiting"}
      PROVE  G
  BY <1>a, <1>3 DEF TypeOK, ScanAs, Unlink
<1>4. ASSUME NEW b \in Builds, Wait(b) PROVE G
  BY <1>a, <1>4 DEF TypeOK, Wait, Publish, LeavePass, registry
<1>5. ASSUME NEW b \in Builds, Admit(b) PROVE G
  BY <1>a, <1>5 DEF TypeOK, Admit, Publish, LeavePass, registry
<1>6. ASSUME NEW b \in Builds, PassFails(b) \/ PruneFails(b) PROVE G
  BY <1>a, <1>6 DEF TypeOK, PassFails, PruneFails, Unlink, LeavePass, registry
<1>7. ASSUME NEW b \in Builds, Rollback(b) \/ Release(b) PROVE G
  BY <1>a, <1>7 DEF TypeOK, Rollback, Release, AtRelease, Unlink, registry
<1>8. ASSUME NEW b \in Builds,
             \/ Spawn(b) \/ SpawnFails(b) \/ EndUncharged(b) \/ ReleaseFails(b) \/ ChildExits(b)
             \/ RecordChild(b) \/ RecordChildFails(b) \/ Cancel(b)
      PROVE  G
  BY <1>a, <1>8
     DEF TypeOK, Spawn, SpawnFails, AfterUse, EndUncharged, ReleaseFails,
         ChildExits, RecordChild, RecordChildFails, Cancel, registry
<1>9. ASSUME NEW p \in Procs, Crash(p) PROVE G
  BY <1>a, <1>9 DEF TypeOK, Crash, registry
<1>10. ASSUME NEW f \in Files, Age(f) PROVE G
  BY <1>a, <1>10 DEF TypeOK, Age
<1>11. ASSUME Done \/ UNCHANGED vars PROVE G
  BY <1>11 DEF Done, vars, registry
<1> QED
  BY <1>1, <1>2, <1>3, <1>4, <1>5, <1>6, <1>7, <1>8, <1>9, <1>10, <1>11
     DEF Next, Pass, ScanFirst, ScanAgain

LEMMA KeptStep ==
    ASSUME Inv, LeasesAreKept, [Next]_vars
    PROVE  LeasesAreKept'
<1> SUFFICES ASSUME NEW f \in leases'
             PROVE  \E b \in Builds : file'[b] = f /\ Keeps(b)'
  BY DEF LeasesAreKept
<1>1. CASE f \in leases
  <2>1. PICK b \in Builds : file[b] = f /\ Keeps(b)
    BY <1>1 DEF LeasesAreKept
  <2>2. Keeps(b)'
    BY <2>1, LeaseFrame
  <2>3. file'[b] = file[b]
    BY <2>1, FileFrame DEF Keeps, Inv, TypeOK
  <2> QED
    BY <2>1, <2>2, <2>3
<1>2. CASE f \notin leases
  BY <1>2, LeaseFrame
<1> QED
  BY <1>1, <1>2

\* Every lease file belongs to exactly one build, which has not given it back
\* (update_child_identity, Drop), with every fault.
THEOREM LeasesOwned == Spec => []LeasesAreOwned
<1>1. Init => NamesDiffer /\ LeasesAreKept
  BY BudgetAssumption DEF Init, NamesDiffer, OwnName, LeasesAreKept, NoFile, Files
<1>2. Inv /\ NamesDiffer /\ LeasesAreKept => LeasesAreOwned
  BY DEF Inv, TypeOK, NamesDiffer, OwnName, LeasesAreKept, Keeps, LeasesAreOwned
<1>3. Inv /\ NamesDiffer /\ LeasesAreKept /\ [Next]_vars
        => NamesDiffer' /\ LeasesAreKept'
  BY NamesStep, KeptStep
<1> QED
  BY <1>1, <1>2, <1>3, InvInductive, PTL DEF Spec
-----------------------------------------------------------------------------
(***************************************************************************)
(* What a running child is charged with.                                   *)
(***************************************************************************)
Charged(b) == file[b] \in leases /\ granted[file[b]] = threads[b]

\* Where a child can be, and its recorder; a lease is charged from the grant
\* on, and an orphan's as long as its identity is in the record.
Charge(b) ==
    /\ ~Runs(b) => phase[b] = "dead"
    /\ proc[b] = "running" => phase[b] \in {"running", "uncharged", "dead"}
    /\ recorder[b] # "none" =>
         phase[b] \in {"running", "releasing", "released", "leaked", "dead"}
    /\ recorder[b] = "recorded" /\ file[b] \in leases => child[file[b]] = b
    /\ phase[b] \in {"granted", "running"} => Charged(b)
    /\ proc[b] = "running" /\ recorder[b] = "recorded" => Charged(b)
    /\ proc[b] = "running" /\ recorder[b] # "none" /\ Runs(b)
         => phase[b] = "running"
Charges == \A b \in Builds : Charge(b)

Chargeable(b) ==
    \/ phase[b] \in {"granted", "running"}
    \/ proc[b] = "running" /\ recorder[b] = "recorded"

\* What a step may do to the lease of a build that does not take it.
LeftAlone(b) ==
    \/ /\ file[b] \in leases /\ file[b] \in leases'
       /\ granted'[file[b]] = granted[file[b]]
       /\ child'[file[b]] = child[file[b]]
    \/ file[b] \notin leases' /\ ~Chargeable(b)

\* Only a file of the registry carries a grant.
GrantsHaveFiles == \A f \in Files : granted[f] > 0 => f \in leases

ChargeInv == Inv /\ NamesDiffer /\ Charges /\ GrantsHaveFiles

LEMMA GrantsHaveFilesStep ==
    ASSUME ChargeInv, [Next]_vars
    PROVE  GrantsHaveFiles'
<1> USE BudgetAssumption DEF ChargeInv, GrantsHaveFiles, Inv, TypeOK
<1>1. ASSUME NEW S, Unlink(S) PROVE GrantsHaveFiles'
  BY <1>1 DEF Unlink
<1>2. ASSUME NEW f, NEW n, Publish(f, n) PROVE GrantsHaveFiles'
  BY <1>2 DEF Publish
<1>3. ASSUME UNCHANGED <<leases, granted>> PROVE GrantsHaveFiles'
  BY <1>3
<1>4. ASSUME NEW b \in Builds, NEW f, ScanAs(b, f) PROVE GrantsHaveFiles'
  BY <1>1, <1>4 DEF ScanAs
<1>5. ASSUME NEW b \in Builds,
             \/ Start(b) \/ StartDetached(b) \/ Wait(b) \/ Admit(b) \/ PassFails(b)
             \/ PruneFails(b) \/ Rollback(b) \/ \E n \in Nonces : Collide(b, n)
      PROVE  GrantsHaveFiles'
  <2> HIDE DEF GrantsHaveFiles
  <2> QED
    BY <1>1, <1>2, <1>3, <1>5, Zenon
       DEF Start, StartDetached, Collide, Wait, Admit, PassFails, PruneFails,
           Rollback, registry
<1>6. ASSUME NEW b \in Builds,
             \/ Spawn(b) \/ SpawnFails(b) \/ EndUncharged(b) \/ RecordChild(b) \/ RecordChildFails(b)
             \/ ChildExits(b) \/ Release(b) \/ ReleaseFails(b) \/ Cancel(b)
      PROVE  GrantsHaveFiles'
  <2> HIDE DEF GrantsHaveFiles
  <2> QED
    BY <1>1, <1>3, <1>6
       DEF Spawn, SpawnFails, AfterUse, EndUncharged, RecordChild,
           RecordChildFails, ChildExits, Release, ReleaseFails, Cancel,
           registry
<1>7. ASSUME \/ \E p \in Procs : Crash(p)
             \/ \E f \in Files : Age(f)
             \/ Done \/ UNCHANGED vars
      PROVE  GrantsHaveFiles'
  BY <1>3, <1>7 DEF Crash, Age, Done, vars, registry
<1> HIDE DEF GrantsHaveFiles
<1> QED
  BY <1>4, <1>5, <1>6, <1>7, Zenon DEF Next, Pass, ScanFirst, ScanAgain

\* The lease of a build that is granted or runs is not pruned: its owner
\* lives, or its recorded child does.
LEMMA PrunedAreNotCharged ==
    ASSUME ChargeInv, "procfs" \notin Faults, NEW S \in PruneSets \cup SUBSET MayPrune,
           NEW b \in Builds, Chargeable(b)
    PROVE  file[b] \notin S
<1>1. S \subseteq MayPrune
  BY DEF PruneSets
<1>2. file[b] \in Files /\ file[b][1] = Owner[b] /\ Charge(b)
  BY DEF ChargeInv, NamesDiffer, OwnName, Inv, TypeOK, Charges, Charge,
         Charged, Chargeable
<1>3. IsLive(file[b])
  BY <1>2, BudgetAssumption DEF IsLive, Charge, Chargeable, Charged, Runs
<1> QED
  BY <1>1, <1>3 DEF MayPrune

LEMMA UnlinkLeavesAlone ==
    ASSUME ChargeInv, NEW S, Unlink(S), NEW b \in Builds,
           file[b] \notin S \/ ~Chargeable(b)
    PROVE  LeftAlone(b)
<1>1. Charge(b) /\ leases \subseteq Files
  BY DEF ChargeInv, Charges, Inv, TypeOK
<1>2. file[b] \notin leases => ~Chargeable(b)
  BY <1>1 DEF Charge, Charged, Chargeable
<1> QED
  BY <1>1, <1>2 DEF Unlink, LeftAlone

LEMMA PublishLeavesAlone ==
    ASSUME ChargeInv, NEW b \in Builds, NEW c \in Builds \ {b}, NEW n,
           file[b] \in Files, Publish(file[b], n)
    PROVE  LeftAlone(c)
<1>1. Charge(c) /\ leases \subseteq Files /\ granted \in [Files -> 0..MaxBudget]
  BY DEF ChargeInv, Charges, Inv, TypeOK
<1>2. file[c] # file[b]
  BY DEF ChargeInv, NamesDiffer, OwnName
<1>3. file[c] \notin leases => ~Chargeable(c)
  BY <1>1 DEF Charge, Charged, Chargeable
<1> QED
  BY <1>1, <1>2, <1>3 DEF Publish, LeftAlone

LEMMA SameLeavesAlone ==
    ASSUME ChargeInv, NEW b \in Builds, UNCHANGED <<leases, granted, child>>
    PROVE  LeftAlone(b)
<1>1. Charge(b)
  BY DEF ChargeInv, Charges
<1> QED
  BY <1>1 DEF Charge, Charged, Chargeable, LeftAlone

\* The step of one build does not touch what the others are charged with.
LEMMA OthersCharge ==
    ASSUME ChargeInv, NEW b \in Builds, Charge(b)', UNCHANGED alive,
           \A c \in Builds \ {b} :
             /\ LeftAlone(c)
             /\ phase'[c] = phase[c] /\ file'[c] = file[c]
             /\ threads'[c] = threads[c] /\ proc'[c] = proc[c]
             /\ recorder'[c] = recorder[c]
    PROVE  Charges'
<1> SUFFICES ASSUME NEW c \in Builds \ {b} PROVE Charge(c)'
  BY DEF Charges
<1>1. Charge(c)
  BY DEF ChargeInv, Charges
<1>2. Runs(c)' = Runs(c)
  BY DEF Runs
<1> QED
  BY <1>1, <1>2 DEF Charge, Charged, Chargeable, LeftAlone

\* A build without a child is charged with nothing.
LEMMA ChargeOfChildless ==
    ASSUME NEW b \in Builds, Runs(b)', proc'[b] # "running",
           phase'[b] \notin {"granted", "running"},
           \/ recorder'[b] = "none"
           \/ phase'[b] = "released" /\ file'[b] \notin leases'
    PROVE  Charge(b)'
  BY DEF Charge

LEMMA ChargesStep ==
    ASSUME ChargeInv, "procfs" \notin Faults, [Next]_vars
    PROVE  Charges'
<1>a. TypeOK /\ (\A b \in Builds : Charge(b) /\ OwnName(b))
  BY DEF ChargeInv, Charges, NamesDiffer, Inv
<1> USE <1>a, BudgetAssumption DEF TypeOK, Charge, Charged, Runs, consumer
<1>1. ASSUME NEW b \in Builds, Start(b) \/ StartDetached(b) PROVE Charges'
  <2>1. Charge(b)'
    <3>1. /\ recorder[b] = "none" /\ proc[b] # "running" /\ Runs(b)
          /\ UNCHANGED <<alive, recorder, proc>>
      BY <1>1 DEF Start, StartDetached
    <3>2. phase'[b] \in {"naming", "detached"}
      BY <1>1 DEF Start, StartDetached
    <3> QED
      BY <3>1, <3>2, ChargeOfChildless
  <2>2. UNCHANGED alive /\ \A c \in Builds \ {b} :
          /\ phase'[c] = phase[c] /\ file'[c] = file[c]
          /\ threads'[c] = threads[c] /\ proc'[c] = proc[c]
          /\ recorder'[c] = recorder[c]
    BY <1>1 DEF Start, StartDetached, registry
  <2>3. \A c \in Builds \ {b} : LeftAlone(c)
    BY <1>1, SameLeavesAlone DEF Start, StartDetached, registry
  <2> QED
    BY <2>1, <2>2, <2>3, OthersCharge
<1>2. ASSUME NEW b \in Builds, Spawn(b) \/ SpawnFails(b) \/ EndUncharged(b) PROVE Charges'
  <2>1. Charge(b)'
    <3>1. CASE Spawn(b) /\ phase[b] = "granted"
      BY <3>1 DEF Spawn, registry
    <3>2. CASE Spawn(b) /\ phase[b] # "granted"
      <4>1. /\ recorder'[b] = "none" /\ phase'[b] = "uncharged"
            /\ Runs(b) /\ alive' = alive
        BY <3>2 DEF Spawn
      <4> QED
        BY <4>1
    <3>3. CASE SpawnFails(b) \/ EndUncharged(b)
      <4>1. /\ UNCHANGED <<alive, proc, recorder>>
            /\ recorder[b] = "none" /\ proc[b] # "running" /\ Runs(b)
            /\ phase'[b] \in {"releasing", "ended"}
        BY <3>3 DEF SpawnFails, AfterUse, EndUncharged
      <4> QED
        BY <4>1, ChargeOfChildless
    <3> QED
      BY <1>2, <3>1, <3>2, <3>3
  <2>2. UNCHANGED alive /\ \A c \in Builds \ {b} :
          /\ phase'[c] = phase[c] /\ file'[c] = file[c]
          /\ threads'[c] = threads[c] /\ proc'[c] = proc[c]
          /\ recorder'[c] = recorder[c]
    BY <1>2 DEF Spawn, SpawnFails, AfterUse, EndUncharged, registry
  <2>3. \A c \in Builds \ {b} : LeftAlone(c)
    BY <1>2, SameLeavesAlone DEF Spawn, SpawnFails, AfterUse, EndUncharged,
                                 registry
  <2> QED
    BY <2>1, <2>2, <2>3, OthersCharge
<1>3. ASSUME NEW b \in Builds, RecordChildFails(b) \/ ChildExits(b) \/ ReleaseFails(b) PROVE Charges'
  <2>1. Charge(b)'
    <3>1. UNCHANGED <<alive, leases, granted, child, file, threads>>
      BY <1>3 DEF RecordChildFails, ChildExits, ReleaseFails, registry
    <3>2. CASE RecordChildFails(b)
      BY <3>1, <3>2 DEF RecordChildFails
    <3>3. CASE ChildExits(b)
      BY <3>1, <3>3 DEF ChildExits
    <3>4. CASE ReleaseFails(b)
      BY <3>1, <3>4 DEF ReleaseFails, AtRelease
    <3> QED
      BY <1>3, <3>2, <3>3, <3>4
  <2>2. UNCHANGED alive /\ \A c \in Builds \ {b} :
          /\ phase'[c] = phase[c] /\ file'[c] = file[c]
          /\ threads'[c] = threads[c] /\ proc'[c] = proc[c]
          /\ recorder'[c] = recorder[c]
    BY <1>3 DEF RecordChildFails, ChildExits, ReleaseFails, AtRelease, registry
  <2>3. \A c \in Builds \ {b} : LeftAlone(c)
    BY <1>3, SameLeavesAlone DEF RecordChildFails, ChildExits, ReleaseFails, registry
  <2> QED
    BY <2>1, <2>2, <2>3, OthersCharge
<1>4. ASSUME NEW b \in Builds, Cancel(b) PROVE Charges'
  <2>1. Charge(b)'
    <3>1. UNCHANGED <<alive, leases, granted, child, file, threads, recorder>>
      BY <1>4 DEF Cancel, registry
    <3>2. CASE UNCHANGED <<phase, proc>>
      BY <3>1, <3>2
    <3>3. CASE phase[b] \in {"granted", "running"} /\ phase'[b] = "releasing"
               /\ proc'[b] # "running"
      BY <1>4, <3>1, <3>3 DEF Cancel
    <3>4. CASE phase[b] \in {"detached", "uncharged"} /\ phase'[b] = "ended"
               /\ proc'[b] # "running"
      BY <1>4, <3>1, <3>4 DEF Cancel
    <3> QED
      BY <1>4, <3>2, <3>3, <3>4 DEF Cancel, AfterUse
  <2>2. UNCHANGED alive /\ \A c \in Builds \ {b} :
          /\ phase'[c] = phase[c] /\ file'[c] = file[c]
          /\ threads'[c] = threads[c] /\ proc'[c] = proc[c]
          /\ recorder'[c] = recorder[c]
    BY <1>4 DEF Cancel, registry
  <2>3. \A c \in Builds \ {b} : LeftAlone(c)
    BY <1>4, SameLeavesAlone DEF Cancel, registry
  <2> QED
    BY <2>1, <2>2, <2>3, OthersCharge
<1>5. ASSUME NEW b \in Builds, NEW n \in Nonces, Collide(b, n) PROVE Charges'
  <2>1. Charge(b)'
    <3>1. /\ recorder[b] = "none" /\ proc[b] # "running" /\ Runs(b)
          /\ UNCHANGED <<alive, recorder, proc>>
      BY <1>5 DEF Collide
    <3>2. phase'[b] \in {"naming", "detached"}
      BY <1>5 DEF Collide
    <3> QED
      BY <3>1, <3>2
  <2>2. UNCHANGED alive /\ \A c \in Builds \ {b} :
          /\ phase'[c] = phase[c] /\ file'[c] = file[c]
          /\ threads'[c] = threads[c] /\ proc'[c] = proc[c]
          /\ recorder'[c] = recorder[c]
    BY <1>5 DEF Collide
  <2>3. \A c \in Builds \ {b} : LeftAlone(c)
    BY <1>5, SameLeavesAlone DEF Collide, registry
  <2> QED
    BY <2>1, <2>2, <2>3, OthersCharge
<1>6. ASSUME NEW b \in Builds, NEW f, ScanAs(b, f), Runs(b),
             phase[b] \in {"naming", "waiting"}
      PROVE  Charges'
  <2>1. Charge(b)'
    BY <1>6 DEF ScanAs
  <2>2. UNCHANGED alive /\ \A c \in Builds \ {b} :
          /\ phase'[c] = phase[c] /\ file'[c] = file[c]
          /\ threads'[c] = threads[c] /\ proc'[c] = proc[c]
          /\ recorder'[c] = recorder[c]
    BY <1>6 DEF ScanAs
  <2>3. \A c \in Builds \ {b} : LeftAlone(c)
    <3>1. PICK S \in PruneSets : Unlink(S)
      BY <1>6 DEF ScanAs
    <3> QED
      BY <3>1, PrunedAreNotCharged, UnlinkLeavesAlone
  <2> QED
    BY <2>1, <2>2, <2>3, OthersCharge
<1>7. ASSUME NEW b \in Builds, PruneFails(b) PROVE Charges'
  <2>1. Charge(b)'
    BY <1>7 DEF PruneFails
  <2>2. UNCHANGED alive /\ \A c \in Builds \ {b} :
          /\ phase'[c] = phase[c] /\ file'[c] = file[c]
          /\ threads'[c] = threads[c] /\ proc'[c] = proc[c]
          /\ recorder'[c] = recorder[c]
    BY <1>7 DEF PruneFails
  <2>3. \A c \in Builds \ {b} : LeftAlone(c)
    <3>1. PICK S \in SUBSET MayPrune : Unlink(S)
      BY <1>7 DEF PruneFails
    <3> QED
      BY <3>1, PrunedAreNotCharged, UnlinkLeavesAlone
  <2> QED
    BY <2>1, <2>2, <2>3, OthersCharge
<1>8. ASSUME NEW b \in Builds, Rollback(b) \/ Release(b) PROVE Charges'
  <2>1. Charge(b)'
    <3>1. Runs(b) /\ proc[b] # "running" /\ UNCHANGED <<alive, file, recorder, proc>>
      BY <1>8 DEF Rollback, Release, AtRelease
    <3>2. CASE Rollback(b)
      <4>1. recorder[b] = "none" /\ phase'[b] = "detached"
        BY <3>2 DEF Rollback
      <4> QED
        BY <3>1, <4>1, ChargeOfChildless
    <3>3. CASE Release(b)
      <4>1. phase'[b] = "released" /\ file[b] \notin leases'
        BY <3>3 DEF Release, Unlink
      <4> QED
        BY <3>1, <4>1, ChargeOfChildless
    <3> QED
      BY <1>8, <3>2, <3>3
  <2>2. UNCHANGED alive /\ \A c \in Builds \ {b} :
          /\ phase'[c] = phase[c] /\ file'[c] = file[c]
          /\ threads'[c] = threads[c] /\ proc'[c] = proc[c]
          /\ recorder'[c] = recorder[c]
    BY <1>8 DEF Rollback, Release
  <2>3. \A c \in Builds \ {b} : LeftAlone(c)
    <3>1. CASE Unlink({file[b]})
      <4>1. ASSUME NEW c \in Builds \ {b}, Chargeable(c) PROVE file[c] # file[b]
        BY <4>1 DEF Chargeable, OwnName
      <4> QED
        BY <3>1, <4>1, UnlinkLeavesAlone
    <3>2. CASE UNCHANGED registry
      BY <3>2, SameLeavesAlone DEF registry
    <3> QED
      BY <1>8, <3>1, <3>2 DEF Rollback, Release
  <2> QED
    BY <2>1, <2>2, <2>3, OthersCharge
<1>9. ASSUME NEW b \in Builds, Wait(b) \/ Admit(b) \/ PassFails(b)
      PROVE  Charges'
  <2>1. /\ file[b] \in Files /\ view[b].granted = granted
        /\ view[b].leases = leases
        /\ granted[file[b]] > 0 => file[b] \in leases
    BY <1>9 DEF ChargeInv, Inv, PassSeesRegistry, GrantsHaveFiles, Wait, Admit,
                PassFails
  <2>2. Charge(b)'
    <3>1. CASE Wait(b) \/ PassFails(b)
      <4>1. /\ recorder[b] = "none" /\ proc[b] # "running" /\ Runs(b)
            /\ UNCHANGED <<alive, recorder, proc>>
        BY <3>1 DEF Wait, PassFails, LeavePass
      <4>2. phase'[b] \in {"waiting", "rollback", "detached"}
        BY <3>1 DEF Wait, PassFails
      <4> QED
        BY <4>1, <4>2
    <3>2. CASE Admit(b)
      <4>1. /\ file'[b] = file[b] /\ threads'[b] = Grant(b)
            /\ phase'[b] \in {"releasing", "granted"}
            /\ recorder[b] = "none" /\ proc[b] # "running" /\ Runs(b)
            /\ UNCHANGED <<alive, recorder, proc>>
        BY <3>2 DEF Admit, LeavePass
      <4>2. file[b] \in leases' /\ granted'[file[b]] = Grant(b)
        <5>1. CASE granted[file[b]] > 0
          BY <2>1, <3>2, <5>1 DEF Admit, registry, Grant
        <5>2. CASE ~(granted[file[b]] > 0)
          BY <2>1, <3>2, <5>2 DEF Admit, Publish
        <5> QED
          BY <5>1, <5>2
      <4> QED
        BY <4>1, <4>2
    <3> QED
      BY <1>9, <3>1, <3>2
  <2>3. UNCHANGED alive /\ \A c \in Builds \ {b} :
          /\ phase'[c] = phase[c] /\ file'[c] = file[c]
          /\ threads'[c] = threads[c] /\ proc'[c] = proc[c]
          /\ recorder'[c] = recorder[c]
    BY <1>9 DEF Wait, Admit, PassFails, LeavePass
  <2>4. \A c \in Builds \ {b} : LeftAlone(c)
    <3>1. CASE \E n : Publish(file[b], n)
      BY <2>1, <3>1, PublishLeavesAlone
    <3>2. CASE UNCHANGED registry
      BY <3>2, SameLeavesAlone DEF registry
    <3> QED
      BY <1>9, <3>1, <3>2 DEF Wait, Admit, PassFails
  <2> QED
    BY <2>2, <2>3, <2>4, OthersCharge
<1>10. ASSUME NEW b \in Builds, RecordChild(b) PROVE Charges'
  <2>1. Charge(b)'
    BY <1>10 DEF RecordChild, registry
  <2>2. UNCHANGED alive /\ \A c \in Builds \ {b} :
          /\ phase'[c] = phase[c] /\ file'[c] = file[c]
          /\ threads'[c] = threads[c] /\ proc'[c] = proc[c]
          /\ recorder'[c] = recorder[c]
    BY <1>10 DEF RecordChild
  <2>3. ASSUME NEW c \in Builds \ {b} PROVE LeftAlone(c)
    <3>1. CASE UNCHANGED registry
      BY <3>1, SameLeavesAlone DEF registry, ChargeInv
    <3>2. CASE file[b] \in leases /\ child' = [child EXCEPT ![file[b]] = b]
               /\ UNCHANGED <<leases, granted>>
      <4>1. file[c] # file[b]
        BY <3>2 DEF OwnName
      <4>2. file[c] \notin leases => ~Chargeable(c)
        BY DEF Chargeable
      <4> QED
        BY <3>2, <4>1, <4>2 DEF LeftAlone
    <3> QED
      BY <1>10, <3>1, <3>2 DEF RecordChild
  <2> QED
    BY <2>1, <2>2, <2>3, OthersCharge
<1>11. ASSUME NEW p \in Procs, Crash(p) PROVE Charges'
  BY <1>11 DEF Crash, Charges, registry
<1>12. ASSUME (\E f \in Files : Age(f)) \/ Done \/ UNCHANGED vars PROVE Charges'
  BY <1>12 DEF Age, Done, vars, registry, Charges
<1> QED
  BY <1>1, <1>2, <1>3, <1>4, <1>5, <1>6, <1>7, <1>8, <1>9, <1>10, <1>11, <1>12
     DEF Next, Pass, ScanFirst, ScanAgain

\* As long as the liveness of processes can be read, a child that was started
\* under a lease is charged with the threads it was told to use, however often
\* leases expire, builds are cancelled and operations of the registry fail.  A
\* child of a detached permit has no lease and is not spoken of.
THEOREM RunningAreCharged ==
    ASSUME "procfs" \notin Faults PROVE Spec => []RunningChildrenCharged
<1>1. Init => NamesDiffer /\ Charges /\ GrantsHaveFiles
  BY BudgetAssumption
     DEF Init, NamesDiffer, OwnName, Charges, Charge, Charged, Runs,
         GrantsHaveFiles, NoFile, Files
<1>2. Inv /\ NamesDiffer /\ Charges => RunningChildrenCharged
  BY DEF Charges, Charge, Charged, RunningChildrenCharged, Coordinated
<1>3. Inv /\ NamesDiffer /\ Charges /\ GrantsHaveFiles /\ [Next]_vars
        => NamesDiffer' /\ Charges' /\ GrantsHaveFiles'
  BY NamesStep, ChargesStep, GrantsHaveFilesStep DEF ChargeInv
<1> QED
  BY <1>1, <1>2, <1>3, InvInductive, PTL DEF Spec
-----------------------------------------------------------------------------
(***************************************************************************)
(* What the coordinated children use together.                             *)
(***************************************************************************)
\* The threads of the coordinated children, one by one.
ThreadsInUse == {t \in Builds \X (1..MaxBudget) :
                    t[1] \in Coordinated /\ t[2] <= threads[t[1]]}
CompressionFits == Cardinality(ThreadsInUse) <= MaxBudget

\* Each thread stands for a token of its own: no two children share a lease.
LEMMA ThreadsAreTokens ==
    ASSUME TypeOK, NamesDiffer, RunningChildrenCharged
    PROVE  Cardinality(ThreadsInUse) <= Used(granted)
<1> DEFINE token == [t \in ThreadsInUse |-> <<file[t[1]], t[2]>>]
<1>1. ASSUME NEW t \in ThreadsInUse
      PROVE  /\ t[1] \in Builds /\ t[2] \in 1..MaxBudget /\ t = <<t[1], t[2]>>
             /\ file[t[1]] \in Files /\ t[2] <= granted[file[t[1]]]
  <2>1. /\ t[1] \in Builds /\ t[2] \in 1..MaxBudget /\ t = <<t[1], t[2]>>
        /\ t[1] \in Coordinated /\ t[2] <= threads[t[1]]
    BY DEF ThreadsInUse
  <2>2. file[t[1]] \in leases /\ granted[file[t[1]]] = threads[t[1]]
    BY <2>1 DEF RunningChildrenCharged
  <2> QED
    BY <2>1, <2>2 DEF TypeOK
<1>2. token \in [ThreadsInUse -> Pool!Taken(granted)]
  <2>1. ASSUME NEW t \in ThreadsInUse
        PROVE  <<file[t[1]], t[2]>> \in Pool!Taken(granted)
    BY <1>1 DEF Pool!Taken
  <2> QED
    BY <2>1
<1>3. ASSUME NEW t \in ThreadsInUse, NEW u \in ThreadsInUse, token[t] = token[u]
      PROVE  t = u
  <2>1. file[t[1]] = file[u[1]] /\ t[2] = u[2]
    BY <1>3
  <2>2. t[1] = u[1]
    BY <1>1, <2>1 DEF NamesDiffer, OwnName
  <2> QED
    BY <1>1, <2>1, <2>2
<1>4. token \in Injection(ThreadsInUse, Pool!Taken(granted))
  BY <1>2, <1>3 DEF Injection, IsInjective
<1>5. IsFiniteSet(Pool!Taken(granted))
  BY TakenFinite
<1> QED
  BY <1>4, <1>5, FS_Injection DEF Used

\* The children started under a lease, while their backend lives or their
\* identity is in it, never use more threads than the budget has, all of them
\* together: the sum of coordinated live grants never exceeds the effective
\* budget (the module comment of thread_budget.rs).  What each
\* was told to use is charged to a lease of its own, and the charges stay
\* within the budget.  Detached children come on top of that.
THEOREM CompressionWithinBudget ==
    ASSUME "procfs" \notin Faults PROVE Spec => []CompressionFits
<1>1. Init => NamesDiffer
  BY BudgetAssumption DEF Init, NamesDiffer, OwnName, NoFile, Files
<1>2. Inv /\ NamesDiffer /\ [Next]_vars => NamesDiffer'
  BY NamesStep
<1>3. ASSUME Inv, NamesDiffer, RunningChildrenCharged PROVE CompressionFits
  <2>1. TypeOK /\ Used(granted) <= MaxBudget
    BY <1>3 DEF Inv, BudgetRespected
  <2>2. Cardinality(ThreadsInUse) <= Used(granted) /\ Used(granted) \in Nat
    BY <1>3, <2>1, ThreadsAreTokens, TakenFinite
  <2>3. IsFiniteSet(ThreadsInUse)
    <3> DEFINE all == Builds \X (1..MaxBudget)
    <3>1. IsFiniteSet(Builds) /\ IsFiniteSet(1..MaxBudget)
      BY BudgetAssumption, FS_Interval
    <3>2. IsFiniteSet(all)
      BY <3>1, FS_Product
    <3>3. ThreadsInUse \subseteq all
      BY DEF ThreadsInUse
    <3> QED
      BY <3>2, <3>3, FS_Subset
  <2>4. Cardinality(ThreadsInUse) \in Nat
    BY <2>3, FS_CardinalityType
  <2> QED
    BY <2>1, <2>2, <2>4, BudgetAssumption DEF CompressionFits
<1> QED
  BY <1>1, <1>2, <1>3, InvInductive, RunningAreCharged, PTL DEF Spec
-----------------------------------------------------------------------------
(***************************************************************************)
(* The registry lock.                                                      *)
(***************************************************************************)
\* The lock is held by a build of a live process inside an admission pass, and
\* by no other: it is given back on every way out of the pass.
LockIsInAPass ==
    /\ lock # NoBuild => Runs(lock) /\ phase[lock] = "scanned"
    /\ \A b \in Builds : phase[b] = "scanned" => lock = b

LEMMA LockStep ==
    ASSUME Inv, LockIsInAPass, [Next]_vars
    PROVE  LockIsInAPass'
<1>a. /\ TypeOK /\ lock \in Builds \cup {NoBuild} /\ NoBuild \notin Builds
      /\ phase \in [Builds -> Phases]
  BY BudgetAssumption DEF Inv, TypeOK
<1> USE DEF LockIsInAPass, Runs
<1>1. ASSUME NEW b \in Builds, NEW f, ScanAs(b, f), Runs(b)
      PROVE  LockIsInAPass'
  BY <1>a, <1>1 DEF ScanAs
<1>2. ASSUME NEW b \in Builds, Wait(b) \/ Admit(b) \/ PassFails(b)
      PROVE  LockIsInAPass'
  <2>1. phase[b] = "scanned" /\ lock' = NoBuild
    BY <1>2 DEF Wait, Admit, PassFails, LeavePass
  <2>2. \E s \in Phases \ {"scanned"} : phase' = [phase EXCEPT ![b] = s]
    BY <1>2 DEF Wait, Admit, PassFails, Phases
  <2>3. \A c \in Builds : phase'[c] # "scanned"
    BY <1>a, <2>1, <2>2
  <2> QED
    BY <2>1, <2>3
<1>3. ASSUME NEW b \in Builds,
             \/ Start(b) \/ StartDetached(b) \/ \E n \in Nonces : Collide(b, n)
             \/ PruneFails(b) \/ Rollback(b) \/ Spawn(b) \/ SpawnFails(b) \/ EndUncharged(b)
             \/ Release(b) \/ ReleaseFails(b) \/ Cancel(b)
      PROVE  LockIsInAPass'
  <2>1. /\ UNCHANGED <<alive, lock>>
        /\ \/ phase' = phase
           \/ phase[b] # "scanned"
              /\ \E s \in Phases \ {"scanned"} : phase' = [phase EXCEPT ![b] = s]
    BY <1>3 DEF Start, StartDetached, Collide, PruneFails, Rollback, Spawn,
                SpawnFails, AfterUse, EndUncharged, Release, ReleaseFails,
                AtRelease, Cancel, Phases
  <2> QED
    BY <1>a, <2>1
<1>4. ASSUME NEW b \in Builds,
             RecordChild(b) \/ RecordChildFails(b) \/ ChildExits(b)
      PROVE  LockIsInAPass'
  BY <1>4 DEF RecordChild, RecordChildFails, ChildExits
<1>5. ASSUME NEW p \in Procs, Crash(p) PROVE LockIsInAPass'
  <2>1. \A c \in Builds : phase'[c] = IF Owner[c] = p THEN "dead" ELSE phase[c]
    BY <1>5 DEF Crash
  <2>2. CASE lock \in Builds /\ Owner[lock] = p
    BY <1>a, <1>5, <2>1, <2>2 DEF Crash
  <2>3. CASE ~(lock \in Builds /\ Owner[lock] = p)
    BY <1>a, <1>5, <2>1, <2>3 DEF Crash
  <2> QED
    BY <2>2, <2>3
<1>6. ASSUME (\E f \in Files : Age(f)) \/ Done \/ UNCHANGED vars
      PROVE  LockIsInAPass'
  BY <1>6 DEF Age, Done, vars
<1> HIDE DEF LockIsInAPass
<1> QED
  BY <1>1, <1>2, <1>3, <1>4, <1>5, <1>6 DEF Next, Pass, ScanFirst, ScanAgain

\* Nobody waits for a lock that no pass is going to drop: whoever holds the
\* registry lock is alive and inside its pass, which both ways out of it end,
\* and who is inside a pass holds the lock (registry_admission_pass under
\* RegistryLock), with every crash, cancellation and fault.
THEOREM LockIsHeldInAPass == Spec => []LockIsInAPass
<1>1. Init => LockIsInAPass
  BY BudgetAssumption DEF Init, LockIsInAPass
<1> QED
  BY <1>1, InvInductive, LockStep, PTL DEF Spec
=============================================================================
