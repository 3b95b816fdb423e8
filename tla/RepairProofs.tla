---------------------------- MODULE RepairProofs ----------------------------
(***************************************************************************)
(* Proofs about Repair for any number of processes, bundles, distributions *)
(* and locks, any cap on the attempts, and any troubles.                   *)
(***************************************************************************)
EXTENDS Repair, TLAPS

(***************************************************************************)
(* The inductive invariant.                                                *)
(***************************************************************************)
\* From the decision on, an install holds the lock of its bundle.
Deciding == {"decide", "prepare", "uvLock"} \cup Replaying
InstallLockIsHeld ==
    \A p \in Procs : pc[p] \in Deciding => installLock[Mine(p)] = p

\* From the attempt on, it holds the lock of the environment.
UvLockIsHeld == \A p \in Procs : pc[p] \in Replaying => uvLock = p

\* An install is for a lock its bundle has, or had.
Running == Steps \ {"idle", "shellOk", "shellFail"}
LocksAreKnown ==
    /\ \A p \in Procs : want[p] <= digest[Mine(p)]
    /\ \A p \in Procs : pc[p] \in Running => want[p] # 0
    /\ \A b \in Bundles : refusal[b] <= digest[b]

\* A refusal is cleared after the lock has changed.
ClearsAreLate == \A p \in Procs : pc[p] = "clear" => digest[Mine(p)] # 1

\* While uv runs, and until its end is recorded, the state file says so.
ReplaysAreMarked ==
    \A p \in Procs :
        /\ pc[p] \in {"start", "uv", "rollback", "markBroken", "check"}
        /\ digest[Mine(p)] = 1
        => state[Mine(p)] = "repairing"

\* What is certified has been verified.
CertifiedIsVerified ==
    \A p \in Procs : pc[p] \in {"certify", "clean"} => Mine(p) \notin open

\* A grant is used once.
GrantsAreFresh ==
    \A p \in granted : pc[p] \in {"prepare", "uvLock"} \cup Replaying

Inv ==
    /\ TypeOK
    /\ InstallLockIsHeld
    /\ UvLockIsHeld
    /\ LocksAreKnown
    /\ ClearsAreLate
    /\ ReplaysAreMarked
    /\ CertifiedIsVerified
    /\ UnfinishedReplaysAreDistrusted
    /\ GrantsAreFresh
    /\ GrantsAreWithinBudget
    /\ RolledBackIsOwnedOrAbsent

LEMMA InitInv ==
    ASSUME Init PROVE Inv
<1> USE RepairAssumption DEF Init
<1>1. TypeOK
  <2>1. /\ digest \in [Bundles -> Digests]
        /\ marker \in [Bundles -> 0..MaxDigest]
        /\ refusal \in [Bundles -> 0..MaxDigest]
        /\ want \in [Procs -> 0..MaxDigest]
        /\ attempts \in [Bundles -> 0..MaxAttempts]
    BY DEF Digests
  <2>2. info \in [Dists -> Versions]
    BY DEF Versions, Foreign
  <2>3. inventory \in [Procs -> [Dists -> Versions]]
    BY DEF Versions, Foreign
  <2>4. trigger \in [Bundles -> (SUBSET Dists) \cup {NoTrigger}]
    <3>1. NoTrigger \in (SUBSET Dists) \cup {NoTrigger}
      BY Zenon
    <3>2. trigger = [b \in Bundles |-> NoTrigger]
      OBVIOUS
    <3> QED
      BY <3>1, <3>2, Zenon
  <2>5. pc \in [Procs -> Steps]
    BY DEF Steps
  <2> QED
    BY <2>1, <2>2, <2>3, <2>4, <2>5 DEF TypeOK
<1>2. InstallLockIsHeld /\ UvLockIsHeld /\ ClearsAreLate /\ ReplaysAreMarked
  BY DEF InstallLockIsHeld, Deciding, UvLockIsHeld, Replaying, ClearsAreLate,
         ReplaysAreMarked
<1>3. LocksAreKnown
  BY DEF LocksAreKnown, Running, Mine
<1>4. CertifiedIsVerified /\ UnfinishedReplaysAreDistrusted
  BY DEF CertifiedIsVerified, UnfinishedReplaysAreDistrusted
<1>5. GrantsAreFresh /\ GrantsAreWithinBudget /\ RolledBackIsOwnedOrAbsent
  BY DEF GrantsAreFresh, GrantsAreWithinBudget, RolledBackIsOwnedOrAbsent
<1> QED
  BY <1>1, <1>2, <1>3, <1>4, <1>5 DEF Inv

\* What a process that returns leaves behind.
Returned(p) ==
    /\ installLock' \in [Bundles -> Procs \cup {None}]
    /\ \A b \in Bundles :
            installLock[b] # p => installLock'[b] = installLock[b]
    /\ uvLock' \in Procs \cup {None} /\ (uvLock # p => uvLock' = uvLock)
    /\ distrusted' \subseteq Procs /\ aborts' \subseteq Procs
    /\ granted' = granted \ {p}
    /\ want' \in [Procs -> 0..MaxDigest] /\ want'[p] = 0
    /\ \A q \in Procs : q # p => want'[q] = want[q]
    /\ inventory' \in [Procs -> [Dists -> Versions]]
    /\ \A q \in Procs : q # p => inventory'[q] = inventory[q]
    /\ doomed' \in [Procs -> SUBSET Dists]
    /\ wanted' \in [Procs -> SUBSET Dists]
    /\ pc' \in [Procs -> Steps]
    /\ pc'[p] \in {"idle", "shellOk", "shellFail"}
    /\ \A q \in Procs : q # p => pc'[q] = pc[q]

LEMMA Returns ==
    ASSUME TypeOK, NEW p \in Procs,
           Release(p),
           \/ Go(p, "idle")
           \/ Go(p, IF p \in guarded THEN "shellOk" ELSE "idle")
           \/ Go(p, IF p \in guarded THEN "shellFail" ELSE "idle")
    PROVE  Returned(p)
<1> USE RepairAssumption DEF TypeOK, Release
<1>1. /\ installLock' \in [Bundles -> Procs \cup {None}]
      /\ \A b \in Bundles :
            installLock[b] # p => installLock'[b] = installLock[b]
  OBVIOUS
<1>2. /\ uvLock' \in Procs \cup {None} /\ (uvLock # p => uvLock' = uvLock)
      /\ distrusted' \subseteq Procs /\ aborts' \subseteq Procs
      /\ granted' = granted \ {p}
  OBVIOUS
<1>3. /\ want' \in [Procs -> 0..MaxDigest] /\ want'[p] = 0
      /\ \A q \in Procs : q # p => want'[q] = want[q]
  OBVIOUS
<1>4. [d \in Dists |-> 0] \in [Dists -> Versions]
  BY DEF Versions, Foreign
<1>5. /\ inventory' \in [Procs -> [Dists -> Versions]]
      /\ \A q \in Procs : q # p => inventory'[q] = inventory[q]
  BY <1>4
<1>6. /\ doomed' \in [Procs -> SUBSET Dists]
      /\ wanted' \in [Procs -> SUBSET Dists]
  OBVIOUS
<1>7. /\ pc' \in [Procs -> Steps]
      /\ pc'[p] \in {"idle", "shellOk", "shellFail"}
      /\ \A q \in Procs : q # p => pc'[q] = pc[q]
  BY DEF Go, Steps
<1> QED
  BY <1>1, <1>2, <1>3, <1>5, <1>6, <1>7 DEF Returned

\* A step that neither touches the environment nor ends in a rollback.
LEMMA OwnedFrame ==
    ASSUME RolledBackIsOwnedOrAbsent, UNCHANGED <<info, files>>,
           NEW p \in Procs, pc'[p] # "markBroken",
           \A q \in Procs : q # p => /\ pc'[q] = pc[q]
                                   /\ inventory'[q] = inventory[q]
    PROVE  RolledBackIsOwnedOrAbsent'
<1> SUFFICES ASSUME NEW q \in Procs, pc'[q] = "markBroken", NEW d \in Dists,
                    inventory'[q][d] # 0
             PROVE  info'[d] # 0 \/ files'[d] = "none"
  BY DEF RolledBackIsOwnedOrAbsent
<1>1. pc[q] = "markBroken" /\ inventory[q][d] # 0
  OBVIOUS
<1>2. info[d] # 0 \/ files[d] = "none"
  BY <1>1 DEF RolledBackIsOwnedOrAbsent
<1> QED
  BY <1>2

\* Nor do the locks and refusals change when a process returns.
LEMMA KnownFrame ==
    ASSUME TypeOK, LocksAreKnown, UNCHANGED <<digest, bundle>>,
           NEW p \in Procs, Returned(p),
           \A b \in Bundles : refusal'[b] <= digest[b]
    PROVE  LocksAreKnown'
<1> USE RepairAssumption DEF TypeOK, LocksAreKnown, Mine, Digests
<1>1. ASSUME NEW q \in Procs PROVE want'[q] <= digest'[bundle'[q]]
  <2>1. digest[bundle[q]] \in 1..MaxDigest /\ want[q] <= digest[bundle[q]]
    OBVIOUS
  <2>2. want'[q] = 0 \/ want'[q] = want[q]
    BY DEF Returned
  <2> QED
    BY <2>1, <2>2
<1>2. ASSUME NEW q \in Procs, pc'[q] \in Running PROVE want'[q] # 0
  <2>1. q # p
    BY <1>2 DEF Returned, Running
  <2>2. pc[q] \in Running /\ want'[q] = want[q]
    BY <1>2, <2>1 DEF Returned
  <2> QED
    BY <2>2
<1> QED
  BY <1>1, <1>2

\* Numbers.
LEMMA RefusalFrame ==
    ASSUME TypeOK, LocksAreKnown, NEW b \in Bundles,
           refusal' = refusal \/ refusal' = [refusal EXCEPT ![b] = 0]
    PROVE  \A c \in Bundles : refusal'[c] <= digest[c]
<1> USE RepairAssumption DEF TypeOK, LocksAreKnown, Digests
<1>1. ASSUME NEW c \in Bundles PROVE refusal'[c] <= digest[c]
  <2>1. refusal[c] <= digest[c] /\ digest[c] \in 1..MaxDigest
    OBVIOUS
  <2>2. refusal'[c] = 0 \/ refusal'[c] = refusal[c]
    OBVIOUS
  <2> QED
    BY <2>1, <2>2
<1> QED
  BY <1>1

LEMMA Below ==
    ASSUME NEW n \in 0..MaxAttempts, n # MaxAttempts
    PROVE  n < MaxAttempts /\ n + 1 \in 0..MaxAttempts
  BY RepairAssumption

LEMMA Older ==
    ASSUME NEW w \in 0..MaxDigest, NEW r \in 0..MaxDigest, NEW d \in Digests,
           w # 0, r # 0, w # r, w <= d, r <= d
    PROVE  d # 1
  BY RepairAssumption DEF Digests

LEMMA Fails == ASSUME TypeOK, NEW p \in Procs, Fail(p) PROVE Returned(p)
  BY Returns DEF Fail

LEMMA Succeeds == ASSUME TypeOK, NEW p \in Procs, Succeed(p) PROVE Returned(p)
  BY Returns DEF Succeed


\* The steps with which an install may return: it does, or goes on to a step
\* that needs its grant as much as the last one.
Ending(p) ==
    \/ ReadRefusal(p) \/ FastPath(p) \/ KeepPayload(p) \/ Refuse(p)
    \/ Prepare(p) \/ StartUv(p) \/ MarkBroken(p) \/ Check(p) \/ Certify(p)
    \/ Clean(p) \/ Dies(p)

Busy == {"prepare", "uvLock"} \cup Replaying

GoesOn(p) ==
    /\ \E s \in Steps \ {"markBroken"} : Go(p, s) /\ (pc[p] \in Busy => s \in Busy)
    /\ granted' = granted
    /\ inventory' = inventory \/ \E i : inventory' = [inventory EXCEPT ![p] = i]

LEMMA EndsOrGoesOn ==
    ASSUME TypeOK, NEW p \in Procs, Ending(p)
    PROVE  /\ UNCHANGED <<info, files, bundle, digest>>
           /\ Returned(p) \/ GoesOn(p)
<1> DEFINE Same == UNCHANGED <<info, files, bundle, digest>>
<1>0. Fail(p) \/ Succeed(p) => Returned(p)
  BY Fails, Succeeds
<1>1. CASE ReadRefusal(p)
  <2>1. Same
    BY <1>1 DEF ReadRefusal, site
  <2>2. \/ Fail(p)
        \/ (Go(p, "read") \/ Go(p, "clear")) /\ UNCHANGED <<locks, call, uv>>
    BY <1>1 DEF ReadRefusal
  <2>3. pc[p] = "refusal"
    BY <1>1 DEF ReadRefusal
  <2> QED
    BY <1>0, <2>1, <2>2, <2>3 DEF GoesOn, Steps, Busy, Replaying, call
<1>2. CASE FastPath(p)
  <2>1. Same
    BY <1>2 DEF FastPath, site
  <2>2. Succeed(p) \/ (Go(p, "lock") /\ UNCHANGED <<locks, call, uv>>)
    BY <1>2 DEF FastPath
  <2>3. pc[p] = "fast"
    BY <1>2 DEF FastPath
  <2> QED
    BY <1>0, <2>1, <2>2, <2>3 DEF GoesOn, Steps, Busy, Replaying, call
<1>3. CASE KeepPayload(p)
  BY <1>0, <1>3 DEF KeepPayload, site
<1>4. CASE Refuse(p)
  BY <1>0, <1>4 DEF Refuse, site
<1>5. CASE Prepare(p)
  <2>1. Same
    BY <1>5 DEF Prepare
  <2>2. \/ Fail(p)
        \/ /\ Go(p, "uvLock") /\ granted' = granted
           /\ \E i : inventory' = [inventory EXCEPT ![p] = i]
    BY <1>5 DEF Prepare
  <2> QED
    BY <1>0, <2>1, <2>2 DEF GoesOn, Steps, Busy, Replaying
<1>6. CASE StartUv(p)
  <2>1. Same
    BY <1>6 DEF StartUv, site
  <2>2. Fail(p) \/ (Go(p, "uv") /\ UNCHANGED call)
    BY <1>6 DEF StartUv
  <2> QED
    BY <1>0, <2>1, <2>2 DEF GoesOn, Steps, Busy, Replaying, call
<1>7. CASE MarkBroken(p)
  BY <1>0, <1>7 DEF MarkBroken, site
<1>8. CASE Check(p)
  <2>1. Same
    BY <1>8 DEF Check, site
  <2>2. Fail(p) \/ (Go(p, "certify") /\ UNCHANGED call)
    BY <1>8 DEF Check, FailPostVerify
  <2> QED
    BY <1>0, <2>1, <2>2 DEF GoesOn, Steps, Busy, Replaying, call
<1>9. CASE Certify(p)
  <2>1. Same
    BY <1>9 DEF Certify, site
  <2>2. Fail(p) \/ (Go(p, "clean") /\ UNCHANGED call)
    BY <1>9 DEF Certify, FailPostVerify
  <2> QED
    BY <1>0, <2>1, <2>2 DEF GoesOn, Steps, Busy, Replaying, call
<1>10. CASE Clean(p)
  BY <1>0, <1>10 DEF Clean, site
<1>11. CASE Dies(p)
  <2>1. Fail(p) \/ (Go(p, "idle") /\ Release(p))
    BY <1>11 DEF Dies
  <2>2. Returned(p)
    BY <1>0, <2>1, Returns
  <2> QED
    BY <1>11, <2>2 DEF Dies, site
<1> QED
  BY <1>1, <1>2, <1>3, <1>4, <1>5, <1>6, <1>7, <1>8, <1>9, <1>10, <1>11
     DEF Ending

\* A step with which an install returns or goes on rolls nothing back.
LEMMA OwnedAtTheEnd ==
    ASSUME TypeOK, RolledBackIsOwnedOrAbsent, NEW p \in Procs, Ending(p)
    PROVE  RolledBackIsOwnedOrAbsent'
<1>1. UNCHANGED <<info, files>> /\ (Returned(p) \/ GoesOn(p))
  BY EndsOrGoesOn
<1>2. CASE Returned(p)
  <2>1. /\ pc'[p] # "markBroken"
        /\ \A q \in Procs : q # p => pc'[q] = pc[q] /\ inventory'[q] = inventory[q]
    BY <1>2 DEF Returned
  <2> QED
    BY <1>1, <2>1, OwnedFrame
<1>3. CASE GoesOn(p)
  <2>1. PICK s \in Steps \ {"markBroken"} : pc' = [pc EXCEPT ![p] = s]
    BY <1>3 DEF GoesOn, Go
  <2>2. pc'[p] # "markBroken" /\ \A q \in Procs : q # p => pc'[q] = pc[q]
    BY <2>1 DEF TypeOK
  <2>3. \A q \in Procs : q # p => inventory'[q] = inventory[q]
    BY <1>3 DEF GoesOn, TypeOK
  <2> QED
    BY <1>1, <2>2, <2>3, OwnedFrame
<1> QED
  BY <1>1, <1>2, <1>3

\* Nor does it keep a grant it no longer needs.
LEMMA FreshAtTheEnd ==
    ASSUME TypeOK, GrantsAreFresh, NEW p \in Procs, Ending(p)
    PROVE  GrantsAreFresh'
<1>1. Returned(p) \/ GoesOn(p)
  BY EndsOrGoesOn
<1>2. \A q \in granted : q \in Procs /\ pc[q] \in Busy
  BY DEF TypeOK, GrantsAreFresh, Busy
<1>3. CASE Returned(p)
  <2>1. \A q \in granted' : q \in granted /\ q # p /\ pc'[q] = pc[q]
    BY <1>2, <1>3 DEF Returned
  <2> QED
    BY <1>2, <2>1 DEF GrantsAreFresh, Busy
<1>4. CASE GoesOn(p)
  <2>1. PICK s \in Steps : /\ pc' = [pc EXCEPT ![p] = s]
                           /\ pc[p] \in Busy => s \in Busy
    BY <1>4 DEF GoesOn, Go
  <2>2. granted' = granted
    BY <1>4 DEF GoesOn
  <2>3. \A q \in granted : pc'[q] \in Busy
    BY <1>2, <2>1 DEF TypeOK
  <2> QED
    BY <2>2, <2>3 DEF GrantsAreFresh, Busy
<1> QED
  BY <1>1, <1>3, <1>4

\* The state file, as it is written.
LEMMA MarkStateType ==
    ASSUME TypeOK, NEW b \in Bundles,
           NEW s \in {"none", "repairing", "broken"}, NEW r \in 0..MaxDigest,
           r # 0 => s = "broken", MarkState(b, s, r)
    PROVE  /\ state' \in [Bundles -> {"none", "repairing", "broken"}]
           /\ refusal' \in [Bundles -> 0..MaxDigest]
           /\ \A c \in Bundles : refusal'[c] # 0 => state'[c] = "broken"
           /\ sentinel' \in [Bundles -> {"none", "young", "old"}]
<1>1. /\ state' = [state EXCEPT ![b] = s]
      /\ refusal' = [refusal EXCEPT ![b] = r]
      /\ \/ sentinel' = [sentinel EXCEPT ![b] = "none"]
         \/ sentinel' = [sentinel EXCEPT ![b] = "young"]
         \/ sentinel' = sentinel
  BY DEF MarkState
<1>2. /\ state \in [Bundles -> {"none", "repairing", "broken"}]
      /\ refusal \in [Bundles -> 0..MaxDigest]
      /\ \A c \in Bundles : refusal[c] # 0 => state[c] = "broken"
      /\ sentinel \in [Bundles -> {"none", "young", "old"}]
  BY DEF TypeOK
<1>3. /\ state' \in [Bundles -> {"none", "repairing", "broken"}]
      /\ refusal' \in [Bundles -> 0..MaxDigest]
  BY <1>1, <1>2
<1>4. sentinel' \in [Bundles -> {"none", "young", "old"}]
  BY <1>1, <1>2
<1>5. \A c \in Bundles : refusal'[c] # 0 => state'[c] = "broken"
  BY <1>1, <1>2
<1> QED
  BY <1>3, <1>4, <1>5

LEMMA TroublesType ==
    ASSUME TypeOK, UNCHANGED troubles \/ Trouble
    PROVE  troubles' \in 0..MaxTroubles
  BY RepairAssumption DEF TypeOK, Trouble

\* Either end of a replay.
LEMMA FailPostVerifyType ==
    ASSUME TypeOK, NEW p \in Procs, FailPostVerify(p),
           UNCHANGED troubles \/ Trouble,
           UNCHANGED <<digest, log, site, bundle>>
    PROVE  TypeOK'
<1>1. Returned(p)
  BY Fails DEF FailPostVerify
<1>2. Mine(p) \in Bundles /\ 0 \in 0..MaxDigest
  BY RepairAssumption DEF TypeOK, Mine
<1>3. MarkState(Mine(p), "broken", 0)
  BY DEF FailPostVerify
<1>4. /\ state' \in [Bundles -> {"none", "repairing", "broken"}]
      /\ refusal' \in [Bundles -> 0..MaxDigest]
      /\ \A c \in Bundles : refusal'[c] # 0 => state'[c] = "broken"
      /\ sentinel' \in [Bundles -> {"none", "young", "old"}]
  BY <1>2, <1>3, MarkStateType
<1>5. troubles' \in 0..MaxTroubles
  BY TroublesType
<1>6. UNCHANGED <<marker, audited, guarded, history>>
  BY DEF FailPostVerify
<1>7. granted' \subseteq Procs
  BY <1>1 DEF Returned, TypeOK
<1> QED
  BY <1>1, <1>4, <1>5, <1>6, <1>7 DEF TypeOK, Returned, log, site, history

\* Types.
LEMMA TypeStep ==
    ASSUME Inv, [Next]_vars PROVE TypeOK'
<1> USE RepairAssumption DEF Inv, TypeOK, Mine, Digests, Versions, Foreign,
        Steps
<1>1. ASSUME NEW p \in Procs, Activate(p) PROVE TypeOK'
  BY <1>1 DEF Activate, Go, Healthy, Verified, Missing, trust, log, site,
     locks, uv, history
<1>2. ASSUME NEW p \in Procs, ReadRefusal(p) PROVE TypeOK'
  <2>1. CASE Fail(p) \/ Succeed(p)
    <3>1. Returned(p)
      BY <2>1, Fails, Succeeds
    <3> QED
      BY <1>2, <3>1 DEF ReadRefusal, Go, trust, log, site, locks, call, uv,
         history, Returned
  <2>2. CASE ~Fail(p) /\ ~Succeed(p)
    BY <1>2, <2>2 DEF ReadRefusal, Go, trust, log, site, locks, call, uv,
       history
  <2> QED
    BY <2>1, <2>2
<1>3. ASSUME NEW p \in Procs, ClearRefusal(p) PROVE TypeOK'
  BY <1>3 DEF ClearRefusal, Go, MarkState, log, site, locks, call, uv,
     history
<1>4. ASSUME NEW p \in Procs, ReadState(p) PROVE TypeOK'
  BY <1>4 DEF ReadState, Go, trust, log, site, locks, uv, history
<1>5. ASSUME NEW p \in Procs, FastPath(p) PROVE TypeOK'
  <2>1. CASE Fail(p) \/ Succeed(p)
    <3>1. Returned(p)
      BY <2>1, Fails, Succeeds
    <3> QED
      BY <1>5, <3>1 DEF FastPath, Go, Current, Sound, Verified, Missing, trust,
         log, site, locks, call, uv, history, Returned
  <2>2. CASE ~Fail(p) /\ ~Succeed(p)
    BY <1>5, <2>2 DEF FastPath, Go, Current, Sound, Verified, Missing, trust,
       log, site, locks, call, uv, history
  <2> QED
    BY <2>1, <2>2
<1>6. ASSUME NEW p \in Procs, TakeInstallLock(p) PROVE TypeOK'
  BY <1>6 DEF TakeInstallLock, Go, trust, log, site, call, uv, history
<1>7. ASSUME NEW p \in Procs, KeepPayload(p) PROVE TypeOK'
  <2>1. CASE Fail(p) \/ Succeed(p)
    <3>1. Returned(p)
      BY <2>1, Fails, Succeeds
    <3>2. audited' \subseteq Bundles
      BY <1>7, <2>1 DEF KeepPayload, Verified, Missing, Go, Trouble, Current,
           log, site, history
    <3>3. sentinel' \in [Bundles -> {"none", "young", "old"}]
      BY <1>7, <2>1 DEF KeepPayload, Verified, Missing, Go, Trouble, Current,
           log, site, history
    <3>4. troubles' \in 0..MaxTroubles
      BY <1>7, <2>1 DEF KeepPayload, Verified, Missing, Go, Trouble, Current,
           log, site, history
    <3> QED
      BY <1>7, <3>1, <3>2, <3>3, <3>4 DEF KeepPayload, Verified, Missing, Go,
         Trouble, Current, log, site, history, Returned
  <2>2. CASE ~Fail(p) /\ ~Succeed(p)
    BY <1>7, <2>2 DEF KeepPayload, Verified, Missing, Go, Trouble, Current,
       log, site, history
  <2> QED
    BY <2>1, <2>2
<1>8. ASSUME NEW p \in Procs, Refuse(p) PROVE TypeOK'
  BY <1>8 DEF Refuse, Verified, Missing, MarkState, Fail, Go, Release,
     Current, Refused, Diverges, log, site, history
<1>9. ASSUME NEW p \in Procs, Grant(p) PROVE TypeOK'
  BY <1>9 DEF Grant, Go, Missing, Verified, Current, Refused, Diverges,
     trust, site, locks, uv
<1>10. ASSUME NEW p \in Procs, Replay(p) PROVE TypeOK'
  BY <1>10 DEF Replay, Go, Current, trust, log, site, locks, call, uv,
     history
<1>11. ASSUME NEW p \in Procs, Prepare(p) PROVE TypeOK'
  <2>1. CASE Fail(p) \/ Succeed(p)
    <3>1. Returned(p)
      BY <2>1, Fails, Succeeds
    <3> QED
      BY <1>11, <3>1 DEF Prepare, Go, Trouble, trust, log, locks, uv, history,
         Returned
  <2>2. CASE ~Fail(p) /\ ~Succeed(p)
    <3>1. [d \in Dists |-> IF d \in Locked[Mine(p)] THEN info[d] ELSE 0]
            \in [Dists -> Versions]
      OBVIOUS
    <3>2. inventory' \in [Procs -> [Dists -> Versions]]
      BY <1>11, <2>2, <3>1 DEF Prepare
    <3>3. bytecode' \subseteq Dists
      <4>1. bytecode' = {d \in bytecode : inventory'[p][d] = 0}
        <5> HIDE DEF Inv, TypeOK, Mine, Digests, Versions, Foreign, Steps
        <5> QED
          BY <1>11, <2>2 DEF Prepare
      <4>2. bytecode \subseteq Dists
        OBVIOUS
      <4> QED
        BY <4>1, <4>2, Zenon
    <3>4. /\ pc' = [pc EXCEPT ![p] = "uvLock"]
          /\ UNCHANGED <<digest, trust, log, info, files, locks, bundle, guarded,
                         want, distrusted, granted, uv, history, troubles>>
      <4> HIDE DEF Inv, TypeOK, Mine, Digests, Versions, Foreign, Steps
      <4> QED
        BY <1>11, <2>2 DEF Prepare, Go
    <3>5. pc' \in [Procs -> Steps]
      <4>1. pc \in [Procs -> Steps] /\ "uvLock" \in Steps
        OBVIOUS
      <4> HIDE DEF Inv, TypeOK, Steps
      <4> QED
        BY <3>4, <4>1
    <3> QED
      BY <3>2, <3>3, <3>4, <3>5 DEF trust, log, locks, uv, history
  <2> QED
    BY <2>1, <2>2
<1>12. ASSUME NEW p \in Procs, BeginAttempt(p) PROVE TypeOK'
  <2>1. attempts[Mine(p)] \in 0..MaxAttempts
    OBVIOUS
  <2>2. attempts[Mine(p)] # MaxAttempts
           => attempts[Mine(p)] + 1 \in 0..MaxAttempts
    BY <2>1, Below
  <2>3. attempts' \in [Bundles -> 0..MaxAttempts]
    BY <1>12, <2>2 DEF BeginAttempt
  <2> QED
    BY <1>12, <2>3 DEF BeginAttempt, Go, trust, site, call, uv, history
<1>13. ASSUME NEW p \in Procs, MarkRepairing(p) PROVE TypeOK'
  BY <1>13 DEF MarkRepairing, Go, MarkState, log, site, locks, call, uv,
     history
<1>14. ASSUME NEW p \in Procs, StartUv(p) PROVE TypeOK'
  <2>1. CASE Fail(p) \/ Succeed(p)
    <3>1. Returned(p)
      BY <2>1, Fails, Succeeds
    <3> QED
      BY <1>14, <3>1 DEF StartUv, Go, Trouble, trust, log, site, locks, call,
         uv, Returned
  <2>2. CASE ~Fail(p) /\ ~Succeed(p)
    <3>1. Locked[Mine(p)] \in SUBSET Dists
      OBVIOUS
    <3>2. doomed' \in [Procs -> SUBSET Dists]
      <4>1. {d \in Locked[Mine(p)] : info[d] # 0} \in SUBSET Dists
        BY <3>1
      <4> QED
        BY <1>14, <2>2, <4>1 DEF StartUv
    <3>3. wanted' \in [Procs -> SUBSET Dists]
      BY <1>14, <2>2, <3>1 DEF StartUv
    <3>4. open' \subseteq Bundles
      <4>1. Mine(p) \in Bundles
        OBVIOUS
      <4>2. open' = open \cup {Mine(p)}
        BY <1>14, <2>2 DEF StartUv
      <4>3. open \subseteq Bundles
        OBVIOUS
      <4> QED
        BY <4>1, <4>2, <4>3, Zenon
    <3>5. pc' \in [Procs -> Steps]
      <4>1. pc' = [pc EXCEPT ![p] = "uv"]
        BY <1>14, <2>2 DEF StartUv, Go
      <4>2. pc \in [Procs -> Steps] /\ "uv" \in Steps
        OBVIOUS
      <4> HIDE DEF TypeOK, Inv, Steps
      <4> QED
        BY <4>1, <4>2
    <3>6. UNCHANGED <<digest, trust, log, site, locks, call, bundle, aborts,
                      settled, troubles>>
      BY <1>14, <2>2 DEF StartUv
    <3> QED
      BY <3>2, <3>3, <3>4, <3>5, <3>6 DEF trust, log, site, locks, call
  <2> QED
    BY <2>1, <2>2
<1>15. ASSUME NEW p \in Procs, UvExits(p) PROVE TypeOK'
  BY <1>15 DEF UvExits, Go, Installing, uv, trust, log, site, locks, call,
     history
<1>16. ASSUME NEW p \in Procs, UvFails(p) PROVE TypeOK'
  BY <1>16 DEF UvFails, Go, Trouble, trust, log, site, locks, call, uv,
     history
<1>17. ASSUME NEW p \in Procs, RollBack(p) PROVE TypeOK'
  BY <1>17 DEF RollBack, Go, Orphans, trust, log, locks, call, uv, history
<1>18. ASSUME NEW p \in Procs, MarkBroken(p) PROVE TypeOK'
  BY <1>18 DEF MarkBroken, MarkState, Fail, Go, Release, log, site, history
<1>19. ASSUME NEW p \in Procs, Check(p) PROVE TypeOK'
  <2>1. \/ FailPostVerify(p) /\ (UNCHANGED troubles \/ Trouble)
           /\ UNCHANGED <<digest, log, site, bundle>>
        \/ /\ open' = open \ {Mine(p)} /\ pc' = [pc EXCEPT ![p] = "certify"]
           /\ UNCHANGED <<digest, trust, log, site, locks, bundle, call, uv,
                          settled, troubles>>
    <3> HIDE DEF Inv, TypeOK, Mine, Digests, Versions, Foreign, Steps
    <3> QED
      BY <1>19 DEF Check, Go
  <2>2. CASE FailPostVerify(p) /\ (UNCHANGED troubles \/ Trouble)
             /\ UNCHANGED <<digest, log, site, bundle>>
    <3>1. TypeOK
      BY DEF Inv
    <3> HIDE DEF Inv, TypeOK, Mine, Digests, Versions, Foreign, Steps
    <3> QED
      BY <2>2, <3>1, FailPostVerifyType
  <2>3. CASE /\ open' = open \ {Mine(p)} /\ pc' = [pc EXCEPT ![p] = "certify"]
             /\ UNCHANGED <<digest, trust, log, site, locks, bundle, call, uv,
                            settled, troubles>>
    <3>1. open' \subseteq Bundles /\ pc' \in [Procs -> Steps]
      <4>1. /\ open \subseteq Bundles /\ pc \in [Procs -> Steps]
            /\ "certify" \in Steps
        OBVIOUS
      <4> HIDE DEF Inv, TypeOK, Mine, Digests, Versions, Foreign, Steps
      <4> QED
        BY <2>3, <4>1
    <3> QED
      BY <2>3, <3>1 DEF trust, log, site, locks, call, uv
  <2> QED
    BY <2>1, <2>2, <2>3, Zenon
<1>20. ASSUME NEW p \in Procs, Certify(p) PROVE TypeOK'
  <2> DEFINE Certifies ==
               /\ audited' = audited \cup {Mine(p)}
               /\ settled' = settled \cup {Mine(p)}
               /\ pc' = [pc EXCEPT ![p] = "clean"]
               /\ marker' = [marker EXCEPT ![Mine(p)] = want[p]]
               /\ UNCHANGED <<digest, state, refusal, sentinel, log, site,
                              locks, bundle, call, uv, open, troubles>>
  <2>1. \/ FailPostVerify(p) /\ Trouble /\ UNCHANGED <<digest, log, site, bundle>>
        \/ Certifies
    <3> HIDE DEF Inv, TypeOK, Mine, Digests, Versions, Foreign, Steps
    <3> QED
      BY <1>20 DEF Certify, Go
  <2>2. CASE FailPostVerify(p) /\ Trouble /\ UNCHANGED <<digest, log, site, bundle>>
    <3>1. TypeOK
      BY DEF Inv
    <3> HIDE DEF Inv, TypeOK, Mine, Digests, Versions, Foreign, Steps, Certifies
    <3> QED
      BY <2>2, <3>1, FailPostVerifyType
  <2>3. CASE Certifies
    <3>1. audited' \subseteq Bundles /\ settled' \subseteq Bundles
      <4>1. Mine(p) \in Bundles /\ audited \subseteq Bundles
            /\ settled \subseteq Bundles
        OBVIOUS
      <4> QED
        BY <2>3, <4>1, Zenon
    <3>2. marker' \in [Bundles -> 0..MaxDigest] /\ pc' \in [Procs -> Steps]
      <4>1. pc \in [Procs -> Steps] /\ "clean" \in Steps
        OBVIOUS
      <4>2. want[p] \in 0..MaxDigest /\ marker \in [Bundles -> 0..MaxDigest]
        OBVIOUS
      <4> HIDE DEF TypeOK, Inv, Steps
      <4> QED
        BY <2>3, <4>1, <4>2
    <3> QED
      BY <2>3, <3>1, <3>2 DEF log, site, locks, call, uv
  <2> HIDE DEF Inv, TypeOK, Certifies
  <2> QED
    BY <2>1, <2>2, <2>3, Zenon
<1>21. ASSUME NEW p \in Procs, Clean(p) PROVE TypeOK'
  BY <1>21 DEF Clean, MarkState, Succeed, Go, Release, log, site, history
<1>22. ASSUME NEW p \in Procs, GuardEnds(p) PROVE TypeOK'
  BY <1>22 DEF GuardEnds, Go, log, site, locks, uv, history
<1>23. ASSUME NEW p \in Procs, Dies(p) PROVE TypeOK'
  <2>1. CASE Fail(p) \/ Succeed(p)
    <3>1. Returned(p)
      BY <2>1, Fails, Succeeds
    <3>2. guarded' \subseteq Procs
      BY <1>23, <2>1 DEF Dies, Go, Trouble, trust, log, site, history
    <3>3. troubles' \in 0..MaxTroubles
      BY <1>23, <2>1 DEF Dies, Go, Trouble, trust, log, site, history
    <3> QED
      BY <1>23, <3>1, <3>2, <3>3 DEF Dies, Go, Trouble, trust, log, site,
         history, Returned
  <2>2. CASE ~Fail(p) /\ ~Succeed(p)
    <3>1. Returned(p)
      BY <1>23, <2>2, Returns DEF Dies
    <3>2. guarded' \subseteq Procs
      BY <1>23, <2>2 DEF Dies, Go, Trouble, trust, log, site, history
    <3>3. troubles' \in 0..MaxTroubles
      BY <1>23, <2>2 DEF Dies, Go, Trouble, trust, log, site, history
    <3> QED
      BY <1>23, <3>1, <3>2, <3>3 DEF Dies, Go, Trouble, trust, log, site,
         history, Returned
  <2> QED
    BY <2>1, <2>2
<1>24. ASSUME NEW p \in Procs, NEW d \in Dists, UvTear(p, d)
      PROVE TypeOK'
  BY <1>24 DEF UvTear, trust, log, locks, call, uv, history
<1>25. ASSUME NEW p \in Procs, NEW d \in Dists, UvDrop(p, d)
      PROVE TypeOK'
  BY <1>25 DEF UvDrop, trust, log, locks, call, uv, history
<1>26. ASSUME NEW p \in Procs, NEW d \in Dists, UvUnpack(p, d)
      PROVE TypeOK'
  BY <1>26 DEF UvUnpack, Installing, uv, trust, log, locks, call, history
<1>27. ASSUME NEW p \in Procs, NEW d \in Dists, UvInstall(p, d)
      PROVE TypeOK'
  BY <1>27 DEF UvInstall, Installing, uv, trust, log, locks, call, history
<1>28. ASSUME NEW b \in Bundles, LockChanges(b) PROVE TypeOK'
  BY <1>28 DEF LockChanges, Trouble, trust, log, site, locks, call, uv,
     history
<1>29. ASSUME NEW b \in Bundles, AuditLapses(b) PROVE TypeOK'
  BY <1>29 DEF AuditLapses, Trouble, log, site, locks, call, uv, history
<1>30. ASSUME NEW b \in Bundles, SentinelAges(b) PROVE TypeOK'
  BY <1>30 DEF SentinelAges, log, site, locks, call, uv, history
<1>31. ASSUME NEW d \in Dists, Overwritten(d) PROVE TypeOK'
  BY <1>31 DEF Overwritten, Trouble, trust, log, locks, call, uv, history
<1>32. ASSUME NEW d \in Dists, Import(d) PROVE TypeOK'
  BY <1>32 DEF Import, Trouble, trust, log, locks, call, uv, history
<1>33. CASE Wiped
  BY <1>33 DEF Wiped, Trouble, trust, log, locks, call, uv, history
<1>34. CASE UNCHANGED vars
  BY <1>34 DEF vars, trust, log, site, locks, call, uv, history
<1> QED
  BY <1>1, <1>2, <1>3, <1>4, <1>5, <1>6, <1>7, <1>8, <1>9, <1>10, <1>11,
     <1>12, <1>13, <1>14, <1>15, <1>16, <1>17, <1>18, <1>19, <1>20, <1>21,
     <1>22, <1>23, <1>24, <1>25, <1>26, <1>27, <1>28, <1>29, <1>30, <1>31,
     <1>32, <1>33, <1>34 DEF Next, Step, UvStep, Rest

\* A lock is taken when it is free and dropped by its holder.
LEMMA InstallStep ==
    ASSUME Inv, [Next]_vars PROVE InstallLockIsHeld'
<1> USE RepairAssumption DEF Inv, TypeOK, Mine, InstallLockIsHeld, Deciding,
        Replaying, Steps
<1>1. ASSUME NEW p \in Procs, Activate(p) PROVE InstallLockIsHeld'
  BY <1>1 DEF Activate, Go, Healthy, Verified, Missing, trust, log, site,
     locks, uv, history
<1>2. ASSUME NEW p \in Procs, ReadRefusal(p) PROVE InstallLockIsHeld'
  BY <1>2 DEF ReadRefusal, Go, Fail, Release, trust, log, site, locks, call,
     uv, history
<1>3. ASSUME NEW p \in Procs, ClearRefusal(p) PROVE InstallLockIsHeld'
  BY <1>3 DEF ClearRefusal, Go, MarkState, log, site, locks, call, uv,
     history
<1>4. ASSUME NEW p \in Procs, ReadState(p) PROVE InstallLockIsHeld'
  BY <1>4 DEF ReadState, Go, trust, log, site, locks, uv, history
<1>5. ASSUME NEW p \in Procs, FastPath(p) PROVE InstallLockIsHeld'
  BY <1>5 DEF FastPath, Go, Succeed, Release, Current, Sound, Verified,
     Missing, trust, log, site, locks, call, uv, history
<1>6. ASSUME NEW p \in Procs, TakeInstallLock(p) PROVE InstallLockIsHeld'
  BY <1>6 DEF TakeInstallLock, Go, trust, log, site, call, uv, history
<1>7. ASSUME NEW p \in Procs, KeepPayload(p) PROVE InstallLockIsHeld'
  <2>1. Fail(p) \/ Succeed(p)
    BY <1>7, Zenon DEF KeepPayload
  <2>2. Returned(p) /\ UNCHANGED bundle
    <3> HIDE DEF Inv, TypeOK, InstallLockIsHeld, Steps
    <3>1. TypeOK
      BY DEF Inv
    <3> QED
      BY <1>7, <2>1, <3>1, Fails, Succeeds DEF KeepPayload
  <2> QED
    BY <2>2 DEF Returned
<1>8. ASSUME NEW p \in Procs, Refuse(p) PROVE InstallLockIsHeld'
  BY <1>8 DEF Refuse, Verified, Missing, MarkState, Fail, Go, Release,
     Current, Refused, Diverges, log, site, history
<1>9. ASSUME NEW p \in Procs, Grant(p) PROVE InstallLockIsHeld'
  BY <1>9 DEF Grant, Go, Missing, Verified, Current, Refused, Diverges,
     trust, site, locks, uv
<1>10. ASSUME NEW p \in Procs, Replay(p) PROVE InstallLockIsHeld'
  BY <1>10 DEF Replay, Go, Current, trust, log, site, locks, call, uv,
     history
<1>11. ASSUME NEW p \in Procs, Prepare(p) PROVE InstallLockIsHeld'
  BY <1>11 DEF Prepare, Go, Fail, Release, Trouble, trust, log, locks, uv,
     history
<1>12. ASSUME NEW p \in Procs, BeginAttempt(p) PROVE InstallLockIsHeld'
  BY <1>12 DEF BeginAttempt, Go, trust, site, call, uv, history
<1>13. ASSUME NEW p \in Procs, MarkRepairing(p) PROVE InstallLockIsHeld'
  BY <1>13 DEF MarkRepairing, Go, MarkState, log, site, locks, call, uv,
     history
<1>14. ASSUME NEW p \in Procs, StartUv(p) PROVE InstallLockIsHeld'
  BY <1>14 DEF StartUv, Go, Fail, Release, Trouble, trust, log, site, locks,
     call, uv
<1>15. ASSUME NEW p \in Procs, UvExits(p) PROVE InstallLockIsHeld'
  BY <1>15 DEF UvExits, Go, Installing, uv, trust, log, site, locks, call,
     history
<1>16. ASSUME NEW p \in Procs, UvFails(p) PROVE InstallLockIsHeld'
  BY <1>16 DEF UvFails, Go, Trouble, trust, log, site, locks, call, uv,
     history
<1>17. ASSUME NEW p \in Procs, RollBack(p) PROVE InstallLockIsHeld'
  BY <1>17 DEF RollBack, Go, Orphans, trust, log, locks, call, uv, history
<1>18. ASSUME NEW p \in Procs, MarkBroken(p) PROVE InstallLockIsHeld'
  BY <1>18 DEF MarkBroken, MarkState, Fail, Go, Release, log, site, history
<1>19. ASSUME NEW p \in Procs, Check(p) PROVE InstallLockIsHeld'
  BY <1>19 DEF Check, Go, Verified, Missing, Trouble, FailPostVerify,
     MarkState, Fail, Release, history, trust, log, site, locks, call, uv
<1>20. ASSUME NEW p \in Procs, Certify(p) PROVE InstallLockIsHeld'
  BY <1>20 DEF Certify, Go, Trouble, FailPostVerify, MarkState, Fail,
     Release, history, log, site, locks, call, uv
<1>21. ASSUME NEW p \in Procs, Clean(p) PROVE InstallLockIsHeld'
  BY <1>21 DEF Clean, MarkState, Succeed, Go, Release, log, site, history
<1>22. ASSUME NEW p \in Procs, GuardEnds(p) PROVE InstallLockIsHeld'
  BY <1>22 DEF GuardEnds, Go, log, site, locks, uv, history
<1>23. ASSUME NEW p \in Procs, Dies(p) PROVE InstallLockIsHeld'
  BY <1>23 DEF Dies, Go, Release, Fail, Trouble, trust, log, site, history
<1>24. ASSUME NEW p \in Procs, NEW d \in Dists, UvTear(p, d)
      PROVE InstallLockIsHeld'
  BY <1>24 DEF UvTear, trust, log, locks, call, uv, history
<1>25. ASSUME NEW p \in Procs, NEW d \in Dists, UvDrop(p, d)
      PROVE InstallLockIsHeld'
  BY <1>25 DEF UvDrop, trust, log, locks, call, uv, history
<1>26. ASSUME NEW p \in Procs, NEW d \in Dists, UvUnpack(p, d)
      PROVE InstallLockIsHeld'
  BY <1>26 DEF UvUnpack, Installing, uv, trust, log, locks, call, history
<1>27. ASSUME NEW p \in Procs, NEW d \in Dists, UvInstall(p, d)
      PROVE InstallLockIsHeld'
  BY <1>27 DEF UvInstall, Installing, uv, trust, log, locks, call, history
<1>28. ASSUME NEW b \in Bundles, LockChanges(b) PROVE InstallLockIsHeld'
  BY <1>28 DEF LockChanges, Trouble, trust, log, site, locks, call, uv,
     history
<1>29. ASSUME NEW b \in Bundles, AuditLapses(b) PROVE InstallLockIsHeld'
  BY <1>29 DEF AuditLapses, Trouble, log, site, locks, call, uv, history
<1>30. ASSUME NEW b \in Bundles, SentinelAges(b) PROVE InstallLockIsHeld'
  BY <1>30 DEF SentinelAges, log, site, locks, call, uv, history
<1>31. ASSUME NEW d \in Dists, Overwritten(d) PROVE InstallLockIsHeld'
  BY <1>31 DEF Overwritten, Trouble, trust, log, locks, call, uv, history
<1>32. ASSUME NEW d \in Dists, Import(d) PROVE InstallLockIsHeld'
  BY <1>32 DEF Import, Trouble, trust, log, locks, call, uv, history
<1>33. CASE Wiped
  BY <1>33 DEF Wiped, Trouble, trust, log, locks, call, uv, history
<1>34. CASE UNCHANGED vars
  BY <1>34 DEF vars, trust, log, site, locks, call, uv, history
<1> QED
  BY <1>1, <1>2, <1>3, <1>4, <1>5, <1>6, <1>7, <1>8, <1>9, <1>10, <1>11,
     <1>12, <1>13, <1>14, <1>15, <1>16, <1>17, <1>18, <1>19, <1>20, <1>21,
     <1>22, <1>23, <1>24, <1>25, <1>26, <1>27, <1>28, <1>29, <1>30, <1>31,
     <1>32, <1>33, <1>34 DEF Next, Step, UvStep, Rest

\* So is that of the environment.
LEMMA UvLockStep ==
    ASSUME Inv, [Next]_vars PROVE UvLockIsHeld'
<1> USE RepairAssumption DEF Inv, TypeOK, Mine, UvLockIsHeld, Replaying,
        Steps
<1>1. ASSUME NEW p \in Procs, Activate(p) PROVE UvLockIsHeld'
  BY <1>1 DEF Activate, Go, Healthy, Verified, Missing, trust, log, site,
     locks, uv, history
<1>2. ASSUME NEW p \in Procs, ReadRefusal(p) PROVE UvLockIsHeld'
  BY <1>2 DEF ReadRefusal, Go, Fail, Release, trust, log, site, locks, call,
     uv, history
<1>3. ASSUME NEW p \in Procs, ClearRefusal(p) PROVE UvLockIsHeld'
  BY <1>3 DEF ClearRefusal, Go, MarkState, log, site, locks, call, uv,
     history
<1>4. ASSUME NEW p \in Procs, ReadState(p) PROVE UvLockIsHeld'
  BY <1>4 DEF ReadState, Go, trust, log, site, locks, uv, history
<1>5. ASSUME NEW p \in Procs, FastPath(p) PROVE UvLockIsHeld'
  BY <1>5 DEF FastPath, Go, Succeed, Release, Current, Sound, Verified,
     Missing, trust, log, site, locks, call, uv, history
<1>6. ASSUME NEW p \in Procs, TakeInstallLock(p) PROVE UvLockIsHeld'
  BY <1>6 DEF TakeInstallLock, Go, trust, log, site, call, uv, history
<1>7. ASSUME NEW p \in Procs, KeepPayload(p) PROVE UvLockIsHeld'
  BY <1>7 DEF KeepPayload, Verified, Missing, Succeed, Go, Release, Fail,
     Trouble, Current, log, site, history
<1>8. ASSUME NEW p \in Procs, Refuse(p) PROVE UvLockIsHeld'
  BY <1>8 DEF Refuse, Verified, Missing, MarkState, Fail, Go, Release,
     Current, Refused, Diverges, log, site, history
<1>9. ASSUME NEW p \in Procs, Grant(p) PROVE UvLockIsHeld'
  BY <1>9 DEF Grant, Go, Missing, Verified, Current, Refused, Diverges,
     trust, site, locks, uv
<1>10. ASSUME NEW p \in Procs, Replay(p) PROVE UvLockIsHeld'
  BY <1>10 DEF Replay, Go, Current, trust, log, site, locks, call, uv,
     history
<1>11. ASSUME NEW p \in Procs, Prepare(p) PROVE UvLockIsHeld'
  BY <1>11 DEF Prepare, Go, Fail, Release, Trouble, trust, log, locks, uv,
     history
<1>12. ASSUME NEW p \in Procs, BeginAttempt(p) PROVE UvLockIsHeld'
  BY <1>12 DEF BeginAttempt, Go, trust, site, call, uv, history
<1>13. ASSUME NEW p \in Procs, MarkRepairing(p) PROVE UvLockIsHeld'
  BY <1>13 DEF MarkRepairing, Go, MarkState, log, site, locks, call, uv,
     history
<1>14. ASSUME NEW p \in Procs, StartUv(p) PROVE UvLockIsHeld'
  BY <1>14 DEF StartUv, Go, Fail, Release, Trouble, trust, log, site, locks,
     call, uv
<1>15. ASSUME NEW p \in Procs, UvExits(p) PROVE UvLockIsHeld'
  BY <1>15 DEF UvExits, Go, Installing, uv, trust, log, site, locks, call,
     history
<1>16. ASSUME NEW p \in Procs, UvFails(p) PROVE UvLockIsHeld'
  BY <1>16 DEF UvFails, Go, Trouble, trust, log, site, locks, call, uv,
     history
<1>17. ASSUME NEW p \in Procs, RollBack(p) PROVE UvLockIsHeld'
  BY <1>17 DEF RollBack, Go, Orphans, trust, log, locks, call, uv, history
<1>18. ASSUME NEW p \in Procs, MarkBroken(p) PROVE UvLockIsHeld'
  BY <1>18 DEF MarkBroken, MarkState, Fail, Go, Release, log, site, history
<1>19. ASSUME NEW p \in Procs, Check(p) PROVE UvLockIsHeld'
  BY <1>19 DEF Check, Go, Verified, Missing, Trouble, FailPostVerify,
     MarkState, Fail, Release, history, trust, log, site, locks, call, uv
<1>20. ASSUME NEW p \in Procs, Certify(p) PROVE UvLockIsHeld'
  BY <1>20 DEF Certify, Go, Trouble, FailPostVerify, MarkState, Fail,
     Release, history, log, site, locks, call, uv
<1>21. ASSUME NEW p \in Procs, Clean(p) PROVE UvLockIsHeld'
  BY <1>21 DEF Clean, MarkState, Succeed, Go, Release, log, site, history
<1>22. ASSUME NEW p \in Procs, GuardEnds(p) PROVE UvLockIsHeld'
  BY <1>22 DEF GuardEnds, Go, log, site, locks, uv, history
<1>23. ASSUME NEW p \in Procs, Dies(p) PROVE UvLockIsHeld'
  <2>1. CASE Fail(p) \/ Succeed(p)
    <3>1. Returned(p)
      BY <2>1, Fails, Succeeds
    <3> QED
      BY <1>23, <3>1 DEF Dies, Go, Trouble, trust, log, site, history, Returned
  <2>2. CASE ~Fail(p) /\ ~Succeed(p)
    <3>1. Returned(p)
      BY <1>23, <2>2, Returns DEF Dies
    <3> QED
      BY <1>23, <3>1 DEF Dies, Go, Trouble, trust, log, site, history, Returned
  <2> QED
    BY <2>1, <2>2
<1>24. ASSUME NEW p \in Procs, NEW d \in Dists, UvTear(p, d)
      PROVE UvLockIsHeld'
  BY <1>24 DEF UvTear, trust, log, locks, call, uv, history
<1>25. ASSUME NEW p \in Procs, NEW d \in Dists, UvDrop(p, d)
      PROVE UvLockIsHeld'
  BY <1>25 DEF UvDrop, trust, log, locks, call, uv, history
<1>26. ASSUME NEW p \in Procs, NEW d \in Dists, UvUnpack(p, d)
      PROVE UvLockIsHeld'
  BY <1>26 DEF UvUnpack, Installing, uv, trust, log, locks, call, history
<1>27. ASSUME NEW p \in Procs, NEW d \in Dists, UvInstall(p, d)
      PROVE UvLockIsHeld'
  BY <1>27 DEF UvInstall, Installing, uv, trust, log, locks, call, history
<1>28. ASSUME NEW b \in Bundles, LockChanges(b) PROVE UvLockIsHeld'
  BY <1>28 DEF LockChanges, Trouble, trust, log, site, locks, call, uv,
     history
<1>29. ASSUME NEW b \in Bundles, AuditLapses(b) PROVE UvLockIsHeld'
  BY <1>29 DEF AuditLapses, Trouble, log, site, locks, call, uv, history
<1>30. ASSUME NEW b \in Bundles, SentinelAges(b) PROVE UvLockIsHeld'
  BY <1>30 DEF SentinelAges, log, site, locks, call, uv, history
<1>31. ASSUME NEW d \in Dists, Overwritten(d) PROVE UvLockIsHeld'
  BY <1>31 DEF Overwritten, Trouble, trust, log, locks, call, uv, history
<1>32. ASSUME NEW d \in Dists, Import(d) PROVE UvLockIsHeld'
  BY <1>32 DEF Import, Trouble, trust, log, locks, call, uv, history
<1>33. CASE Wiped
  BY <1>33 DEF Wiped, Trouble, trust, log, locks, call, uv, history
<1>34. CASE UNCHANGED vars
  BY <1>34 DEF vars, trust, log, site, locks, call, uv, history
<1> QED
  BY <1>1, <1>2, <1>3, <1>4, <1>5, <1>6, <1>7, <1>8, <1>9, <1>10, <1>11,
     <1>12, <1>13, <1>14, <1>15, <1>16, <1>17, <1>18, <1>19, <1>20, <1>21,
     <1>22, <1>23, <1>24, <1>25, <1>26, <1>27, <1>28, <1>29, <1>30, <1>31,
     <1>32, <1>33, <1>34 DEF Next, Step, UvStep, Rest

\* Locks grow.
LEMMA KnownStep ==
    ASSUME Inv, [Next]_vars PROVE LocksAreKnown'
<1> USE RepairAssumption DEF Inv, TypeOK, Mine, LocksAreKnown, Running,
        Steps, Digests
<1>1. ASSUME NEW p \in Procs, Activate(p) PROVE LocksAreKnown'
  BY <1>1 DEF Activate, Go, Healthy, Verified, Missing, trust, log, site,
     locks, uv, history
<1>2. ASSUME NEW p \in Procs, ReadRefusal(p) PROVE LocksAreKnown'
  <2>1. CASE Fail(p) \/ Succeed(p)
    <3>1. Returned(p)
      BY <2>1, Fails, Succeeds
    <3>2. digest' = digest /\ bundle' = bundle
      BY <1>2, <2>1 DEF ReadRefusal, Go, trust, log, site, locks, call, uv,
           history
    <3>3. \A b \in Bundles : refusal'[b] <= digest[b]
      BY <1>2, <2>1 DEF ReadRefusal, Go, trust, log, site, locks, call, uv,
           history
    <3> QED
      <4> HIDE DEF TypeOK, LocksAreKnown
      <4> QED
        BY <3>1, <3>2, <3>3, KnownFrame
  <2>2. CASE ~Fail(p) /\ ~Succeed(p)
    BY <1>2, <2>2 DEF ReadRefusal, Go, trust, log, site, locks, call, uv,
       history
  <2> QED
    BY <2>1, <2>2
<1>3. ASSUME NEW p \in Procs, ClearRefusal(p) PROVE LocksAreKnown'
  BY <1>3 DEF ClearRefusal, Go, MarkState, log, site, locks, call, uv,
     history
<1>4. ASSUME NEW p \in Procs, ReadState(p) PROVE LocksAreKnown'
  BY <1>4 DEF ReadState, Go, trust, log, site, locks, uv, history
<1>5. ASSUME NEW p \in Procs, FastPath(p) PROVE LocksAreKnown'
  <2>1. CASE Fail(p) \/ Succeed(p)
    <3>1. Returned(p)
      BY <2>1, Fails, Succeeds
    <3>2. digest' = digest /\ bundle' = bundle
      BY <1>5, <2>1 DEF FastPath, Go, Current, Sound, Verified, Missing, trust,
           log, site, locks, call, uv, history
    <3>3. \A b \in Bundles : refusal'[b] <= digest[b]
      BY <1>5, <2>1 DEF FastPath, Go, Current, Sound, Verified, Missing, trust,
           log, site, locks, call, uv, history
    <3> QED
      <4> HIDE DEF TypeOK, LocksAreKnown
      <4> QED
        BY <3>1, <3>2, <3>3, KnownFrame
  <2>2. CASE ~Fail(p) /\ ~Succeed(p)
    BY <1>5, <2>2 DEF FastPath, Go, Current, Sound, Verified, Missing, trust,
       log, site, locks, call, uv, history
  <2> QED
    BY <2>1, <2>2
<1>6. ASSUME NEW p \in Procs, TakeInstallLock(p) PROVE LocksAreKnown'
  BY <1>6 DEF TakeInstallLock, Go, trust, log, site, call, uv, history
<1>7. ASSUME NEW p \in Procs, KeepPayload(p) PROVE LocksAreKnown'
  <2>1. CASE Fail(p) \/ Succeed(p)
    <3>1. Returned(p)
      BY <2>1, Fails, Succeeds
    <3>2. digest' = digest /\ bundle' = bundle
      BY <1>7, <2>1 DEF KeepPayload, Verified, Missing, Go, Trouble, Current,
           log, site, history
    <3>3. \A b \in Bundles : refusal'[b] <= digest[b]
      BY <1>7, <2>1 DEF KeepPayload, Verified, Missing, Go, Trouble, Current,
           log, site, history
    <3> QED
      <4> HIDE DEF TypeOK, LocksAreKnown
      <4> QED
        BY <3>1, <3>2, <3>3, KnownFrame
  <2>2. CASE ~Fail(p) /\ ~Succeed(p)
    BY <1>7, <2>2 DEF KeepPayload, Verified, Missing, Go, Trouble, Current,
       log, site, history
  <2> QED
    BY <2>1, <2>2
<1>8. ASSUME NEW p \in Procs, Refuse(p) PROVE LocksAreKnown'
  BY <1>8 DEF Refuse, Verified, Missing, MarkState, Fail, Go, Release,
     Current, Refused, Diverges, log, site, history
<1>9. ASSUME NEW p \in Procs, Grant(p) PROVE LocksAreKnown'
  BY <1>9 DEF Grant, Go, Missing, Verified, Current, Refused, Diverges,
     trust, site, locks, uv
<1>10. ASSUME NEW p \in Procs, Replay(p) PROVE LocksAreKnown'
  BY <1>10 DEF Replay, Go, Current, trust, log, site, locks, call, uv,
     history
<1>11. ASSUME NEW p \in Procs, Prepare(p) PROVE LocksAreKnown'
  <2>1. CASE Fail(p) \/ Succeed(p)
    <3>1. Returned(p)
      BY <2>1, Fails, Succeeds
    <3>2. digest' = digest /\ bundle' = bundle
      BY <1>11, <2>1 DEF Prepare, Go, Trouble, trust, log, locks, uv, history
    <3>3. \A b \in Bundles : refusal'[b] <= digest[b]
      BY <1>11, <2>1 DEF Prepare, Go, Trouble, trust, log, locks, uv, history
    <3> QED
      <4> HIDE DEF TypeOK, LocksAreKnown
      <4> QED
        BY <3>1, <3>2, <3>3, KnownFrame
  <2>2. CASE ~Fail(p) /\ ~Succeed(p)
    BY <1>11, <2>2 DEF Prepare, Go, Trouble, trust, log, locks, uv, history
  <2> QED
    BY <2>1, <2>2
<1>12. ASSUME NEW p \in Procs, BeginAttempt(p) PROVE LocksAreKnown'
  BY <1>12 DEF BeginAttempt, Go, trust, site, call, uv, history
<1>13. ASSUME NEW p \in Procs, MarkRepairing(p) PROVE LocksAreKnown'
  BY <1>13 DEF MarkRepairing, Go, MarkState, log, site, locks, call, uv,
     history
<1>14. ASSUME NEW p \in Procs, StartUv(p) PROVE LocksAreKnown'
  <2>1. CASE Fail(p) \/ Succeed(p)
    <3>1. Returned(p)
      BY <2>1, Fails, Succeeds
    <3>2. digest' = digest /\ bundle' = bundle
      BY <1>14, <2>1 DEF StartUv, Go, Trouble, trust, log, site, locks, call, uv
    <3>3. \A b \in Bundles : refusal'[b] <= digest[b]
      BY <1>14, <2>1 DEF StartUv, Go, Trouble, trust, log, site, locks, call, uv
    <3> QED
      <4> HIDE DEF TypeOK, LocksAreKnown
      <4> QED
        BY <3>1, <3>2, <3>3, KnownFrame
  <2>2. CASE ~Fail(p) /\ ~Succeed(p)
    BY <1>14, <2>2 DEF StartUv, Go, Trouble, trust, log, site, locks, call, uv
  <2> QED
    BY <2>1, <2>2
<1>15. ASSUME NEW p \in Procs, UvExits(p) PROVE LocksAreKnown'
  BY <1>15 DEF UvExits, Go, Installing, uv, trust, log, site, locks, call,
     history
<1>16. ASSUME NEW p \in Procs, UvFails(p) PROVE LocksAreKnown'
  BY <1>16 DEF UvFails, Go, Trouble, trust, log, site, locks, call, uv,
     history
<1>17. ASSUME NEW p \in Procs, RollBack(p) PROVE LocksAreKnown'
  BY <1>17 DEF RollBack, Go, Orphans, trust, log, locks, call, uv, history
<1>18. ASSUME NEW p \in Procs, MarkBroken(p) PROVE LocksAreKnown'
  BY <1>18 DEF MarkBroken, MarkState, Fail, Go, Release, log, site, history
<1>19. ASSUME NEW p \in Procs, Check(p) PROVE LocksAreKnown'
  <2>1. CASE Fail(p) \/ Succeed(p)
    <3>1. Returned(p)
      BY <2>1, Fails, Succeeds
    <3>2. digest' = digest /\ bundle' = bundle
      BY <1>19, <2>1, SMTT(40) DEF Check, Go, Verified, Missing, Trouble,
           FailPostVerify, MarkState, history, trust, log, site, locks,
           call, uv
    <3>3. \A b \in Bundles : refusal'[b] <= digest[b]
      <4>1. \/ refusal' = refusal
            \/ refusal' = [refusal EXCEPT ![Mine(p)] = 0]
        <5> HIDE DEF Inv, TypeOK, LocksAreKnown
        <5> QED
          BY <1>19, SMTT(40) DEF Check, FailPostVerify, MarkState, trust
      <4>2. Mine(p) \in Bundles
        OBVIOUS
      <4> QED
        <5> HIDE DEF TypeOK, LocksAreKnown
        <5> QED
          BY <4>1, <4>2, RefusalFrame
    <3> QED
      <4> HIDE DEF TypeOK, LocksAreKnown
      <4> QED
        BY <3>1, <3>2, <3>3, KnownFrame
  <2>2. CASE ~Fail(p) /\ ~Succeed(p)
    BY <1>19, <2>2 DEF Check, Go, Verified, Missing, Trouble, FailPostVerify,
       MarkState, history, trust, log, site, locks, call, uv
  <2> QED
    BY <2>1, <2>2
<1>20. ASSUME NEW p \in Procs, Certify(p) PROVE LocksAreKnown'
  <2>1. CASE Fail(p) \/ Succeed(p)
    <3>1. Returned(p)
      BY <2>1, Fails, Succeeds
    <3>2. digest' = digest /\ bundle' = bundle
      BY <1>20, <2>1, SMTT(40) DEF Certify, Go, Trouble, FailPostVerify,
           MarkState, history, log, site, locks, call, uv
    <3>3. \A b \in Bundles : refusal'[b] <= digest[b]
      <4>1. \/ refusal' = refusal
            \/ refusal' = [refusal EXCEPT ![Mine(p)] = 0]
        <5> HIDE DEF Inv, TypeOK, LocksAreKnown
        <5> QED
          BY <1>20, SMTT(40) DEF Certify, FailPostVerify, MarkState, trust
      <4>2. Mine(p) \in Bundles
        OBVIOUS
      <4> QED
        <5> HIDE DEF TypeOK, LocksAreKnown
        <5> QED
          BY <4>1, <4>2, RefusalFrame
    <3> QED
      <4> HIDE DEF TypeOK, LocksAreKnown
      <4> QED
        BY <3>1, <3>2, <3>3, KnownFrame
  <2>2. CASE ~Fail(p) /\ ~Succeed(p)
    BY <1>20, <2>2 DEF Certify, Go, Trouble, FailPostVerify, MarkState, history,
       log, site, locks, call, uv
  <2> QED
    BY <2>1, <2>2
<1>21. ASSUME NEW p \in Procs, Clean(p) PROVE LocksAreKnown'
  BY <1>21 DEF Clean, MarkState, Succeed, Go, Release, log, site, history
<1>22. ASSUME NEW p \in Procs, GuardEnds(p) PROVE LocksAreKnown'
  BY <1>22 DEF GuardEnds, Go, log, site, locks, uv, history
<1>23. ASSUME NEW p \in Procs, Dies(p) PROVE LocksAreKnown'
  <2>1. CASE Fail(p) \/ Succeed(p)
    <3>1. Returned(p)
      BY <2>1, Fails, Succeeds
    <3>2. digest' = digest /\ bundle' = bundle
      BY <1>23, <2>1 DEF Dies, Go, Trouble, trust, log, site, history
    <3>3. \A b \in Bundles : refusal'[b] <= digest[b]
      BY <1>23, <2>1 DEF Dies, Go, Trouble, trust, log, site, history
    <3> QED
      <4> HIDE DEF TypeOK, LocksAreKnown
      <4> QED
        BY <3>1, <3>2, <3>3, KnownFrame
  <2>2. CASE ~Fail(p) /\ ~Succeed(p)
    <3>1. Returned(p)
      BY <1>23, <2>2, Returns DEF Dies
    <3>2. digest' = digest /\ bundle' = bundle
      BY <1>23, <2>2 DEF Dies, Go, Trouble, trust, log, site, history
    <3>3. \A b \in Bundles : refusal'[b] <= digest[b]
      BY <1>23, <2>2 DEF Dies, Go, Trouble, trust, log, site, history
    <3> QED
      <4> HIDE DEF TypeOK, LocksAreKnown
      <4> QED
        BY <3>1, <3>2, <3>3, KnownFrame
  <2> QED
    BY <2>1, <2>2
<1>24. ASSUME NEW p \in Procs, NEW d \in Dists, UvTear(p, d)
      PROVE LocksAreKnown'
  BY <1>24 DEF UvTear, trust, log, locks, call, uv, history
<1>25. ASSUME NEW p \in Procs, NEW d \in Dists, UvDrop(p, d)
      PROVE LocksAreKnown'
  BY <1>25 DEF UvDrop, trust, log, locks, call, uv, history
<1>26. ASSUME NEW p \in Procs, NEW d \in Dists, UvUnpack(p, d)
      PROVE LocksAreKnown'
  BY <1>26 DEF UvUnpack, Installing, uv, trust, log, locks, call, history
<1>27. ASSUME NEW p \in Procs, NEW d \in Dists, UvInstall(p, d)
      PROVE LocksAreKnown'
  BY <1>27 DEF UvInstall, Installing, uv, trust, log, locks, call, history
<1>28. ASSUME NEW b \in Bundles, LockChanges(b) PROVE LocksAreKnown'
  BY <1>28 DEF LockChanges, Trouble, trust, log, site, locks, call, uv,
     history
<1>29. ASSUME NEW b \in Bundles, AuditLapses(b) PROVE LocksAreKnown'
  BY <1>29 DEF AuditLapses, Trouble, log, site, locks, call, uv, history
<1>30. ASSUME NEW b \in Bundles, SentinelAges(b) PROVE LocksAreKnown'
  BY <1>30 DEF SentinelAges, log, site, locks, call, uv, history
<1>31. ASSUME NEW d \in Dists, Overwritten(d) PROVE LocksAreKnown'
  BY <1>31 DEF Overwritten, Trouble, trust, log, locks, call, uv, history
<1>32. ASSUME NEW d \in Dists, Import(d) PROVE LocksAreKnown'
  BY <1>32 DEF Import, Trouble, trust, log, locks, call, uv, history
<1>33. CASE Wiped
  BY <1>33 DEF Wiped, Trouble, trust, log, locks, call, uv, history
<1>34. CASE UNCHANGED vars
  BY <1>34 DEF vars, trust, log, site, locks, call, uv, history
<1> QED
  BY <1>1, <1>2, <1>3, <1>4, <1>5, <1>6, <1>7, <1>8, <1>9, <1>10, <1>11,
     <1>12, <1>13, <1>14, <1>15, <1>16, <1>17, <1>18, <1>19, <1>20, <1>21,
     <1>22, <1>23, <1>24, <1>25, <1>26, <1>27, <1>28, <1>29, <1>30, <1>31,
     <1>32, <1>33, <1>34 DEF Next, Step, UvStep, Rest

\* A refusal of another lock than the wanted one is older.
LEMMA ClearStep ==
    ASSUME Inv, [Next]_vars PROVE ClearsAreLate'
<1> USE RepairAssumption DEF Inv, TypeOK, Mine, ClearsAreLate,
        LocksAreKnown, Running, Steps, Digests
<1>1. ASSUME NEW p \in Procs, Activate(p) PROVE ClearsAreLate'
  BY <1>1 DEF Activate, Go, Healthy, Verified, Missing, trust, log, site,
     locks, uv, history
<1>2. ASSUME NEW p \in Procs, ReadRefusal(p) PROVE ClearsAreLate'
  <2>1. CASE Fail(p) \/ Succeed(p)
    <3>1. Returned(p)
      BY <2>1, Fails, Succeeds
    <3>2. UNCHANGED digest
      BY <1>2, <2>1 DEF ReadRefusal, Go, trust, log, site, locks, call, uv,
           history
    <3> QED
      BY <1>2, <3>1, <3>2 DEF ReadRefusal, Go, trust, log, site, locks, call,
         uv, history, Returned
  <2>2. CASE ~Fail(p) /\ ~Succeed(p)
    <3>1. refusal[Mine(p)] # want[p] /\ pc[p] = "refusal"
          /\ UNCHANGED <<digest, bundle>>
      BY <1>2, <2>2 DEF ReadRefusal, Go, trust, log, site, locks, call, uv,
         history
    <3>2. /\ want[p] # 0 /\ want[p] <= digest[Mine(p)]
          /\ refusal[Mine(p)] <= digest[Mine(p)]
          /\ want[p] \in 0..MaxDigest /\ digest[Mine(p)] \in Digests
          /\ refusal[Mine(p)] \in 0..MaxDigest
      BY <3>1
    <3>3. refusal[Mine(p)] # 0 => digest[Mine(p)] # 1
      BY <3>1, <3>2, Older
    <3>4. pc' = [pc EXCEPT ![p] = IF refusal[Mine(p)] = 0 THEN "read"
                                     ELSE "clear"]
      BY <1>2, <2>2 DEF ReadRefusal, Go, trust, log, site, locks, call, uv,
         history
    <3> QED
      BY <3>1, <3>3, <3>4
  <2> QED
    BY <2>1, <2>2
<1>3. ASSUME NEW p \in Procs, ClearRefusal(p) PROVE ClearsAreLate'
  BY <1>3 DEF ClearRefusal, Go, MarkState, log, site, locks, call, uv,
     history
<1>4. ASSUME NEW p \in Procs, ReadState(p) PROVE ClearsAreLate'
  BY <1>4 DEF ReadState, Go, trust, log, site, locks, uv, history
<1>5. ASSUME NEW p \in Procs, FastPath(p) PROVE ClearsAreLate'
  BY <1>5 DEF FastPath, Go, Succeed, Release, Current, Sound, Verified,
     Missing, trust, log, site, locks, call, uv, history
<1>6. ASSUME NEW p \in Procs, TakeInstallLock(p) PROVE ClearsAreLate'
  BY <1>6 DEF TakeInstallLock, Go, trust, log, site, call, uv, history
<1>7. ASSUME NEW p \in Procs, KeepPayload(p) PROVE ClearsAreLate'
  BY <1>7 DEF KeepPayload, Verified, Missing, Succeed, Go, Release, Fail,
     Trouble, Current, log, site, history
<1>8. ASSUME NEW p \in Procs, Refuse(p) PROVE ClearsAreLate'
  BY <1>8 DEF Refuse, Verified, Missing, MarkState, Fail, Go, Release,
     Current, Refused, Diverges, log, site, history
<1>9. ASSUME NEW p \in Procs, Grant(p) PROVE ClearsAreLate'
  BY <1>9 DEF Grant, Go, Missing, Verified, Current, Refused, Diverges,
     trust, site, locks, uv
<1>10. ASSUME NEW p \in Procs, Replay(p) PROVE ClearsAreLate'
  BY <1>10 DEF Replay, Go, Current, trust, log, site, locks, call, uv,
     history
<1>11. ASSUME NEW p \in Procs, Prepare(p) PROVE ClearsAreLate'
  BY <1>11 DEF Prepare, Go, Fail, Release, Trouble, trust, log, locks, uv,
     history
<1>12. ASSUME NEW p \in Procs, BeginAttempt(p) PROVE ClearsAreLate'
  BY <1>12 DEF BeginAttempt, Go, trust, site, call, uv, history
<1>13. ASSUME NEW p \in Procs, MarkRepairing(p) PROVE ClearsAreLate'
  BY <1>13 DEF MarkRepairing, Go, MarkState, log, site, locks, call, uv,
     history
<1>14. ASSUME NEW p \in Procs, StartUv(p) PROVE ClearsAreLate'
  BY <1>14 DEF StartUv, Go, Fail, Release, Trouble, trust, log, site, locks,
     call, uv
<1>15. ASSUME NEW p \in Procs, UvExits(p) PROVE ClearsAreLate'
  BY <1>15 DEF UvExits, Go, Installing, uv, trust, log, site, locks, call,
     history
<1>16. ASSUME NEW p \in Procs, UvFails(p) PROVE ClearsAreLate'
  BY <1>16 DEF UvFails, Go, Trouble, trust, log, site, locks, call, uv,
     history
<1>17. ASSUME NEW p \in Procs, RollBack(p) PROVE ClearsAreLate'
  BY <1>17 DEF RollBack, Go, Orphans, trust, log, locks, call, uv, history
<1>18. ASSUME NEW p \in Procs, MarkBroken(p) PROVE ClearsAreLate'
  BY <1>18 DEF MarkBroken, MarkState, Fail, Go, Release, log, site, history
<1>19. ASSUME NEW p \in Procs, Check(p) PROVE ClearsAreLate'
  BY <1>19 DEF Check, Go, Verified, Missing, Trouble, FailPostVerify,
     MarkState, Fail, Release, history, trust, log, site, locks, call, uv
<1>20. ASSUME NEW p \in Procs, Certify(p) PROVE ClearsAreLate'
  BY <1>20 DEF Certify, Go, Trouble, FailPostVerify, MarkState, Fail,
     Release, history, log, site, locks, call, uv
<1>21. ASSUME NEW p \in Procs, Clean(p) PROVE ClearsAreLate'
  BY <1>21 DEF Clean, MarkState, Succeed, Go, Release, log, site, history
<1>22. ASSUME NEW p \in Procs, GuardEnds(p) PROVE ClearsAreLate'
  BY <1>22 DEF GuardEnds, Go, log, site, locks, uv, history
<1>23. ASSUME NEW p \in Procs, Dies(p) PROVE ClearsAreLate'
  BY <1>23 DEF Dies, Go, Release, Fail, Trouble, trust, log, site, history
<1>24. ASSUME NEW p \in Procs, NEW d \in Dists, UvTear(p, d)
      PROVE ClearsAreLate'
  BY <1>24 DEF UvTear, trust, log, locks, call, uv, history
<1>25. ASSUME NEW p \in Procs, NEW d \in Dists, UvDrop(p, d)
      PROVE ClearsAreLate'
  BY <1>25 DEF UvDrop, trust, log, locks, call, uv, history
<1>26. ASSUME NEW p \in Procs, NEW d \in Dists, UvUnpack(p, d)
      PROVE ClearsAreLate'
  BY <1>26 DEF UvUnpack, Installing, uv, trust, log, locks, call, history
<1>27. ASSUME NEW p \in Procs, NEW d \in Dists, UvInstall(p, d)
      PROVE ClearsAreLate'
  BY <1>27 DEF UvInstall, Installing, uv, trust, log, locks, call, history
<1>28. ASSUME NEW b \in Bundles, LockChanges(b) PROVE ClearsAreLate'
  BY <1>28 DEF LockChanges, Trouble, trust, log, site, locks, call, uv,
     history
<1>29. ASSUME NEW b \in Bundles, AuditLapses(b) PROVE ClearsAreLate'
  BY <1>29 DEF AuditLapses, Trouble, log, site, locks, call, uv, history
<1>30. ASSUME NEW b \in Bundles, SentinelAges(b) PROVE ClearsAreLate'
  BY <1>30 DEF SentinelAges, log, site, locks, call, uv, history
<1>31. ASSUME NEW d \in Dists, Overwritten(d) PROVE ClearsAreLate'
  BY <1>31 DEF Overwritten, Trouble, trust, log, locks, call, uv, history
<1>32. ASSUME NEW d \in Dists, Import(d) PROVE ClearsAreLate'
  BY <1>32 DEF Import, Trouble, trust, log, locks, call, uv, history
<1>33. CASE Wiped
  BY <1>33 DEF Wiped, Trouble, trust, log, locks, call, uv, history
<1>34. CASE UNCHANGED vars
  BY <1>34 DEF vars, trust, log, site, locks, call, uv, history
<1> QED
  BY <1>1, <1>2, <1>3, <1>4, <1>5, <1>6, <1>7, <1>8, <1>9, <1>10, <1>11,
     <1>12, <1>13, <1>14, <1>15, <1>16, <1>17, <1>18, <1>19, <1>20, <1>21,
     <1>22, <1>23, <1>24, <1>25, <1>26, <1>27, <1>28, <1>29, <1>30, <1>31,
     <1>32, <1>33, <1>34 DEF Next, Step, UvStep, Rest

\* Nobody else writes the state file before the lock has changed.
LEMMA MarkedStep ==
    ASSUME Inv, [Next]_vars PROVE ReplaysAreMarked'
<1> USE RepairAssumption DEF Inv, TypeOK, Mine, ReplaysAreMarked,
        ClearsAreLate, Steps, Digests, InstallLockIsHeld, Deciding,
        Replaying, UvLockIsHeld
<1>1. ASSUME NEW p \in Procs, Activate(p) PROVE ReplaysAreMarked'
  BY <1>1 DEF Activate, Go, Healthy, Verified, Missing, trust, log, site,
     locks, uv, history
<1>2. ASSUME NEW p \in Procs, ReadRefusal(p) PROVE ReplaysAreMarked'
  BY <1>2 DEF ReadRefusal, Go, Fail, Release, trust, log, site, locks, call,
     uv, history
<1>3. ASSUME NEW p \in Procs, ClearRefusal(p) PROVE ReplaysAreMarked'
  BY <1>3 DEF ClearRefusal, Go, MarkState, log, site, locks, call, uv,
     history
<1>4. ASSUME NEW p \in Procs, ReadState(p) PROVE ReplaysAreMarked'
  BY <1>4 DEF ReadState, Go, trust, log, site, locks, uv, history
<1>5. ASSUME NEW p \in Procs, FastPath(p) PROVE ReplaysAreMarked'
  BY <1>5 DEF FastPath, Go, Succeed, Release, Current, Sound, Verified,
     Missing, trust, log, site, locks, call, uv, history
<1>6. ASSUME NEW p \in Procs, TakeInstallLock(p) PROVE ReplaysAreMarked'
  BY <1>6 DEF TakeInstallLock, Go, trust, log, site, call, uv, history
<1>7. ASSUME NEW p \in Procs, KeepPayload(p) PROVE ReplaysAreMarked'
  BY <1>7 DEF KeepPayload, Verified, Missing, Succeed, Go, Release, Fail,
     Trouble, Current, log, site, history
<1>8. ASSUME NEW p \in Procs, Refuse(p) PROVE ReplaysAreMarked'
  BY <1>8 DEF Refuse, Verified, Missing, MarkState, Fail, Go, Release,
     Current, Refused, Diverges, log, site, history
<1>9. ASSUME NEW p \in Procs, Grant(p) PROVE ReplaysAreMarked'
  BY <1>9 DEF Grant, Go, Missing, Verified, Current, Refused, Diverges,
     trust, site, locks, uv
<1>10. ASSUME NEW p \in Procs, Replay(p) PROVE ReplaysAreMarked'
  BY <1>10 DEF Replay, Go, Current, trust, log, site, locks, call, uv,
     history
<1>11. ASSUME NEW p \in Procs, Prepare(p) PROVE ReplaysAreMarked'
  BY <1>11 DEF Prepare, Go, Fail, Release, Trouble, trust, log, locks, uv,
     history
<1>12. ASSUME NEW p \in Procs, BeginAttempt(p) PROVE ReplaysAreMarked'
  BY <1>12 DEF BeginAttempt, Go, trust, site, call, uv, history
<1>13. ASSUME NEW p \in Procs, MarkRepairing(p) PROVE ReplaysAreMarked'
  BY <1>13 DEF MarkRepairing, Go, MarkState, log, site, locks, call, uv,
     history
<1>14. ASSUME NEW p \in Procs, StartUv(p) PROVE ReplaysAreMarked'
  BY <1>14 DEF StartUv, Go, Fail, Release, Trouble, trust, log, site, locks,
     call, uv
<1>15. ASSUME NEW p \in Procs, UvExits(p) PROVE ReplaysAreMarked'
  BY <1>15 DEF UvExits, Go, Installing, uv, trust, log, site, locks, call,
     history
<1>16. ASSUME NEW p \in Procs, UvFails(p) PROVE ReplaysAreMarked'
  BY <1>16 DEF UvFails, Go, Trouble, trust, log, site, locks, call, uv,
     history
<1>17. ASSUME NEW p \in Procs, RollBack(p) PROVE ReplaysAreMarked'
  BY <1>17 DEF RollBack, Go, Orphans, trust, log, locks, call, uv, history
<1>18. ASSUME NEW p \in Procs, MarkBroken(p) PROVE ReplaysAreMarked'
  BY <1>18 DEF MarkBroken, MarkState, Fail, Go, Release, log, site, history
<1>19. ASSUME NEW p \in Procs, Check(p) PROVE ReplaysAreMarked'
  BY <1>19 DEF Check, Go, Verified, Missing, Trouble, FailPostVerify,
     MarkState, Fail, Release, history, trust, log, site, locks, call, uv
<1>20. ASSUME NEW p \in Procs, Certify(p) PROVE ReplaysAreMarked'
  BY <1>20 DEF Certify, Go, Trouble, FailPostVerify, MarkState, Fail,
     Release, history, log, site, locks, call, uv
<1>21. ASSUME NEW p \in Procs, Clean(p) PROVE ReplaysAreMarked'
  BY <1>21 DEF Clean, MarkState, Succeed, Go, Release, log, site, history
<1>22. ASSUME NEW p \in Procs, GuardEnds(p) PROVE ReplaysAreMarked'
  BY <1>22 DEF GuardEnds, Go, log, site, locks, uv, history
<1>23. ASSUME NEW p \in Procs, Dies(p) PROVE ReplaysAreMarked'
  BY <1>23 DEF Dies, Go, Release, Fail, Trouble, trust, log, site, history
<1>24. ASSUME NEW p \in Procs, NEW d \in Dists, UvTear(p, d)
      PROVE ReplaysAreMarked'
  BY <1>24 DEF UvTear, trust, log, locks, call, uv, history
<1>25. ASSUME NEW p \in Procs, NEW d \in Dists, UvDrop(p, d)
      PROVE ReplaysAreMarked'
  BY <1>25 DEF UvDrop, trust, log, locks, call, uv, history
<1>26. ASSUME NEW p \in Procs, NEW d \in Dists, UvUnpack(p, d)
      PROVE ReplaysAreMarked'
  BY <1>26 DEF UvUnpack, Installing, uv, trust, log, locks, call, history
<1>27. ASSUME NEW p \in Procs, NEW d \in Dists, UvInstall(p, d)
      PROVE ReplaysAreMarked'
  BY <1>27 DEF UvInstall, Installing, uv, trust, log, locks, call, history
<1>28. ASSUME NEW b \in Bundles, LockChanges(b) PROVE ReplaysAreMarked'
  BY <1>28 DEF LockChanges, Trouble, trust, log, site, locks, call, uv,
     history
<1>29. ASSUME NEW b \in Bundles, AuditLapses(b) PROVE ReplaysAreMarked'
  BY <1>29 DEF AuditLapses, Trouble, log, site, locks, call, uv, history
<1>30. ASSUME NEW b \in Bundles, SentinelAges(b) PROVE ReplaysAreMarked'
  BY <1>30 DEF SentinelAges, log, site, locks, call, uv, history
<1>31. ASSUME NEW d \in Dists, Overwritten(d) PROVE ReplaysAreMarked'
  BY <1>31 DEF Overwritten, Trouble, trust, log, locks, call, uv, history
<1>32. ASSUME NEW d \in Dists, Import(d) PROVE ReplaysAreMarked'
  BY <1>32 DEF Import, Trouble, trust, log, locks, call, uv, history
<1>33. CASE Wiped
  BY <1>33 DEF Wiped, Trouble, trust, log, locks, call, uv, history
<1>34. CASE UNCHANGED vars
  BY <1>34 DEF vars, trust, log, site, locks, call, uv, history
<1> QED
  BY <1>1, <1>2, <1>3, <1>4, <1>5, <1>6, <1>7, <1>8, <1>9, <1>10, <1>11,
     <1>12, <1>13, <1>14, <1>15, <1>16, <1>17, <1>18, <1>19, <1>20, <1>21,
     <1>22, <1>23, <1>24, <1>25, <1>26, <1>27, <1>28, <1>29, <1>30, <1>31,
     <1>32, <1>33, <1>34 DEF Next, Step, UvStep, Rest

\* No other replay begins before the marker is there.
LEMMA CertifiedStep ==
    ASSUME Inv, [Next]_vars PROVE CertifiedIsVerified'
<1> USE RepairAssumption DEF Inv, TypeOK, Mine, CertifiedIsVerified, Steps,
        UvLockIsHeld, Replaying
<1>1. ASSUME NEW p \in Procs, Activate(p) PROVE CertifiedIsVerified'
  BY <1>1 DEF Activate, Go, Healthy, Verified, Missing, trust, log, site,
     locks, uv, history
<1>2. ASSUME NEW p \in Procs, ReadRefusal(p) PROVE CertifiedIsVerified'
  BY <1>2 DEF ReadRefusal, Go, Fail, Release, trust, log, site, locks, call,
     uv, history
<1>3. ASSUME NEW p \in Procs, ClearRefusal(p) PROVE CertifiedIsVerified'
  BY <1>3 DEF ClearRefusal, Go, MarkState, log, site, locks, call, uv,
     history
<1>4. ASSUME NEW p \in Procs, ReadState(p) PROVE CertifiedIsVerified'
  BY <1>4 DEF ReadState, Go, trust, log, site, locks, uv, history
<1>5. ASSUME NEW p \in Procs, FastPath(p) PROVE CertifiedIsVerified'
  BY <1>5 DEF FastPath, Go, Succeed, Release, Current, Sound, Verified,
     Missing, trust, log, site, locks, call, uv, history
<1>6. ASSUME NEW p \in Procs, TakeInstallLock(p) PROVE CertifiedIsVerified'
  BY <1>6 DEF TakeInstallLock, Go, trust, log, site, call, uv, history
<1>7. ASSUME NEW p \in Procs, KeepPayload(p) PROVE CertifiedIsVerified'
  BY <1>7 DEF KeepPayload, Verified, Missing, Succeed, Go, Release, Fail,
     Trouble, Current, log, site, history
<1>8. ASSUME NEW p \in Procs, Refuse(p) PROVE CertifiedIsVerified'
  BY <1>8 DEF Refuse, Verified, Missing, MarkState, Fail, Go, Release,
     Current, Refused, Diverges, log, site, history
<1>9. ASSUME NEW p \in Procs, Grant(p) PROVE CertifiedIsVerified'
  BY <1>9 DEF Grant, Go, Missing, Verified, Current, Refused, Diverges,
     trust, site, locks, uv
<1>10. ASSUME NEW p \in Procs, Replay(p) PROVE CertifiedIsVerified'
  BY <1>10 DEF Replay, Go, Current, trust, log, site, locks, call, uv,
     history
<1>11. ASSUME NEW p \in Procs, Prepare(p) PROVE CertifiedIsVerified'
  BY <1>11 DEF Prepare, Go, Fail, Release, Trouble, trust, log, locks, uv,
     history
<1>12. ASSUME NEW p \in Procs, BeginAttempt(p) PROVE CertifiedIsVerified'
  BY <1>12 DEF BeginAttempt, Go, trust, site, call, uv, history
<1>13. ASSUME NEW p \in Procs, MarkRepairing(p) PROVE CertifiedIsVerified'
  BY <1>13 DEF MarkRepairing, Go, MarkState, log, site, locks, call, uv,
     history
<1>14. ASSUME NEW p \in Procs, StartUv(p) PROVE CertifiedIsVerified'
  <2>1. uvLock = p
    BY <1>14 DEF StartUv
  <2>2. \/ pc' = [pc EXCEPT ![p] = "uv"]
        \/ pc' = [pc EXCEPT ![p] = IF p \in guarded THEN "shellFail" ELSE "idle"]
    <3> HIDE DEF Inv, TypeOK, CertifiedIsVerified, Steps
    <3> QED
      BY <1>14 DEF StartUv, Fail, Go
  <2>3. ASSUME NEW q \in Procs, pc'[q] \in {"certify", "clean"} PROVE FALSE
    <3>1. q # p /\ pc[q] \in {"certify", "clean"}
      BY <2>2, <2>3
    <3> QED
      BY <2>1, <3>1
  <2> QED
    BY <2>3
<1>15. ASSUME NEW p \in Procs, UvExits(p) PROVE CertifiedIsVerified'
  BY <1>15 DEF UvExits, Go, Installing, uv, trust, log, site, locks, call,
     history
<1>16. ASSUME NEW p \in Procs, UvFails(p) PROVE CertifiedIsVerified'
  BY <1>16 DEF UvFails, Go, Trouble, trust, log, site, locks, call, uv,
     history
<1>17. ASSUME NEW p \in Procs, RollBack(p) PROVE CertifiedIsVerified'
  BY <1>17 DEF RollBack, Go, Orphans, trust, log, locks, call, uv, history
<1>18. ASSUME NEW p \in Procs, MarkBroken(p) PROVE CertifiedIsVerified'
  BY <1>18 DEF MarkBroken, MarkState, Fail, Go, Release, log, site, history
<1>19. ASSUME NEW p \in Procs, Check(p) PROVE CertifiedIsVerified'
  BY <1>19 DEF Check, Go, Verified, Missing, Trouble, FailPostVerify,
     MarkState, Fail, Release, history, trust, log, site, locks, call, uv
<1>20. ASSUME NEW p \in Procs, Certify(p) PROVE CertifiedIsVerified'
  BY <1>20 DEF Certify, Go, Trouble, FailPostVerify, MarkState, Fail,
     Release, history, log, site, locks, call, uv
<1>21. ASSUME NEW p \in Procs, Clean(p) PROVE CertifiedIsVerified'
  BY <1>21 DEF Clean, MarkState, Succeed, Go, Release, log, site, history
<1>22. ASSUME NEW p \in Procs, GuardEnds(p) PROVE CertifiedIsVerified'
  BY <1>22 DEF GuardEnds, Go, log, site, locks, uv, history
<1>23. ASSUME NEW p \in Procs, Dies(p) PROVE CertifiedIsVerified'
  BY <1>23 DEF Dies, Go, Release, Fail, Trouble, trust, log, site, history
<1>24. ASSUME NEW p \in Procs, NEW d \in Dists, UvTear(p, d)
      PROVE CertifiedIsVerified'
  BY <1>24 DEF UvTear, trust, log, locks, call, uv, history
<1>25. ASSUME NEW p \in Procs, NEW d \in Dists, UvDrop(p, d)
      PROVE CertifiedIsVerified'
  BY <1>25 DEF UvDrop, trust, log, locks, call, uv, history
<1>26. ASSUME NEW p \in Procs, NEW d \in Dists, UvUnpack(p, d)
      PROVE CertifiedIsVerified'
  BY <1>26 DEF UvUnpack, Installing, uv, trust, log, locks, call, history
<1>27. ASSUME NEW p \in Procs, NEW d \in Dists, UvInstall(p, d)
      PROVE CertifiedIsVerified'
  BY <1>27 DEF UvInstall, Installing, uv, trust, log, locks, call, history
<1>28. ASSUME NEW b \in Bundles, LockChanges(b) PROVE CertifiedIsVerified'
  BY <1>28 DEF LockChanges, Trouble, trust, log, site, locks, call, uv,
     history
<1>29. ASSUME NEW b \in Bundles, AuditLapses(b) PROVE CertifiedIsVerified'
  BY <1>29 DEF AuditLapses, Trouble, log, site, locks, call, uv, history
<1>30. ASSUME NEW b \in Bundles, SentinelAges(b) PROVE CertifiedIsVerified'
  BY <1>30 DEF SentinelAges, log, site, locks, call, uv, history
<1>31. ASSUME NEW d \in Dists, Overwritten(d) PROVE CertifiedIsVerified'
  BY <1>31 DEF Overwritten, Trouble, trust, log, locks, call, uv, history
<1>32. ASSUME NEW d \in Dists, Import(d) PROVE CertifiedIsVerified'
  BY <1>32 DEF Import, Trouble, trust, log, locks, call, uv, history
<1>33. CASE Wiped
  BY <1>33 DEF Wiped, Trouble, trust, log, locks, call, uv, history
<1>34. CASE UNCHANGED vars
  BY <1>34 DEF vars, trust, log, site, locks, call, uv, history
<1> QED
  BY <1>1, <1>2, <1>3, <1>4, <1>5, <1>6, <1>7, <1>8, <1>9, <1>10, <1>11,
     <1>12, <1>13, <1>14, <1>15, <1>16, <1>17, <1>18, <1>19, <1>20, <1>21,
     <1>22, <1>23, <1>24, <1>25, <1>26, <1>27, <1>28, <1>29, <1>30, <1>31,
     <1>32, <1>33, <1>34 DEF Next, Step, UvStep, Rest

\* The state file is there while a replay is open, or the marker is not.
LEMMA DistrustStep ==
    ASSUME Inv, [Next]_vars PROVE UnfinishedReplaysAreDistrusted'
<1> USE RepairAssumption DEF Inv, TypeOK, Mine,
        UnfinishedReplaysAreDistrusted, ReplaysAreMarked, ClearsAreLate,
        CertifiedIsVerified, Steps, Digests, LocksAreKnown, Running
<1>1. ASSUME NEW p \in Procs, Activate(p) PROVE UnfinishedReplaysAreDistrusted'
  BY <1>1 DEF Activate, Go, Healthy, Verified, Missing, trust, log, site,
     locks, uv, history
<1>2. ASSUME NEW p \in Procs, ReadRefusal(p)
      PROVE UnfinishedReplaysAreDistrusted'
  BY <1>2 DEF ReadRefusal, Go, Fail, Release, trust, log, site, locks, call,
     uv, history
<1>3. ASSUME NEW p \in Procs, ClearRefusal(p)
      PROVE UnfinishedReplaysAreDistrusted'
  BY <1>3 DEF ClearRefusal, Go, MarkState, log, site, locks, call, uv,
     history
<1>4. ASSUME NEW p \in Procs, ReadState(p)
      PROVE UnfinishedReplaysAreDistrusted'
  BY <1>4 DEF ReadState, Go, trust, log, site, locks, uv, history
<1>5. ASSUME NEW p \in Procs, FastPath(p) PROVE UnfinishedReplaysAreDistrusted'
  BY <1>5 DEF FastPath, Go, Succeed, Release, Current, Sound, Verified,
     Missing, trust, log, site, locks, call, uv, history
<1>6. ASSUME NEW p \in Procs, TakeInstallLock(p)
      PROVE UnfinishedReplaysAreDistrusted'
  BY <1>6 DEF TakeInstallLock, Go, trust, log, site, call, uv, history
<1>7. ASSUME NEW p \in Procs, KeepPayload(p)
      PROVE UnfinishedReplaysAreDistrusted'
  BY <1>7 DEF KeepPayload, Verified, Missing, Succeed, Go, Release, Fail,
     Trouble, Current, log, site, history
<1>8. ASSUME NEW p \in Procs, Refuse(p) PROVE UnfinishedReplaysAreDistrusted'
  BY <1>8 DEF Refuse, Verified, Missing, MarkState, Fail, Go, Release,
     Current, Refused, Diverges, log, site, history
<1>9. ASSUME NEW p \in Procs, Grant(p) PROVE UnfinishedReplaysAreDistrusted'
  BY <1>9 DEF Grant, Go, Missing, Verified, Current, Refused, Diverges,
     trust, site, locks, uv
<1>10. ASSUME NEW p \in Procs, Replay(p) PROVE UnfinishedReplaysAreDistrusted'
  BY <1>10 DEF Replay, Go, Current, trust, log, site, locks, call, uv,
     history
<1>11. ASSUME NEW p \in Procs, Prepare(p) PROVE UnfinishedReplaysAreDistrusted'
  BY <1>11 DEF Prepare, Go, Fail, Release, Trouble, trust, log, locks, uv,
     history
<1>12. ASSUME NEW p \in Procs, BeginAttempt(p)
      PROVE UnfinishedReplaysAreDistrusted'
  BY <1>12 DEF BeginAttempt, Go, trust, site, call, uv, history
<1>13. ASSUME NEW p \in Procs, MarkRepairing(p)
      PROVE UnfinishedReplaysAreDistrusted'
  BY <1>13 DEF MarkRepairing, Go, MarkState, log, site, locks, call, uv,
     history
<1>14. ASSUME NEW p \in Procs, StartUv(p) PROVE UnfinishedReplaysAreDistrusted'
  BY <1>14 DEF StartUv, Go, Fail, Release, Trouble, trust, log, site, locks,
     call, uv
<1>15. ASSUME NEW p \in Procs, UvExits(p) PROVE UnfinishedReplaysAreDistrusted'
  BY <1>15 DEF UvExits, Go, Installing, uv, trust, log, site, locks, call,
     history
<1>16. ASSUME NEW p \in Procs, UvFails(p) PROVE UnfinishedReplaysAreDistrusted'
  BY <1>16 DEF UvFails, Go, Trouble, trust, log, site, locks, call, uv,
     history
<1>17. ASSUME NEW p \in Procs, RollBack(p)
      PROVE UnfinishedReplaysAreDistrusted'
  BY <1>17 DEF RollBack, Go, Orphans, trust, log, locks, call, uv, history
<1>18. ASSUME NEW p \in Procs, MarkBroken(p)
      PROVE UnfinishedReplaysAreDistrusted'
  BY <1>18 DEF MarkBroken, MarkState, Fail, Go, Release, log, site, history
<1>19. ASSUME NEW p \in Procs, Check(p) PROVE UnfinishedReplaysAreDistrusted'
  BY <1>19 DEF Check, Go, Verified, Missing, Trouble, FailPostVerify,
     MarkState, Fail, Release, history, trust, log, site, locks, call, uv
<1>20. ASSUME NEW p \in Procs, Certify(p) PROVE UnfinishedReplaysAreDistrusted'
  BY <1>20 DEF Certify, Go, Trouble, FailPostVerify, MarkState, Fail,
     Release, history, log, site, locks, call, uv
<1>21. ASSUME NEW p \in Procs, Clean(p) PROVE UnfinishedReplaysAreDistrusted'
  BY <1>21 DEF Clean, MarkState, Succeed, Go, Release, log, site, history
<1>22. ASSUME NEW p \in Procs, GuardEnds(p)
      PROVE UnfinishedReplaysAreDistrusted'
  BY <1>22 DEF GuardEnds, Go, log, site, locks, uv, history
<1>23. ASSUME NEW p \in Procs, Dies(p) PROVE UnfinishedReplaysAreDistrusted'
  BY <1>23 DEF Dies, Go, Release, Fail, Trouble, trust, log, site, history
<1>24. ASSUME NEW p \in Procs, NEW d \in Dists, UvTear(p, d)
      PROVE UnfinishedReplaysAreDistrusted'
  BY <1>24 DEF UvTear, trust, log, locks, call, uv, history
<1>25. ASSUME NEW p \in Procs, NEW d \in Dists, UvDrop(p, d)
      PROVE UnfinishedReplaysAreDistrusted'
  BY <1>25 DEF UvDrop, trust, log, locks, call, uv, history
<1>26. ASSUME NEW p \in Procs, NEW d \in Dists, UvUnpack(p, d)
      PROVE UnfinishedReplaysAreDistrusted'
  BY <1>26 DEF UvUnpack, Installing, uv, trust, log, locks, call, history
<1>27. ASSUME NEW p \in Procs, NEW d \in Dists, UvInstall(p, d)
      PROVE UnfinishedReplaysAreDistrusted'
  BY <1>27 DEF UvInstall, Installing, uv, trust, log, locks, call, history
<1>28. ASSUME NEW b \in Bundles, LockChanges(b)
      PROVE UnfinishedReplaysAreDistrusted'
  BY <1>28 DEF LockChanges, Trouble, trust, log, site, locks, call, uv,
     history
<1>29. ASSUME NEW b \in Bundles, AuditLapses(b)
      PROVE UnfinishedReplaysAreDistrusted'
  BY <1>29 DEF AuditLapses, Trouble, log, site, locks, call, uv, history
<1>30. ASSUME NEW b \in Bundles, SentinelAges(b)
      PROVE UnfinishedReplaysAreDistrusted'
  BY <1>30 DEF SentinelAges, log, site, locks, call, uv, history
<1>31. ASSUME NEW d \in Dists, Overwritten(d)
      PROVE UnfinishedReplaysAreDistrusted'
  BY <1>31 DEF Overwritten, Trouble, trust, log, locks, call, uv, history
<1>32. ASSUME NEW d \in Dists, Import(d) PROVE UnfinishedReplaysAreDistrusted'
  BY <1>32 DEF Import, Trouble, trust, log, locks, call, uv, history
<1>33. CASE Wiped
  BY <1>33 DEF Wiped, Trouble, trust, log, locks, call, uv, history
<1>34. CASE UNCHANGED vars
  BY <1>34 DEF vars, trust, log, site, locks, call, uv, history
<1> QED
  BY <1>1, <1>2, <1>3, <1>4, <1>5, <1>6, <1>7, <1>8, <1>9, <1>10, <1>11,
     <1>12, <1>13, <1>14, <1>15, <1>16, <1>17, <1>18, <1>19, <1>20, <1>21,
     <1>22, <1>23, <1>24, <1>25, <1>26, <1>27, <1>28, <1>29, <1>30, <1>31,
     <1>32, <1>33, <1>34 DEF Next, Step, UvStep, Rest

\* A grant ends with its process.
LEMMA FreshStep ==
    ASSUME Inv, [Next]_vars PROVE GrantsAreFresh'
<1> USE RepairAssumption DEF Inv, TypeOK, Mine, GrantsAreFresh, Replaying,
        Steps
<1>1. ASSUME NEW p \in Procs, Activate(p) PROVE GrantsAreFresh'
  BY <1>1 DEF Activate, Go, Healthy, Verified, Missing, trust, log, site,
     locks, uv, history
<1>2. ASSUME NEW p \in Procs, ClearRefusal(p) PROVE GrantsAreFresh'
  BY <1>2 DEF ClearRefusal, Go, MarkState, log, site, locks, call, uv,
     history
<1>3. ASSUME NEW p \in Procs, ReadState(p) PROVE GrantsAreFresh'
  BY <1>3 DEF ReadState, Go, trust, log, site, locks, uv, history
<1>4. ASSUME NEW p \in Procs, TakeInstallLock(p) PROVE GrantsAreFresh'
  BY <1>4 DEF TakeInstallLock, Go, trust, log, site, call, uv, history
<1>5. ASSUME NEW p \in Procs, Grant(p) PROVE GrantsAreFresh'
  BY <1>5 DEF Grant, Go, Missing, Verified, Current, Refused, Diverges,
     trust, site, locks, uv
<1>6. ASSUME NEW p \in Procs, Replay(p) PROVE GrantsAreFresh'
  BY <1>6 DEF Replay, Go, Current, trust, log, site, locks, call, uv,
     history
<1>7. ASSUME NEW p \in Procs, BeginAttempt(p) PROVE GrantsAreFresh'
  BY <1>7 DEF BeginAttempt, Go, trust, site, call, uv, history
<1>8. ASSUME NEW p \in Procs, MarkRepairing(p) PROVE GrantsAreFresh'
  BY <1>8 DEF MarkRepairing, Go, MarkState, log, site, locks, call, uv,
     history
<1>9. ASSUME NEW p \in Procs, UvExits(p) PROVE GrantsAreFresh'
  BY <1>9 DEF UvExits, Go, Installing, uv, trust, log, site, locks, call,
     history
<1>10. ASSUME NEW p \in Procs, UvFails(p) PROVE GrantsAreFresh'
  BY <1>10 DEF UvFails, Go, Trouble, trust, log, site, locks, call, uv,
     history
<1>11. ASSUME NEW p \in Procs, RollBack(p) PROVE GrantsAreFresh'
  BY <1>11 DEF RollBack, Go, Orphans, trust, log, locks, call, uv, history
<1>12. ASSUME NEW p \in Procs, GuardEnds(p) PROVE GrantsAreFresh'
  BY <1>12 DEF GuardEnds, Go, log, site, locks, uv, history
<1>13. ASSUME NEW p \in Procs, NEW d \in Dists, UvTear(p, d)
      PROVE GrantsAreFresh'
  BY <1>13 DEF UvTear, trust, log, locks, call, uv, history
<1>14. ASSUME NEW p \in Procs, NEW d \in Dists, UvDrop(p, d)
      PROVE GrantsAreFresh'
  BY <1>14 DEF UvDrop, trust, log, locks, call, uv, history
<1>15. ASSUME NEW p \in Procs, NEW d \in Dists, UvUnpack(p, d)
      PROVE GrantsAreFresh'
  BY <1>15 DEF UvUnpack, Installing, uv, trust, log, locks, call, history
<1>16. ASSUME NEW p \in Procs, NEW d \in Dists, UvInstall(p, d)
      PROVE GrantsAreFresh'
  BY <1>16 DEF UvInstall, Installing, uv, trust, log, locks, call, history
<1>17. ASSUME NEW b \in Bundles, LockChanges(b) PROVE GrantsAreFresh'
  BY <1>17 DEF LockChanges, Trouble, trust, log, site, locks, call, uv,
     history
<1>18. ASSUME NEW b \in Bundles, AuditLapses(b) PROVE GrantsAreFresh'
  BY <1>18 DEF AuditLapses, Trouble, log, site, locks, call, uv, history
<1>19. ASSUME NEW b \in Bundles, SentinelAges(b) PROVE GrantsAreFresh'
  BY <1>19 DEF SentinelAges, log, site, locks, call, uv, history
<1>20. ASSUME NEW d \in Dists, Overwritten(d) PROVE GrantsAreFresh'
  BY <1>20 DEF Overwritten, Trouble, trust, log, locks, call, uv, history
<1>21. ASSUME NEW d \in Dists, Import(d) PROVE GrantsAreFresh'
  BY <1>21 DEF Import, Trouble, trust, log, locks, call, uv, history
<1>22. CASE Wiped
  BY <1>22 DEF Wiped, Trouble, trust, log, locks, call, uv, history
<1>23. CASE UNCHANGED vars
  BY <1>23 DEF vars, trust, log, site, locks, call, uv, history
<1>24. ASSUME NEW p \in Procs, Ending(p) PROVE GrantsAreFresh'
  <2>1. TypeOK /\ GrantsAreFresh
    BY DEF Inv
  <2> HIDE DEF Inv, TypeOK, GrantsAreFresh, Steps
  <2> QED
    BY <1>24, <2>1, FreshAtTheEnd
<1> QED
  <2> HIDE DEF Inv, TypeOK, GrantsAreFresh
  <2> QED
    BY <1>1, <1>2, <1>3, <1>4, <1>5, <1>6, <1>7, <1>8, <1>9, <1>10,
       <1>11, <1>12, <1>13, <1>14, <1>15, <1>16, <1>17, <1>18, <1>19, <1>20,
       <1>21, <1>22, <1>23, <1>24
       DEF Next, Step, UvStep, Rest, Ending

\* Only the process that holds the install lock spends the budget.
LEMMA BudgetStep ==
    ASSUME Inv, [Next]_vars PROVE GrantsAreWithinBudget'
<1> USE RepairAssumption DEF Inv, TypeOK, Mine, GrantsAreWithinBudget,
        GrantsAreFresh, Steps, InstallLockIsHeld, Deciding, Replaying
<1>1. ASSUME NEW p \in Procs, Activate(p) PROVE GrantsAreWithinBudget'
  BY <1>1 DEF Activate, Go, Healthy, Verified, Missing, trust, log, site,
     locks, uv, history
<1>2. ASSUME NEW p \in Procs, ReadRefusal(p) PROVE GrantsAreWithinBudget'
  BY <1>2 DEF ReadRefusal, Go, Fail, Release, trust, log, site, locks, call,
     uv, history
<1>3. ASSUME NEW p \in Procs, ClearRefusal(p) PROVE GrantsAreWithinBudget'
  BY <1>3 DEF ClearRefusal, Go, MarkState, log, site, locks, call, uv,
     history
<1>4. ASSUME NEW p \in Procs, ReadState(p) PROVE GrantsAreWithinBudget'
  BY <1>4 DEF ReadState, Go, trust, log, site, locks, uv, history
<1>5. ASSUME NEW p \in Procs, FastPath(p) PROVE GrantsAreWithinBudget'
  BY <1>5 DEF FastPath, Go, Succeed, Release, Current, Sound, Verified,
     Missing, trust, log, site, locks, call, uv, history
<1>6. ASSUME NEW p \in Procs, TakeInstallLock(p) PROVE GrantsAreWithinBudget'
  BY <1>6 DEF TakeInstallLock, Go, trust, log, site, call, uv, history
<1>7. ASSUME NEW p \in Procs, KeepPayload(p) PROVE GrantsAreWithinBudget'
  BY <1>7 DEF KeepPayload, Verified, Missing, Succeed, Go, Release, Fail,
     Trouble, Current, log, site, history
<1>8. ASSUME NEW p \in Procs, Refuse(p) PROVE GrantsAreWithinBudget'
  BY <1>8 DEF Refuse, Verified, Missing, MarkState, Fail, Go, Release,
     Current, Refused, Diverges, log, site, history
<1>9. ASSUME NEW p \in Procs, Grant(p) PROVE GrantsAreWithinBudget'
  <2>1. attempts[Mine(p)] # MaxAttempts
    BY <1>9 DEF Grant, Refused
  <2>2. attempts[Mine(p)] \in 0..MaxAttempts
    OBVIOUS
  <2>3. attempts[Mine(p)] < MaxAttempts
    BY <2>1, <2>2, Below
  <2> QED
    BY <1>9, <2>3 DEF Grant, Go
<1>10. ASSUME NEW p \in Procs, Replay(p) PROVE GrantsAreWithinBudget'
  BY <1>10 DEF Replay, Go, Current, trust, log, site, locks, call, uv,
     history
<1>11. ASSUME NEW p \in Procs, Prepare(p) PROVE GrantsAreWithinBudget'
  BY <1>11 DEF Prepare, Go, Fail, Release, Trouble, trust, log, locks, uv,
     history
<1>12. ASSUME NEW p \in Procs, BeginAttempt(p) PROVE GrantsAreWithinBudget'
  BY <1>12 DEF BeginAttempt, Go, trust, site, call, uv, history
<1>13. ASSUME NEW p \in Procs, MarkRepairing(p) PROVE GrantsAreWithinBudget'
  BY <1>13 DEF MarkRepairing, Go, MarkState, log, site, locks, call, uv,
     history
<1>14. ASSUME NEW p \in Procs, StartUv(p) PROVE GrantsAreWithinBudget'
  BY <1>14 DEF StartUv, Go, Fail, Release, Trouble, trust, log, site, locks,
     call, uv
<1>15. ASSUME NEW p \in Procs, UvExits(p) PROVE GrantsAreWithinBudget'
  BY <1>15 DEF UvExits, Go, Installing, uv, trust, log, site, locks, call,
     history
<1>16. ASSUME NEW p \in Procs, UvFails(p) PROVE GrantsAreWithinBudget'
  BY <1>16 DEF UvFails, Go, Trouble, trust, log, site, locks, call, uv,
     history
<1>17. ASSUME NEW p \in Procs, RollBack(p) PROVE GrantsAreWithinBudget'
  BY <1>17 DEF RollBack, Go, Orphans, trust, log, locks, call, uv, history
<1>18. ASSUME NEW p \in Procs, MarkBroken(p) PROVE GrantsAreWithinBudget'
  BY <1>18 DEF MarkBroken, MarkState, Fail, Go, Release, log, site, history
<1>19. ASSUME NEW p \in Procs, Check(p) PROVE GrantsAreWithinBudget'
  BY <1>19 DEF Check, Go, Verified, Missing, Trouble, FailPostVerify,
     MarkState, Fail, Release, history, trust, log, site, locks, call, uv
<1>20. ASSUME NEW p \in Procs, Certify(p) PROVE GrantsAreWithinBudget'
  BY <1>20 DEF Certify, Go, Trouble, FailPostVerify, MarkState, Fail,
     Release, history, log, site, locks, call, uv
<1>21. ASSUME NEW p \in Procs, Clean(p) PROVE GrantsAreWithinBudget'
  BY <1>21 DEF Clean, MarkState, Succeed, Go, Release, log, site, history
<1>22. ASSUME NEW p \in Procs, GuardEnds(p) PROVE GrantsAreWithinBudget'
  BY <1>22 DEF GuardEnds, Go, log, site, locks, uv, history
<1>23. ASSUME NEW p \in Procs, Dies(p) PROVE GrantsAreWithinBudget'
  BY <1>23 DEF Dies, Go, Release, Fail, Trouble, trust, log, site, history
<1>24. ASSUME NEW p \in Procs, NEW d \in Dists, UvTear(p, d)
      PROVE GrantsAreWithinBudget'
  BY <1>24 DEF UvTear, trust, log, locks, call, uv, history
<1>25. ASSUME NEW p \in Procs, NEW d \in Dists, UvDrop(p, d)
      PROVE GrantsAreWithinBudget'
  BY <1>25 DEF UvDrop, trust, log, locks, call, uv, history
<1>26. ASSUME NEW p \in Procs, NEW d \in Dists, UvUnpack(p, d)
      PROVE GrantsAreWithinBudget'
  BY <1>26 DEF UvUnpack, Installing, uv, trust, log, locks, call, history
<1>27. ASSUME NEW p \in Procs, NEW d \in Dists, UvInstall(p, d)
      PROVE GrantsAreWithinBudget'
  BY <1>27 DEF UvInstall, Installing, uv, trust, log, locks, call, history
<1>28. ASSUME NEW b \in Bundles, LockChanges(b) PROVE GrantsAreWithinBudget'
  BY <1>28 DEF LockChanges, Trouble, trust, log, site, locks, call, uv,
     history
<1>29. ASSUME NEW b \in Bundles, AuditLapses(b) PROVE GrantsAreWithinBudget'
  BY <1>29 DEF AuditLapses, Trouble, log, site, locks, call, uv, history
<1>30. ASSUME NEW b \in Bundles, SentinelAges(b) PROVE GrantsAreWithinBudget'
  BY <1>30 DEF SentinelAges, log, site, locks, call, uv, history
<1>31. ASSUME NEW d \in Dists, Overwritten(d) PROVE GrantsAreWithinBudget'
  BY <1>31 DEF Overwritten, Trouble, trust, log, locks, call, uv, history
<1>32. ASSUME NEW d \in Dists, Import(d) PROVE GrantsAreWithinBudget'
  BY <1>32 DEF Import, Trouble, trust, log, locks, call, uv, history
<1>33. CASE Wiped
  BY <1>33 DEF Wiped, Trouble, trust, log, locks, call, uv, history
<1>34. CASE UNCHANGED vars
  BY <1>34 DEF vars, trust, log, site, locks, call, uv, history
<1> QED
  BY <1>1, <1>2, <1>3, <1>4, <1>5, <1>6, <1>7, <1>8, <1>9, <1>10, <1>11,
     <1>12, <1>13, <1>14, <1>15, <1>16, <1>17, <1>18, <1>19, <1>20, <1>21,
     <1>22, <1>23, <1>24, <1>25, <1>26, <1>27, <1>28, <1>29, <1>30, <1>31,
     <1>32, <1>33, <1>34 DEF Next, Step, UvStep, Rest

\* Uv has ended when its leftovers are removed.
LEMMA OwnedStep ==
    ASSUME Inv, [Next]_vars PROVE RolledBackIsOwnedOrAbsent'
<1> USE RepairAssumption DEF Inv, TypeOK, Mine, RolledBackIsOwnedOrAbsent,
        Steps, Versions, Foreign, UvLockIsHeld, Replaying
<1>1. ASSUME NEW p \in Procs, Activate(p) PROVE RolledBackIsOwnedOrAbsent'
  BY <1>1 DEF Activate, Go, Healthy, Verified, Missing, trust, log, site,
     locks, uv, history
<1>2. ASSUME NEW p \in Procs, ClearRefusal(p) PROVE RolledBackIsOwnedOrAbsent'
  BY <1>2 DEF ClearRefusal, Go, MarkState, log, site, locks, call, uv,
     history
<1>3. ASSUME NEW p \in Procs, ReadState(p) PROVE RolledBackIsOwnedOrAbsent'
  BY <1>3 DEF ReadState, Go, trust, log, site, locks, uv, history
<1>4. ASSUME NEW p \in Procs, TakeInstallLock(p)
      PROVE RolledBackIsOwnedOrAbsent'
  BY <1>4 DEF TakeInstallLock, Go, trust, log, site, call, uv, history
<1>5. ASSUME NEW p \in Procs, Grant(p) PROVE RolledBackIsOwnedOrAbsent'
  BY <1>5 DEF Grant, Go, Missing, Verified, Current, Refused, Diverges,
     trust, site, locks, uv
<1>6. ASSUME NEW p \in Procs, Replay(p) PROVE RolledBackIsOwnedOrAbsent'
  BY <1>6 DEF Replay, Go, Current, trust, log, site, locks, call, uv,
     history
<1>7. ASSUME NEW p \in Procs, BeginAttempt(p) PROVE RolledBackIsOwnedOrAbsent'
  BY <1>7 DEF BeginAttempt, Go, trust, site, call, uv, history
<1>8. ASSUME NEW p \in Procs, MarkRepairing(p)
      PROVE RolledBackIsOwnedOrAbsent'
  BY <1>8 DEF MarkRepairing, Go, MarkState, log, site, locks, call, uv,
     history
<1>9. ASSUME NEW p \in Procs, UvExits(p) PROVE RolledBackIsOwnedOrAbsent'
  BY <1>9 DEF UvExits, Go, Installing, uv, trust, log, site, locks, call,
     history
<1>10. ASSUME NEW p \in Procs, UvFails(p) PROVE RolledBackIsOwnedOrAbsent'
  BY <1>10 DEF UvFails, Go, Trouble, trust, log, site, locks, call, uv,
     history
<1>11. ASSUME NEW p \in Procs, RollBack(p) PROVE RolledBackIsOwnedOrAbsent'
  BY <1>11 DEF RollBack, Go, Orphans, trust, log, locks, call, uv, history
<1>12. ASSUME NEW p \in Procs, GuardEnds(p) PROVE RolledBackIsOwnedOrAbsent'
  BY <1>12 DEF GuardEnds, Go, log, site, locks, uv, history
<1>13. ASSUME NEW p \in Procs, NEW d \in Dists, UvTear(p, d)
      PROVE RolledBackIsOwnedOrAbsent'
  BY <1>13 DEF UvTear, trust, log, locks, call, uv, history
<1>14. ASSUME NEW p \in Procs, NEW d \in Dists, UvDrop(p, d)
      PROVE RolledBackIsOwnedOrAbsent'
  BY <1>14 DEF UvDrop, trust, log, locks, call, uv, history
<1>15. ASSUME NEW p \in Procs, NEW d \in Dists, UvUnpack(p, d)
      PROVE RolledBackIsOwnedOrAbsent'
  BY <1>15 DEF UvUnpack, Installing, uv, trust, log, locks, call, history
<1>16. ASSUME NEW p \in Procs, NEW d \in Dists, UvInstall(p, d)
      PROVE RolledBackIsOwnedOrAbsent'
  BY <1>16 DEF UvInstall, Installing, uv, trust, log, locks, call, history
<1>17. ASSUME NEW b \in Bundles, LockChanges(b)
      PROVE RolledBackIsOwnedOrAbsent'
  BY <1>17 DEF LockChanges, Trouble, trust, log, site, locks, call, uv,
     history
<1>18. ASSUME NEW b \in Bundles, AuditLapses(b)
      PROVE RolledBackIsOwnedOrAbsent'
  BY <1>18 DEF AuditLapses, Trouble, log, site, locks, call, uv, history
<1>19. ASSUME NEW b \in Bundles, SentinelAges(b)
      PROVE RolledBackIsOwnedOrAbsent'
  BY <1>19 DEF SentinelAges, log, site, locks, call, uv, history
<1>20. ASSUME NEW d \in Dists, Overwritten(d) PROVE RolledBackIsOwnedOrAbsent'
  BY <1>20 DEF Overwritten, Trouble, trust, log, locks, call, uv, history
<1>21. ASSUME NEW d \in Dists, Import(d) PROVE RolledBackIsOwnedOrAbsent'
  BY <1>21 DEF Import, Trouble, trust, log, locks, call, uv, history
<1>22. CASE Wiped
  BY <1>22 DEF Wiped, Trouble, trust, log, locks, call, uv, history
<1>23. CASE UNCHANGED vars
  BY <1>23 DEF vars, trust, log, site, locks, call, uv, history
<1>24. ASSUME NEW p \in Procs, Ending(p) PROVE RolledBackIsOwnedOrAbsent'
  <2>1. TypeOK /\ RolledBackIsOwnedOrAbsent
    BY DEF Inv
  <2> HIDE DEF Inv, TypeOK, RolledBackIsOwnedOrAbsent, Steps
  <2> QED
    BY <1>24, <2>1, OwnedAtTheEnd
<1> QED
  <2> HIDE DEF Inv, TypeOK, RolledBackIsOwnedOrAbsent
  <2> QED
    BY <1>1, <1>2, <1>3, <1>4, <1>5, <1>6, <1>7, <1>8, <1>9, <1>10,
       <1>11, <1>12, <1>13, <1>14, <1>15, <1>16, <1>17, <1>18, <1>19, <1>20,
       <1>21, <1>22, <1>23, <1>24
       DEF Next, Step, UvStep, Rest, Ending


LEMMA InvInductive == Inv /\ [Next]_vars => Inv'
  BY TypeStep, InstallStep, UvLockStep, KnownStep, ClearStep, MarkedStep,
     CertifiedStep, DistrustStep, FreshStep, BudgetStep, OwnedStep DEF Inv

LEMMA Invariance == Spec => []Inv
<1>1. Init => Inv
  BY InitInv
<1>2. Inv /\ [Next]_vars => Inv'
  BY InvInductive
<1> QED
  BY <1>1, <1>2, PTL DEF Spec

\* Every variable keeps to its type; in particular only a broken state has a
\* refusal (mark_state, refuse_repair).
THEOREM TypeCorrect == Spec => []TypeOK
  BY Invariance, PTL DEF Inv

\* Until a bundle is rebuilt, an unverified replay is never trusted again: the
\* state file contradicts the marker from before uv starts to after the payload
\* was verified, whoever dies in between (run of installer.rs).
THEOREM UnfinishedReplaysDistrusted ==
    Spec => []UnfinishedReplaysAreDistrusted
  BY Invariance, PTL DEF Inv

\* The replays of an environment do not overlap (the per-prefix uv guard).
THEOREM SerialReplays == Spec => []ReplaysAreSerial
<1>1. UvLockIsHeld => ReplaysAreSerial
  BY DEF UvLockIsHeld, ReplaysAreSerial
<1> QED
  BY <1>1, Invariance, PTL DEF Inv

\* A granted replay begins within the budget (decide_repair), for any cap.
THEOREM GrantsWithinBudget == Spec => []GrantsAreWithinBudget
  BY Invariance, PTL DEF Inv

\* A failed replay leaves nothing that Python imports and no metadata owns, of
\* what it found installed (rollback_half_removed).
THEOREM RolledBack == Spec => []RolledBackIsOwnedOrAbsent
  BY Invariance, PTL DEF Inv
-----------------------------------------------------------------------------
(***************************************************************************)
(* The order of the locks, and what earns a marker.                        *)
(***************************************************************************)
\* A process waits for the holder of the install lock of its bundle or for that
\* of the uv lock.
WaitsFor(p, q) ==
    \/ pc[p] = "lock" /\ installLock[Mine(p)] = q
    \/ pc[p] = "uvLock" /\ uvLock = q

\* How many of the two locks the stage of an install holds.
Rank(p) == IF pc[p] \in Replaying THEN 2 ELSE IF pc[p] \in Deciding THEN 1 ELSE 0
WaitingIsOrdered == \A p, q \in Procs : WaitsFor(p, q) => Rank(p) < Rank(q)

\* A marker is only written for what has been verified.
MarkersAreEarned ==
    [][\A b \in Bundles : marker'[b] # marker[b] => b \notin open']_vars

\* Who holds a lock is at a stage that needs it.
LocksAreUsed ==
    /\ \A b \in Bundles : installLock[b] # None =>
            pc[installLock[b]] \in Deciding /\ Mine(installLock[b]) = b
    /\ uvLock # None => pc[uvLock] \in Replaying

\* What a step does to the locks: nothing, and an install goes on to a stage
\* that needs what it has; or one is taken; or an install drops its locks.
Keeps(p) ==
    /\ \E s \in Steps : /\ Go(p, s)
                        /\ pc[p] \in Deciding => s \in Deciding
                        /\ pc[p] \in Replaying => s \in Replaying
    /\ UNCHANGED locks
Drops(p) ==
    /\ installLock' = [b \in Bundles |-> IF installLock[b] = p THEN None
                                         ELSE installLock[b]]
    /\ uvLock' = IF uvLock = p THEN None ELSE uvLock
    /\ \A q \in Procs : q # p => pc'[q] = pc[q]
Moves ==
    /\ UNCHANGED bundle
    /\ marker' = marker \/ (\E p \in Procs : Certify(p) /\ UNCHANGED open)
    /\ \/ UNCHANGED <<pc, locks>>
       \/ \E p \in Procs :
            TakeInstallLock(p) \/ BeginAttempt(p) \/ Keeps(p) \/ Drops(p)

LEMMA Dropping ==
    ASSUME TypeOK, NEW p \in Procs,
           Fail(p) \/ Succeed(p) \/ (Go(p, "idle") /\ Release(p))
    PROVE  Drops(p)
<1>1. Release(p) /\ \E s : pc' = [pc EXCEPT ![p] = s]
  BY DEF Fail, Succeed, Go
<1> QED
  BY <1>1 DEF Drops, Release, TypeOK

LEMMA MovesStep ==
    ASSUME TypeOK, [Next]_vars PROVE Moves
<1> DEFINE Same == UNCHANGED <<bundle, marker>>
<1> USE DEF Replaying, Deciding, Steps
<1>1. ASSUME NEW p \in Procs, Activate(p) PROVE Moves
  <2>1. Same /\ UNCHANGED locks /\ pc[p] = "idle" /\ Go(p, "refusal")
    BY <1>1 DEF Activate, trust
  <2> QED
    BY <2>1 DEF Moves, Keeps
<1>2. ASSUME NEW p \in Procs, ClearRefusal(p) PROVE Moves
  <2>1. Same /\ UNCHANGED locks /\ pc[p] = "clear" /\ Go(p, "read")
    BY <1>2 DEF ClearRefusal
  <2> QED
    BY <2>1 DEF Moves, Keeps
<1>3. ASSUME NEW p \in Procs, ReadState(p) PROVE Moves
  <2>1. Same /\ UNCHANGED locks /\ pc[p] = "read" /\ Go(p, "fast")
    BY <1>3 DEF ReadState, trust
  <2> QED
    BY <2>1 DEF Moves, Keeps
<1>4. ASSUME NEW p \in Procs, Grant(p) PROVE Moves
  <2>1. Same /\ UNCHANGED locks /\ pc[p] = "decide" /\ Go(p, "prepare")
    BY <1>4 DEF Grant, trust
  <2> QED
    BY <2>1 DEF Moves, Keeps
<1>5. ASSUME NEW p \in Procs, Replay(p) PROVE Moves
  <2>1. Same /\ UNCHANGED locks /\ pc[p] = "decide" /\ Go(p, "prepare")
    BY <1>5 DEF Replay, trust
  <2> QED
    BY <2>1 DEF Moves, Keeps
<1>6. ASSUME NEW p \in Procs, MarkRepairing(p) PROVE Moves
  <2>1. Same /\ UNCHANGED locks /\ pc[p] = "mark" /\ Go(p, "start")
    BY <1>6 DEF MarkRepairing
  <2> QED
    BY <2>1 DEF Moves, Keeps
<1>7. ASSUME NEW p \in Procs, UvExits(p) PROVE Moves
  <2>1. Same /\ UNCHANGED locks /\ pc[p] = "uv" /\ Go(p, "check")
    BY <1>7 DEF UvExits, Installing, trust
  <2> QED
    BY <2>1 DEF Moves, Keeps
<1>8. ASSUME NEW p \in Procs, UvFails(p) PROVE Moves
  <2>1. Same /\ UNCHANGED locks /\ pc[p] = "uv" /\ Go(p, "rollback")
    BY <1>8 DEF UvFails, trust
  <2> QED
    BY <2>1 DEF Moves, Keeps
<1>9. ASSUME NEW p \in Procs, RollBack(p) PROVE Moves
  <2>1. Same /\ UNCHANGED locks /\ pc[p] = "rollback" /\ Go(p, "markBroken")
    BY <1>9 DEF RollBack, trust
  <2> QED
    BY <2>1 DEF Moves, Keeps
<1>10. ASSUME NEW p \in Procs, GuardEnds(p) PROVE Moves
  <2>1. /\ Same /\ UNCHANGED locks /\ Go(p, "idle")
        /\ pc[p] \in {"shellOk", "shellFail"}
    BY <1>10 DEF GuardEnds
  <2> QED
    BY <2>1 DEF Moves, Keeps
<1>11. ASSUME NEW p \in Procs, KeepPayload(p) PROVE Moves
  <2>1. Same /\ (Fail(p) \/ Succeed(p))
    BY <1>11 DEF KeepPayload
  <2> QED
    BY <2>1, Dropping DEF Moves
<1>12. ASSUME NEW p \in Procs, Refuse(p) PROVE Moves
  <2>1. Same /\ (Fail(p) \/ Succeed(p))
    BY <1>12 DEF Refuse
  <2> QED
    BY <2>1, Dropping DEF Moves
<1>13. ASSUME NEW p \in Procs, MarkBroken(p) PROVE Moves
  <2>1. Same /\ (Fail(p) \/ Succeed(p))
    BY <1>13 DEF MarkBroken
  <2> QED
    BY <2>1, Dropping DEF Moves
<1>14. ASSUME NEW p \in Procs, Clean(p) PROVE Moves
  <2>1. Same /\ (Fail(p) \/ Succeed(p))
    BY <1>14 DEF Clean
  <2> QED
    BY <2>1, Dropping DEF Moves
<1>15. ASSUME NEW p \in Procs, Dies(p) PROVE Moves
  <2>1. Same /\ (Fail(p) \/ (Go(p, "idle") /\ Release(p)))
    BY <1>15 DEF Dies, trust
  <2> QED
    BY <2>1, Dropping DEF Moves
<1>16. ASSUME NEW p \in Procs, ReadRefusal(p) PROVE Moves
  <2>1. Same /\ pc[p] = "refusal"
    BY <1>16 DEF ReadRefusal, trust
  <2>2. Fail(p) \/ ((Go(p, "read") \/ Go(p, "clear")) /\ UNCHANGED locks)
    BY <1>16 DEF ReadRefusal, trust
  <2> QED
    BY <2>1, <2>2, Dropping DEF Moves, Keeps
<1>17. ASSUME NEW p \in Procs, FastPath(p) PROVE Moves
  <2>1. Same /\ pc[p] = "fast"
    BY <1>17 DEF FastPath, trust
  <2>2. Succeed(p) \/ (Go(p, "lock") /\ UNCHANGED locks)
    BY <1>17 DEF FastPath, trust
  <2> QED
    BY <2>1, <2>2, Dropping DEF Moves, Keeps
<1>18. ASSUME NEW p \in Procs, Prepare(p) PROVE Moves
  <2>1. Same /\ pc[p] = "prepare"
    BY <1>18 DEF Prepare, trust
  <2>2. Fail(p) \/ (Go(p, "uvLock") /\ UNCHANGED locks)
    BY <1>18 DEF Prepare, trust
  <2> QED
    BY <2>1, <2>2, Dropping DEF Moves, Keeps
<1>19. ASSUME NEW p \in Procs, StartUv(p) PROVE Moves
  <2>1. Same /\ pc[p] = "start"
    BY <1>19 DEF StartUv, trust
  <2>2. Fail(p) \/ (Go(p, "uv") /\ UNCHANGED locks)
    BY <1>19 DEF StartUv, trust
  <2> QED
    BY <2>1, <2>2, Dropping DEF Moves, Keeps
<1>20. ASSUME NEW p \in Procs, Check(p) PROVE Moves
  <2>1. Same /\ pc[p] = "check"
    BY <1>20 DEF Check, FailPostVerify, trust
  <2>2. Fail(p) \/ (Go(p, "certify") /\ UNCHANGED locks)
    BY <1>20 DEF Check, FailPostVerify, trust
  <2> QED
    BY <2>1, <2>2, Dropping DEF Moves, Keeps
<1>21. ASSUME NEW p \in Procs, Certify(p) PROVE Moves
  <2>1. UNCHANGED bundle /\ pc[p] = "certify"
    BY <1>21 DEF Certify
  <2>2. UNCHANGED open
    BY <1>21 DEF Certify, FailPostVerify, history
  <2>3. Fail(p) \/ (Go(p, "clean") /\ UNCHANGED locks)
    BY <1>21 DEF Certify, FailPostVerify
  <2> QED
    BY <1>21, <2>1, <2>2, <2>3, Dropping DEF Moves, Keeps
<1>22. ASSUME NEW p \in Procs, TakeInstallLock(p) PROVE Moves
  <2>1. Same
    BY <1>22 DEF TakeInstallLock, trust
  <2> QED
    BY <1>22, <2>1 DEF Moves
<1>23. ASSUME NEW p \in Procs, BeginAttempt(p) PROVE Moves
  <2>1. Same
    BY <1>23 DEF BeginAttempt, trust
  <2> QED
    BY <1>23, <2>1 DEF Moves
<1>24. ASSUME NEW p \in Procs, NEW d \in Dists, UvTear(p, d) PROVE Moves
  BY <1>24 DEF UvTear, Moves, trust, locks
<1>25. ASSUME NEW p \in Procs, NEW d \in Dists, UvDrop(p, d) PROVE Moves
  BY <1>25 DEF UvDrop, Moves, trust, locks
<1>26. ASSUME NEW p \in Procs, NEW d \in Dists, UvUnpack(p, d) PROVE Moves
  BY <1>26 DEF UvUnpack, Moves, trust, locks
<1>27. ASSUME NEW p \in Procs, NEW d \in Dists, UvInstall(p, d) PROVE Moves
  BY <1>27 DEF UvInstall, Moves, trust, locks
<1>28. ASSUME NEW b \in Bundles, LockChanges(b) PROVE Moves
  BY <1>28 DEF LockChanges, Moves, trust, locks
<1>29. ASSUME NEW b \in Bundles, AuditLapses(b) PROVE Moves
  BY <1>29 DEF AuditLapses, Moves, trust, locks
<1>30. ASSUME NEW b \in Bundles, SentinelAges(b) PROVE Moves
  BY <1>30 DEF SentinelAges, Moves, trust, locks
<1>31. ASSUME NEW d \in Dists, Overwritten(d) PROVE Moves
  BY <1>31 DEF Overwritten, Moves, trust, locks
<1>32. ASSUME NEW d \in Dists, Import(d) PROVE Moves
  BY <1>32 DEF Import, Moves, trust, locks
<1>33. CASE Wiped
  BY <1>33 DEF Wiped, Moves, trust, locks
<1>34. CASE UNCHANGED vars
  BY <1>34 DEF vars, Moves, trust, locks
<1> QED
  BY <1>1, <1>2, <1>3, <1>4, <1>5, <1>6, <1>7, <1>8, <1>9, <1>10, <1>11,
     <1>12, <1>13, <1>14, <1>15, <1>16, <1>17, <1>18, <1>19, <1>20, <1>21,
     <1>22, <1>23, <1>24, <1>25, <1>26, <1>27, <1>28, <1>29, <1>30, <1>31,
     <1>32, <1>33, <1>34 DEF Next, Step, UvStep, Rest

\* Whoever returns has dropped its locks, and nobody else loses one.
LEMMA UsedStep ==
    ASSUME Inv, LocksAreUsed, [Next]_vars PROVE LocksAreUsed'
<1>a. /\ TypeOK /\ None \notin Procs
      /\ installLock \in [Bundles -> Procs \cup {None}]
      /\ uvLock \in Procs \cup {None}
      /\ pc \in [Procs -> Steps] /\ bundle \in [Procs -> Bundles]
  BY RepairAssumption DEF Inv, TypeOK
<1>b. Moves
  BY <1>a, MovesStep
<1>c. bundle' = bundle
  BY <1>b DEF Moves
<1> USE DEF LocksAreUsed, Mine
<1>1. CASE UNCHANGED <<pc, locks>>
  BY <1>1, <1>c DEF locks
<1>2. ASSUME NEW p \in Procs, TakeInstallLock(p) PROVE LocksAreUsed'
  <2>1. /\ pc[p] = "lock" /\ pc' = [pc EXCEPT ![p] = "decide"]
        /\ installLock' = [installLock EXCEPT ![bundle[p]] = p]
        /\ installLock[bundle[p]] = None /\ uvLock' = uvLock
    BY <1>2 DEF TakeInstallLock, Go
  <2>2. ASSUME NEW b \in Bundles, installLock'[b] # None
        PROVE  pc'[installLock'[b]] \in Deciding /\ bundle[installLock'[b]] = b
    BY <1>a, <2>1, <2>2 DEF Deciding
  <2>3. uvLock # None => pc'[uvLock] \in Replaying
    BY <1>a, <2>1 DEF Replaying
  <2> QED
    BY <1>c, <2>1, <2>2, <2>3
<1>3. ASSUME NEW p \in Procs, BeginAttempt(p) PROVE LocksAreUsed'
  <2>1. /\ pc[p] = "uvLock" /\ pc' = [pc EXCEPT ![p] = "mark"]
        /\ uvLock' = p /\ installLock' = installLock
    BY <1>3 DEF BeginAttempt, Go
  <2>2. ASSUME NEW b \in Bundles, installLock[b] # None
        PROVE  pc'[installLock[b]] \in Deciding
    BY <1>a, <2>1, <2>2 DEF Deciding, Replaying
  <2> QED
    BY <1>a, <1>c, <2>1, <2>2 DEF Replaying
<1>4. ASSUME NEW p \in Procs, Keeps(p) PROVE LocksAreUsed'
  <2>1. PICK s \in Steps : /\ pc' = [pc EXCEPT ![p] = s]
                           /\ pc[p] \in Deciding => s \in Deciding
                           /\ pc[p] \in Replaying => s \in Replaying
    BY <1>4 DEF Keeps, Go
  <2>2. installLock' = installLock /\ uvLock' = uvLock
    BY <1>4 DEF Keeps, locks
  <2>3. \A q \in Procs : /\ pc[q] \in Deciding => pc'[q] \in Deciding
                         /\ pc[q] \in Replaying => pc'[q] \in Replaying
    BY <1>a, <2>1
  <2> QED
    BY <1>a, <1>c, <2>2, <2>3
<1>5. ASSUME NEW p \in Procs, Drops(p) PROVE LocksAreUsed'
  <2>1. ASSUME NEW b \in Bundles, installLock'[b] # None
        PROVE  installLock'[b] = installLock[b] /\ installLock[b] # p
    BY <1>a, <1>5, <2>1 DEF Drops
  <2>2. uvLock' # None => uvLock' = uvLock /\ uvLock # p
    BY <1>5 DEF Drops
  <2>3. \A q \in Procs : q # p => pc'[q] = pc[q]
    BY <1>5 DEF Drops
  <2> QED
    BY <1>a, <1>c, <2>1, <2>2, <2>3
<1> QED
  BY <1>b, <1>1, <1>2, <1>3, <1>4, <1>5 DEF Moves

\* The install lock comes before the uv lock: a process that waits, waits for
\* one that holds more of the two than it does itself, so that nobody waits for
\* itself along any chain, and the one at its end runs or has returned (the two
\* guards of installer.rs).
THEOREM WaitsAreOrdered == Spec => []WaitingIsOrdered
<1>1. Init => LocksAreUsed
  BY DEF Init, LocksAreUsed
<1>2. ASSUME Inv, LocksAreUsed PROVE WaitingIsOrdered
  <2> SUFFICES ASSUME NEW p \in Procs, NEW q \in Procs, WaitsFor(p, q)
               PROVE  Rank(p) < Rank(q)
    BY DEF WaitingIsOrdered
  <2>0. q # None /\ bundle[p] \in Bundles
    BY <1>2, RepairAssumption DEF Inv, TypeOK
  <2>1. CASE pc[p] = "lock" /\ installLock[Mine(p)] = q
    <3>1. pc[q] \in Deciding
      BY <1>2, <2>0, <2>1 DEF LocksAreUsed, Mine
    <3> QED
      BY <2>1, <3>1 DEF Rank, Deciding, Replaying
  <2>2. CASE pc[p] = "uvLock" /\ uvLock = q
    <3>1. pc[q] \in Replaying
      BY <1>2, <2>0, <2>2 DEF LocksAreUsed
    <3> QED
      BY <2>2, <3>1 DEF Rank, Deciding, Replaying
  <2> QED
    BY <2>1, <2>2 DEF WaitsFor
<1> QED
  BY <1>1, <1>2, UsedStep, InvInductive, Invariance, PTL DEF Spec

\* Whichever lock a bundle has by now, a marker is written only when its last
\* replay has been verified and no other has begun since (finish_repair): the
\* process that writes it has the uv lock from its own replay on.
THEOREM MarkersEarned == Spec => MarkersAreEarned
<1>1. ASSUME Inv, [Next]_vars
      PROVE  [\A b \in Bundles : marker'[b] # marker[b] => b \notin open']_vars
  <2>1. Moves
    BY <1>1, MovesStep DEF Inv
  <2>2. ASSUME NEW p \in Procs, Certify(p), UNCHANGED open,
               NEW b \in Bundles, marker'[b] # marker[b]
        PROVE  b \notin open'
    <3>1. Mine(p) \notin open
      BY <1>1, <2>2 DEF Certify, Inv, CertifiedIsVerified
    <3>2. \/ marker' = [marker EXCEPT ![Mine(p)] = want[p]]
          \/ marker' = marker
      BY <2>2 DEF Certify, FailPostVerify
    <3>3. b = Mine(p)
      BY <1>1, <2>2, <3>2 DEF Inv, TypeOK
    <3> QED
      BY <2>2, <3>1, <3>3
  <2> QED
    BY <2>1, <2>2 DEF Moves
<1> QED
  BY <1>1, Invariance, PTL DEF Spec, MarkersAreEarned
=============================================================================
