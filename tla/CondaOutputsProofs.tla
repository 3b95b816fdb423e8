------------------------- MODULE CondaOutputsProofs -------------------------
(* Proofs about CondaOutputs, for every value of its constants.            *)
EXTENDS CondaOutputs, TLAPS

-----------------------------------------------------------------------------
(* Types                                                                   *)

BuildPcs == {"fast", "build", "refused"}
RequestPcs == {"disk", "store", "lock"} \cup Computing

\* The part of the type invariant that ties a request to where it stands.
Control ==
    /\ pc \in [Procs -> {"idle", "disk", "store", "lock", "fast", "build",
                         "refused"} \cup Computing]
    /\ work \in [Procs -> {Idle} \cup Builds \cup Requests]
    /\ \A p \in Procs :
           \/ pc[p] = "idle" /\ work[p] = Idle
           \/ pc[p] \in BuildPcs /\ work[p] \in Builds
           \/ pc[p] \in RequestPcs /\ work[p] \in Requests

Shapes ==
    /\ live \in Fps
    /\ lock \in [Outputs -> Maybe(Locks)]
    /\ disk \in [Fps -> Maybe(Shared)]
    /\ fill \in [Fps -> Maybe(Procs)]
    /\ store \in [Fps -> Maybe(Stored)]
    /\ records \in [Outputs -> [Fps -> Maybe(Records)]]
    /\ unwritten \subseteq Outputs \X Fps
    /\ told \in [Procs -> Maybe(Results)]
    /\ view \in [Procs -> Worlds]
    /\ memo \in [Procs -> [Fps -> Maybe(Memos)]]
    /\ held \in [Procs ->
           [key : Maybe(Fps), plans : [Outputs -> Maybe(Plans)]]]

\* What is written and published is complete.
Complete ==
    \A p \in Procs :
        pc[p] \in {"write", "publish"}
            => \A o \in Outputs : work[p].res[o] # None

\* The type invariant in its two parts.
LEMMA TypeParts == TypeOK <=> Shapes /\ Control
  BY DEF TypeOK, Shapes, Control, BuildPcs, RequestPcs

\* What a world holds for the package is a version.
LEMMA ContentIsVersion == \A w \in Worlds : Content[w] \in Versions
  BY DEF Versions

\* The constant values of the initial state and of a request that begins.
LEMMA ConstantTypes ==
    /\ NoPlans \in [Outputs -> Maybe(Versions)]
    /\ NoPlans \in [Outputs -> Maybe(Identities)]
    /\ NoPlans \in [Outputs -> Maybe(Plans)]
    /\ NothingHeld \in [key : Maybe(Fps), plans : [Outputs -> Maybe(Plans)]]
    /\ \A k \in Fps : Request(k) \in Requests
  BY DEF NoPlans, NothingHeld, Request, Requests, Maybe

\* A process that moves with a request of the kind its new place calls for.
LEMMA MovesControl ==
    ASSUME Control, NEW p \in Procs, NEW at, NEW w,
           Goes(p, at), Works(p, w),
           \/ at = "idle" /\ w = Idle
           \/ at \in BuildPcs /\ w \in Builds
           \/ at \in RequestPcs /\ w \in Requests
    PROVE  Control'
  BY DEF Control, Goes, Works, BuildPcs, RequestPcs, Computing

\* A process that moves and keeps its request.
LEMMA AdvancesControl ==
    ASSUME Control, NEW p \in Procs, NEW at,
           Goes(p, at), UNCHANGED work,
           \/ pc[p] \in BuildPcs /\ at \in BuildPcs
           \/ pc[p] \in RequestPcs /\ at \in RequestPcs
    PROVE  Control'
  <1>1. pc[p] \in BuildPcs => work[p] \in Builds
    BY DEF Control, BuildPcs, RequestPcs, Computing
  <1>2. pc[p] \in RequestPcs => work[p] \in Requests
    BY DEF Control, BuildPcs, RequestPcs, Computing
  <1> QED
    BY <1>1, <1>2 DEF Control, Goes, BuildPcs, RequestPcs, Computing

\* A process that stays and edits its request.
LEMMA EditsControl ==
    ASSUME Control, NEW p \in Procs, NEW w,
           Works(p, w), UNCHANGED pc,
           \/ pc[p] \in BuildPcs /\ w \in Builds
           \/ pc[p] \in RequestPcs /\ w \in Requests
    PROVE  Control'
  BY DEF Control, Works, BuildPcs, RequestPcs, Computing

\* Where a process has a request for outputs, or for a build.
LEMMA RequestAt ==
    ASSUME Control, NEW p \in Procs
    PROVE  /\ pc[p] \in RequestPcs => work[p] \in Requests
           /\ pc[p] \in BuildPcs => work[p] \in Builds
           /\ pc[p] = "idle" => work[p] = Idle
  BY DEF Control, BuildPcs, RequestPcs, Computing

\* The fields of a request for outputs, and what its edits keep.
LEMMA RequestFields ==
    ASSUME NEW w \in Requests
    PROVE  /\ w.key \in Fps /\ w.locked \in BOOLEAN /\ w.refused \in BOOLEAN
           /\ w.over \in [Outputs -> Maybe(Versions)]
           /\ w.res \in [Outputs -> Maybe(Identities)]
           /\ w.plans \in [Outputs -> Maybe(Plans)]
           /\ \A b \in BOOLEAN :
                  /\ [w EXCEPT !.locked = b] \in Requests
                  /\ [w EXCEPT !.refused = b] \in Requests
           /\ \A f \in [Outputs -> Maybe(Versions)] :
                  [w EXCEPT !.over = f] \in Requests
  BY DEF Requests

\* A request with one more output.
Extended(w, o, i, q) == [w EXCEPT !.res[o] = i, !.plans[o] = q]

\* An output that is added to a request.
LEMMA RequestOutput ==
    ASSUME NEW w \in Requests, NEW o \in Outputs,
           NEW i \in Maybe(Identities), NEW q \in Maybe(Plans)
    PROVE  /\ Extended(w, o, i, q) \in Requests
           /\ Extended(w, o, i, q).key = w.key
           /\ Extended(w, o, i, q).locked = w.locked
           /\ Extended(w, o, i, q).res = [w.res EXCEPT ![o] = i]
           /\ Extended(w, o, i, q).plans = [w.plans EXCEPT ![o] = q]
  <1>1. Extended(w, o, i, q) \in Requests
    BY DEF Requests, Extended
  <1>2. /\ Extended(w, o, i, q).key = w.key
        /\ Extended(w, o, i, q).locked = w.locked
    BY DEF Requests, Extended
  <1>3. Extended(w, o, i, q).res = [w.res EXCEPT ![o] = i]
    BY DEF Requests, Extended
  <1>4. Extended(w, o, i, q).plans = [w.plans EXCEPT ![o] = q]
    BY DEF Requests, Extended
  <1> QED
    BY <1>1, <1>2, <1>3, <1>4

\* The fields of a request for a build.
LEMMA BuildFields ==
    ASSUME NEW w \in Builds
    PROVE  /\ w.out \in Outputs /\ w.id \in Identities /\ w.eff \in Fps
           /\ w.rec \in Maybe(Records) /\ w.plan \in Maybe(Plans)
           /\ w.detected \in Maybe(Versions)
           /\ \A v \in Maybe(Versions) :
                  [w EXCEPT !.detected = v] \in Builds
  BY DEF Builds

\* The fields of an identity.
LEMMA IdentityFields ==
    ASSUME NEW i \in Identities
    PROVE  /\ i.fp \in Fps /\ i.ver \in Versions /\ i.deps \in Versions
           /\ i.src \in {"fresh", "incremental", "replay"}
  BY DEF Identities

\* The fields of a lock.
LEMMA LockFields ==
    ASSUME NEW l \in Locks
    PROVE  /\ l.fp \in Fps /\ l.ver \in Versions /\ l.deps \in Versions
           /\ l.full \in BOOLEAN
  BY DEF Locks

\* The fields of a plan.
LEMMA PlanFields ==
    ASSUME NEW q \in Plans
    PROVE  /\ q.fp \in Fps /\ q.ver \in Versions /\ q.deps \in Versions
           /\ q.over \in Maybe(Versions)
  BY DEF Plans

\* Nothing is confused with None.
LEMMA NoneApart ==
    /\ None \notin Fps /\ None \notin Versions /\ None \notin Procs
    /\ None \notin Identities /\ None \notin Results /\ None \notin Records
    /\ None \notin Locks /\ None \notin Plans /\ None \notin Memos
    /\ None \notin Shared /\ None \notin Stored
  BY NoneAssumption

\* The memos, answers and entries of the store that there are.
LEMMA AnswerTypes ==
    ASSUME Shapes
    PROVE  /\ \A p \in Procs, k \in Fps :
                  memo[p][k] # None => /\ memo[p][k] \in Memos
                                       /\ memo[p][k].res \in Results
                                       /\ memo[p][k].plan \in BOOLEAN
           /\ \A k \in Fps : disk[k] # None => /\ disk[k] \in Shared
                                               /\ disk[k].res \in Results
                                               /\ disk[k].locked \in BOOLEAN
           /\ \A k \in Fps : store[k] # None => /\ store[k] \in Stored
                                                /\ store[k].res \in Results
                                                /\ store[k].world \in Worlds
           /\ \A p \in Procs : told[p] # None => told[p] \in Results
  <1>1. \A m \in Memos : m.res \in Results /\ m.plan \in BOOLEAN
    BY DEF Memos
  <1>2. \A m \in Shared : m.res \in Results /\ m.locked \in BOOLEAN
    BY DEF Shared
  <1>3. \A m \in Stored : m.res \in Results /\ m.world \in Worlds
    BY DEF Stored
  <1> QED
    BY <1>1, <1>2, <1>3 DEF Shapes, Maybe

\* The locks, plans and records that there are.
LEMMA HeldTypes ==
    ASSUME Shapes
    PROVE  /\ \A p \in Procs : /\ held[p].key \in Maybe(Fps)
                               /\ held[p].plans \in [Outputs -> Maybe(Plans)]
           /\ \A p \in Procs, o \in Outputs :
                  held[p].plans[o] # None => held[p].plans[o] \in Plans
           /\ \A o \in Outputs : lock[o] # None => lock[o] \in Locks
           /\ \A o \in Outputs, f \in Fps :
                  records[o][f] # None => records[o][f] \in Records
           /\ \A o \in Outputs, f \in Fps : records[o][f] \in Maybe(Records)
           /\ \A p \in Procs : /\ view[p] \in Worlds
                               /\ Content[view[p]] \in Versions
  <1>1. \A p \in Procs :
            held[p] \in [key : Maybe(Fps), plans : [Outputs -> Maybe(Plans)]]
    BY DEF Shapes
  <1>2. \A p \in Procs : /\ held[p].key \in Maybe(Fps)
                         /\ held[p].plans \in [Outputs -> Maybe(Plans)]
    BY <1>1
  <1> QED
    BY <1>2, ContentIsVersion DEF Shapes, Maybe

\* A request that all outputs were added to has an answer.
LEMMA FullResult ==
    ASSUME NEW r \in [Outputs -> Maybe(Identities)],
           \A o \in Outputs : r[o] # None
    PROVE  r \in Results
  BY DEF Results, Maybe

\* The initial states are of their types.
LEMMA TypeInit == Init => TypeOK
  <1> SUFFICES ASSUME Init PROVE TypeOK
    OBVIOUS
  <1>1. Shapes
    BY ConstantTypes, FpAssumption, ContentAssumption, LockAssumption
    DEF Init, Shapes, Fps, Maybe
  <1>2. Control
    BY DEF Init, Control, Computing
  <1> QED
    BY <1>1, <1>2, TypeParts

\* An answer keeps the types.
LEMMA AnswersShapes ==
    ASSUME Shapes, NEW p \in Procs, NEW r \in Maybe(Results), Answers(p, r)
    PROVE  /\ told' \in [Procs -> Maybe(Results)]
           /\ fill' \in [Fps -> Maybe(Procs)]
  BY DEF Shapes, Answers, Maybe

\* And so does what is remembered.
LEMMA RemembersShapes ==
    ASSUME Shapes, NEW p \in Procs, NEW k \in Fps, NEW m \in Maybe(Memos),
           Remembers(p, k, m)
    PROVE  memo' \in [Procs -> [Fps -> Maybe(Memos)]]
  BY DEF Shapes, Remembers

\* And so does what is held.
LEMMA HoldsShapes ==
    ASSUME Shapes, NEW p \in Procs,
           NEW h \in [key : Maybe(Fps), plans : [Outputs -> Maybe(Plans)]],
           Holds(p, h)
    PROVE  held' \in
               [Procs -> [key : Maybe(Fps), plans : [Outputs -> Maybe(Plans)]]]
  BY DEF Shapes, Holds

\* A record is kept under the build string it was written for.
Numbered(recs) ==
    \A o \in Outputs, f \in Fps : recs[o][f] # None => recs[o][f].fp = f

\* The outputs and fingerprints whose record is there or could not be written.
Tried ==
    {x \in Outputs \X Fps : records[x[1]][x[2]] # None \/ x \in unwritten}

\* A record is none of None.
LEMMA RecordIs ==
    ASSUME NEW i \in Identities, NEW w \in Worlds
    PROVE  /\ RecordOf(i, w) \in Records /\ RecordOf(i, w) # None
           /\ RecordOf(i, w).fp = i.fp
  <1>1. RecordOf(i, w) \in Records
    BY IdentityFields DEF RecordOf, Records
  <1> QED
    BY <1>1, NoneApart DEF RecordOf

\* What a step that may write records keeps: types, build strings, and the
\* writes that were tried.
Notes ==
    /\ records' \in [Outputs -> [Fps -> Maybe(Records)]]
    /\ unwritten' \subseteq Outputs \X Fps
    /\ Numbered(records) => Numbered(records')
    /\ Tried \subseteq Tried' /\ unwritten \subseteq unwritten'

\* A step that writes no records.
LEMMA QuietNotes ==
    ASSUME Shapes, UNCHANGED <<records, unwritten>>
    PROVE  Notes
  BY DEF Notes, Shapes, Tried, Numbered

\* Records are written under the build strings they are of, or their writes
\* have failed.
LEMMA AdvertiseNotes ==
    ASSUME Shapes, NEW r, NEW w \in Worlds, NEW S \in SUBSET Outputs,
           \A o \in S : r[o] \in Identities,
           Advertise(r, w, S)
    PROVE  Notes /\ \A o \in S : <<o, r[o].fp>> \in Tried'
  <1>1. PICK fails \in SUBSET S :
            /\ records' = [o \in Outputs |-> [f \in Fps |->
                   IF o \in S \ fails /\ r[o].fp = f
                   THEN RecordOf(r[o], w) ELSE records[o][f]]]
            /\ unwritten' = unwritten \cup {<<o, r[o].fp>> : o \in fails}
    BY DEF Advertise
  <1>2. \A o \in S : /\ r[o].fp \in Fps
                     /\ RecordOf(r[o], w) \in Records
                     /\ RecordOf(r[o], w) # None
                     /\ RecordOf(r[o], w).fp = r[o].fp
    BY IdentityFields, RecordIs
  <1>3. \A o \in Outputs, f \in Fps :
            \/ records'[o][f] = records[o][f]
            \/ /\ o \in S /\ r[o].fp = f
               /\ records'[o][f] = RecordOf(r[o], w)
    BY <1>1
  <1>4. records' \in [Outputs -> [Fps -> Maybe(Records)]]
    <2>1. \A o \in Outputs, f \in Fps :
              (IF o \in S \ fails /\ r[o].fp = f
               THEN RecordOf(r[o], w) ELSE records[o][f]) \in Maybe(Records)
      BY <1>2, HeldTypes DEF Maybe
    <2> QED
      BY <1>1, <2>1
  <1>5. unwritten' \subseteq Outputs \X Fps
    BY <1>1, <1>2 DEF Shapes
  <1>6. Numbered(records) => Numbered(records')
    BY <1>2, <1>3 DEF Numbered
  <1>7. \A o \in Outputs, f \in Fps :
            records[o][f] # None => records'[o][f] # None
    BY <1>2, <1>3
  <1>8. unwritten \subseteq unwritten'
    BY <1>1
  <1>9. Tried \subseteq Tried'
    BY <1>7, <1>8 DEF Tried
  <1>10. ASSUME NEW o \in S PROVE <<o, r[o].fp>> \in Tried'
    <2>1. <<o, r[o].fp>> \in Outputs \X Fps
      BY <1>2
    <2>2. CASE o \in fails
      BY <1>1, <2>1, <2>2 DEF Tried
    <2>3. CASE o \notin fails
      <3>1. records'[o][r[o].fp] = RecordOf(r[o], w)
        BY <1>1, <1>2, <2>3
      <3> QED
        BY <1>2, <2>1, <3>1 DEF Tried
    <2> QED
      BY <2>2, <2>3
  <1> QED
    BY <1>4, <1>5, <1>6, <1>8, <1>9, <1>10 DEF Notes

\* The output o is added to the request of p as i, and q is its plan.
Emits(p, o, i, q) ==
    /\ Works(p, Extended(work[p], o, i, q))
    /\ work'[p] \in Requests
    /\ work'[p].key = work[p].key /\ work'[p].locked = work[p].locked
    /\ work'[p].res = [work[p].res EXCEPT ![o] = i]
    /\ work'[p].plans = [work[p].plans EXCEPT ![o] = q]
    /\ \A r \in Procs \ {p} : work'[r] = work[r]
    /\ i.fp = live
    /\ i.src = "fresh" => i.ver = i.deps
    /\ i.src = "incremental" => q # None /\ q.over = i.ver
    /\ q # None => q.deps = Content[view[p]]
    /\ Notes /\ (i.src # "replay" => <<o, i.fp>> \in Tried')

\* An output that is added is of the fingerprint of the moment; it is replayed
\* from a lock, or it is resolved and a record of it has been tried.
LEMMA EmitSteps ==
    ASSUME Shapes, Control, NEW p \in Procs, NEW o \in Outputs,
           EmitReplay(p, o) \/ Emit(p, o)
    PROVE  \E i \in Identities, q \in Maybe(Plans) : Emits(p, o, i, q)
  <1>0. pc[p] = "emit" /\ work[p] \in Requests
    BY RequestAt DEF EmitReplay, Emit, RequestPcs, Computing
  <1>1. ASSUME NEW i \in Identities, NEW q \in Maybe(Plans),
               Works(p, Extended(work[p], o, i, q))
        PROVE  /\ work'[p] \in Requests
               /\ work'[p].key = work[p].key
               /\ work'[p].locked = work[p].locked
               /\ work'[p].res = [work[p].res EXCEPT ![o] = i]
               /\ work'[p].plans = [work[p].plans EXCEPT ![o] = q]
               /\ \A r \in Procs \ {p} : work'[r] = work[r]
    <2>1. i \in Maybe(Identities)
      BY DEF Maybe
    <2>2. /\ work'[p] = Extended(work[p], o, i, q)
          /\ \A r \in Procs \ {p} : work'[r] = work[r]
      BY <1>1 DEF Works, Control
    <2> QED
      BY <1>0, <2>1, <2>2, RequestOutput
  <1>2. CASE EmitReplay(p, o)
    <2> DEFINE l == lock[o]
               now == Content[view[p]]
               i == [fp |-> live, ver |-> l.ver, deps |-> l.deps,
                     src |-> "replay"]
               plan == [fp |-> live, ver |-> now, deps |-> now, over |-> None]
               q == IF l.ver = now /\ l.deps = now THEN plan ELSE None
    <2>1. i \in Identities
      BY <1>2, HeldTypes, LockFields
      DEF EmitReplay, Replayable, Identities, Shapes
    <2>2. q \in Maybe(Plans)
      BY HeldTypes DEF Plans, Maybe, Shapes
    <2>3. Works(p, Extended(work[p], o, i, q)) /\ Notes
      BY <1>2, QuietNotes DEF EmitReplay, Extended
    <2>4. /\ i.fp = live /\ i.src = "replay"
          /\ q # None => q.deps = Content[view[p]]
      OBVIOUS
    <2> HIDE DEF i, q
    <2> QED
      BY <1>1, <2>1, <2>2, <2>3, <2>4 DEF Emits
  <1>3. CASE Emit(p, o)
    <2> DEFINE over == work[p].over[o]
               now == Content[view[p]]
               ver == IF over = None THEN now ELSE over
               i == [fp |-> live, ver |-> ver, deps |-> now,
                     src |-> IF over = None THEN "fresh" ELSE "incremental"]
               plan == [fp |-> live, ver |-> ver, deps |-> now, over |-> over]
    <2>1. over \in Maybe(Versions) /\ now \in Versions /\ ver \in Versions
      BY <1>0, HeldTypes, RequestFields DEF Maybe
    <2>2. i \in Identities /\ plan \in Plans
      BY <2>1 DEF Identities, Plans, Shapes
    <2>3. /\ Works(p, Extended(work[p], o, i, plan))
          /\ Advertise([work[p].res EXCEPT ![o] = i], view[p], {o})
      BY <1>3 DEF Emit, Extended
    <2>4. /\ i.fp = live
          /\ i.src = "fresh" => i.ver = i.deps
          /\ i.src = "incremental" => plan.over = i.ver
          /\ plan.deps = Content[view[p]]
      <3>1. CASE over = None
        BY <3>1
      <3>2. CASE over # None
        BY <3>2
      <3> QED
        BY <3>1, <3>2, Zenon
    <2> HIDE DEF i, plan, ver, over, now
    <2>5. plan # None
      BY <2>2, NoneApart
    <2>6. plan \in Maybe(Plans)
      BY <2>2 DEF Maybe
    <2>7. Notes /\ <<o, i.fp>> \in Tried'
      <3> DEFINE r == [work[p].res EXCEPT ![o] = i]
      <3>1. r[o] = i
        BY <1>0, RequestFields
      <3>2. Advertise(r, view[p], {o}) /\ view[p] \in Worlds
        BY <2>3, HeldTypes
      <3> HIDE DEF r
      <3> QED
        BY <2>2, <3>1, <3>2, AdvertiseNotes
    <2>8. Emits(p, o, i, plan)
      BY <1>1, <2>2, <2>3, <2>4, <2>5, <2>6, <2>7 DEF Emits
    <2> QED
      BY <2>2, <2>6, <2>8, Zenon
  <1> QED
    BY <1>2, <1>3

\* The steps of a request keep the types.
LEMMA OutputsTypes ==
    ASSUME Shapes, Control, Complete, NEW p \in Procs, CondaOutputs(p)
    PROVE  Shapes' /\ Control'
  <1> USE DEF RequestPcs, BuildPcs, Computing
  <1>1. ASSUME HitMemory(p) PROVE Shapes' /\ Control'
    <2>1. memo[p][live] \in Memos /\ memo[p][live].res \in Results
      BY <1>1, AnswerTypes DEF HitMemory, Shapes
    <2>2. held' \in [Procs ->
              [key : Maybe(Fps), plans : [Outputs -> Maybe(Plans)]]]
      BY <1>1, ConstantTypes, HoldsShapes DEF HitMemory, Shapes
    <2>3. CASE Answers(p, memo[p][live].res) /\ UNCHANGED memo
      <3>1. Shapes'
        BY <1>1, <2>1, <2>2, <2>3, AnswersShapes DEF HitMemory, Shapes, Maybe
      <3>2. Control'
        BY <2>3, MovesControl DEF Answers
      <3> QED
        BY <3>1, <3>2
    <2>4. CASE /\ Remembers(p, live, None) /\ Goes(p, "disk")
               /\ Works(p, Request(live)) /\ UNCHANGED <<told, fill>>
      <3>1. Shapes'
        BY <1>1, <2>2, <2>4, RemembersShapes DEF HitMemory, Shapes, Maybe
      <3>2. Control'
        BY <2>4, MovesControl, ConstantTypes DEF Shapes
      <3> QED
        BY <3>1, <3>2
    <2> QED
      BY <1>1, <2>3, <2>4 DEF HitMemory
  <1>2. ASSUME MissMemory(p) PROVE Shapes' /\ Control'
    <2>1. Control'
      BY <1>2, MovesControl, ConstantTypes DEF MissMemory, Shapes
    <2> QED
      BY <1>2, <2>1 DEF MissMemory, Shapes
  <1>3. ASSUME NEW r \in Results, Reuses(p, r), work[p] \in Requests,
               UNCHANGED <<live, lock, disk, store, view>>
        PROVE  Notes => Shapes' /\ Control'
    <2>1. memo' \in [Procs -> [Fps -> Maybe(Memos)]]
      <3>1. [res |-> r, plan |-> FALSE] \in Memos
        BY DEF Memos
      <3> QED
        BY <1>3, <3>1, RemembersShapes, RequestFields DEF Reuses, Maybe
    <2>2. held' \in [Procs ->
              [key : Maybe(Fps), plans : [Outputs -> Maybe(Plans)]]]
      BY <1>3, ConstantTypes, HoldsShapes DEF Reuses
    <2>3. /\ told' \in [Procs -> Maybe(Results)]
          /\ fill' \in [Fps -> Maybe(Procs)]
      BY <1>3, AnswersShapes DEF Reuses, Maybe
    <2>4. Control'
      BY <1>3, MovesControl DEF Reuses, Answers
    <2> QED
      BY <1>3, <2>1, <2>2, <2>3, <2>4 DEF Shapes, Notes
  <1>4. ASSUME ReadDisk(p) PROVE Shapes' /\ Control'
    <2>1. work[p] \in Requests /\ work[p].key \in Fps
      BY <1>4, RequestAt, RequestFields DEF ReadDisk
    <2>2. CASE disk[work[p].key] # None /\ Reuses(p, disk[work[p].key].res)
      BY <1>3, <1>4, <2>1, <2>2, AnswerTypes, QuietNotes DEF ReadDisk
    <2>3. CASE Goes(p, "store") /\ UNCHANGED <<told, fill, memo, held, work>>
      <3>1. Control'
        BY <1>4, <2>3, AdvancesControl DEF ReadDisk
      <3> QED
        BY <1>4, <2>3, <3>1 DEF ReadDisk, Shapes
    <2> QED
      BY <1>4, <2>2, <2>3 DEF ReadDisk
  <1>5. ASSUME AdoptStored(p) PROVE Shapes' /\ Control'
    <2>1. work[p] \in Requests /\ work[p].key \in Fps
      BY <1>5, RequestAt, RequestFields DEF AdoptStored
    <2> DEFINE e == store[work[p].key]
    <2>2. e.res \in Results /\ e.world \in Worlds
      BY <1>5, <2>1, AnswerTypes DEF AdoptStored
    <2>3. Notes
      <3>1. /\ \A o \in Resolved(e.res) : e.res[o] \in Identities
            /\ Resolved(e.res) \in SUBSET Outputs
        BY <2>2 DEF Results, Resolved
      <3>2. Advertise(e.res, e.world, Resolved(e.res))
        BY <1>5 DEF AdoptStored
      <3> HIDE DEF e
      <3> QED
        BY <2>2, <3>1, <3>2, AdvertiseNotes
    <2>4. Reuses(p, e.res) /\ UNCHANGED <<live, lock, disk, store, view>>
      BY <1>5 DEF AdoptStored
    <2> HIDE DEF e
    <2> QED
      BY <1>3, <2>1, <2>2, <2>3, <2>4
  <1>6. ASSUME PassStore(p) PROVE Shapes' /\ Control'
    <2>1. work[p] \in Requests
      BY <1>6, RequestAt DEF PassStore
    <2>2. [work[p] EXCEPT !.refused = store[work[p].key] # None] \in Requests
      BY <2>1, RequestFields
    <2>3. Control'
      BY <1>6, <2>2, MovesControl DEF PassStore
    <2> QED
      BY <1>6, <2>3 DEF PassStore, Shapes
  <1>7. ASSUME TakeFillLock(p) PROVE Shapes' /\ Control'
    <2>1. work[p] \in Requests /\ work[p].key \in Fps
      BY <1>7, RequestAt, RequestFields DEF TakeFillLock
    <2>2. CASE disk[work[p].key] # None /\ Reuses(p, disk[work[p].key].res)
      BY <1>3, <1>7, <2>1, <2>2, AnswerTypes, QuietNotes DEF TakeFillLock
    <2>3. CASE disk[work[p].key] = None
      <3>1. /\ fill' = [fill EXCEPT ![work[p].key] = p]
            /\ Works(p, [work[p] EXCEPT !.locked = TRUE])
            /\ Holds(p, NothingHeld)
            /\ Goes(p, "resolve")
            /\ UNCHANGED <<live, lock, disk, store, records, unwritten, told,
                          view, memo>>
        BY <1>7, <2>3 DEF TakeFillLock
      <3>2. [work[p] EXCEPT !.locked = TRUE] \in Requests
        BY <2>1, RequestFields
      <3>3. Control'
        BY <3>1, <3>2, MovesControl
      <3>4. fill' \in [Fps -> Maybe(Procs)]
        BY <3>1 DEF Shapes, Maybe
      <3> QED
        BY <3>1, <3>3, <3>4, ConstantTypes, HoldsShapes DEF Shapes
    <2> QED
      BY <1>7, <2>2, <2>3 DEF TakeFillLock
  <1>8. ASSUME FillLockFails(p) PROVE Shapes' /\ Control'
    <2>1. Control'
      BY <1>8, AdvancesControl DEF FillLockFails
    <2> QED
      BY <1>8, <2>1, ConstantTypes, HoldsShapes DEF FillLockFails, Shapes
  <1>9. ASSUME Resolve(p) PROVE Shapes' /\ Control'
    <2>1. work[p] \in Requests
      BY <1>9, RequestAt DEF Resolve
    <2> DEFINE f == [o \in Outputs |->
                        IF Addable(o, live) THEN lock[o].ver ELSE None]
    <2>2. f \in [Outputs -> Maybe(Versions)]
      BY HeldTypes, LockFields DEF Addable, Maybe
    <2> HIDE DEF f
    <2>3. [work[p] EXCEPT !.over = f] \in Requests
      BY <2>1, <2>2, RequestFields
    <2>4. Goes(p, "emit") /\ Works(p, [work[p] EXCEPT !.over = f])
      BY <1>9 DEF Resolve, f
    <2>5. Control'
      BY <2>3, <2>4, MovesControl
    <2> QED
      BY <1>9, <2>5 DEF Resolve, Shapes
  <1>10. ASSUME Fail(p) PROVE Shapes' /\ Control'
    <2>1. Control'
      BY <1>10, MovesControl DEF Fail, Answers
    <2>2. told[p] \in Maybe(Results)
      BY DEF Shapes
    <2> QED
      BY <1>10, <2>1, <2>2, AnswersShapes DEF Fail, Shapes
  <1>11. ASSUME NEW o \in Outputs, EmitReplay(p, o) \/ Emit(p, o)
         PROVE  Shapes' /\ Control'
    <2>1. PICK i \in Identities, q \in Maybe(Plans) : Emits(p, o, i, q)
      BY <1>11, EmitSteps
    <2>3. /\ records' \in [Outputs -> [Fps -> Maybe(Records)]]
          /\ unwritten' \subseteq Outputs \X Fps
      BY <2>1 DEF Emits, Notes
    <2>4. Control'
      <3> DEFINE w == Extended(work[p], o, i, q)
      <3>1. Works(p, w) /\ UNCHANGED pc /\ pc[p] = "emit"
        BY <1>11, <2>1 DEF EmitReplay, Emit, Emits
      <3>2. w = work'[p]
        BY <3>1 DEF Works, Control
      <3> HIDE DEF w
      <3> QED
        BY <2>1, <3>1, <3>2, EditsControl DEF Emits
    <2> QED
      BY <1>11, <2>3, <2>4 DEF EmitReplay, Emit, Shapes
  <1>13. ASSUME Publish(p) PROVE Shapes' /\ Control'
    <2>1. work[p] \in Requests
      BY <1>13, RequestAt DEF Publish
    <2>2. work[p].res \in Results /\ work[p].key \in Fps
          /\ work[p].plans \in [Outputs -> Maybe(Plans)]
      BY <1>13, <2>1, RequestFields, FullResult DEF Publish
    <2> DEFINE m == [res |-> work[p].res, plan |-> NeedsPlans(work[p].res)]
               h == [key |-> work[p].key, plans |-> work[p].plans]
    <2>3. m \in Maybe(Memos)
      BY <2>2 DEF Memos, Maybe, NeedsPlans
    <2>4. h \in [key : Maybe(Fps), plans : [Outputs -> Maybe(Plans)]]
      BY <2>2 DEF Maybe
    <2>5. Remembers(p, work[p].key, m) /\ Holds(p, h)
      BY <1>13 DEF Publish
    <2> HIDE DEF m, h
    <2>6. /\ memo' \in [Procs -> [Fps -> Maybe(Memos)]]
          /\ held' \in [Procs ->
                 [key : Maybe(Fps), plans : [Outputs -> Maybe(Plans)]]]
      BY <2>2, <2>3, <2>4, <2>5, RemembersShapes, HoldsShapes
    <2>7. CASE Answers(p, work[p].res)
      <3>1. Control'
        BY <2>7, MovesControl DEF Answers
      <3> QED
        BY <1>13, <2>2, <2>6, <2>7, <3>1, AnswersShapes
        DEF Publish, Shapes, Maybe
    <2>8. CASE Goes(p, "write") /\ UNCHANGED <<told, fill, work>>
      <3>1. Control'
        BY <1>13, <2>8, AdvancesControl DEF Publish
      <3> QED
        BY <1>13, <2>6, <2>8, <3>1 DEF Publish, Shapes
    <2> QED
      BY <1>13, <2>7, <2>8 DEF Publish
  <1>14. ASSUME WriteDisk(p) PROVE Shapes' /\ Control'
    <2>1. work[p] \in Requests
      BY <1>14, RequestAt DEF WriteDisk
    <2>2. work[p].res \in Results /\ work[p].key \in Fps
          /\ work[p].locked \in BOOLEAN
      BY <1>14, <2>1, RequestFields, FullResult DEF WriteDisk, Complete
    <2>3. [res |-> work[p].res, locked |-> work[p].locked] \in Shared
      BY <2>2 DEF Shared
    <2>4. disk' \in [Fps -> Maybe(Shared)]
      BY <1>14, <2>2, <2>3 DEF WriteDisk, Shapes, Maybe
    <2>5. Control'
      BY <1>14, AdvancesControl DEF WriteDisk
    <2> QED
      BY <1>14, <2>4, <2>5 DEF WriteDisk, Shapes
  <1>15. ASSUME Quarantine(p) PROVE Shapes' /\ Control'
    <2>1. work[p] \in Requests /\ work[p].key \in Fps
      BY <1>15, RequestAt, RequestFields DEF Quarantine
    <2>2. [work[p] EXCEPT !.refused = FALSE] \in Requests
      BY <2>1, RequestFields
    <2>3. Control'
      BY <1>15, <2>2, EditsControl DEF Quarantine
    <2>4. store' \in [Fps -> Maybe(Stored)]
      BY <1>15, <2>1 DEF Quarantine, Shapes, Maybe
    <2> QED
      BY <1>15, <2>3, <2>4 DEF Quarantine, Shapes
  <1>16. ASSUME PublishStored(p) PROVE Shapes' /\ Control'
    <2>1. work[p] \in Requests
      BY <1>16, RequestAt DEF PublishStored
    <2>2. work[p].res \in Results /\ work[p].key \in Fps
      BY <1>16, <2>1, RequestFields, FullResult DEF PublishStored, Complete
    <2>3. [world |-> view[p], res |-> work[p].res] \in Stored
      BY <2>2, HeldTypes DEF Stored
    <2>4. store' \in [Fps -> Maybe(Stored)]
      BY <1>16, <2>2, <2>3 DEF PublishStored, Shapes, Maybe
    <2>5. Control'
      BY <1>16, MovesControl DEF PublishStored, Answers
    <2> QED
      BY <1>16, <2>2, <2>4, <2>5, AnswersShapes
      DEF PublishStored, Shapes, Maybe
  <1> QED
    BY <1>1, <1>2, <1>4, <1>5, <1>6, <1>7, <1>8, <1>9, <1>10, <1>11,
       <1>13, <1>14, <1>15, <1>16 DEF CondaOutputs

\* Using up a plan keeps the types of plans and memos.
LEMMA ConsumeShapes ==
    ASSUME Shapes, NEW p \in Procs, Consume(p)
    PROVE  /\ held' \in [Procs ->
                  [key : Maybe(Fps), plans : [Outputs -> Maybe(Plans)]]]
           /\ memo' \in [Procs -> [Fps -> Maybe(Memos)]]
  <1> DEFINE rest == [held[p].plans EXCEPT ![work[p].out] = None]
             h == [key |-> IF rest = NoPlans THEN None ELSE held[p].key,
                   plans |-> rest]
  <1>1. rest \in [Outputs -> Maybe(Plans)]
    BY HeldTypes DEF Maybe
  <1>2. h \in [key : Maybe(Fps), plans : [Outputs -> Maybe(Plans)]]
    BY <1>1, HeldTypes DEF Maybe
  <1>3. Holds(p, h)
    BY DEF Consume
  <1> HIDE DEF h
  <1>4. memo' \in [Procs -> [Fps -> Maybe(Memos)]]
    BY DEF Consume, Shapes, Maybe
  <1> QED
    BY <1>2, <1>3, <1>4, HoldsShapes

\* A build that succeeds commits a lock.
LEMMA BuiltTypes ==
    ASSUME Shapes, Control, NEW p \in Procs, pc[p] \in BuildPcs,
           NEW v \in Versions, NEW d \in Versions, Built(p, v, d)
    PROVE  lock' \in [Outputs -> Maybe(Locks)] /\ Control'
  <1>1. work[p] \in Builds
    BY RequestAt
  <1>2. work[p].out \in Outputs /\ work[p].eff \in Fps
    BY <1>1, BuildFields
  <1>3. [fp |-> work[p].eff, ver |-> v, deps |-> d, full |-> TRUE] \in Locks
    BY <1>2 DEF Locks
  <1>4. lock' \in [Outputs -> Maybe(Locks)]
    BY <1>2, <1>3 DEF Built, Shapes, Maybe
  <1>5. Control'
    BY MovesControl DEF Built
  <1> QED
    BY <1>4, <1>5

\* The steps of a build keep the types.
LEMMA BuildTypes ==
    ASSUME Shapes, Control, NEW p \in Procs, CondaBuild(p)
    PROVE  Shapes' /\ Control'
  <1> USE DEF RequestPcs, BuildPcs, Computing
  <1>1. ASSUME Build(p) PROVE Shapes' /\ Control'
    <2>1. PICK q \in Procs, o \in Outputs, same \in BOOLEAN :
              /\ told[q] # None
              /\ LET id == told[q][o]
                     r == records[o][id.fp]
                     plan == held[p].plans[o]
                     found == same /\ plan # None /\ plan.fp = id.fp
                                  /\ plan.ver = id.ver
                 IN  Works(p,
                       [out |-> o, id |-> id, rec |-> r,
                        eff |-> IF Usable(p, r, id) THEN r.fp ELSE live,
                        plan |-> IF found THEN plan ELSE None,
                        detected |-> None])
      BY <1>1 DEF Build
    <2> DEFINE id == told[q][o]
               r == records[o][id.fp]
               plan == held[p].plans[o]
               found == same /\ plan # None /\ plan.fp = id.fp
                            /\ plan.ver = id.ver
               eff == IF Usable(p, r, id) THEN r.fp ELSE live
               use == IF found THEN plan ELSE None
               w == [out |-> o, id |-> id, rec |-> r, eff |-> eff,
                     plan |-> use, detected |-> None]
    <2>2. id \in Identities
      BY <2>1, AnswerTypes DEF Results
    <2>3. r \in Maybe(Records) /\ (r # None => r \in Records)
      BY <2>2, IdentityFields, HeldTypes
    <2>4. eff \in Fps
      BY <2>3 DEF Usable, Records, Shapes
    <2>5. use \in Maybe(Plans)
      BY HeldTypes DEF Maybe
    <2>6. Works(p, w)
      BY <2>1
    <2> HIDE DEF id, r, eff, use
    <2>7. w \in Builds
      BY <2>2, <2>3, <2>4, <2>5 DEF Builds, Maybe
    <2> HIDE DEF w
    <2>8. Control'
      BY <1>1, <2>6, <2>7, MovesControl DEF Build
    <2> QED
      BY <1>1, <2>8 DEF Build, Shapes
  <1>2. ASSUME BuildFromLock(p) PROVE Shapes' /\ Control'
    <2>1. pc[p] \in BuildPcs /\ work[p].out \in Outputs
      BY <1>2, RequestAt, BuildFields DEF BuildFromLock, Replays, Adds, Fast
    <2>2. lock[work[p].out] \in Locks
      BY <1>2, <2>1, HeldTypes
      DEF BuildFromLock, Replays, Adds, Replayable, Addable
    <2>3. lock' \in [Outputs -> Maybe(Locks)] /\ Control'
      BY <1>2, <2>1, <2>2, LockFields, BuiltTypes DEF BuildFromLock
    <2> QED
      BY <1>2, <2>3, ConsumeShapes DEF BuildFromLock, Shapes
  <1>3. ASSUME LeaveFast(p) PROVE Shapes' /\ Control'
    <2>1. work[p] \in Builds
      BY <1>3, RequestAt DEF LeaveFast
    <2> DEFINE v == IF Adds(p) THEN work[p].id.ver ELSE None
    <2>2. v \in Maybe(Versions)
      BY <2>1, BuildFields, IdentityFields DEF Maybe
    <2>3. Goes(p, "build") /\ Works(p, [work[p] EXCEPT !.detected = v])
      BY <1>3 DEF LeaveFast
    <2> HIDE DEF v
    <2>4. Control'
      BY <2>1, <2>2, <2>3, BuildFields, MovesControl
    <2> QED
      BY <1>3, <2>4 DEF LeaveFast, Shapes
  <1>4. ASSUME BuildFromPlan(p) PROVE Shapes' /\ Control'
    <2>1. work[p] \in Builds /\ pc[p] \in BuildPcs
      BY <1>4, RequestAt DEF BuildFromPlan
    <2>2. work[p].plan \in Plans /\ work[p].id \in Identities
      BY <1>4, <2>1, BuildFields DEF BuildFromPlan, Maybe
    <2>3. lock' \in [Outputs -> Maybe(Locks)] /\ Control'
      BY <1>4, <2>1, <2>2, PlanFields, IdentityFields, BuiltTypes
      DEF BuildFromPlan
    <2> QED
      BY <1>4, <2>3, ConsumeShapes DEF BuildFromPlan, Shapes
  <1>5. ASSUME BuildCold(p) PROVE Shapes' /\ Control'
    <2>1. work[p] \in Builds /\ pc[p] \in BuildPcs
      BY <1>5, RequestAt DEF BuildCold
    <2>2. /\ work[p].id.ver \in Versions /\ work[p].id.deps \in Versions
          /\ HasRecord(p) => work[p].rec.deps \in Versions
      BY <2>1, BuildFields, IdentityFields
      DEF HasRecord, Usable, Records, Maybe
    <2> DEFINE d == IF HasRecord(p) THEN work[p].rec.deps ELSE work[p].id.deps
    <2>3. d \in Versions /\ Built(p, work[p].id.ver, d)
      BY <1>5, <2>2 DEF BuildCold
    <2> HIDE DEF d
    <2>4. lock' \in [Outputs -> Maybe(Locks)] /\ Control'
      BY <2>1, <2>2, <2>3, BuiltTypes
    <2> QED
      BY <1>5, <2>4 DEF BuildCold, Shapes
  <1>6. ASSUME BuildRecovered(p) PROVE Shapes' /\ Control'
    <2>1. work[p] \in Builds /\ pc[p] \in BuildPcs
      BY <1>6, RequestAt DEF BuildRecovered
    <2>2. lock' \in [Outputs -> Maybe(Locks)] /\ Control'
      BY <1>6, <2>1, BuildFields, IdentityFields, BuiltTypes
      DEF BuildRecovered
    <2> QED
      BY <1>6, <2>2 DEF BuildRecovered, Shapes
  <1>7. ASSUME Refuse(p) PROVE Shapes' /\ Control'
    <2>1. Control'
      BY <1>7, AdvancesControl DEF Refuse
    <2> QED
      BY <1>7, <2>1 DEF Refuse, Shapes
  <1>8. ASSUME Report(p) PROVE Shapes' /\ Control'
    <2>1. Control'
      BY <1>8, MovesControl DEF Report
    <2> QED
      BY <1>8, <2>1 DEF Report, Shapes
  <1> QED
    BY <1>1, <1>2, <1>3, <1>4, <1>5, <1>6, <1>7, <1>8 DEF CondaBuild

\* The environment keeps the types.
LEMMA EnvironmentTypes ==
    ASSUME Shapes, Control,
           SiblingWrites \/ NewJob \/ \E p \in Procs : Crash(p)
    PROVE  Shapes' /\ Control'
  <1>1. ASSUME SiblingWrites PROVE Shapes' /\ Control'
    <2>1. live' \in Fps
      BY <1>1, FpAssumption DEF SiblingWrites, Shapes, Fps
    <2> QED
      BY <1>1, <2>1 DEF SiblingWrites, Shapes, Control
  <1>2. ASSUME NEW p \in Procs, Crash(p) PROVE Shapes' /\ Control'
    <2>1. Control'
      BY <1>2, MovesControl DEF Crash
    <2>2. held' \in [Procs ->
              [key : Maybe(Fps), plans : [Outputs -> Maybe(Plans)]]]
      BY <1>2, ConstantTypes, HoldsShapes DEF Crash
    <2>3. /\ fill' \in [Fps -> Maybe(Procs)]
          /\ view' \in [Procs -> Worlds]
          /\ memo' \in [Procs -> [Fps -> Maybe(Memos)]]
      BY <1>2 DEF Crash, Shapes, Maybe
    <2> QED
      BY <1>2, <2>1, <2>2, <2>3 DEF Crash, Shapes
  <1>3. ASSUME NewJob PROVE Shapes' /\ Control'
    <2>1. held' \in [Procs ->
              [key : Maybe(Fps), plans : [Outputs -> Maybe(Plans)]]]
      BY <1>3, ConstantTypes DEF NewJob
    <2>2. Control'
      BY <1>3 DEF NewJob, Control
    <2>3. /\ disk' \in [Fps -> Maybe(Shared)]
          /\ records' \in [Outputs -> [Fps -> Maybe(Records)]]
          /\ unwritten' \subseteq Outputs \X Fps
          /\ told' \in [Procs -> Maybe(Results)]
          /\ memo' \in [Procs -> [Fps -> Maybe(Memos)]]
      BY <1>3 DEF NewJob, Maybe
    <2> QED
      BY <1>3, <2>1, <2>2, <2>3 DEF NewJob, Shapes
  <1> QED
    BY <1>1, <1>2, <1>3

\* Whatever is written has all its outputs.
LEMMA CompleteNext ==
    ASSUME Control, Complete, [Next]_vars
    PROVE  Complete'
  <1>1. ASSUME NEW p \in Procs, NEW at, Goes(p, at),
               at \notin {"write", "publish"},
               \A q \in Procs \ {p} : work'[q] = work[q]
        PROVE  Complete'
    BY <1>1 DEF Control, Complete, Goes
  <1>2. ASSUME NEW p \in Procs, CondaOutputs(p) PROVE Complete'
    <2>1. CASE HitMemory(p) \/ MissMemory(p)
      BY <1>1, <2>1 DEF HitMemory, MissMemory, Answers, Works, Control
    <2>2. CASE ReadDisk(p) \/ AdoptStored(p) \/ TakeFillLock(p)
      BY <1>1, <2>2
      DEF ReadDisk, AdoptStored, TakeFillLock, Reuses, Answers, Works, Control
    <2>3. CASE PassStore(p) \/ FillLockFails(p) \/ Resolve(p) \/ Fail(p)
      BY <1>1, <2>3
      DEF PassStore, FillLockFails, Resolve, Fail, Answers, Works, Control
    <2>4. CASE \E o \in Outputs : EmitReplay(p, o) \/ Emit(p, o)
      BY <2>4 DEF EmitReplay, Emit, Works, Control, Complete
    <2>5. CASE Publish(p)
      <3>1. CASE Answers(p, work[p].res)
        BY <1>1, <3>1 DEF Answers, Works, Control
      <3>2. CASE Goes(p, "write") /\ UNCHANGED work
        BY <2>5, <3>2 DEF Publish, Goes, Control, Complete
      <3> QED
        BY <2>5, <3>1, <3>2 DEF Publish
    <2>6. CASE WriteDisk(p)
      BY <2>6 DEF WriteDisk, Goes, Control, Complete
    <2>7. CASE Quarantine(p)
      <3>1. work[p] \in Requests
        BY <2>7, RequestAt DEF Quarantine, RequestPcs, Computing
      <3>2. work'[p].res = work[p].res
        BY <2>7, <3>1 DEF Quarantine, Works, Control, Requests
      <3> QED
        BY <2>7, <3>2 DEF Quarantine, Works, Control, Complete
    <2>8. CASE PublishStored(p)
      BY <1>1, <2>8 DEF PublishStored, Answers, Works, Control
    <2> QED
      BY <1>2, <2>1, <2>2, <2>3, <2>4, <2>5, <2>6, <2>7, <2>8
      DEF CondaOutputs
  <1>3. ASSUME NEW p \in Procs, CondaBuild(p) PROVE Complete'
    <2>1. CASE Build(p) \/ LeaveFast(p) \/ Refuse(p) \/ Report(p)
      BY <1>1, <2>1 DEF Build, LeaveFast, Refuse, Report, Works, Control
    <2>2. CASE \/ BuildFromLock(p) \/ BuildFromPlan(p)
               \/ BuildCold(p) \/ BuildRecovered(p)
      BY <1>1, <2>2
      DEF BuildFromLock, BuildFromPlan, BuildCold, BuildRecovered, Built,
          Works, Control
    <2> QED
      BY <1>3, <2>1, <2>2 DEF CondaBuild
  <1>4. ASSUME NEW p \in Procs, Crash(p) PROVE Complete'
    BY <1>1, <1>4 DEF Crash, Works, Control
  <1>5. CASE SiblingWrites \/ NewJob \/ UNCHANGED vars
    BY <1>5 DEF SiblingWrites, NewJob, vars, Complete
  <1> QED
    BY <1>2, <1>3, <1>4, <1>5 DEF Next

-----------------------------------------------------------------------------
(* The fill lock                                                           *)

\* A request marked locked has the lock of its key, and nobody who had it has
\* written the memo since.
FillLocks ==
    /\ \A p \in Procs : pc[p] \in {"disk", "store", "lock"} => ~work[p].locked
    /\ \A p \in Procs :
           pc[p] \in Computing /\ work[p].locked => fill[work[p].key] = p
    /\ \A p \in Procs :
           pc[p] \in {"resolve", "emit", "write"} /\ work[p].locked
             /\ disk[work[p].key] # None
               => ~disk[work[p].key].locked

\* A process that gives its request up gives up no lock but its own.
LEMMA LeavesLocks ==
    ASSUME Control, FillLocks, NEW p \in Procs, NEW at,
           Goes(p, at), at \notin RequestPcs,
           \A q \in Procs \ {p} : work'[q] = work[q],
           \A k \in Fps : fill[k] # p => fill'[k] = fill[k],
           UNCHANGED disk
    PROVE  FillLocks'
  <1>1. \A q \in Procs \ {p} : pc[q] \in RequestPcs => work[q].key \in Fps
    BY RequestAt, RequestFields
  <1>2. pc'[p] = at /\ \A q \in Procs \ {p} : pc'[q] = pc[q]
    BY DEF Control, Goes
  <1>3. \A q \in Procs \ {p} :
            pc[q] \in Computing /\ work[q].locked => fill'[work[q].key] = q
    BY <1>1 DEF FillLocks, RequestPcs
  <1>4. \A q \in Procs :
            pc'[q] \in {"disk", "store", "lock"} => ~work'[q].locked
    BY <1>2 DEF FillLocks, RequestPcs, Computing
  <1>5. \A q \in Procs :
            pc'[q] \in Computing /\ work'[q].locked
                => fill'[work'[q].key] = q
    BY <1>2, <1>3 DEF RequestPcs
  <1>6. \A q \in Procs :
            pc'[q] \in {"resolve", "emit", "write"} /\ work'[q].locked
              /\ disk'[work'[q].key] # None
                => ~disk'[work'[q].key].locked
    <2> SUFFICES ASSUME NEW q \in Procs,
                        pc'[q] \in {"resolve", "emit", "write"},
                        work'[q].locked, disk'[work'[q].key] # None
                 PROVE  ~disk'[work'[q].key].locked
      OBVIOUS
    <2>1. q # p /\ pc[q] = pc'[q] /\ work'[q] = work[q]
      BY <1>2 DEF RequestPcs, Computing
    <2>2. disk' = disk
      OBVIOUS
    <2> QED
      BY <2>1, <2>2 DEF FillLocks
  <1> QED
    BY <1>4, <1>5, <1>6 DEF FillLocks, Computing

\* A request that stays away from lock and memo.
LEMMA KeepsLocks ==
    ASSUME Control, FillLocks, NEW p \in Procs,
           pc[p] \in RequestPcs,
           \A q \in Procs \ {p} : pc'[q] = pc[q],
           \/ pc'[p] = pc[p]
           \/ pc[p] = "disk" /\ pc'[p] = "store"
           \/ pc[p] = "store" /\ pc'[p] = "lock"
           \/ pc[p] = "resolve" /\ pc'[p] = "emit"
           \/ pc[p] = "emit" /\ pc'[p] = "write"
           \/ pc[p] = "lock" /\ pc'[p] = "resolve",
           \A q \in Procs \ {p} : work'[q] = work[q],
           work'[p].key = work[p].key, work'[p].locked = work[p].locked,
           UNCHANGED <<fill, disk>>
    PROVE  FillLocks'
  BY DEF FillLocks, RequestPcs, Computing

\* Every step keeps the fill locks with those who have them.
LEMMA FillLocksNext ==
    ASSUME Shapes, Control, FillLocks, [Next]_vars
    PROVE  FillLocks'
  <1> USE DEF RequestPcs, Computing
  <1>0. ASSUME NEW p \in Procs, NEW r, Answers(p, r), UNCHANGED disk
        PROVE  FillLocks'
    BY <1>0, LeavesLocks DEF Answers, Works, Control, Shapes
  <1>1. ASSUME NEW p \in Procs, CondaOutputs(p) PROVE FillLocks'
    <2>1. CASE \E r : Answers(p, r) /\ UNCHANGED disk
      BY <1>0, <2>1
    <2>2. CASE /\ pc[p] = "idle" /\ Goes(p, "disk") /\ Works(p, Request(live))
               /\ UNCHANGED <<fill, disk>>
      BY <2>2 DEF Control, FillLocks, Goes, Works, Request
    <2>3. CASE /\ pc[p] \in RequestPcs
               /\ \/ UNCHANGED pc
                  \/ pc[p] = "disk" /\ Goes(p, "store")
                  \/ pc[p] = "store" /\ Goes(p, "lock")
                  \/ pc[p] = "resolve" /\ Goes(p, "emit")
                  \/ pc[p] = "emit" /\ Goes(p, "write")
                  \/ pc[p] = "lock" /\ Goes(p, "resolve")
               /\ \A q \in Procs \ {p} : work'[q] = work[q]
               /\ work'[p].key = work[p].key
               /\ work'[p].locked = work[p].locked
               /\ UNCHANGED <<fill, disk>>
      <3>1. \A q \in Procs \ {p} : pc'[q] = pc[q]
        BY <2>3 DEF Goes, Control
      <3>2. \/ pc'[p] = pc[p]
            \/ pc[p] = "disk" /\ pc'[p] = "store"
            \/ pc[p] = "store" /\ pc'[p] = "lock"
            \/ pc[p] = "resolve" /\ pc'[p] = "emit"
            \/ pc[p] = "emit" /\ pc'[p] = "write"
            \/ pc[p] = "lock" /\ pc'[p] = "resolve"
        BY <2>3 DEF Goes, Control
      <3> QED
        BY <2>3, <3>1, <3>2, KeepsLocks
    <2>4. CASE HitMemory(p) \/ MissMemory(p)
      <3>1. \/ Answers(p, memo[p][live].res) /\ UNCHANGED disk
            \/ /\ pc[p] = "idle" /\ Goes(p, "disk") /\ Works(p, Request(live))
               /\ UNCHANGED <<fill, disk>>
        BY <2>4 DEF HitMemory, MissMemory
      <3> QED
        BY <2>1, <2>2, <3>1
    <2>5. CASE ReadDisk(p)
      BY <2>1, <2>3, <2>5 DEF ReadDisk, Reuses
    <2>6. CASE AdoptStored(p) \/ Fail(p) \/ PublishStored(p)
      BY <2>1, <2>6 DEF AdoptStored, Fail, PublishStored, Reuses
    <2>7. CASE PassStore(p) \/ FillLockFails(p) \/ Resolve(p) \/ Quarantine(p)
      <3>1. work[p] \in Requests
        BY <2>7, RequestAt DEF PassStore, FillLockFails, Resolve, Quarantine
      <3>2. /\ work'[p].key = work[p].key /\ work'[p].locked = work[p].locked
            /\ \A q \in Procs \ {p} : work'[q] = work[q]
        BY <2>7, <3>1
        DEF PassStore, FillLockFails, Resolve, Quarantine, Works, Control,
            Requests
      <3>3. CASE PassStore(p)
        BY <2>3, <3>2, <3>3 DEF PassStore
      <3>4. CASE FillLockFails(p)
        BY <2>3, <3>2, <3>4 DEF FillLockFails
      <3>5. CASE Resolve(p)
        BY <2>3, <3>2, <3>5 DEF Resolve
      <3>6. CASE Quarantine(p)
        BY <2>3, <3>2, <3>6 DEF Quarantine
      <3> QED
        BY <2>7, <3>3, <3>4, <3>5, <3>6
    <2>8. CASE \E o \in Outputs : EmitReplay(p, o) \/ Emit(p, o)
      <3>1. /\ work'[p].key = work[p].key /\ work'[p].locked = work[p].locked
            /\ \A q \in Procs \ {p} : work'[q] = work[q]
        BY <2>8, EmitSteps DEF Emits
      <3>2. pc[p] = "emit" /\ UNCHANGED <<pc, fill, disk>>
        BY <2>8 DEF EmitReplay, Emit
      <3> QED
        BY <2>3, <3>1, <3>2
    <2>9. CASE Publish(p)
      BY <2>1, <2>3, <2>9 DEF Publish
    <2>10. CASE TakeFillLock(p)
      <3>1. CASE disk[work[p].key] # None
        BY <2>1, <2>10, <3>1 DEF TakeFillLock, Reuses
      <3>2. CASE disk[work[p].key] = None
        <4>1. work[p] \in Requests /\ work[p].key \in Fps
          BY <2>10, RequestAt, RequestFields DEF TakeFillLock
        <4>2. /\ work'[p].key = work[p].key
              /\ \A q \in Procs \ {p} : work'[q] = work[q]
          BY <2>10, <3>2, <4>1 DEF TakeFillLock, Works, Control, Requests
        <4>3. /\ fill[work[p].key] = None
              /\ fill' = [fill EXCEPT ![work[p].key] = p]
              /\ pc' = [pc EXCEPT ![p] = "resolve"]
              /\ UNCHANGED disk
          BY <2>10, <3>2 DEF TakeFillLock, Goes
        <4>4. \A q \in Procs \ {p} :
                  pc[q] \in RequestPcs => work[q].key \in Fps
          BY RequestAt, RequestFields
        <4> QED
          BY <3>2, <4>1, <4>2, <4>3, <4>4, NoneApart
          DEF FillLocks, Control, Shapes
      <3> QED
        BY <3>1, <3>2
    <2>11. CASE WriteDisk(p)
      <3>1. work[p] \in Requests /\ work[p].key \in Fps
        BY <2>11, RequestAt, RequestFields DEF WriteDisk
      <3>2. \A q \in Procs \ {p} : pc[q] \in RequestPcs => work[q].key \in Fps
        BY RequestAt, RequestFields
      <3>3. /\ pc[p] = "write" /\ pc' = [pc EXCEPT ![p] = "publish"]
            /\ \/ disk' = [disk EXCEPT ![work[p].key] =
                              [res |-> work[p].res, locked |-> work[p].locked]]
               \/ disk' = disk
            /\ UNCHANGED <<fill, work>>
        BY <2>11 DEF WriteDisk, Goes
      <3>4. pc'[p] = "publish" /\ \A q \in Procs \ {p} : pc'[q] = pc[q]
        BY <3>3 DEF Control
      <3>5. \A k \in Fps :
                \/ disk'[k] = disk[k]
                \/ k = work[p].key /\ disk'[k].locked = work[p].locked
        BY <3>1, <3>3 DEF Shapes
      <3>6. \A q \in Procs :
                pc'[q] \in {"resolve", "emit", "write"} /\ work[q].locked
                  /\ disk'[work[q].key] # None
                    => ~disk'[work[q].key].locked
        <4> SUFFICES ASSUME NEW q \in Procs, work[q].locked,
                            pc'[q] \in {"resolve", "emit", "write"},
                            disk'[work[q].key] # None
                     PROVE  ~disk'[work[q].key].locked
          OBVIOUS
        <4>0. q # p /\ pc[q] = pc'[q]
          BY <3>4
        <4>1. work[q].key \in Fps /\ fill[work[q].key] = q
          BY <3>2, <4>0 DEF FillLocks
        <4>2. CASE disk'[work[q].key] = disk[work[q].key]
          BY <4>0, <4>2 DEF FillLocks
        <4>3. CASE /\ work[q].key = work[p].key
                   /\ disk'[work[q].key].locked = work[p].locked
          BY <3>3, <4>0, <4>1, <4>3 DEF FillLocks
        <4> QED
          BY <3>5, <4>1, <4>2, <4>3
      <3>7. \A q \in Procs :
                pc'[q] \in Computing /\ work[q].locked => fill[work[q].key] = q
        BY <3>3, <3>4 DEF FillLocks
      <3>8. \A q \in Procs :
                pc'[q] \in {"disk", "store", "lock"} => ~work[q].locked
        BY <3>4 DEF FillLocks
      <3> QED
        BY <3>3, <3>6, <3>7, <3>8 DEF FillLocks
    <2> QED
      BY <1>1, <2>4, <2>5, <2>6, <2>7, <2>8, <2>9, <2>10, <2>11
      DEF CondaOutputs
  <1>2. ASSUME NEW p \in Procs, CondaBuild(p) PROVE FillLocks'
    <2>1. CASE Build(p) \/ LeaveFast(p) \/ Refuse(p) \/ Report(p)
      BY <2>1, LeavesLocks
      DEF Build, LeaveFast, Refuse, Report, Works, Control
    <2>2. CASE \/ BuildFromLock(p) \/ BuildFromPlan(p)
               \/ BuildCold(p) \/ BuildRecovered(p)
      BY <2>2, LeavesLocks
      DEF BuildFromLock, BuildFromPlan, BuildCold, BuildRecovered, Built,
          Works, Control
    <2> QED
      BY <1>2, <2>1, <2>2 DEF CondaBuild
  <1>3. ASSUME NEW p \in Procs, Crash(p) PROVE FillLocks'
    BY <1>3, LeavesLocks DEF Crash, Works, Control, Shapes
  <1>4. CASE NewJob
    BY <1>4 DEF NewJob, FillLocks
  <1>5. CASE SiblingWrites \/ UNCHANGED vars
    BY <1>5 DEF SiblingWrites, vars, FillLocks
  <1> QED
    BY <1>1, <1>2, <1>3, <1>4, <1>5 DEF Next

\* Who has the lock of a key is alone with it.
LEMMA FirstFromLocks ==
    ASSUME Control, FillLocks PROVE LockedComputationsAreFirst
  BY DEF FillLocks, LockedComputationsAreFirst, Computing

-----------------------------------------------------------------------------
(* The records                                                             *)

Partial == [Outputs -> Maybe(Identities)]

\* What was resolved and not taken from a lock has the version that its
\* dependencies are of.
Proper(r) ==
    \A o \in Outputs :
        r[o] # None /\ r[o].src = "fresh" => r[o].ver = r[o].deps

\* Of what was resolved a record has been tried.
Recorded(tried, r) ==
    \A o \in Outputs :
        r[o] # None /\ r[o].src # "replay" => <<o, r[o].fp>> \in tried

Sound(tried, r) == Proper(r) /\ Recorded(tried, r)

ToldSound == \A p \in Procs : told[p] # None => Sound(Tried, told[p])
MemoSound ==
    \A p \in Procs, k \in Fps :
        memo[p][k] # None => Sound(Tried, memo[p][k].res)
DiskSound == \A k \in Fps : disk[k] # None => Sound(Tried, disk[k].res)
WorkSound ==
    \A p \in Procs : pc[p] \in RequestPcs => Sound(Tried, work[p].res)
StoreProper == \A k \in Fps : store[k] # None => Proper(store[k].res)

Answered ==
    /\ Numbered(records)
    /\ ToldSound /\ MemoSound /\ DiskSound /\ WorkSound /\ StoreProper

\* An answer is a result, and a result is one.
LEMMA PartialResults == Results \subseteq Partial
  BY DEF Results, Partial, Maybe

\* A sound result stays sound when more is tried.
LEMMA GrownSound ==
    ASSUME NEW tried, NEW more, tried \subseteq more, NEW r, Sound(tried, r)
    PROVE  Sound(more, r)
  BY DEF Sound, Recorded

\* A request keeps the records, or adds to them.
LEMMA OutputsNotes ==
    ASSUME Shapes, Control, NEW p \in Procs, CondaOutputs(p)
    PROVE  Notes
  <1>1. CASE AdoptStored(p)
    <2>1. work[p].key \in Fps
      BY <1>1, RequestAt, RequestFields DEF AdoptStored, RequestPcs, Computing
    <2> DEFINE r == store[work[p].key].res
               w == store[work[p].key].world
    <2>2. /\ r \in Results /\ w \in Worlds
          /\ Advertise(r, w, Resolved(r))
      BY <1>1, <2>1, AnswerTypes DEF AdoptStored
    <2> HIDE DEF r, w
    <2>3. /\ \A o \in Resolved(r) : r[o] \in Identities
          /\ Resolved(r) \in SUBSET Outputs
      BY <2>2 DEF Results, Resolved
    <2> QED
      BY <2>2, <2>3, AdvertiseNotes
  <1>2. CASE \E o \in Outputs : EmitReplay(p, o) \/ Emit(p, o)
    BY <1>2, EmitSteps DEF Emits
  <1>3. CASE HitMemory(p) \/ MissMemory(p) \/ ReadDisk(p) \/ PassStore(p)
    BY <1>3, QuietNotes DEF HitMemory, MissMemory, ReadDisk, PassStore
  <1>4. CASE TakeFillLock(p) \/ FillLockFails(p) \/ Resolve(p) \/ Fail(p)
    BY <1>4, QuietNotes DEF TakeFillLock, FillLockFails, Resolve, Fail
  <1>5. CASE \/ Publish(p) \/ WriteDisk(p) \/ Quarantine(p)
             \/ PublishStored(p)
    BY <1>5, QuietNotes DEF Publish, WriteDisk, Quarantine, PublishStored
  <1> QED
    BY <1>1, <1>2, <1>3, <1>4, <1>5 DEF CondaOutputs

\* What is known stays sound when more is tried.
LEMMA KeptSound ==
    ASSUME Shapes, Control, Answered, NEW more, Tried \subseteq more
    PROVE  /\ \A p \in Procs : told[p] # None => Sound(more, told[p])
           /\ \A p \in Procs, k \in Fps :
                  memo[p][k] # None => Sound(more, memo[p][k].res)
           /\ \A k \in Fps : disk[k] # None => Sound(more, disk[k].res)
           /\ \A p \in Procs :
                  pc[p] \in RequestPcs => Sound(more, work[p].res)
  <1>1. \A p \in Procs : told[p] # None => Sound(more, told[p])
    BY GrownSound DEF Answered, ToldSound
  <1>2. \A p \in Procs, k \in Fps :
            memo[p][k] # None => Sound(more, memo[p][k].res)
    BY GrownSound DEF Answered, MemoSound
  <1>3. \A k \in Fps : disk[k] # None => Sound(more, disk[k].res)
    BY GrownSound DEF Answered, DiskSound
  <1>4. \A p \in Procs : pc[p] \in RequestPcs => Sound(more, work[p].res)
    BY GrownSound DEF Answered, WorkSound
  <1> QED
    BY <1>1, <1>2, <1>3, <1>4

\* A sound answer is sound for pixi.
LEMMA AnswersSound ==
    ASSUME Shapes, NEW p \in Procs, NEW r, Answers(p, r),
           r # None => Sound(Tried', r),
           \A q \in Procs : told[q] # None => Sound(Tried', told[q])
    PROVE  ToldSound'
  BY DEF ToldSound, Answers, Shapes

\* What is remembered is sound if it was.
LEMMA RemembersSound ==
    ASSUME Shapes, NEW p \in Procs, NEW k \in Fps, NEW m, Remembers(p, k, m),
           m # None => Sound(Tried', m.res),
           \A q \in Procs, f \in Fps :
               memo[q][f] # None => Sound(Tried', memo[q][f].res)
    PROVE  MemoSound'
  BY DEF MemoSound, Remembers, Shapes

\* A request that goes on with sound outputs.
LEMMA WorksSound ==
    ASSUME Control, NEW p \in Procs, NEW at, NEW w, Goes(p, at), Works(p, w),
           at \in RequestPcs => Sound(Tried', w.res),
           \A q \in Procs :
               pc[q] \in RequestPcs => Sound(Tried', work[q].res)
    PROVE  WorkSound'
  BY DEF WorkSound, Goes, Works, Control

\* A request that keeps its outputs.
LEMMA StaysSound ==
    ASSUME Control, NEW p \in Procs, pc[p] \in RequestPcs,
           \A q \in Procs \ {p} : pc'[q] = pc[q],
           \A q \in Procs \ {p} : work'[q] = work[q],
           work'[p].res = work[p].res,
           \A q \in Procs :
               pc[q] \in RequestPcs => Sound(Tried', work[q].res)
    PROVE  WorkSound'
  <1> SUFFICES ASSUME NEW q \in Procs, pc'[q] \in RequestPcs
               PROVE  Sound(Tried', work'[q].res)
    BY DEF WorkSound
  <1> QED
    OBVIOUS

\* A request that begins has no outputs, and so it is sound.
LEMMA RequestSound == \A k, tried : Sound(tried, Request(k).res)
  BY DEF Sound, Proper, Recorded, Request, NoPlans

\* Every step of a request keeps what is answered sound.
LEMMA OutputsAnswered ==
    ASSUME Shapes, Control, Complete, Answered, NEW p \in Procs,
           CondaOutputs(p)
    PROVE  Answered'
  <1> USE DEF RequestPcs, Computing
  <1>1. Numbered(records') /\ Tried \subseteq Tried'
    BY OutputsNotes DEF Answered, Notes
  <1>2. /\ \A q \in Procs : told[q] # None => Sound(Tried', told[q])
        /\ \A q \in Procs, k \in Fps :
               memo[q][k] # None => Sound(Tried', memo[q][k].res)
        /\ \A k \in Fps : disk[k] # None => Sound(Tried', disk[k].res)
        /\ \A q \in Procs :
               pc[q] \in RequestPcs => Sound(Tried', work[q].res)
    BY <1>1, KeptSound
  <1>3. ASSUME UNCHANGED told PROVE ToldSound'
    BY <1>2, <1>3 DEF ToldSound
  <1>4. ASSUME UNCHANGED memo PROVE MemoSound'
    BY <1>2, <1>4 DEF MemoSound
  <1>5. ASSUME UNCHANGED disk PROVE DiskSound'
    BY <1>2, <1>5 DEF DiskSound
  <1>6. ASSUME UNCHANGED store PROVE StoreProper'
    BY <1>6 DEF Answered, StoreProper
  <1>7. Numbered(records)'
    BY <1>1
  <1>8. ASSUME NEW r, Answers(p, r), r # None => Sound(Tried', r)
        PROVE  ToldSound' /\ WorkSound'
    <2>1. ToldSound'
      BY <1>2, <1>8, AnswersSound
    <2>2. WorkSound'
      BY <1>2, <1>8, WorksSound DEF Answers
    <2> QED
      BY <2>1, <2>2
  <1>9. ASSUME pc[p] \in RequestPcs, NEW r, Reuses(p, r), r \in Results,
               Sound(Tried', r), UNCHANGED <<disk, store>>
        PROVE  Answered'
    <2>1. work[p].key \in Fps
      BY <1>9, RequestAt, RequestFields
    <2>2. MemoSound'
      <3> DEFINE m == [res |-> r, plan |-> FALSE]
      <3>1. Remembers(p, work[p].key, m) /\ m.res = r
        BY <1>9 DEF Reuses
      <3> HIDE DEF m
      <3> QED
        BY <1>2, <1>9, <2>1, <3>1, RemembersSound
    <2>3. Answers(p, r)
      BY <1>9 DEF Reuses
    <2> QED
      BY <1>5, <1>6, <1>7, <1>8, <1>9, <2>2, <2>3 DEF Answered
  <1>10. CASE HitMemory(p)
    <2>1. live \in Fps
      BY DEF Shapes
    <2>2. Sound(Tried', memo[p][live].res)
      BY <1>2, <1>10, <2>1 DEF HitMemory
    <2>3. CASE Answers(p, memo[p][live].res) /\ UNCHANGED memo
      BY <1>4, <1>5, <1>6, <1>7, <1>8, <1>10, <2>2, <2>3
      DEF HitMemory, Answered
    <2>4. CASE /\ Remembers(p, live, None) /\ Goes(p, "disk")
               /\ Works(p, Request(live)) /\ UNCHANGED told
      <3>1. MemoSound'
        BY <1>2, <2>1, <2>4, RemembersSound
      <3>2. WorkSound'
        BY <1>2, <2>4, RequestSound, WorksSound
      <3> QED
        BY <1>3, <1>5, <1>6, <1>7, <1>10, <2>4, <3>1, <3>2
        DEF HitMemory, Answered
    <2> QED
      BY <1>10, <2>3, <2>4 DEF HitMemory
  <1>11. CASE MissMemory(p)
    <2>1. WorkSound'
      BY <1>2, <1>11, RequestSound, WorksSound DEF MissMemory
    <2> QED
      BY <1>3, <1>4, <1>5, <1>6, <1>7, <1>11, <2>1 DEF MissMemory, Answered
  <1>12. ASSUME pc[p] \in RequestPcs, disk[work[p].key] # None,
                Reuses(p, disk[work[p].key].res), UNCHANGED <<disk, store>>
         PROVE  Answered'
    <2>1. work[p].key \in Fps
      BY <1>12, RequestAt, RequestFields
    <2>2. disk[work[p].key].res \in Results
      BY <1>12, <2>1, AnswerTypes
    <2> QED
      BY <1>2, <1>9, <1>12, <2>1, <2>2
  <1>13. ASSUME pc[p] \in RequestPcs, \A q \in Procs \ {p} : pc'[q] = pc[q],
                \A q \in Procs \ {p} : work'[q] = work[q],
                work'[p].res = work[p].res,
                ToldSound', MemoSound', DiskSound', StoreProper'
         PROVE  Answered'
    BY <1>2, <1>7, <1>13, StaysSound DEF Answered
  <1>14. CASE ReadDisk(p)
    <2>1. CASE disk[work[p].key] # None /\ Reuses(p, disk[work[p].key].res)
      BY <1>12, <1>14, <2>1 DEF ReadDisk
    <2>2. CASE Goes(p, "store") /\ UNCHANGED <<told, memo, work>>
      <3>1. \A q \in Procs \ {p} : pc'[q] = pc[q]
        BY <2>2 DEF Goes, Control
      <3> QED
        BY <1>3, <1>4, <1>5, <1>6, <1>13, <1>14, <2>2, <3>1 DEF ReadDisk
    <2> QED
      BY <1>14, <2>1, <2>2 DEF ReadDisk
  <1>15. CASE AdoptStored(p)
    <2>1. work[p] \in Requests /\ work[p].key \in Fps
      BY <1>15, RequestAt, RequestFields DEF AdoptStored
    <2> DEFINE r == store[work[p].key].res
               w == store[work[p].key].world
    <2>2. r \in Results /\ w \in Worlds /\ Proper(r)
      BY <1>15, <2>1, AnswerTypes DEF AdoptStored, Answered, StoreProper
    <2>3. /\ Advertise(r, w, Resolved(r)) /\ Reuses(p, r)
          /\ UNCHANGED <<disk, store>>
      BY <1>15 DEF AdoptStored
    <2> HIDE DEF r, w
    <2>4. Recorded(Tried', r)
      <3>1. /\ \A o \in Resolved(r) : r[o] \in Identities
            /\ Resolved(r) \in SUBSET Outputs
        BY <2>2 DEF Results, Resolved
      <3>2. \A o \in Resolved(r) : <<o, r[o].fp>> \in Tried'
        BY <2>2, <2>3, <3>1, AdvertiseNotes
      <3> QED
        BY <3>2 DEF Recorded, Resolved
    <2>5. pc[p] \in RequestPcs
      BY <1>15 DEF AdoptStored
    <2> QED
      BY <1>9, <2>2, <2>3, <2>4, <2>5 DEF Sound
  <1>16. CASE PassStore(p) \/ FillLockFails(p) \/ Resolve(p) \/ Quarantine(p)
    <2>1. work[p] \in Requests
      BY <1>16, RequestAt DEF PassStore, FillLockFails, Resolve, Quarantine
    <2>2. /\ work'[p].res = work[p].res
          /\ \A q \in Procs \ {p} : work'[q] = work[q]
      BY <1>16, <2>1
      DEF PassStore, FillLockFails, Resolve, Quarantine, Works, Control,
          Requests
    <2>3. \A q \in Procs \ {p} : pc'[q] = pc[q]
      BY <1>16
      DEF PassStore, FillLockFails, Resolve, Quarantine, Goes, Control
    <2>4. pc[p] \in RequestPcs /\ UNCHANGED <<told, memo, disk>>
      BY <1>16 DEF PassStore, FillLockFails, Resolve, Quarantine
    <2>5. StoreProper'
      <3>1. CASE Quarantine(p)
        BY <3>1 DEF Quarantine, StoreProper, Answered, Shapes
      <3> QED
        BY <1>6, <1>16, <3>1 DEF PassStore, FillLockFails, Resolve
    <2> QED
      BY <1>3, <1>4, <1>5, <1>13, <2>2, <2>3, <2>4, <2>5
  <1>17. CASE TakeFillLock(p)
    <2>1. CASE disk[work[p].key] # None
      BY <1>12, <1>17, <2>1 DEF TakeFillLock
    <2>2. CASE disk[work[p].key] = None
      <3>1. work[p] \in Requests
        BY <1>17, RequestAt DEF TakeFillLock
      <3>2. /\ Works(p, [work[p] EXCEPT !.locked = TRUE])
            /\ Goes(p, "resolve")
            /\ UNCHANGED <<told, memo, disk, store>>
        BY <1>17, <2>2 DEF TakeFillLock
      <3>3. /\ work'[p].res = work[p].res
            /\ \A q \in Procs \ {p} : work'[q] = work[q]
        BY <3>1, <3>2 DEF Works, Control, Requests
      <3>4. \A q \in Procs \ {p} : pc'[q] = pc[q]
        BY <3>2 DEF Goes, Control
      <3>5. pc[p] \in RequestPcs
        BY <1>17 DEF TakeFillLock
      <3> QED
        BY <1>3, <1>4, <1>5, <1>6, <1>13, <3>2, <3>3, <3>4, <3>5
    <2> QED
      BY <2>1, <2>2
  <1>18. CASE \E o \in Outputs : EmitReplay(p, o) \/ Emit(p, o)
    <2>1. PICK o \in Outputs : EmitReplay(p, o) \/ Emit(p, o)
      BY <1>18
    <2>2. PICK i \in Identities, q \in Maybe(Plans) : Emits(p, o, i, q)
      BY <2>1, EmitSteps
    <2>3. /\ pc[p] = "emit" /\ UNCHANGED <<pc, told, memo, disk, store>>
          /\ work[p] \in Requests
      BY <2>1, RequestAt DEF EmitReplay, Emit
    <2>4. /\ work'[p].res = [work[p].res EXCEPT ![o] = i]
          /\ \A r \in Procs \ {p} : work'[r] = work[r]
      BY <2>2 DEF Emits
    <2>5. i.src # "replay" => <<o, i.fp>> \in Tried'
      BY <2>2 DEF Emits
    <2>6. Sound(Tried', work'[p].res)
      <3>1. work[p].res \in [Outputs -> Maybe(Identities)]
        BY <2>3, RequestFields
      <3>2. i.src = "fresh" => i.ver = i.deps
        BY <2>2 DEF Emits
      <3>3. Sound(Tried', work[p].res)
        BY <1>2, <2>3
      <3> QED
        BY <2>4, <2>5, <3>1, <3>2, <3>3 DEF Sound, Proper, Recorded
    <2>7. WorkSound'
      BY <1>2, <2>3, <2>4, <2>6 DEF WorkSound
    <2> QED
      BY <1>3, <1>4, <1>5, <1>6, <1>7, <2>3, <2>7 DEF Answered
  <1>19. CASE Fail(p)
    BY <1>2, <1>4, <1>5, <1>6, <1>7, <1>8, <1>19 DEF Fail, Answered
  <1>20. CASE Publish(p)
    <2>1. /\ work[p].key \in Fps /\ Sound(Tried', work[p].res)
      BY <1>2, <1>20, RequestAt, RequestFields DEF Publish
    <2>2. MemoSound'
      <3> DEFINE m == [res |-> work[p].res, plan |-> NeedsPlans(work[p].res)]
      <3>1. Remembers(p, work[p].key, m) /\ m.res = work[p].res
        BY <1>20 DEF Publish
      <3> HIDE DEF m
      <3> QED
        BY <1>2, <2>1, <3>1, RemembersSound
    <2>3. UNCHANGED <<disk, store>>
      BY <1>20 DEF Publish
    <2>4. CASE Answers(p, work[p].res)
      BY <1>5, <1>6, <1>7, <1>8, <2>1, <2>2, <2>3, <2>4 DEF Answered
    <2>5. CASE Goes(p, "write") /\ UNCHANGED <<told, work>>
      <3>1. \A q \in Procs \ {p} : pc'[q] = pc[q]
        BY <2>5 DEF Goes, Control
      <3>2. pc[p] \in RequestPcs
        BY <1>20 DEF Publish
      <3> QED
        BY <1>3, <1>5, <1>6, <1>13, <2>2, <2>3, <2>5, <3>1, <3>2
    <2> QED
      BY <1>20, <2>4, <2>5 DEF Publish
  <1>21. CASE WriteDisk(p)
    <2>1. work[p].key \in Fps /\ Sound(Tried', work[p].res)
      BY <1>2, <1>21, RequestAt, RequestFields DEF WriteDisk
    <2>2. DiskSound'
      BY <1>2, <1>21, <2>1 DEF WriteDisk, DiskSound, Shapes
    <2>3. /\ \A q \in Procs \ {p} : pc'[q] = pc[q]
          /\ pc[p] \in RequestPcs /\ UNCHANGED <<told, memo, store, work>>
      BY <1>21 DEF WriteDisk, Goes, Control
    <2> QED
      BY <1>3, <1>4, <1>6, <1>13, <2>2, <2>3
  <1>22. CASE PublishStored(p)
    <2>1. Sound(Tried', work[p].res)
      BY <1>2, <1>22 DEF PublishStored
    <2>2. StoreProper'
      BY <1>22, <2>1
      DEF PublishStored, StoreProper, Answered, Shapes, Sound
    <2>3. Answers(p, work[p].res) /\ UNCHANGED <<memo, disk>>
      BY <1>22 DEF PublishStored
    <2> QED
      BY <1>4, <1>5, <1>7, <1>8, <2>1, <2>2, <2>3 DEF Answered
  <1> QED
    BY <1>10, <1>11, <1>14, <1>15, <1>16, <1>17, <1>18, <1>19, <1>20, <1>21,
       <1>22 DEF CondaOutputs

\* Using up a plan only forgets memos.
LEMMA ConsumeForgets ==
    ASSUME Shapes, NEW p \in Procs, Consume(p)
    PROVE  /\ \A q \in Procs \ {p} : memo'[q] = memo[q] /\ held'[q] = held[q]
           /\ \A k \in Fps :
                  \/ memo'[p][k] = memo[p][k]
                  \/ memo'[p][k] = None
  BY DEF Consume, Holds, Shapes

\* A build keeps what is answered, and forgets at most a memo.
LEMMA BuildAnswered ==
    ASSUME Shapes, Control, Answered, NEW p \in Procs, CondaBuild(p)
    PROVE  Answered'
  <1> USE DEF RequestPcs, BuildPcs, Computing
  <1>1. /\ UNCHANGED <<told, disk, store, records, Tried>>
        /\ UNCHANGED memo \/ Consume(p)
    BY DEF CondaBuild, Build, BuildFromLock, LeaveFast, BuildFromPlan,
           BuildCold, BuildRecovered, Refuse, Report, Tried
  <1>2. /\ pc'[p] \in BuildPcs \cup {"idle"}
        /\ \A q \in Procs \ {p} : pc'[q] = pc[q] /\ work'[q] = work[q]
    BY DEF CondaBuild, Build, BuildFromLock, LeaveFast, BuildFromPlan,
           BuildCold, BuildRecovered, Refuse, Report, Built, Goes, Works,
           Control
  <1>3. MemoSound'
    BY <1>1, ConsumeForgets DEF MemoSound, Answered
  <1>4. WorkSound'
    BY <1>1, <1>2 DEF WorkSound, Answered
  <1> QED
    BY <1>1, <1>3, <1>4 DEF Answered, ToldSound, DiskSound, StoreProper

\* Every step keeps what is answered sound.
LEMMA AnsweredNext ==
    ASSUME Shapes, Control, Complete, Answered, [Next]_vars
    PROVE  Answered'
  <1>1. ASSUME NEW p \in Procs, CondaOutputs(p) PROVE Answered'
    BY <1>1, OutputsAnswered
  <1>2. ASSUME NEW p \in Procs, CondaBuild(p) PROVE Answered'
    BY <1>2, BuildAnswered
  <1>3. ASSUME NEW p \in Procs, Crash(p) PROVE Answered'
    <2>1. UNCHANGED <<told, disk, store, records, Tried>>
      BY <1>3 DEF Crash, Tried
    <2>2. MemoSound'
      BY <1>3, <2>1 DEF Crash, MemoSound, Answered, Shapes
    <2>3. WorkSound'
      BY <1>3, <2>1 DEF Crash, WorkSound, Answered, Goes, Works, Control,
                  RequestPcs, Computing
    <2> QED
      BY <2>1, <2>2, <2>3 DEF Answered, ToldSound, DiskSound, StoreProper
  <1>4. CASE NewJob
    <2>1. \A p \in Procs : pc'[p] \notin RequestPcs
      BY <1>4 DEF NewJob, RequestPcs, Computing
    <2>2. Numbered(records')
      BY <1>4 DEF NewJob, Numbered
    <2>3. ToldSound' /\ MemoSound' /\ DiskSound' /\ StoreProper'
      BY <1>4
      DEF NewJob, ToldSound, MemoSound, DiskSound, StoreProper, Answered
    <2> QED
      BY <2>1, <2>2, <2>3 DEF Answered, WorkSound
  <1>5. CASE SiblingWrites \/ UNCHANGED vars
    BY <1>5 DEF SiblingWrites, vars, Answered, ToldSound, MemoSound,
                DiskSound, WorkSound, StoreProper, Tried
  <1> QED
    BY <1>1, <1>2, <1>3, <1>4, <1>5 DEF Next

\* Nothing is answered at the start.
LEMMA AnsweredInit == Init => Answered
  BY DEF Init, Answered, Numbered, ToldSound, MemoSound, DiskSound, WorkSound,
         StoreProper, RequestPcs, Computing

\* Sound answers have their records, unless these could not be written.
LEMMA RecordsOfAnswers ==
    ASSUME Shapes, Answered PROVE AnswersHaveRecords
  <1> SUFFICES ASSUME NEW r \in Known \ {None}, NEW o \in Outputs,
                      r[o].src # "replay"
               PROVE  IF records[o][r[o].fp] = None
                      THEN <<o, r[o].fp>> \in unwritten
                      ELSE records[o][r[o].fp].fp = r[o].fp
    BY DEF AnswersHaveRecords
  <1>1. r \in Results /\ Sound(Tried, r)
    <2>1. CASE \E p \in Procs : r = told[p]
      BY <2>1, AnswerTypes DEF Answered, ToldSound
    <2>2. CASE \E k \in Fps : disk[k] # None /\ r = disk[k].res
      BY <2>2, AnswerTypes DEF Answered, DiskSound
    <2>3. CASE \E p \in Procs, k \in Fps :
                   memo[p][k] # None /\ r = memo[p][k].res
      BY <2>3, AnswerTypes DEF Answered, MemoSound
    <2> QED
      BY <2>1, <2>2, <2>3 DEF Known
  <1>2. r[o] \in Identities /\ r[o].fp \in Fps
    BY <1>1, IdentityFields DEF Results
  <1> QED
    BY <1>1, <1>2, NoneApart DEF Sound, Recorded, Answered, Numbered, Tried

-----------------------------------------------------------------------------
(* The plans                                                               *)

\* What needs its plans is with nobody else.
Unshared ==
    /\ \A k \in Fps : disk[k] # None => ~NeedsPlans(disk[k].res)
    /\ \A k \in Fps : store[k] # None => ~NeedsPlans(store[k].res)
    /\ \A p \in Procs :
           pc[p] \in {"write", "publish"} => ~NeedsPlans(work[p].res)

\* The plans hold the version of every incremental output.
Covers(plans, r) ==
    \A o \in Outputs :
        r[o] # None /\ r[o].src = "incremental"
            => plans[o] # None /\ plans[o].over = r[o].ver

\* A process that remembers an answer which needs its plans knows it, and has
\* them if it holds what belongs to the key.
MemoPlanned(p) ==
    \A k \in Fps :
        memo[p][k] # None
            => /\ NeedsPlans(memo[p][k].res) => memo[p][k].plan
               /\ held[p].key = k => Covers(held[p].plans, memo[p][k].res)

WorkPlanned(p) ==
    pc[p] \in RequestPcs => Covers(work[p].plans, work[p].res)

\* Plans are of what the process resolves in.
PlansOfView(p) ==
    \A o \in Outputs :
        /\ held[p].plans[o] # None
               => held[p].plans[o].deps = Content[view[p]]
        /\ pc[p] \in RequestPcs /\ work[p].plans[o] # None
               => work[p].plans[o].deps = Content[view[p]]

Planned ==
    /\ Unshared
    /\ \A p \in Procs : MemoPlanned(p) /\ WorkPlanned(p) /\ PlansOfView(p)

\* A step of a process leaves the others alone.
LEMMA OthersStay ==
    ASSUME Shapes, Control, NEW p \in Procs,
           CondaOutputs(p) \/ CondaBuild(p) \/ Crash(p)
    PROVE  /\ \A q \in Procs \ {p} :
                  /\ pc'[q] = pc[q] /\ work'[q] = work[q]
                  /\ memo'[q] = memo[q] /\ held'[q] = held[q]
                  /\ view'[q] = view[q]
           /\ ~Crash(p) => view' = view
  <1> DEFINE Alone == \A q \in Procs \ {p} :
                          /\ pc'[q] = pc[q] /\ work'[q] = work[q]
                          /\ memo'[q] = memo[q] /\ held'[q] = held[q]
                          /\ view'[q] = view[q]
  <1> USE DEF Goes, Works, Holds, Remembers, Answers, Reuses
  <1>1. CASE HitMemory(p) \/ MissMemory(p)
    BY <1>1 DEF HitMemory, MissMemory, Shapes, Control
  <1>2. CASE ReadDisk(p) \/ AdoptStored(p) \/ PassStore(p)
    BY <1>2 DEF ReadDisk, AdoptStored, PassStore, Shapes, Control
  <1>3. CASE TakeFillLock(p) \/ FillLockFails(p) \/ Resolve(p) \/ Fail(p)
    BY <1>3 DEF TakeFillLock, FillLockFails, Resolve, Fail, Shapes, Control
  <1>4. CASE \E o \in Outputs : EmitReplay(p, o) \/ Emit(p, o)
    <2>1. PICK o \in Outputs : EmitReplay(p, o) \/ Emit(p, o)
      BY <1>4
    <2>2. \A q \in Procs \ {p} : work'[q] = work[q]
      BY <2>1, EmitSteps DEF Emits
    <2>3. UNCHANGED <<pc, memo, held, view>>
      BY <2>1 DEF EmitReplay, Emit
    <2> QED
      BY <2>2, <2>3
  <1>5. CASE \/ Publish(p) \/ WriteDisk(p) \/ Quarantine(p)
             \/ PublishStored(p)
    BY <1>5 DEF Publish, WriteDisk, Quarantine, PublishStored, Shapes, Control
  <1>6. CASE Build(p) \/ LeaveFast(p) \/ Refuse(p) \/ Report(p)
    BY <1>6 DEF Build, LeaveFast, Refuse, Report, Shapes, Control
  <1>7. CASE \/ BuildFromLock(p) \/ BuildFromPlan(p)
             \/ BuildCold(p) \/ BuildRecovered(p)
    <2>1. /\ \A q \in Procs \ {p} : pc'[q] = pc[q] /\ work'[q] = work[q]
          /\ UNCHANGED view
          /\ UNCHANGED <<memo, held>> \/ Consume(p)
      BY <1>7
      DEF BuildFromLock, BuildFromPlan, BuildCold, BuildRecovered, Built,
          Control
    <2> QED
      BY <2>1, ConsumeForgets
  <1>8. CASE Crash(p)
    BY <1>8 DEF Crash, Shapes, Control
  <1> QED
    BY <1>1, <1>2, <1>3, <1>4, <1>5, <1>6, <1>7, <1>8
    DEF CondaOutputs, CondaBuild

\* Nothing is held.
LEMMA NothingCovered ==
    /\ NothingHeld.key \notin Fps
    /\ \A o \in Outputs : NothingHeld.plans[o] = None
    /\ \A k : Covers(Request(k).plans, Request(k).res)
    /\ \A k : \A o \in Outputs : Request(k).plans[o] = None
  BY NoneApart DEF NothingHeld, NoPlans, Request, Covers

\* An answer without incremental outputs is covered by anything.
LEMMA CoveredAnyway ==
    ASSUME NEW r \in Results, ~NeedsPlans(r), NEW plans
    PROVE  Covers(plans, r)
  BY DEF NeedsPlans, Covers

\* A request that only moves, and holds what it held or nothing.
LEMMA StaysPlanned ==
    ASSUME Shapes, Control, NEW p \in Procs,
           MemoPlanned(p), WorkPlanned(p), PlansOfView(p),
           pc[p] \in RequestPcs,
           work'[p].res = work[p].res, work'[p].plans = work[p].plans,
           memo'[p] = memo[p], view'[p] = view[p],
           held'[p] = held[p] \/ held'[p] = NothingHeld
    PROVE  MemoPlanned(p)' /\ WorkPlanned(p)' /\ PlansOfView(p)'
  BY NothingCovered DEF MemoPlanned, WorkPlanned, PlansOfView

\* A process that ends its request, or begins one, with a memo that needs no
\* plans or has them.
LEMMA EndsPlanned ==
    ASSUME Shapes, Control, NEW p \in Procs,
           MemoPlanned(p), PlansOfView(p),
           \/ pc'[p] \notin RequestPcs
           \/ \E k \in Fps : work'[p] = Request(k),
           view'[p] = view[p],
           \/ held'[p] = held[p]
           \/ held'[p] = NothingHeld,
           \A k \in Fps :
               \/ memo'[p][k] = memo[p][k]
               \/ memo'[p][k] = None
               \/ /\ held'[p] = NothingHeld
                  /\ ~NeedsPlans(memo'[p][k].res)
    PROVE  MemoPlanned(p)' /\ WorkPlanned(p)' /\ PlansOfView(p)'
  <1>1. MemoPlanned(p)'
    BY NothingCovered DEF MemoPlanned
  <1>2. WorkPlanned(p)'
    BY NothingCovered DEF WorkPlanned
  <1>3. PlansOfView(p)'
    BY NothingCovered DEF PlansOfView
  <1> QED
    BY <1>1, <1>2, <1>3

\* An answer that is remembered without plans needs none.
LEMMA ReusesPlanned ==
    ASSUME Shapes, Control, NEW p \in Procs,
           MemoPlanned(p), PlansOfView(p), work[p].key \in Fps,
           NEW r, Reuses(p, r), ~NeedsPlans(r), view' = view
    PROVE  MemoPlanned(p)' /\ WorkPlanned(p)' /\ PlansOfView(p)'
  <1>1. pc'[p] \notin RequestPcs
    BY DEF Reuses, Answers, Goes, Control, RequestPcs, Computing
  <1>2. held'[p] = NothingHeld
    BY DEF Reuses, Holds, Shapes
  <1>3. \A k \in Fps :
            memo'[p][k] = memo[p][k] \/ memo'[p][k].res = r
    BY DEF Reuses, Remembers, Shapes
  <1> QED
    BY <1>1, <1>2, <1>3, EndsPlanned

\* Every step of a request keeps its plans and memos together.
LEMMA OutputsPlanned ==
    ASSUME Shapes, Control, Complete, Planned, NEW p \in Procs,
           CondaOutputs(p)
    PROVE  MemoPlanned(p)' /\ WorkPlanned(p)' /\ PlansOfView(p)'
  <1> USE DEF RequestPcs, Computing
  <1> DEFINE Fine == MemoPlanned(p)' /\ WorkPlanned(p)' /\ PlansOfView(p)'
  <1>0. MemoPlanned(p) /\ WorkPlanned(p) /\ PlansOfView(p) /\ live \in Fps
    BY DEF Planned, Shapes
  <1>1. CASE HitMemory(p)
    <2>1. /\ view' = view
          /\ held'[p] = held[p] \/ held'[p] = NothingHeld
      BY <1>1 DEF HitMemory, Holds, Shapes
    <2>2. \A k \in Fps : memo'[p][k] = memo[p][k] \/ memo'[p][k] = None
      BY <1>1 DEF HitMemory, Remembers, Shapes
    <2>3. \/ pc'[p] \notin RequestPcs
          \/ \E k \in Fps : work'[p] = Request(k)
      BY <1>0, <1>1 DEF HitMemory, Answers, Goes, Works, Control
    <2> QED
      BY <1>0, <2>1, <2>2, <2>3, EndsPlanned
  <1>2. CASE MissMemory(p)
    <2>1. work'[p] = Request(live)
      BY <1>2 DEF MissMemory, Works, Control
    <2>2. UNCHANGED <<view, memo, held>>
      BY <1>2 DEF MissMemory
    <2> QED
      BY <1>0, <2>1, <2>2, EndsPlanned
  <1>3. ASSUME pc[p] \in RequestPcs, disk[work[p].key] # None,
               Reuses(p, disk[work[p].key].res), view' = view
        PROVE  Fine
    <2>1. work[p].key \in Fps
      BY <1>3, RequestAt, RequestFields
    <2>2. ~NeedsPlans(disk[work[p].key].res)
      BY <1>3, <2>1 DEF Planned, Unshared
    <2> QED
      BY <1>0, <1>3, <2>1, <2>2, ReusesPlanned
  <1>4. ASSUME pc[p] \in RequestPcs, work'[p].res = work[p].res,
               work'[p].plans = work[p].plans, UNCHANGED <<memo, view>>,
               held'[p] = held[p] \/ held'[p] = NothingHeld
        PROVE  Fine
    BY <1>0, <1>4, StaysPlanned
  <1>5. CASE ReadDisk(p)
    <2>1. CASE disk[work[p].key] # None /\ Reuses(p, disk[work[p].key].res)
      BY <1>3, <1>5, <2>1 DEF ReadDisk
    <2>2. CASE UNCHANGED <<memo, held, work>>
      BY <1>4, <1>5, <2>2 DEF ReadDisk
    <2> QED
      BY <1>5, <2>1, <2>2 DEF ReadDisk
  <1>6. CASE AdoptStored(p)
    <2>1. work[p].key \in Fps
      BY <1>6, RequestAt, RequestFields DEF AdoptStored
    <2>2. ~NeedsPlans(store[work[p].key].res)
      BY <1>6, <2>1 DEF AdoptStored, Planned, Unshared
    <2>3. Reuses(p, store[work[p].key].res) /\ view' = view
      BY <1>6 DEF AdoptStored
    <2> QED
      BY <1>0, <2>1, <2>2, <2>3, ReusesPlanned
  <1>7. CASE PassStore(p) \/ FillLockFails(p) \/ Resolve(p) \/ Quarantine(p)
    <2>1. work[p] \in Requests
      BY <1>7, RequestAt DEF PassStore, FillLockFails, Resolve, Quarantine
    <2>2. work'[p].res = work[p].res /\ work'[p].plans = work[p].plans
      BY <1>7, <2>1
      DEF PassStore, FillLockFails, Resolve, Quarantine, Works, Control,
          Requests
    <2>3. /\ pc[p] \in RequestPcs /\ UNCHANGED <<memo, view>>
          /\ held'[p] = held[p] \/ held'[p] = NothingHeld
      BY <1>7
      DEF PassStore, FillLockFails, Resolve, Quarantine, Holds, Shapes
    <2> QED
      BY <1>4, <2>2, <2>3
  <1>8. CASE TakeFillLock(p)
    <2>1. CASE disk[work[p].key] # None
      BY <1>3, <1>8, <2>1 DEF TakeFillLock
    <2>2. CASE disk[work[p].key] = None
      <3>1. work[p] \in Requests
        BY <1>8, RequestAt DEF TakeFillLock
      <3>2. /\ Works(p, [work[p] EXCEPT !.locked = TRUE])
            /\ Holds(p, NothingHeld) /\ UNCHANGED <<memo, view>>
            /\ pc[p] \in RequestPcs
        BY <1>8, <2>2 DEF TakeFillLock
      <3>3. work'[p].res = work[p].res /\ work'[p].plans = work[p].plans
        BY <3>1, <3>2 DEF Works, Control, Requests
      <3>4. held'[p] = NothingHeld
        BY <3>2 DEF Holds, Shapes
      <3> QED
        BY <1>4, <3>2, <3>3, <3>4
    <2> QED
      BY <2>1, <2>2
  <1>9. CASE \E o \in Outputs : EmitReplay(p, o) \/ Emit(p, o)
    <2>1. PICK o \in Outputs : EmitReplay(p, o) \/ Emit(p, o)
      BY <1>9
    <2>2. PICK i \in Identities, q \in Maybe(Plans) : Emits(p, o, i, q)
      BY <2>1, EmitSteps
    <2>3. pc[p] = "emit" /\ UNCHANGED <<pc, memo, held, view>>
      BY <2>1 DEF EmitReplay, Emit
    <2>4. /\ work[p].res \in [Outputs -> Maybe(Identities)]
          /\ work[p].plans \in [Outputs -> Maybe(Plans)]
      BY <2>3, RequestAt, RequestFields
    <2>5. /\ work'[p].res = [work[p].res EXCEPT ![o] = i]
          /\ work'[p].plans = [work[p].plans EXCEPT ![o] = q]
          /\ i.src = "incremental" => q # None /\ q.over = i.ver
          /\ q # None => q.deps = Content[view[p]]
      BY <2>2 DEF Emits
    <2>6. WorkPlanned(p)'
      BY <1>0, <2>3, <2>4, <2>5 DEF WorkPlanned, Covers
    <2>7. PlansOfView(p)'
      BY <1>0, <2>3, <2>4, <2>5 DEF PlansOfView
    <2>8. MemoPlanned(p)'
      BY <1>0, <2>3 DEF MemoPlanned
    <2> QED
      BY <2>6, <2>7, <2>8
  <1>10. CASE Fail(p)
    <2>1. pc'[p] \notin RequestPcs
      BY <1>10 DEF Fail, Answers, Goes, Control
    <2> QED
      BY <1>0, <1>10, <2>1, EndsPlanned DEF Fail
  <1>11. CASE Publish(p)
    <2>1. /\ work[p].res \in [Outputs -> Maybe(Identities)]
          /\ work[p].key \in Fps /\ work[p] \in Requests
      BY <1>11, RequestAt, RequestFields DEF Publish
    <2>2. /\ view' = view
          /\ held'[p].key = work[p].key /\ held'[p].plans = work[p].plans
      BY <1>11 DEF Publish, Holds, Shapes
    <2>3. /\ memo'[p][work[p].key].res = work[p].res
          /\ memo'[p][work[p].key].plan = NeedsPlans(work[p].res)
          /\ \A k \in Fps \ {work[p].key} : memo'[p][k] = memo[p][k]
      BY <1>11, <2>1 DEF Publish, Remembers, Shapes
    <2>4. Covers(work[p].plans, work[p].res)
      BY <1>0, <1>11 DEF Publish, WorkPlanned
    <2>5. MemoPlanned(p)'
      BY <1>0, <2>2, <2>3, <2>4 DEF MemoPlanned
    <2>6. \/ pc'[p] \notin RequestPcs
          \/ work'[p] = work[p]
      BY <1>11 DEF Publish, Answers, Goes, Control
    <2>7. WorkPlanned(p)'
      BY <2>4, <2>6 DEF WorkPlanned
    <2>8. PlansOfView(p)'
      BY <1>0, <1>11, <2>2, <2>6 DEF PlansOfView, Publish
    <2> QED
      BY <2>5, <2>7, <2>8
  <1>12. CASE WriteDisk(p)
    BY <1>4, <1>12 DEF WriteDisk
  <1>13. CASE PublishStored(p)
    <2>1. pc'[p] \notin RequestPcs
      BY <1>13 DEF PublishStored, Answers, Goes, Control
    <2> QED
      BY <1>0, <1>13, <2>1, EndsPlanned DEF PublishStored
  <1> QED
    BY <1>1, <1>2, <1>5, <1>6, <1>7, <1>8, <1>9, <1>10, <1>11, <1>12, <1>13
    DEF CondaOutputs

\* A plan that is used up takes the memo that needs it along.
LEMMA ConsumePlanned ==
    ASSUME Shapes, Control, NEW p \in Procs, Consume(p),
           MemoPlanned(p), PlansOfView(p), work[p].out \in Outputs,
           pc'[p] \notin RequestPcs, view' = view
    PROVE  MemoPlanned(p)' /\ WorkPlanned(p)' /\ PlansOfView(p)'
  <1> DEFINE rest == [held[p].plans EXCEPT ![work[p].out] = None]
             key == IF rest = NoPlans THEN None ELSE held[p].key
  <1>1. held'[p].key = key /\ held'[p].plans = rest
    BY DEF Consume, Holds, Shapes
  <1>2. \A k \in Fps :
            \/ memo'[p][k] = None
            \/ /\ memo'[p][k] = memo[p][k]
               /\ k = held[p].key => ~memo[p][k].plan
    BY DEF Consume, Shapes
  <1>3. \A o \in Outputs : rest[o] # None => rest[o] = held[p].plans[o]
    BY HeldTypes
  <1>4. key \in {None, held[p].key}
    OBVIOUS
  <1> HIDE DEF rest, key
  <1>5. MemoPlanned(p)'
    <2> SUFFICES ASSUME NEW k \in Fps, memo'[p][k] # None
                 PROVE  /\ NeedsPlans(memo'[p][k].res) => memo'[p][k].plan
                        /\ held'[p].key = k
                              => Covers(held'[p].plans, memo'[p][k].res)
      BY DEF MemoPlanned
    <2>1. /\ memo'[p][k] = memo[p][k]
          /\ k = held[p].key => ~memo[p][k].plan
      BY <1>2
    <2>2. NeedsPlans(memo[p][k].res) => memo[p][k].plan
      BY <2>1 DEF MemoPlanned
    <2>3. ASSUME held'[p].key = k
          PROVE  Covers(held'[p].plans, memo'[p][k].res)
      <3>1. held[p].key = k
        BY <1>1, <1>4, <2>3, NoneApart
      <3>2. ~NeedsPlans(memo[p][k].res) /\ memo[p][k].res \in Results
        BY <2>1, <2>2, <3>1, AnswerTypes
      <3> QED
        BY <2>1, <3>2, CoveredAnyway
    <2> QED
      BY <2>1, <2>2, <2>3
  <1>6. WorkPlanned(p)'
    BY DEF WorkPlanned
  <1>7. PlansOfView(p)'
    BY <1>1, <1>3 DEF PlansOfView
  <1> QED
    BY <1>5, <1>6, <1>7

\* A build keeps plans and memos together.
LEMMA BuildPlanned ==
    ASSUME Shapes, Control, Planned, NEW p \in Procs, CondaBuild(p)
    PROVE  MemoPlanned(p)' /\ WorkPlanned(p)' /\ PlansOfView(p)'
  <1> USE DEF RequestPcs, BuildPcs, Computing
  <1>1. pc'[p] \notin RequestPcs /\ view' = view
    BY DEF CondaBuild, Build, BuildFromLock, LeaveFast, BuildFromPlan,
           BuildCold, BuildRecovered, Refuse, Report, Built, Goes, Control
  <1>2. MemoPlanned(p) /\ PlansOfView(p)
    BY DEF Planned
  <1>3. CASE UNCHANGED <<memo, held>>
    BY <1>1, <1>2, <1>3, EndsPlanned
  <1>4. CASE BuildFromLock(p) \/ BuildFromPlan(p)
    <2>1. Consume(p)
      BY <1>4 DEF BuildFromLock, BuildFromPlan
    <2>2. work[p].out \in Outputs
      BY <1>4, RequestAt, BuildFields
      DEF BuildFromLock, BuildFromPlan, Replays, Adds, Fast
    <2> QED
      BY <1>1, <1>2, <2>1, <2>2, ConsumePlanned
  <1> QED
    BY <1>3, <1>4
    DEF CondaBuild, Build, LeaveFast, BuildCold, BuildRecovered, Refuse, Report

\* What needs its plans stays with its process.
LEMMA UnsharedOutputs ==
    ASSUME Shapes, Control, Unshared, NEW p \in Procs, CondaOutputs(p)
    PROVE  Unshared'
  <1> USE DEF RequestPcs, Computing
  <1>1. \A q \in Procs \ {p} : pc'[q] = pc[q] /\ work'[q] = work[q]
    BY OthersStay
  <1>2. ASSUME pc'[p] \notin {"write", "publish"}, UNCHANGED <<disk, store>>
        PROVE  Unshared'
    BY <1>1, <1>2 DEF Unshared
  <1>3. CASE HitMemory(p) \/ MissMemory(p)
    BY <1>2, <1>3 DEF HitMemory, MissMemory, Answers, Goes, Control
  <1>4. CASE ReadDisk(p) \/ AdoptStored(p) \/ PassStore(p)
    BY <1>2, <1>4
    DEF ReadDisk, AdoptStored, PassStore, Reuses, Answers, Goes, Control
  <1>5. CASE TakeFillLock(p) \/ FillLockFails(p) \/ Resolve(p) \/ Fail(p)
    BY <1>2, <1>5
    DEF TakeFillLock, FillLockFails, Resolve, Fail, Reuses, Answers, Goes,
        Control
  <1>6. CASE \E o \in Outputs : EmitReplay(p, o) \/ Emit(p, o)
    BY <1>2, <1>6 DEF EmitReplay, Emit
  <1>7. CASE Publish(p)
    <2>1. UNCHANGED <<disk, store>>
      BY <1>7 DEF Publish
    <2>2. CASE Answers(p, work[p].res)
      BY <1>2, <2>1, <2>2 DEF Answers, Goes, Control
    <2>3. CASE ~NeedsPlans(work[p].res) /\ UNCHANGED work
      BY <1>1, <2>1, <2>3 DEF Unshared
    <2> QED
      BY <1>7, <2>2, <2>3 DEF Publish
  <1>8. CASE WriteDisk(p)
    <2>1. ~NeedsPlans(work[p].res) /\ UNCHANGED <<work, store>>
      BY <1>8 DEF WriteDisk, Unshared
    <2>2. \A k \in Fps : disk'[k] = disk[k] \/ disk'[k].res = work[p].res
      BY <1>8 DEF WriteDisk, Shapes
    <2> QED
      BY <1>1, <2>1, <2>2 DEF Unshared
  <1>9. CASE Quarantine(p)
    <2>1. work[p] \in Requests /\ ~NeedsPlans(work[p].res)
      BY <1>9, RequestAt DEF Quarantine, Unshared
    <2>2. work'[p].res = work[p].res
      BY <1>9, <2>1 DEF Quarantine, Works, Control, Requests
    <2>3. \A k \in Fps : store'[k] = store[k] \/ store'[k] = None
      BY <1>9 DEF Quarantine, Shapes
    <2>4. UNCHANGED <<pc, disk>>
      BY <1>9 DEF Quarantine
    <2> QED
      BY <1>1, <2>1, <2>2, <2>3, <2>4 DEF Unshared
  <1>10. CASE PublishStored(p)
    <2>1. /\ ~NeedsPlans(work[p].res) /\ UNCHANGED disk
          /\ pc'[p] \notin {"write", "publish"}
      BY <1>10 DEF PublishStored, Unshared, Answers, Goes, Control
    <2>2. \A k \in Fps : store'[k] = store[k] \/ store'[k].res = work[p].res
      BY <1>10 DEF PublishStored, Shapes
    <2> QED
      BY <1>1, <2>1, <2>2 DEF Unshared
  <1> QED
    BY <1>3, <1>4, <1>5, <1>6, <1>7, <1>8, <1>9, <1>10 DEF CondaOutputs

\* Every step keeps plans and answers together.
LEMMA PlannedNext ==
    ASSUME Shapes, Control, Complete, Planned, [Next]_vars
    PROVE  Planned'
  <1>1. ASSUME NEW p \in Procs,
               CondaOutputs(p) \/ CondaBuild(p) \/ Crash(p),
               Unshared', MemoPlanned(p)', WorkPlanned(p)', PlansOfView(p)'
        PROVE  Planned'
    <2>1. ASSUME NEW q \in Procs \ {p}
          PROVE  MemoPlanned(q)' /\ WorkPlanned(q)' /\ PlansOfView(q)'
      <3>1. MemoPlanned(q) /\ WorkPlanned(q) /\ PlansOfView(q)
        BY DEF Planned
      <3>2. /\ pc'[q] = pc[q] /\ work'[q] = work[q] /\ memo'[q] = memo[q]
            /\ held'[q] = held[q] /\ view'[q] = view[q]
        BY <1>1, OthersStay
      <3> QED
        BY <3>1, <3>2 DEF MemoPlanned, WorkPlanned, PlansOfView
    <2> QED
      BY <1>1, <2>1 DEF Planned
  <1>2. ASSUME NEW p \in Procs, CondaOutputs(p) PROVE Planned'
    <2>1. Unshared'
      BY <1>2, UnsharedOutputs DEF Planned
    <2>2. MemoPlanned(p)' /\ WorkPlanned(p)' /\ PlansOfView(p)'
      BY <1>2, OutputsPlanned
    <2> QED
      BY <1>1, <1>2, <2>1, <2>2
  <1>3. ASSUME NEW p \in Procs, CondaBuild(p) PROVE Planned'
    <2>1. /\ pc'[p] \notin {"write", "publish"} /\ UNCHANGED <<disk, store>>
          /\ \A q \in Procs \ {p} : pc'[q] = pc[q] /\ work'[q] = work[q]
      BY <1>3, OthersStay
      DEF CondaBuild, Build, BuildFromLock, LeaveFast, BuildFromPlan,
          BuildCold, BuildRecovered, Refuse, Report, Built, Goes, Control
    <2>2. Unshared'
      BY <2>1 DEF Unshared, Planned
    <2>3. MemoPlanned(p)' /\ WorkPlanned(p)' /\ PlansOfView(p)'
      BY <1>3, BuildPlanned
    <2> QED
      BY <1>1, <1>3, <2>2, <2>3
  <1>4. ASSUME NEW p \in Procs, Crash(p) PROVE Planned'
    <2>1. /\ pc'[p] = "idle" /\ held'[p] = NothingHeld
          /\ \A k \in Fps : memo'[p][k] = None
          /\ UNCHANGED <<disk, store>>
      BY <1>4 DEF Crash, Goes, Holds, Control, Shapes
    <2>2. Unshared'
      BY <1>4, <2>1, OthersStay DEF Unshared, Planned
    <2>3. MemoPlanned(p)' /\ WorkPlanned(p)' /\ PlansOfView(p)'
      BY <2>1, NothingCovered
      DEF MemoPlanned, WorkPlanned, PlansOfView, RequestPcs, Computing
    <2> QED
      BY <1>1, <1>4, <2>2, <2>3
  <1>5. CASE NewJob
    <2>1. \A p \in Procs : pc'[p] \notin RequestPcs
      BY <1>5 DEF NewJob, RequestPcs, Computing
    <2>2. Unshared'
      BY <1>5 DEF NewJob, Unshared, Planned
    <2>3. \A p \in Procs : held'[p] = NothingHeld
      BY <1>5 DEF NewJob
    <2>4. \A p \in Procs, k \in Fps : memo'[p][k] = None
      BY <1>5 DEF NewJob
    <2> QED
      BY <2>1, <2>2, <2>3, <2>4, NothingCovered
      DEF Planned, MemoPlanned, WorkPlanned, PlansOfView
  <1>6. CASE SiblingWrites \/ UNCHANGED vars
    BY <1>6 DEF SiblingWrites, vars, Planned, Unshared, MemoPlanned,
                WorkPlanned, PlansOfView
  <1> QED
    BY <1>2, <1>3, <1>4, <1>5, <1>6 DEF Next

\* Nothing is planned at the start.
LEMMA PlannedInit == Init => Planned
  BY NothingCovered DEF Init, Planned, Unshared, MemoPlanned, WorkPlanned,
                        PlansOfView, RequestPcs, Computing

\* An answer that needs its plans keeps them.
LEMMA PlansOfAnswers ==
    ASSUME Shapes, Planned PROVE IncrementalAnswersKeepTheirPlans
  <1>1. ASSUME NEW p \in Procs, NEW k \in Fps, NEW o \in Outputs,
               memo[p][k] # None, Retained(p, k, TRUE),
               memo[p][k].res[o].src = "incremental"
        PROVE  /\ held[p].plans[o] # None
               /\ held[p].plans[o].over = memo[p][k].res[o].ver
    <2>1. memo[p][k].res[o] # None
      BY <1>1, AnswerTypes, NoneApart DEF Results
    <2>2. Covers(held[p].plans, memo[p][k].res)
      BY <1>1 DEF Planned, MemoPlanned, Retained
    <2> QED
      BY <1>1, <2>1, <2>2 DEF Covers
  <1> QED
    BY <1>1 DEF IncrementalAnswersKeepTheirPlans, Planned, Unshared

-----------------------------------------------------------------------------
(* The builds                                                              *)

\* A build of a sound identity has its record unless this could not be
\* written, is in effect under the fingerprint of the record and has a plan of
\* what the process resolves in.
Sourced(p) ==
    pc[p] \in BuildPcs
        => /\ work[p].id.src = "fresh" => work[p].id.ver = work[p].id.deps
           /\ work[p].id.src # "replay"
                  => \/ work[p].rec # None
                     \/ <<work[p].out, work[p].id.fp>> \in unwritten
           /\ HasRecord(p) => work[p].eff = work[p].id.fp
           /\ work[p].plan # None => work[p].plan.deps = Content[view[p]]

\* A fresh identity that is refused is one of the exceptions.
Excused(p) ==
    pc[p] = "refused" /\ work[p].id.src = "fresh"
        => \/ work[p].rec # None /\ ~HasRecord(p)
           \/ Content[view[p]] # work[p].id.ver
           \/ work[p].plan # None /\ work[p].plan.over # work[p].detected
           \/ LostItsRecord(work[p])

Buildable == \A p \in Procs : Sourced(p) /\ Excused(p)

\* A build begins with a sound identity.
LEMMA BuildSourced ==
    ASSUME Shapes, Control, Answered, Planned, NEW p \in Procs, Build(p)
    PROVE  Sourced(p)' /\ Excused(p)'
  <1>1. PICK q \in Procs, o \in Outputs, same \in BOOLEAN :
            /\ told[q] # None
            /\ LET id == told[q][o]
                   r == records[o][id.fp]
                   plan == held[p].plans[o]
                   found == same /\ plan # None /\ plan.fp = id.fp
                                /\ plan.ver = id.ver
               IN  Works(p,
                     [out |-> o, id |-> id, rec |-> r,
                      eff |-> IF Usable(p, r, id) THEN r.fp ELSE live,
                      plan |-> IF found THEN plan ELSE None,
                      detected |-> None])
    BY DEF Build
  <1> DEFINE id == told[q][o]
             r == records[o][id.fp]
  <1>2. /\ work'[p].out = o /\ work'[p].id = id /\ work'[p].rec = r
        /\ Usable(p, r, id) => work'[p].eff = r.fp
        /\ work'[p].plan # None => work'[p].plan = held[p].plans[o]
    BY <1>1 DEF Works, Control
  <1>3. view' = view /\ pc'[p] = "fast" /\ unwritten' = unwritten
    BY DEF Build, Goes, Control
  <1>4. id \in Identities /\ id.fp \in Fps /\ Sound(Tried, told[q])
    BY <1>1, AnswerTypes, IdentityFields DEF Results, Answered, ToldSound
  <1>5. /\ id.src = "fresh" => id.ver = id.deps
        /\ id.src # "replay" => r # None \/ <<o, id.fp>> \in unwritten
    BY <1>4, NoneApart DEF Sound, Proper, Recorded, Tried
  <1>6. r # None => r.fp = id.fp
    BY <1>4 DEF Answered, Numbered
  <1>7. \A u \in Outputs :
            held[p].plans[u] # None
                => held[p].plans[u].deps = Content[view[p]]
    BY DEF Planned, PlansOfView
  <1>8. HasRecord(p)' => Usable(p, r, id)
    BY <1>2, <1>3 DEF HasRecord, Usable
  <1> HIDE DEF id, r
  <1>9. HasRecord(p)' => work'[p].eff = work'[p].id.fp
    BY <1>2, <1>6, <1>8 DEF Usable
  <1>10. Sourced(p)'
    BY <1>2, <1>3, <1>5, <1>7, <1>9 DEF Sourced
  <1> QED
    BY <1>3, <1>10 DEF Excused

\* What is refused without an excuse would have been built.
LEMMA RefusalExcused ==
    ASSUME Shapes, Control, NEW p \in Procs, Sourced(p), Refuse(p)
    PROVE  Sourced(p)' /\ Excused(p)'
  <1>1. /\ pc[p] \in BuildPcs /\ pc'[p] = "refused"
        /\ UNCHANGED <<view, work, unwritten>>
    BY DEF Refuse, Goes, Control, BuildPcs
  <1>2. Sourced(p)'
    BY <1>1 DEF Sourced, HasRecord, Usable, BuildPcs
  <1>3. ASSUME work[p].id.src = "fresh", Content[view[p]] = work[p].id.ver,
               ~(work[p].rec # None /\ ~HasRecord(p)),
               ~(work[p].plan # None /\ work[p].plan.over # work[p].detected),
               ~LostItsRecord(work[p])
        PROVE  FALSE
    <2>1. work[p].plan # None => work[p].eff = work[p].id.fp
      BY <1>1, <1>3 DEF Sourced, LostItsRecord
    <2>2. CASE work[p].plan # None /\ ~PlanFits(work[p])
      BY <1>1, <1>3, <2>1, <2>2 DEF PlanFits, Sourced
    <2>3. CASE ~ColdFits(p)
      BY <1>1, <1>3, <2>3 DEF ColdFits, Sourced
    <2> QED
      BY <2>2, <2>3 DEF Refuse
  <1>4. HasRecord(p)' <=> HasRecord(p)
    BY <1>1 DEF HasRecord, Usable
  <1>5. Excused(p)'
    BY <1>1, <1>3, <1>4 DEF Excused, LostItsRecord
  <1> QED
    BY <1>2, <1>5

\* Every step keeps builds buildable.
LEMMA BuildableNext ==
    ASSUME Shapes, Control, Complete, Answered, Planned, Buildable,
           [Next]_vars
    PROVE  Buildable'
  <1> USE DEF BuildPcs
  <1>1. ASSUME NEW p \in Procs, pc'[p] = pc[p], work'[p] = work[p],
               view'[p] = view[p], unwritten \subseteq unwritten'
        PROVE  Sourced(p)' /\ Excused(p)'
    <2>1. Sourced(p) /\ Excused(p)
      BY DEF Buildable
    <2>2. HasRecord(p)' <=> HasRecord(p)
      BY <1>1 DEF HasRecord, Usable
    <2> QED
      BY <1>1, <2>1, <2>2 DEF Sourced, Excused, LostItsRecord
  <1>2. ASSUME NEW p \in Procs, pc'[p] \notin BuildPcs
        PROVE  Sourced(p)' /\ Excused(p)'
    BY <1>2 DEF Sourced, Excused
  <1>3. ASSUME NEW p \in Procs, CondaOutputs(p) PROVE Buildable'
    <2>1. pc'[p] \notin BuildPcs
      <3>1. pc[p] \notin BuildPcs
        BY <1>3
        DEF CondaOutputs, HitMemory, MissMemory, ReadDisk, AdoptStored,
            PassStore, TakeFillLock, FillLockFails, Resolve, Fail, EmitReplay,
            Emit, Publish, WriteDisk, Quarantine, PublishStored
      <3>2. pc' = pc \/ \E at \in RequestPcs \cup {"idle"} : Goes(p, at)
        BY <1>3
        DEF CondaOutputs, HitMemory, MissMemory, ReadDisk, AdoptStored,
            PassStore, TakeFillLock, FillLockFails, Resolve, Fail, EmitReplay,
            Emit, Publish, WriteDisk, Quarantine, PublishStored, Answers,
            Reuses, RequestPcs, Computing
      <3> QED
        BY <3>1, <3>2 DEF Goes, Control, RequestPcs, Computing
    <2>2. \A q \in Procs \ {p} : /\ pc'[q] = pc[q] /\ work'[q] = work[q]
                                 /\ view'[q] = view[q]
      BY <1>3, OthersStay
    <2>3. unwritten \subseteq unwritten'
      BY <1>3, OutputsNotes DEF Notes
    <2> QED
      BY <1>1, <1>2, <2>1, <2>2, <2>3 DEF Buildable
  <1>4. ASSUME NEW p \in Procs, CondaBuild(p) PROVE Buildable'
    <2>0. unwritten' = unwritten
      BY <1>4
      DEF CondaBuild, Build, BuildFromLock, LeaveFast, BuildFromPlan,
          BuildCold, BuildRecovered, Refuse, Report
    <2>1. \A q \in Procs \ {p} : Sourced(q)' /\ Excused(q)'
      BY <1>1, <1>4, <2>0, OthersStay
    <2>2. CASE Build(p)
      BY <2>1, <2>2, BuildSourced DEF Buildable
    <2>3. CASE Refuse(p)
      BY <2>1, <2>3, RefusalExcused DEF Buildable
    <2>4. CASE LeaveFast(p)
      <3>1. work[p] \in Builds /\ pc[p] = "fast" /\ pc'[p] = "build"
        BY <2>4, RequestAt DEF LeaveFast, Goes, Control
      <3>2. /\ work'[p].id = work[p].id /\ work'[p].rec = work[p].rec
            /\ work'[p].eff = work[p].eff /\ work'[p].plan = work[p].plan
            /\ work'[p].out = work[p].out /\ view' = view
        BY <2>4, <3>1 DEF LeaveFast, Works, Control, Builds
      <3>3. HasRecord(p)' <=> HasRecord(p)
        BY <3>2 DEF HasRecord, Usable
      <3>4. Sourced(p)
        BY DEF Buildable
      <3>5. Sourced(p)' /\ Excused(p)'
        BY <2>0, <3>1, <3>2, <3>3, <3>4 DEF Sourced, Excused
      <3> QED
        BY <2>1, <3>5 DEF Buildable
    <2>5. CASE \/ BuildFromLock(p) \/ BuildFromPlan(p)
               \/ BuildCold(p) \/ BuildRecovered(p) \/ Report(p)
      <3>1. pc'[p] \notin BuildPcs
        BY <2>5
        DEF BuildFromLock, BuildFromPlan, BuildCold, BuildRecovered, Report,
            Built, Goes, Control
      <3> QED
        BY <1>2, <2>1, <3>1 DEF Buildable
    <2> QED
      BY <1>4, <2>2, <2>3, <2>4, <2>5 DEF CondaBuild
  <1>5. ASSUME NEW p \in Procs, Crash(p) PROVE Buildable'
    <2>1. pc'[p] \notin BuildPcs /\ unwritten' = unwritten
      BY <1>5 DEF Crash, Goes, Control
    <2> QED
      BY <1>1, <1>2, <1>5, <2>1, OthersStay DEF Buildable
  <1>6. CASE NewJob
    <2>1. \A p \in Procs : pc'[p] \notin BuildPcs
      BY <1>6 DEF NewJob
    <2> QED
      BY <1>2, <2>1 DEF Buildable
  <1>7. CASE SiblingWrites \/ UNCHANGED vars
    BY <1>1, <1>7 DEF SiblingWrites, vars, Buildable
  <1> QED
    BY <1>3, <1>4, <1>5, <1>6, <1>7 DEF Next

-----------------------------------------------------------------------------
(* The theorems                                                            *)

\* The inductive invariant.
IInv ==
    /\ Shapes /\ Control /\ Complete /\ FillLocks
    /\ Answered /\ Planned /\ Buildable

\* The initial states have it.
LEMMA InitInv == Init => IInv
  <1> SUFFICES ASSUME Init PROVE IInv
    OBVIOUS
  <1>1. Shapes /\ Control
    BY TypeInit, TypeParts
  <1>2. \A p \in Procs : pc[p] = "idle"
    BY DEF Init
  <1>3. Complete /\ FillLocks /\ Buildable
    BY <1>2
    DEF Complete, FillLocks, Buildable, Sourced, Excused, BuildPcs, Computing
  <1> QED
    BY <1>1, <1>3, AnsweredInit, PlannedInit DEF IInv

\* Every step keeps it.
LEMMA NextInv == IInv /\ [Next]_vars => IInv'
  <1> SUFFICES ASSUME IInv, [Next]_vars PROVE IInv'
    OBVIOUS
  <1>1. Shapes' /\ Control'
    <2>1. CASE UNCHANGED vars
      BY <2>1 DEF vars, IInv, Shapes, Control
    <2>2. CASE Next
      <3>1. ASSUME NEW p \in Procs, CondaOutputs(p) PROVE Shapes' /\ Control'
        BY <3>1, OutputsTypes DEF IInv
      <3>2. ASSUME NEW p \in Procs, CondaBuild(p) PROVE Shapes' /\ Control'
        BY <3>2, BuildTypes DEF IInv
      <3>3. ASSUME SiblingWrites \/ NewJob \/ \E p \in Procs : Crash(p)
            PROVE  Shapes' /\ Control'
        BY <3>3, EnvironmentTypes DEF IInv
      <3> QED
        BY <2>2, <3>1, <3>2, <3>3 DEF Next
    <2> QED
      BY <2>1, <2>2
  <1>2. Complete'
    BY CompleteNext DEF IInv
  <1>3. FillLocks' /\ Answered' /\ Planned' /\ Buildable'
    BY FillLocksNext, AnsweredNext, PlannedNext, BuildableNext DEF IInv
  <1> QED
    BY <1>1, <1>2, <1>3 DEF IInv

\* It holds throughout.
LEMMA Invariance == Spec => []IInv
  BY InitInv, NextInv, PTL DEF Spec

\* Requests, builds, memos, plans and records are of their types in every
\* reachable state; in particular a lock that is committed has dependencies,
\* whichever way the build took.
THEOREM TypeCorrect == Spec => []TypeOK
  <1>1. IInv => TypeOK
    BY TypeParts DEF IInv
  <1> QED
    BY <1>1, Invariance, PTL

\* Whoever answers, from whatever memo, the records that the build pass needs
\* are there unless their writes have failed, and never those of another build
\* string, for any number of processes, outputs, failures and crashes.
THEOREM AnswersRecorded == Spec => []AnswersHaveRecords
  <1>1. IInv => AnswersHaveRecords
    BY RecordsOfAnswers DEF IInv
  <1> QED
    BY <1>1, Invariance, PTL

\* An identity that was resolved is not refused unless the packages have moved,
\* the plan and the lock of the process disagree on the version, or its record
\* could not be written and siblings have moved.
THEOREM FreshBuilt == Spec => []FreshIdentitiesAreBuilt
  <1>1. IInv => FreshIdentitiesAreBuilt
    BY DEF IInv, Buildable, Excused, FreshIdentitiesAreBuilt
  <1> QED
    BY <1>1, Invariance, PTL

\* An answer that needs its plans is never shared and never outlives them.
THEOREM PlansKept == Spec => []IncrementalAnswersKeepTheirPlans
  <1>1. IInv => IncrementalAnswersKeepTheirPlans
    BY PlansOfAnswers DEF IInv
  <1> QED
    BY <1>1, Invariance, PTL

\* Who computes under the fill lock is the first and the only one to do so.
THEOREM LockedFirst == Spec => []LockedComputationsAreFirst
  <1>1. IInv => LockedComputationsAreFirst
    BY FirstFromLocks DEF IInv
  <1> QED
    BY <1>1, Invariance, PTL

-----------------------------------------------------------------------------
(* Who waits for a fill lock                                               *)

\* Who has the fill lock of a key computes the answer for it, and nothing else.
FillLocksAreInUse ==
    \A k \in Fps :
        fill[k] # None
            => /\ pc[fill[k]] \in Computing
               /\ work[fill[k]].locked /\ work[fill[k]].key = k

\* What a process does to the locks: it ends what it served and drops them, it
\* goes on with what it has, or it takes the lock it has waited for.
Others(p) == \A q \in Procs \ {p} : pc'[q] = pc[q] /\ work'[q] = work[q]
DropsFills(p) ==
    /\ Others(p)
    /\ fill' = [k \in Fps |-> IF fill[k] = p THEN None ELSE fill[k]]
KeepsFills(p) ==
    /\ Others(p)
    /\ UNCHANGED fill
    /\ pc[p] \in Computing
           => /\ pc'[p] \in Computing
              /\ work'[p].key = work[p].key /\ work'[p].locked = work[p].locked
TakesFill(p) ==
    /\ Others(p)
    /\ pc[p] = "lock" /\ pc'[p] = "resolve"
    /\ work'[p].key = work[p].key /\ work'[p].locked
    /\ work[p].key \in Fps /\ fill' = [fill EXCEPT ![work[p].key] = p]

LEMMA OutputsFills ==
    ASSUME Shapes, Control, NEW p \in Procs, CondaOutputs(p)
    PROVE  DropsFills(p) \/ KeepsFills(p) \/ TakesFill(p)
  <1> DEFINE Goal == DropsFills(p) \/ KeepsFills(p) \/ TakesFill(p)
  <1>0. ASSUME NEW r, Answers(p, r) PROVE Goal
    BY <1>0 DEF Answers, Goes, Works, Control, DropsFills, Others
  <1>1. CASE HitMemory(p) \/ MissMemory(p)
    <2>1. \/ \E r : Answers(p, r)
          \/ /\ pc[p] = "idle" /\ Goes(p, "disk") /\ Works(p, Request(live))
             /\ UNCHANGED fill
      BY <1>1 DEF HitMemory, MissMemory
    <2> QED
      BY <1>0, <2>1 DEF Goes, Works, Control, KeepsFills, Others, Computing
  <1>2. CASE ReadDisk(p)
    <2>1. /\ pc[p] = "disk"
          /\ \/ \E r : Answers(p, r)
             \/ Goes(p, "store") /\ UNCHANGED <<fill, work>>
      BY <1>2 DEF ReadDisk, Reuses
    <2> QED
      BY <1>0, <2>1 DEF Goes, Control, KeepsFills, Others, Computing
  <1>3. CASE AdoptStored(p) \/ Fail(p) \/ PublishStored(p)
    <2>1. \E r : Answers(p, r)
      BY <1>3 DEF AdoptStored, Fail, PublishStored, Reuses
    <2> QED
      BY <1>0, <2>1
  <1>4. CASE PassStore(p)
    <2>1. /\ pc[p] = "store" /\ Goes(p, "lock") /\ UNCHANGED fill
          /\ \E w : Works(p, w)
      BY <1>4 DEF PassStore
    <2> QED
      BY <2>1 DEF Goes, Works, Control, KeepsFills, Others, Computing
  <1>5. CASE FillLockFails(p)
    <2>1. pc[p] = "lock" /\ Goes(p, "resolve") /\ UNCHANGED <<fill, work>>
      BY <1>5 DEF FillLockFails
    <2> QED
      BY <2>1 DEF Goes, Control, KeepsFills, Others, Computing
  <1>6. CASE Resolve(p) \/ Quarantine(p)
    <2>1. work[p] \in Requests
      BY <1>6, RequestAt DEF Resolve, Quarantine, RequestPcs, Computing
    <2>2. /\ work'[p].key = work[p].key /\ work'[p].locked = work[p].locked
          /\ \A q \in Procs \ {p} : work'[q] = work[q]
      BY <1>6, <2>1 DEF Resolve, Quarantine, Works, Control, Requests
    <2>3. /\ Goes(p, "emit") \/ (pc[p] = "publish" /\ UNCHANGED pc)
          /\ UNCHANGED fill
      BY <1>6 DEF Resolve, Quarantine
    <2> QED
      BY <2>2, <2>3 DEF Goes, Control, KeepsFills, Others, Computing
  <1>7. CASE \E o \in Outputs : EmitReplay(p, o) \/ Emit(p, o)
    <2>1. /\ work'[p].key = work[p].key /\ work'[p].locked = work[p].locked
          /\ \A q \in Procs \ {p} : work'[q] = work[q]
      BY <1>7, EmitSteps DEF Emits
    <2>2. pc[p] = "emit" /\ UNCHANGED <<pc, fill>>
      BY <1>7 DEF EmitReplay, Emit
    <2> QED
      BY <2>1, <2>2 DEF KeepsFills, Others
  <1>8. CASE Publish(p)
    <2>1. \/ \E r : Answers(p, r)
          \/ Goes(p, "write") /\ UNCHANGED <<fill, work>>
      BY <1>8 DEF Publish
    <2> QED
      BY <1>0, <2>1 DEF Goes, Control, KeepsFills, Others, Computing
  <1>9. CASE WriteDisk(p)
    <2>1. Goes(p, "publish") /\ UNCHANGED <<fill, work>>
      BY <1>9 DEF WriteDisk
    <2> QED
      BY <2>1 DEF Goes, Control, KeepsFills, Others, Computing
  <1>10. CASE TakeFillLock(p)
    <2>1. pc[p] = "lock" /\ work[p] \in Requests /\ work[p].key \in Fps
      BY <1>10, RequestAt, RequestFields DEF TakeFillLock, RequestPcs
    <2>2. \/ \E r : Answers(p, r)
          \/ /\ fill' = [fill EXCEPT ![work[p].key] = p]
             /\ Works(p, [work[p] EXCEPT !.locked = TRUE])
             /\ Goes(p, "resolve")
      BY <1>10 DEF TakeFillLock, Reuses
    <2>3. CASE /\ fill' = [fill EXCEPT ![work[p].key] = p]
               /\ Works(p, [work[p] EXCEPT !.locked = TRUE])
               /\ Goes(p, "resolve")
      <3>1. /\ work'[p] = [work[p] EXCEPT !.locked = TRUE]
            /\ pc'[p] = "resolve" /\ Others(p)
        BY <2>3 DEF Works, Goes, Control, Others
      <3>2. work'[p].key = work[p].key /\ work'[p].locked
        BY <2>1, <3>1 DEF Requests
      <3> QED
        BY <2>1, <2>3, <3>1, <3>2 DEF TakesFill
    <2> QED
      BY <1>0, <2>2, <2>3
  <1> QED
    BY <1>1, <1>2, <1>3, <1>4, <1>5, <1>6, <1>7, <1>8, <1>9, <1>10
    DEF CondaOutputs

\* A build neither has a lock nor takes one.
LEMMA BuildFills ==
    ASSUME Control, NEW p \in Procs, CondaBuild(p)
    PROVE  KeepsFills(p)
  <1>1. pc[p] \notin Computing /\ UNCHANGED fill
    BY DEF CondaBuild, Build, BuildFromLock, LeaveFast, BuildFromPlan,
           BuildCold, BuildRecovered, Refuse, Report, Replays, Adds, Fast,
           Computing
  <1>2. \E at, w : Goes(p, at) /\ (Works(p, w) \/ UNCHANGED work)
    <2>1. CASE Build(p) \/ LeaveFast(p) \/ Refuse(p) \/ Report(p)
      BY <2>1 DEF Build, LeaveFast, Refuse, Report
    <2>2. CASE \/ BuildFromLock(p) \/ BuildFromPlan(p)
               \/ BuildCold(p) \/ BuildRecovered(p)
      BY <2>2
      DEF BuildFromLock, BuildFromPlan, BuildCold, BuildRecovered, Built
    <2> QED
      BY <2>1, <2>2 DEF CondaBuild
  <1>3. Others(p)
    BY <1>2 DEF Goes, Works, Control, Others
  <1> QED
    BY <1>1, <1>3 DEF KeepsFills

LEMMA InUseNext ==
    ASSUME Shapes, Control, FillLocksAreInUse, [Next]_vars
    PROVE  FillLocksAreInUse'
  <1>0. \A k \in Fps : fill[k] \in Maybe(Procs)
    BY DEF Shapes
  <1> USE DEF FillLocksAreInUse, Maybe
  <1>1. ASSUME NEW p \in Procs, DropsFills(p) PROVE FillLocksAreInUse'
    BY <1>0, <1>1 DEF DropsFills, Others
  <1>2. ASSUME NEW p \in Procs, KeepsFills(p) PROVE FillLocksAreInUse'
    BY <1>0, <1>2 DEF KeepsFills, Others
  <1>3. ASSUME NEW p \in Procs, TakesFill(p) PROVE FillLocksAreInUse'
    <2>1. ASSUME NEW k \in Fps, fill'[k] # None
          PROVE  /\ pc'[fill'[k]] \in Computing
                 /\ work'[fill'[k]].locked /\ work'[fill'[k]].key = k
      <3>1. CASE k = work[p].key
        BY <1>3, <3>1 DEF TakesFill, Shapes, Computing
      <3>2. CASE k # work[p].key
        <4>1. fill'[k] = fill[k]
          BY <1>3, <3>2 DEF TakesFill, Shapes
        <4>2. fill[k] # p /\ fill[k] \in Procs
          BY <1>0, <1>3, <2>1, <4>1 DEF TakesFill, Computing
        <4> QED
          BY <1>3, <2>1, <4>1, <4>2 DEF TakesFill, Others
      <3> QED
        BY <3>1, <3>2
    <2> QED
      BY <2>1
  <1>4. ASSUME NEW p \in Procs, Crash(p) PROVE FillLocksAreInUse'
    <2>1. DropsFills(p)
      BY <1>4 DEF Crash, Goes, Works, Control, DropsFills, Others
    <2> QED
      BY <1>1, <2>1
  <1>5. CASE SiblingWrites \/ NewJob \/ UNCHANGED vars
    BY <1>5 DEF SiblingWrites, NewJob, vars
  <1> QED
    BY <1>1, <1>2, <1>3, <1>4, <1>5, OutputsFills, BuildFills DEF Next

\* A fill lock is held by a process that computes the answer for its key, and
\* by nobody who has answered, failed, died or begun something else.  Such a
\* process asks for no other fill lock, so whoever waits for one waits for a
\* computation and never for another waiter; the wait has no timeout
\* (acquire_conda_outputs_disk_cache_fill_lock and its drop).
THEOREM WaitersWaitForWork == Spec => []FillLocksAreInUse
  <1>1. Init => FillLocksAreInUse
    BY DEF Init, FillLocksAreInUse
  <1>2. IInv /\ FillLocksAreInUse /\ [Next]_vars => FillLocksAreInUse'
    BY InUseNext DEF IInv
  <1> QED
    BY <1>1, <1>2, Invariance, PTL DEF Spec

-----------------------------------------------------------------------------
(* What a build locks                                                      *)

\* Whichever way it takes, a build locks the version that pixi was told, and
\* under the advertised build string if the record of that is usable.
LocksAreAsTold ==
    [][\A o \in Outputs :
           lock'[o] # lock[o]
               => \E p \in Procs :
                      /\ pc[p] \in {"fast", "build"} /\ work[p].out = o
                      /\ lock'[o].ver = work[p].id.ver
                      /\ HasRecord(p) => lock'[o].fp = work[p].id.fp]_vars

\* The lock changes only where a build commits it.
LEMMA LockChange ==
    ASSUME [Next]_vars, lock' # lock
    PROVE  \E p \in Procs :
               \/ BuildFromLock(p) \/ BuildFromPlan(p)
               \/ BuildCold(p) \/ BuildRecovered(p)
  <1>1. ASSUME NEW p \in Procs, CondaOutputs(p) PROVE lock' = lock
    BY <1>1 DEF CondaOutputs, HitMemory, MissMemory, ReadDisk, AdoptStored,
                PassStore, TakeFillLock, FillLockFails, Resolve, Fail,
                EmitReplay, Emit, Publish, WriteDisk, Quarantine, PublishStored
  <1>2. ASSUME NEW p \in Procs,
               Build(p) \/ LeaveFast(p) \/ Refuse(p) \/ Report(p) \/ Crash(p)
        PROVE  lock' = lock
    BY <1>2 DEF Build, LeaveFast, Refuse, Report, Crash
  <1>3. SiblingWrites \/ NewJob \/ UNCHANGED vars => lock' = lock
    BY DEF SiblingWrites, NewJob, vars
  <1> QED
    BY <1>1, <1>2, <1>3 DEF Next, CondaBuild

\* A build pass reproduces what the outputs pass has advertised: the version
\* always, and the build string unless its record is gone, of another universe
\* or of another version (plan_cold_mismatch_recovery, consume_prepared_build,
\* the replay and the addition).
THEOREM BuildsLockWhatWasTold == Spec => LocksAreAsTold
  <1>1. ASSUME IInv, [Next]_vars
        PROVE  [\A o \in Outputs :
                  lock'[o] # lock[o]
                    => \E p \in Procs :
                         /\ pc[p] \in {"fast", "build"} /\ work[p].out = o
                         /\ lock'[o].ver = work[p].id.ver
                         /\ HasRecord(p) => lock'[o].fp = work[p].id.fp]_vars
    <2> SUFFICES ASSUME NEW o \in Outputs, lock'[o] # lock[o]
                 PROVE  \E p \in Procs :
                         /\ pc[p] \in {"fast", "build"} /\ work[p].out = o
                         /\ lock'[o].ver = work[p].id.ver
                         /\ HasRecord(p) => lock'[o].fp = work[p].id.fp
      OBVIOUS
    <2>1. PICK p \in Procs : \/ BuildFromLock(p) \/ BuildFromPlan(p)
                             \/ BuildCold(p) \/ BuildRecovered(p)
      BY <1>1, LockChange
    <2>2. pc[p] \in {"fast", "build"}
      BY <2>1 DEF BuildFromLock, BuildFromPlan, BuildCold, BuildRecovered,
                  Replays, Adds, Fast
    <2>3. work[p] \in Builds /\ work[p].out \in Outputs
      BY <1>1, <2>2, RequestAt, BuildFields DEF IInv, BuildPcs
    <2>4. PICK deps : Built(p, work[p].id.ver, deps)
      <3>1. CASE BuildFromLock(p)
        BY <3>1 DEF BuildFromLock, Replays, Adds
      <3>2. CASE BuildFromPlan(p) \/ BuildCold(p) \/ BuildRecovered(p)
        BY <3>2 DEF BuildFromPlan, BuildCold, BuildRecovered
      <3> QED
        BY <2>1, <3>1, <3>2
    <2>5. lock' = [lock EXCEPT ![work[p].out] =
                      [fp |-> work[p].eff, ver |-> work[p].id.ver,
                       deps |-> deps, full |-> TRUE]]
      BY <2>4 DEF Built
    <2>6. /\ work[p].out = o /\ lock'[o].ver = work[p].id.ver
          /\ lock'[o].fp = work[p].eff
      BY <1>1, <2>3, <2>5 DEF IInv, Shapes
    <2>7. HasRecord(p) => work[p].eff = work[p].id.fp
      BY <1>1, <2>2 DEF IInv, Buildable, Sourced, BuildPcs
    <2> QED
      BY <2>2, <2>6, <2>7
  <1> QED
    BY <1>1, Invariance, PTL DEF Spec, LocksAreAsTold

=============================================================================
