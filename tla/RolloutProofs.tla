---------------------------- MODULE RolloutProofs ----------------------------
(***************************************************************************)
(* Theorems about Rollout, for every value of its constants: its types,    *)
(* and, as long as the cache shows the ObjectSets the deployment           *)
(* controller has created itself, the pause handshake; and lemmas on the   *)
(* revision numbers.                                                       *)
(***************************************************************************)
EXTENDS RolloutInvariant, FiniteSetTheorems, TLAPS

-----------------------------------------------------------------------------
(* Type correctness.                                                       *)

\* a history exists, so templates and hashes do
LEMMA NoSetType ==
    ASSUME TypeOK
    PROVE  NoSet \in SetRecord
<1>1. edits[1] \in Templates
  BY HistoryAssumption DEF TypeOK
<1>2. Hash[edits[1]][0] \in Hashes
  BY <1>1, HashAssumption, BoundAssumption
<1>3. (CHOOSE t \in Templates : TRUE) \in Templates
  BY <1>1
<1>4. (CHOOSE h \in Hashes : TRUE) \in Hashes
  BY <1>2
<1> QED
  BY <1>3, <1>4 DEF NoSet, SetRecord, Lifecycles

LEMMA SetUpdates ==
    ASSUME TypeOK, NEW s \in SetRecord
    PROVE  /\ SpecChanged(s) \in SetRecord
           /\ Removed(s) \in SetRecord
           /\ SetArchived(s) \in SetRecord
           /\ Delete(s) \in SetRecord
           /\ \A ok \in BOOLEAN : Reported(s, ok) \in SetRecord
<1>1. SpecChanged(s) \in SetRecord
  BY DEF SpecChanged, SetRecord
<1>2. Removed(s) \in SetRecord
  BY NoSetType DEF Removed, SetRecord
<1>3. SetArchived(s) \in SetRecord
  BY <1>1 DEF SetArchived, SetRecord, Lifecycles
<1>4. Delete(s) \in SetRecord
  BY <1>1, <1>2 DEF Delete, SetRecord
<1>5. ASSUME NEW ok \in BOOLEAN PROVE Reported(s, ok) \in SetRecord
  BY DEF Reported, SetRecord
<1> QED
  BY <1>1, <1>2, <1>3, <1>4, <1>5

LEMMA IdleType == TypeOK => Idle \in WorkerRecord
BY NoSetType, BoundAssumption DEF Idle, WorkerRecord, Steps

LEMMA EnterPhaseType ==
    ASSUME NEW w \in WorkerRecord, NEW p \in Int
    PROVE  EnterPhase(w, p) \in WorkerRecord
<1>1. w.read.template \in Templates
  BY DEF WorkerRecord, SetRecord
<1>2. ASSUME p \in 1 .. LastPhase(w.read.template)
      PROVE  PhaseStart(w.read.template, p) \in Nat
  BY <1>1, <1>2, TemplateAssumption DEF PhaseStart, LastPhase
<1>3. ASSUME p \in 1 .. LastPhase(w.read.template)
      PROVE  [w EXCEPT !.phase = p, !.at = PhaseStart(w.read.template, p),
                       !.ok = TRUE] \in WorkerRecord
  <2>1. p \in Nat
    BY <1>3
  <2> QED
    BY <1>2, <1>3, <2>1 DEF WorkerRecord
<1>4. [w EXCEPT !.step = "report", !.phase = 0, !.at = 0, !.ok = TRUE] \in WorkerRecord
  BY DEF WorkerRecord, Steps
<1> QED
  BY <1>3, <1>4 DEF EnterPhase

LEMMA AfterObjectType ==
    ASSUME NEW w \in WorkerRecord, NEW good \in BOOLEAN, NEW p \in Int
    PROVE  AfterObject(w, good, p) \in WorkerRecord
<1>1. (w.ok /\ good) \in BOOLEAN
  BY DEF WorkerRecord
<1>2. w.at + 1 \in Nat
  BY DEF WorkerRecord
<1>3. ASSUME NEW n \in Nat, NEW ok \in BOOLEAN
      PROVE  [w EXCEPT !.at = n, !.ok = ok] \in WorkerRecord
  BY Zenon DEF WorkerRecord
<1>4. [w EXCEPT !.step = "report", !.phase = 0, !.at = 0, !.ok = FALSE]
        \in WorkerRecord
  BY DEF WorkerRecord, Steps
<1> QED
  BY <1>1, <1>2, <1>3, <1>4, EnterPhaseType DEF AfterObject

LEMMA StartType ==
    ASSUME TypeOK, NEW u \in Sets, NEW s \in SetRecord
    PROVE  /\ StartReconcile(u, s) \in WorkerRecord
           /\ StartTeardown(u, s) \in WorkerRecord
<1>1. LastPhase(s.template) \in Nat
  BY TemplateAssumption DEF LastPhase, SetRecord
<1>2. Idle \in WorkerRecord /\ u \in 0 .. MaxSets
  BY IdleType, BoundAssumption DEF Sets
<1>3. /\ [Idle EXCEPT !.step = "reconcile", !.uid = u, !.read = s] \in WorkerRecord
      /\ [Idle EXCEPT !.step = "teardown", !.uid = u, !.read = s] \in WorkerRecord
  BY <1>2 DEF WorkerRecord, Steps
<1> QED
  BY <1>1, <1>3, EnterPhaseType DEF StartReconcile, StartTeardown

LEMMA BeginReconcileType ==
    ASSUME TypeOK, NEW u \in Sets, BeginReconcile(u)
    PROVE  TypeOK'
<1>1. cache[u] \in SetRecord /\ [cache[u] EXCEPT !.finalizer = TRUE] \in SetRecord
  BY DEF TypeOK, SetRecord
<1>2. worker' \in WorkerRecord
  BY <1>1, StartType DEF BeginReconcile
<1>3. sets' \in [Sets -> SetRecord]
  BY <1>1 DEF BeginReconcile, TypeOK
<1> QED
  BY <1>2, <1>3 DEF BeginReconcile, TypeOK

LEMMA ReconcileObjectType ==
    ASSUME TypeOK, ReconcileObject
    PROVE  TypeOK'
<1>1. worker \in WorkerRecord /\ worker.phase + 1 \in Int /\ worker.uid \in 0 .. MaxSets
  BY DEF TypeOK, WorkerRecord
<1>2. ASSUME NEW o, NEW obj
      PROVE  AfterObject(worker, ProbesPass(o, obj), worker.phase + 1) \in WorkerRecord
  <2>1. ProbesPass(o, obj) \in BOOLEAN
    BY DEF ProbesPass
  <2> QED
    BY <1>1, <2>1, AfterObjectType
<1> DEFINE o == Content[worker.read.template][worker.at]
<1>3. \/ worker' = Idle /\ objs' = objs
      \/ \E obj : /\ worker' = AfterObject(worker, ProbesPass(o, obj), worker.phase + 1)
                  /\ objs' = [objs EXCEPT ![o] = obj]
                  /\ \/ obj = objs[o]
                     \/ obj = [Absent EXCEPT !.exists = TRUE, !.controller = worker.uid]
                     \/ obj = [objs[o] EXCEPT !.controller = worker.uid]
  BY Zenon DEF ReconcileObject
<1>4. worker' \in WorkerRecord
  <2>1. CASE worker' = Idle
    BY <2>1, IdleType
  <2>2. ASSUME NEW obj,
               worker' = AfterObject(worker, ProbesPass(o, obj), worker.phase + 1)
        PROVE  worker' \in WorkerRecord
    <3>1. AfterObject(worker, ProbesPass(o, obj), worker.phase + 1) \in WorkerRecord
      BY <1>2
    <3> QED
      BY <2>2, <3>1, Zenon
  <2> QED
    BY <1>3, <2>1, <2>2, Zenon
<1>5. [Absent EXCEPT !.exists = TRUE, !.controller = worker.uid] \in ObjectRecord
  BY <1>1 DEF Absent, ObjectRecord
<1>6. \A x \in Objects : /\ objs[x] \in ObjectRecord
                         /\ [objs[x] EXCEPT !.controller = worker.uid] \in ObjectRecord
  BY <1>1 DEF ObjectRecord, TypeOK
<1>7. objs' \in [Objects -> ObjectRecord]
  <2>1. CASE objs' = objs
    BY <2>1 DEF TypeOK
  <2>2. ASSUME NEW obj,
               objs' = [objs EXCEPT ![o] = obj],
               \/ obj = objs[o]
               \/ obj = [Absent EXCEPT !.exists = TRUE, !.controller = worker.uid]
               \/ obj = [objs[o] EXCEPT !.controller = worker.uid]
        PROVE  objs' \in [Objects -> ObjectRecord]
    <3>1. o \in Objects => obj \in ObjectRecord
      BY <1>5, <1>6, <2>2
    <3> HIDE DEF o
    <3> QED
      BY <2>2, <3>1 DEF TypeOK
  <2> QED
    BY <1>3, <2>1, <2>2
<1> QED
  BY <1>4, <1>7 DEF ReconcileObject, TypeOK

LEMMA TeardownObjectType ==
    ASSUME TypeOK, TeardownObject
    PROVE  TypeOK'
<1>1. worker \in WorkerRecord /\ worker.phase - 1 \in Int
  BY DEF TypeOK, WorkerRecord
<1>2. worker' \in WorkerRecord
  BY <1>1, AfterObjectType DEF TeardownObject
<1>3. objs' \in [Objects -> ObjectRecord]
  BY DEF TeardownObject, TypeOK, ObjectRecord
<1> QED
  BY <1>2, <1>3 DEF TeardownObject, TypeOK

LEMMA FinishReconcileType ==
    ASSUME TypeOK, FinishReconcile
    PROVE  TypeOK'
<1>1. worker.read \in SetRecord /\ worker.ok \in BOOLEAN
  BY DEF TypeOK, WorkerRecord
<1>2. \A u \in Sets : sets[u] \in SetRecord
  BY DEF TypeOK
<1>3. Removed(sets[worker.uid]) \in SetRecord \/ worker.uid \notin Sets
  BY <1>2, SetUpdates
<1>4. Reported(worker.read, worker.ok) \in SetRecord
  BY <1>1, SetUpdates
<1>5. \/ sets' = sets
      \/ sets' = [sets EXCEPT ![worker.uid] = Removed(sets[worker.uid])]
      \/ sets' = [sets EXCEPT ![worker.uid] = Reported(worker.read, worker.ok)]
  BY DEF FinishReconcile
<1>6. sets' \in [Sets -> SetRecord]
  BY <1>3, <1>4, <1>5 DEF TypeOK
<1> QED
  BY <1>6, IdleType DEF FinishReconcile, TypeOK

LEMMA SpendType ==
    ASSUME TypeOK
    PROVE  /\ spent.errors < MaxErrors =>
                [spent EXCEPT !["errors"] = @ + 1] \in
                  [errors : 0 .. MaxErrors, drift : 0 .. MaxDrift, edits : 0 .. MaxUserEdits]
           /\ spent.drift < MaxDrift =>
                [spent EXCEPT !["drift"] = @ + 1] \in
                  [errors : 0 .. MaxErrors, drift : 0 .. MaxDrift, edits : 0 .. MaxUserEdits]
           /\ spent.edits < MaxUserEdits =>
                [spent EXCEPT !["edits"] = @ + 1] \in
                  [errors : 0 .. MaxErrors, drift : 0 .. MaxDrift, edits : 0 .. MaxUserEdits]
BY BoundAssumption DEF TypeOK

LEMMA AbortReconcileType ==
    ASSUME TypeOK, AbortReconcile
    PROVE  TypeOK'
BY IdleType, SpendType DEF AbortReconcile, Spend, TypeOK

LEMMA TemplateTypes ==
    ASSUME TypeOK
    PROVE  /\ Template \in Templates
           /\ TemplateHash \in Hashes
           /\ PausedObjects \in Seq(Objects)
           /\ seen \in Nat
<1>1. edits \in Seq(Templates) /\ seen \in 1 .. Len(edits)
  BY HistoryAssumption DEF TypeOK
<1>2. Template \in Templates
  BY <1>1 DEF Template
<1>3. deployment.collisionCount \in 0 .. MaxCollisions
  BY DEF TypeOK, DeploymentStatus
<1>4. TemplateHash \in Hashes
  BY <1>2, <1>3, HashAssumption DEF TemplateHash
<1>5. PausedObjects \in Seq(Objects)
  BY <1>2, TemplateAssumption DEF PausedObjects
<1>6. seen \in Nat
  BY <1>1
<1> QED
  BY <1>2, <1>4, <1>5, <1>6

(* A sequence of ByRevision enumerates its set.                            *)
LEMMA ByRevisionIndexes ==
    ASSUME NEW S \in SUBSET Sets, NEW q \in ByRevision(S)
    PROVE  /\ q \in Seq(S)
           /\ Len(q) \in Nat
           /\ DOMAIN q = 1 .. Len(q)
           /\ \A i \in 1 .. Len(q) : q[i] \in S
           /\ \A u \in S : \E i \in 1 .. Len(q) : q[i] = u
           /\ \A i, j \in 1 .. Len(q) : i < j => cache[q[i]].revision <= cache[q[j]].revision
<1>1. IsFiniteSet(Sets)
  BY FS_Interval, BoundAssumption DEF Sets
<1>2. Cardinality(S) \in Nat
  BY <1>1, FS_Subset, FS_CardinalityType
<1>3. q \in [1 .. Cardinality(S) -> S]
  BY DEF ByRevision, SetToSeqs
<1>4. q \in Seq(S) /\ Len(q) = Cardinality(S)
  BY <1>2, <1>3
<1>5. \A i, j \in DOMAIN q : i < j => cache[q[i]].revision <= cache[q[j]].revision
  BY DEF ByRevision
<1>6. q \in Injection(1 .. Cardinality(S), S)
  BY <1>3 DEF ByRevision, SetToSeqs, Injection, IsInjective
<1>7. q \in Surjection(1 .. Cardinality(S), S)
  <2>1. IsFiniteSet(S)
    BY <1>1, FS_Subset
  <2>2. Cardinality(1 .. Cardinality(S)) = Cardinality(S)
    BY <1>2, FS_Interval
  <2> QED
    BY <1>6, <2>1, <2>2, FS_Injection
<1>8. \A u \in S : \E i \in 1 .. Len(q) : q[i] = u
  BY <1>4, <1>7 DEF Surjection
<1> QED
  BY <1>2, <1>3, <1>4, <1>5, <1>8

LEMMA ListedSets == Listed \subseteq Sets /\ Current \subseteq Sets /\ Outdated \subseteq Sets
BY DEF Listed, Current, Outdated

LEMMA AfterPauseType ==
    ASSUME TypeOK, NEW S
    PROVE  AfterPause(S) \in [Sets -> SetRecord]
<1>1. ASSUME NEW s \in SetRecord PROVE Pause(s) \in SetRecord
  <2>1. SpecChanged(s) \in SetRecord
    BY SetUpdates
  <2> QED
    BY <2>1, TemplateTypes DEF Pause, SetRecord
<1>2. \A u \in Sets : sets[u] \in SetRecord
  BY DEF TypeOK
<1> QED
  BY <1>1, <1>2 DEF AfterPause

LEMMA UpdateStatusType ==
    ASSUME TypeOK, NEW status \in DeploymentStatus, UpdateStatus(status)
    PROVE  deployment' \in DeploymentStatus
BY DEF TypeOK, UpdateStatus

LEMMA WaitForPauseType ==
    ASSUME TypeOK, WaitForPause
    PROVE  TypeOK'
<1>1. [deployment EXCEPT !.hash = TemplateHash] \in DeploymentStatus
  BY TemplateTypes DEF TypeOK, DeploymentStatus
<1>2. deployment' \in DeploymentStatus
  BY <1>1, UpdateStatusType DEF WaitForPause, TypeOK
<1>3. sets' \in [Sets -> SetRecord]
  BY AfterPauseType DEF WaitForPause
<1> QED
  BY <1>2, <1>3 DEF WaitForPause, TypeOK

LEMMA FailToPauseType ==
    ASSUME TypeOK, FailToPause
    PROVE  TypeOK'
<1>1. sets' \in [Sets -> SetRecord]
  BY AfterPauseType DEF FailToPause
<1> QED
  BY <1>1, SpendType DEF FailToPause, Spend, TypeOK

LEMMA DeprecateType ==
    ASSUME TypeOK, NEW s \in [Sets -> SetRecord], Deprecate(s)
    PROVE  /\ sets' \in [Sets -> SetRecord]
           /\ deployment' \in DeploymentStatus
           /\ spent' \in [errors : 0 .. MaxErrors, drift : 0 .. MaxDrift,
                          edits : 0 .. MaxUserEdits]
<1>1. ASSUME NEW c, NEW n PROVE AfterCleanup(s, c, n) \in [Sets -> SetRecord]
  BY SetUpdates DEF AfterCleanup
<1>2. sets' \in [Sets -> SetRecord]
  BY <1>1 DEF Deprecate
<1>3. spent' \in [errors : 0 .. MaxErrors, drift : 0 .. MaxDrift, edits : 0 .. MaxUserEdits]
  BY SpendType DEF Deprecate, Spend, TypeOK
<1>4. ASSUME NEW available \in BOOLEAN, NEW concluded \in Nat
      PROVE  [deployment EXCEPT !.hash = TemplateHash, !.available = available,
                                !.concluded = concluded] \in DeploymentStatus
  BY TemplateTypes DEF TypeOK, DeploymentStatus
<1>5. SomeAvailable(s) \in BOOLEAN
  BY DEF SomeAvailable
<1>6. (IF CurrentAvailable THEN seen ELSE 0) \in Nat
  BY TemplateTypes
<1>7. [deployment EXCEPT !.hash = TemplateHash, !.available = SomeAvailable(s),
                         !.concluded = IF CurrentAvailable THEN seen ELSE 0]
        \in DeploymentStatus
  BY <1>4, <1>5, <1>6, Zenon
<1>8. deployment' \in DeploymentStatus
  BY <1>7, UpdateStatusType DEF Deprecate, TypeOK
<1> QED
  BY <1>2, <1>3, <1>8

LEMMA NewObjectSetType ==
    ASSUME TypeOK, NEW q \in ByRevision(Outdated)
    PROVE  NewObjectSet(q) \in SetRecord
<1>1. LatestRevision(q) \in Nat
  <2>1. q # << >> => q[Len(q)] \in Sets
    BY ByRevisionIndexes, ListedSets
  <2> QED
    BY <2>1 DEF LatestRevision, TypeOK, SetRecord
<1>2. LatestRevision(q) + 1 \in Nat
  BY <1>1
<1> QED
  BY <1>2, NoSetType, TemplateTypes DEF NewObjectSet, SetRecord

LEMMA KeepRevisionType ==
    ASSUME TypeOK, KeepRevision
    PROVE  TypeOK'
BY AfterPauseType, DeprecateType DEF KeepRevision, TypeOK

LEMMA CreateRevisionType ==
    ASSUME TypeOK, CreateRevision
    PROVE  TypeOK'
<1>1. PICK q \in ByRevision(Outdated) :
        /\ Deprecate([AfterPause(Outdated) EXCEPT ![created + 1] = NewObjectSet(q)])
        /\ cache' = IF SeesOwnCreates
                      THEN [cache EXCEPT ![created + 1] = NewObjectSet(q)] ELSE cache
  BY DEF CreateRevision
<1>2. NewObjectSet(q) \in SetRecord
  BY NewObjectSetType
<1>3. [AfterPause(Outdated) EXCEPT ![created + 1] = NewObjectSet(q)] \in [Sets -> SetRecord]
  BY <1>2, AfterPauseType
<1>4. /\ sets' \in [Sets -> SetRecord]
      /\ deployment' \in DeploymentStatus
      /\ spent' \in [errors : 0 .. MaxErrors, drift : 0 .. MaxDrift,
                     edits : 0 .. MaxUserEdits]
  BY <1>1, <1>3, DeprecateType
<1>5. cache' \in [Sets -> SetRecord]
  BY <1>1, <1>2 DEF TypeOK
<1>6. created' \in 0 .. MaxSets
  BY BoundAssumption DEF CreateRevision, TypeOK
<1> QED
  BY <1>4, <1>5, <1>6 DEF CreateRevision, TypeOK

LEMMA CountCollisionType ==
    ASSUME TypeOK, CountCollision
    PROVE  TypeOK'
<1>1. deployment.collisionCount + 1 \in 0 .. MaxCollisions
  BY BoundAssumption DEF CountCollision, TypeOK, DeploymentStatus
<1>2. [deployment EXCEPT !.hash = TemplateHash, !.collisionCount = @ + 1] \in DeploymentStatus
  BY <1>1, TemplateTypes DEF TypeOK, DeploymentStatus
<1>3. deployment' \in DeploymentStatus
  BY <1>2, UpdateStatusType DEF CountCollision, TypeOK
<1>4. sets' \in [Sets -> SetRecord]
  BY AfterPauseType DEF CountCollision
<1> QED
  BY <1>3, <1>4 DEF CountCollision, TypeOK

LEMMA AbsentType == Absent \in ObjectRecord
BY BoundAssumption DEF Absent, ObjectRecord

LEMMA EnvironmentType ==
    ASSUME TypeOK, Environment
    PROVE  TypeOK'
<1>1. CASE SyncSets
  BY <1>1 DEF SyncSets, TypeOK
<1>2. CASE SyncDeployment
  BY <1>2, HistoryAssumption DEF SyncDeployment, TypeOK
<1>3. CASE ChangeTemplate
  BY <1>3, HistoryAssumption DEF ChangeTemplate, TypeOK
<1>4. ASSUME NEW o \in Objects, BecomeReady(o) \/ Disappear(o) \/ CollectGarbage(o) \/ Drift(o)
      PROVE  TypeOK'
  <2>1. objs[o] \in ObjectRecord
    BY DEF TypeOK
  <2>2. /\ [objs[o] EXCEPT !.ready = TRUE] \in ObjectRecord
        /\ [objs[o] EXCEPT !.ready = FALSE] \in ObjectRecord
        /\ [objs[o] EXCEPT !.dying = TRUE] \in ObjectRecord
        /\ Absent \in ObjectRecord
    BY <2>1, AbsentType DEF ObjectRecord
  <2>3. CASE BecomeReady(o)
    BY <2>2, <2>3 DEF BecomeReady, TypeOK
  <2>4. CASE Disappear(o)
    BY <2>2, <2>4 DEF Disappear, TypeOK
  <2>5. CASE CollectGarbage(o)
    BY <2>2, <2>5 DEF CollectGarbage, TypeOK
  <2>6. CASE Drift(o)
    <3>1. objs' \in [Objects -> ObjectRecord]
      BY <2>2, <2>6 DEF Drift, TypeOK
    <3> QED
      BY <2>6, <3>1, SpendType DEF Drift, Spend, TypeOK
  <2> QED
    BY <1>4, <2>3, <2>4, <2>5, <2>6
<1>5. ASSUME NEW u \in Sets, EditSet(u)
      PROVE  TypeOK'
  <2>1. sets[u] \in SetRecord
    BY DEF TypeOK
  <2>2. SpecChanged(sets[u]) \in SetRecord /\ Delete(sets[u]) \in SetRecord
    BY <2>1, SetUpdates
  <2>3. /\ [SpecChanged(sets[u]) EXCEPT !.lifecycle = "Paused"] \in SetRecord
        /\ [SpecChanged(sets[u]) EXCEPT !.lifecycle = "Active"] \in SetRecord
    BY <2>2 DEF SetRecord, Lifecycles
  <2>4. sets' \in [Sets -> SetRecord]
    BY <1>5, <2>2, <2>3 DEF EditSet, TypeOK
  <2> QED
    BY <1>5, <2>4, SpendType DEF EditSet, Spend, TypeOK
<1> QED
  BY <1>1, <1>2, <1>3, <1>4, <1>5 DEF Environment

LEMMA TypeInit == Init => TypeOK
<1> SUFFICES ASSUME Init PROVE TypeOK
  OBVIOUS
<1>1. edits \in Seq(Templates) /\ edits # << >>
  BY HistoryAssumption DEF Init
<1>2. edits[1] \in Templates /\ Len(edits) \in Nat /\ 1 \in 1 .. Len(edits)
  BY <1>1
<1>3. Hash[edits[1]][0] \in Hashes
  BY <1>2, HashAssumption, BoundAssumption
<1>4. (CHOOSE t \in Templates : TRUE) \in Templates
  BY <1>2
<1>5. (CHOOSE h \in Hashes : TRUE) \in Hashes
  BY <1>3
<1>6. NoSet \in SetRecord
  BY <1>4, <1>5 DEF NoSet, SetRecord, Lifecycles
<1>7. Idle \in WorkerRecord
  BY <1>6, BoundAssumption DEF Idle, WorkerRecord, Steps
<1>8. [o \in Objects |-> [Absent EXCEPT !.exists = o \in Preexisting]] \in [Objects -> ObjectRecord]
  <2>1. ASSUME NEW exists \in BOOLEAN
        PROVE  [Absent EXCEPT !.exists = exists] \in ObjectRecord
    BY AbsentType, Zenon DEF ObjectRecord
  <2>2. ASSUME NEW o \in Objects
        PROVE  [Absent EXCEPT !.exists = o \in Preexisting] \in ObjectRecord
    <3>1. (o \in Preexisting) \in BOOLEAN
      OBVIOUS
    <3> QED
      BY <2>1, <3>1, Zenon
  <2> QED
    BY <2>2, Zenon
<1>9. deployment \in DeploymentStatus
  BY BoundAssumption DEF Init, DeploymentStatus
<1> QED
  BY <1>2, <1>6, <1>7, <1>8, <1>9, BoundAssumption DEF Init, TypeOK

LEMMA TypeStep == TypeOK /\ [Next]_vars => TypeOK'
<1> SUFFICES ASSUME TypeOK, [Next]_vars PROVE TypeOK'
  OBVIOUS
<1>1. CASE ObjectDeploymentNext
  BY <1>1, WaitForPauseType, FailToPauseType, KeepRevisionType, CreateRevisionType,
     CountCollisionType DEF ObjectDeploymentNext
<1>2. CASE ObjectSetNext
  BY <1>2, BeginReconcileType, ReconcileObjectType, TeardownObjectType,
     FinishReconcileType, AbortReconcileType DEF ObjectSetNext
<1>3. CASE Environment
  BY <1>3, EnvironmentType
<1>4. CASE UNCHANGED vars
  BY <1>4 DEF vars, TypeOK
<1> QED
  BY <1>1, <1>2, <1>3, <1>4 DEF Next

(* Every reachable state is well typed: an update built from stale or      *)
(* missing copies never leaves an ObjectSet, an object or a status that is *)
(* not one.                                                                *)
THEOREM TypeCorrect == Spec => []TypeOK
<1>1. Init => TypeOK
  BY TypeInit
<1>2. TypeOK /\ [Next]_vars => TypeOK'
  BY TypeStep
<1> QED
  BY <1>1, <1>2, PTL DEF Spec

-----------------------------------------------------------------------------
(* The pause handshake.                                                    *)

LEMMA PrefixRange ==
    ASSUME NEW S, NEW p \in Seq(S), NEW q \in Seq(S), IsPrefix(p, q)
    PROVE  Range(p) \subseteq Range(q)
<1>1. Len(p) \in Nat /\ Len(q) \in Nat /\ Len(p) <= Len(q)
  BY DEF IsPrefix
<1>2. ASSUME NEW i \in 1 .. Len(p) PROVE p[i] = q[i]
  <2>1. SubSeq(p, 1, Len(p))[i] = p[i] /\ SubSeq(q, 1, Len(p))[i] = q[i]
    BY <1>1
  <2> QED
    BY <2>1 DEF IsPrefix
<1> QED
  BY <1>1, <1>2 DEF Range

LEMMA KeptIsPaused == TypeOK => Kept \subseteq Range(PausedObjects)
BY TemplateTypes DEF Kept, Names, PausedObjects

(* EnsurePauseReconciler passes only who was told.                         *)
LEMMA PassedIsTold ==
    ASSUME TypeOK, NEW u \in Sets, PausePasses(u)
    PROVE  Told(cache[u])
<1>1. cache[u].statusPausedFor \in Seq(Objects)
  BY DEF TypeOK, SetRecord
<1>2. PauseAcked(u) => Range(PausedObjects) \subseteq Range(cache[u].statusPausedFor)
  BY <1>1, TemplateTypes, PrefixRange DEF PauseAcked
<1> QED
  BY <1>2, KeptIsPaused DEF PausePasses, SkipsPause, Told

-----------------------------------------------------------------------------
(* What the deployment controller and the users may do to an ObjectSet.    *)
Evolves(s, t) ==
    \/ ~t.exists /\ ~(s.exists /\ s.finalizer)
    \/ /\ t.exists = s.exists
       /\ t.finalizer = s.finalizer
       /\ t.revision = s.revision
       /\ s.deleting => t.deleting
       /\ t.archived = s.archived
       /\ t.statusPausedFor = s.statusPausedFor
       /\ Quiet(s) => Quiet(t)
       /\ t.lifecycle = "Archived" => s.lifecycle = "Archived" \/ Quiet(t)

LEMMA EvolvesTransitive ==
    ASSUME NEW s, NEW t, NEW r, Evolves(s, t), Evolves(t, r)
    PROVE  Evolves(s, r)
BY DEF Evolves

LEMMA EvolvesReflexive == ASSUME NEW s PROVE Evolves(s, s)
BY DEF Evolves

LEMMA SpecChangedFields ==
    ASSUME NEW s \in SetRecord
    PROVE  /\ SpecChanged(s).exists = s.exists
           /\ SpecChanged(s).deleting = s.deleting
           /\ SpecChanged(s).finalizer = s.finalizer
           /\ SpecChanged(s).revision = s.revision
           /\ SpecChanged(s).lifecycle = s.lifecycle
           /\ SpecChanged(s).pausedFor = s.pausedFor
           /\ SpecChanged(s).statusPausedFor = s.statusPausedFor
           /\ SpecChanged(s).archived = s.archived
BY DEF SpecChanged, SetRecord

LEMMA PauseEvolves ==
    ASSUME TypeOK, NEW s \in SetRecord
    PROVE  /\ Evolves(s, Pause(s))
           /\ Quiet(Pause(s))
<1>1. SpecChanged(s) \in SetRecord
  BY SetUpdates
<1>2. /\ Pause(s).exists = s.exists
      /\ Pause(s).deleting = s.deleting
      /\ Pause(s).finalizer = s.finalizer
      /\ Pause(s).revision = s.revision
      /\ Pause(s).lifecycle = s.lifecycle
      /\ Pause(s).pausedFor = PausedObjects
      /\ Pause(s).statusPausedFor = s.statusPausedFor
      /\ Pause(s).archived = s.archived
  BY <1>1, SpecChangedFields DEF Pause, SetRecord
<1>3. Quiet(Pause(s))
  BY <1>2, KeptIsPaused DEF Quiet
<1> QED
  BY <1>2, <1>3 DEF Evolves

LEMMA DeleteEvolves ==
    ASSUME TypeOK, NEW s \in SetRecord
    PROVE  Evolves(s, Delete(s))
<1>1. CASE ~s.finalizer
  BY <1>1, NoSetType DEF Delete, Removed, NoSet, Evolves
<1>2. CASE s.finalizer /\ s.deleting
  BY <1>2, EvolvesReflexive DEF Delete
<1>3. CASE s.finalizer /\ ~s.deleting
  <2>1. SpecChanged(s) \in SetRecord
    BY SetUpdates
  <2>2. Delete(s) = [SpecChanged(s) EXCEPT !.deleting = TRUE]
    BY <1>3 DEF Delete
  <2>3. /\ Delete(s).exists = s.exists
        /\ Delete(s).deleting
        /\ Delete(s).finalizer = s.finalizer
        /\ Delete(s).revision = s.revision
        /\ Delete(s).lifecycle = s.lifecycle
        /\ Delete(s).pausedFor = s.pausedFor
        /\ Delete(s).statusPausedFor = s.statusPausedFor
        /\ Delete(s).archived = s.archived
    BY <2>1, <2>2, SpecChangedFields DEF SetRecord
  <2> QED
    BY <2>3 DEF Evolves, Quiet
<1> QED
  BY <1>1, <1>2, <1>3

LEMMA ArchiveEvolves ==
    ASSUME TypeOK, NEW s \in SetRecord, Quiet(s)
    PROVE  Evolves(s, SetArchived(s))
<1>1. CASE s.lifecycle = "Archived"
  BY <1>1, EvolvesReflexive DEF SetArchived
<1>2. CASE s.lifecycle # "Archived"
  <2>1. SpecChanged(s) \in SetRecord
    BY SetUpdates
  <2>2. SetArchived(s) = [SpecChanged(s) EXCEPT !.lifecycle = "Archived"]
    BY <1>2 DEF SetArchived
  <2>3. /\ SetArchived(s).exists = s.exists
        /\ SetArchived(s).deleting = s.deleting
        /\ SetArchived(s).finalizer = s.finalizer
        /\ SetArchived(s).revision = s.revision
        /\ SetArchived(s).pausedFor = s.pausedFor
        /\ SetArchived(s).statusPausedFor = s.statusPausedFor
        /\ SetArchived(s).archived = s.archived
    BY <2>1, <2>2, SpecChangedFields DEF SetRecord
  <2> QED
    BY <2>3 DEF Evolves, Quiet
<1> QED
  BY <1>1, <1>2

LEMMA AfterPauseEvolves ==
    ASSUME TypeOK, NEW S, NEW u \in Sets
    PROVE  /\ Evolves(sets[u], AfterPause(S)[u])
           /\ Quiet(sets[u]) => Quiet(AfterPause(S)[u])
<1>1. sets[u] \in SetRecord
  BY DEF TypeOK
<1>2. AfterPause(S)[u] = Pause(sets[u]) \/ AfterPause(S)[u] = sets[u]
  BY DEF AfterPause
<1> QED
  BY <1>1, <1>2, PauseEvolves, EvolvesReflexive

(* The deprecation archives only who was told, and touches no other than   *)
(* outdated ObjectSets.                                                    *)
LEMMA DeprecateEvolves ==
    ASSUME TypeOK, ToldIsQuiet, NEW s \in [Sets -> SetRecord], Deprecate(s),
           \A u \in Outdated : Told(cache[u]) /\ (Quiet(sets[u]) => Quiet(s[u])),
           NEW u \in Sets
    PROVE  /\ Evolves(s[u], sets'[u])
           /\ u \notin Outdated => sets'[u] = s[u]
<1>1. PICK c \in ByRevision(IF SomeAvailable(s) THEN ForCleanup(s) ELSE {}) :
      \E n \in 0 .. Len(c) :
        /\ \A i \in 1 .. n : ~CleanupFails(c, i)
        /\ sets' = AfterCleanup(s, c, n)
  BY DEF Deprecate
<1>2. PICK n \in 0 .. Len(c) :
        /\ \A i \in 1 .. n : ~CleanupFails(c, i)
        /\ sets' = AfterCleanup(s, c, n)
  BY <1>1
<1>3. (IF SomeAvailable(s) THEN ForCleanup(s) ELSE {}) \subseteq Outdated
  BY DEF ForCleanup
<1>4. Len(c) \in Nat /\ \A i \in 1 .. Len(c) : c[i] \in Outdated
  BY <1>3, ListedSets, ByRevisionIndexes
<1>5. \A i \in 1 .. n : c[i] \in Outdated
  BY <1>4
<1>6. s[u] \in SetRecord
  OBVIOUS
<1>7. ASSUME NEW i \in 1 .. n, c[i] = u, ~OverLimit(c, i)
      PROVE  Quiet(s[u])
  <2>1. cache[u] = sets[u]
    BY <1>2, <1>7 DEF CleanupFails, Conflicts
  <2>2. u \in Outdated
    BY <1>5, <1>7
  <2>3. cache[u].exists /\ Told(cache[u])
    BY <2>2 DEF Outdated, Listed
  <2>4. Quiet(cache[u])
    BY <2>3 DEF ToldIsQuiet
  <2> QED
    BY <2>1, <2>2, <2>4
<1>8. \/ /\ u \in Outdated
         /\ sets'[u] = Delete(s[u]) \/ (Quiet(s[u]) /\ sets'[u] = SetArchived(s[u]))
      \/ sets'[u] = s[u]
  BY <1>2, <1>5, <1>7 DEF AfterCleanup
<1> QED
  BY <1>6, <1>8, DeleteEvolves, ArchiveEvolves, EvolvesReflexive

-----------------------------------------------------------------------------
(* Steps that change the API server's ObjectSets only.                     *)
LEMMA EvolveStep ==
    ASSUME TypeOK, PauseInvariant, UNCHANGED <<cache, created, worker>>,
           \A u \in Sets : Evolves(sets[u], sets'[u])
    PROVE  PauseInvariant'
<1>1. Known'
  BY DEF PauseInvariant, Known, Evolves
<1>2. Held'
  BY DEF PauseInvariant, Held, Evolves, WorksOn, Reconciles
<1>3. QuietSpreads'
  BY DEF PauseInvariant, QuietSpreads, Evolves, WorksOn, Quiet
<1>4. ToldIsQuiet'
  BY DEF PauseInvariant, ToldIsQuiet, Evolves, Reconciles, Quiet, Told
<1>5. OlderQuiet'
  BY DEF PauseInvariant, OlderQuiet, Reconciles, Quiet
<1> QED
  BY <1>1, <1>2, <1>3, <1>4, <1>5 DEF PauseInvariant

(* Steps of the worker that write no ObjectSet.                            *)
LEMMA WorkerStep ==
    ASSUME TypeOK, PauseInvariant, UNCHANGED <<sets, cache, created>>,
           \/ worker'.step = "idle" /\ worker'.uid = 0
           \/ /\ worker'.step = "idle" => worker.step = "idle"
              /\ worker'.step = "reconcile" => worker.step = "reconcile"
              /\ worker.step # "idle"
              /\ worker'.uid = worker.uid
              /\ worker'.read = worker.read
    PROVE  PauseInvariant'
<1>1. 0 \notin Sets
  BY DEF Sets
<1>2. Known'
  BY <1>1 DEF PauseInvariant, Known
<1>3. Held'
  BY <1>1 DEF PauseInvariant, Held, WorksOn, Reconciles
<1>4. QuietSpreads'
  BY <1>1 DEF PauseInvariant, QuietSpreads, WorksOn, Quiet
<1>5. ToldIsQuiet'
  BY <1>1 DEF PauseInvariant, ToldIsQuiet, Reconciles, Quiet, Told
<1>6. OlderQuiet'
  BY <1>1 DEF PauseInvariant, OlderQuiet, Reconciles, Quiet
<1> QED
  BY <1>2, <1>3, <1>4, <1>5, <1>6 DEF PauseInvariant

LEMMA SyncStep ==
    ASSUME TypeOK, PauseInvariant, SyncSets
    PROVE  PauseInvariant'
<1>1. cache' = sets /\ UNCHANGED <<sets, created, worker>>
  BY DEF SyncSets
<1>2. Known'
  BY <1>1 DEF PauseInvariant, Known
<1>3. Held'
  BY <1>1 DEF PauseInvariant, Known, Held, WorksOn, Reconciles
<1>4. QuietSpreads'
  BY <1>1 DEF PauseInvariant, Known, QuietSpreads, WorksOn, Quiet
<1>5. ToldIsQuiet'
  BY <1>1 DEF PauseInvariant, Known, QuietSpreads, ToldIsQuiet, Reconciles, Quiet, Told
<1>6. OlderQuiet'
  BY <1>1 DEF PauseInvariant, Known, QuietSpreads, OlderQuiet, Reconciles, Quiet
<1> QED
  BY <1>2, <1>3, <1>4, <1>5, <1>6 DEF PauseInvariant

-----------------------------------------------------------------------------
(* What a worker starts with, and keeps while it goes on.                  *)
LEMMA EnterPhaseKeeps ==
    ASSUME NEW w \in WorkerRecord, NEW p \in Int
    PROVE  /\ EnterPhase(w, p).step \in {w.step, "report"}
           /\ EnterPhase(w, p).uid = w.uid
           /\ EnterPhase(w, p).read = w.read
BY DEF EnterPhase, WorkerRecord

LEMMA AfterObjectKeeps ==
    ASSUME NEW w \in WorkerRecord, NEW good, NEW p \in Int
    PROVE  /\ AfterObject(w, good, p).step \in {w.step, "report"}
           /\ AfterObject(w, good, p).uid = w.uid
           /\ AfterObject(w, good, p).read = w.read
BY EnterPhaseKeeps DEF AfterObject, WorkerRecord

LEMMA StartKeeps ==
    ASSUME TypeOK, NEW u \in Sets, NEW s \in SetRecord
    PROVE  /\ StartReconcile(u, s).step \in {"reconcile", "report"}
           /\ StartReconcile(u, s).uid = u
           /\ StartReconcile(u, s).read = s
           /\ StartTeardown(u, s).step \in {"teardown", "report"}
           /\ StartTeardown(u, s).uid = u
           /\ StartTeardown(u, s).read = s
<1>1. LastPhase(s.template) \in Int
  BY TemplateAssumption DEF LastPhase, SetRecord
<1>2. Idle \in WorkerRecord /\ u \in 0 .. MaxSets
  BY IdleType, BoundAssumption DEF Sets
<1> DEFINE w(step) == [Idle EXCEPT !.step = step, !.uid = u, !.read = s]
<1>3. \A step \in {"reconcile", "teardown"} :
        w(step) \in WorkerRecord /\ w(step).step = step /\ w(step).uid = u /\ w(step).read = s
  BY <1>2 DEF WorkerRecord, Steps
<1>4. StartReconcile(u, s) = EnterPhase(w("reconcile"), 1)
  BY DEF StartReconcile
<1>5. StartTeardown(u, s) = EnterPhase(w("teardown"), LastPhase(s.template))
  BY DEF StartTeardown
<1> HIDE DEF w
<1>6. /\ StartReconcile(u, s).step \in {"reconcile", "report"}
      /\ StartReconcile(u, s).uid = u
      /\ StartReconcile(u, s).read = s
  BY <1>3, <1>4, EnterPhaseKeeps
<1>7. /\ StartTeardown(u, s).step \in {"teardown", "report"}
      /\ StartTeardown(u, s).uid = u
      /\ StartTeardown(u, s).read = s
  BY <1>1, <1>3, <1>5, EnterPhaseKeeps
<1> QED
  BY <1>6, <1>7

LEMMA BeginStep ==
    ASSUME TypeOK, PauseInvariant, NEW u \in Sets, BeginReconcile(u)
    PROVE  PauseInvariant'
<1>1. cache[u] \in SetRecord /\ sets[u] \in SetRecord /\ sets \in [Sets -> SetRecord]
  BY DEF TypeOK
<1>2. PICK s \in SetRecord :
        /\ s = cache[u] \/ s = [cache[u] EXCEPT !.finalizer = TRUE]
        /\ \/ cache[u].deleting /\ worker' = StartTeardown(u, s) /\ sets' = sets
           \/ /\ ~cache[u].deleting
              /\ worker' = StartTeardown(u, s) \/ worker' = StartReconcile(u, s)
              /\ \/ cache[u].finalizer /\ sets' = sets
                 \/ cache[u] = sets[u] /\ sets' = [sets EXCEPT ![u] = s] /\ s.finalizer
  <2>1. [cache[u] EXCEPT !.finalizer = TRUE] \in SetRecord
    BY <1>1 DEF SetRecord
  <2>2. [cache[u] EXCEPT !.finalizer = TRUE].finalizer
    BY <1>1 DEF SetRecord
  <2>3. CASE cache[u].deleting
    BY <1>1, <2>3 DEF BeginReconcile
  <2>4. CASE ~cache[u].deleting
    BY <1>1, <2>1, <2>2, <2>4 DEF BeginReconcile
  <2> QED
    BY <2>3, <2>4
<1>3. cache[u].exists /\ UNCHANGED <<cache, created>>
  BY DEF BeginReconcile
<1>4. /\ s.exists = cache[u].exists
      /\ s.deleting = cache[u].deleting
      /\ s.lifecycle = cache[u].lifecycle
      /\ s.revision = cache[u].revision
      /\ s.pausedFor = cache[u].pausedFor
      /\ s.statusPausedFor = cache[u].statusPausedFor
      /\ s.archived = cache[u].archived
  BY <1>1, <1>2 DEF SetRecord
<1>5. /\ worker'.uid = u
      /\ worker'.read = s
      /\ worker'.step = "reconcile" => ~cache[u].deleting
  BY <1>2, StartKeeps
<1>6. \A v \in Sets \ {u} : sets'[v] = sets[v]
  BY <1>1, <1>2
<1>7. /\ sets'[u].exists = sets[u].exists
      /\ sets'[u].deleting = sets[u].deleting
      /\ sets'[u].lifecycle = sets[u].lifecycle
      /\ sets'[u].pausedFor = sets[u].pausedFor
      /\ sets'[u].statusPausedFor = sets[u].statusPausedFor
      /\ sets'[u].archived = sets[u].archived
      /\ sets[u].finalizer => sets'[u].finalizer
  BY <1>1, <1>2, <1>4
<1>8. worker'.step = "reconcile" => sets'[u].exists /\ sets'[u].finalizer
  BY <1>1, <1>2, <1>3, <1>4, <1>5, <1>7 DEF PauseInvariant, Known, Held
<1>9. Known'
  BY <1>3, <1>5, <1>6, <1>7 DEF PauseInvariant, Known
<1>10. Held'
  BY <1>3, <1>4, <1>5, <1>6, <1>7, <1>8 DEF PauseInvariant, Held, WorksOn, Reconciles
<1>11. QuietSpreads'
  BY <1>3, <1>4, <1>5, <1>6, <1>7 DEF PauseInvariant, QuietSpreads, WorksOn, Quiet
<1>12. ToldIsQuiet'
  BY <1>3, <1>4, <1>5, <1>6, <1>7 DEF PauseInvariant, ToldIsQuiet, Reconciles, Quiet, Told
<1>13. OlderQuiet'
  BY <1>3, <1>4, <1>5 DEF PauseInvariant, OlderQuiet, Reconciles, Quiet
<1> QED
  BY <1>9, <1>10, <1>11, <1>12, <1>13 DEF PauseInvariant

LEMMA ReportedFields ==
    ASSUME NEW s \in SetRecord, NEW ok \in BOOLEAN
    PROVE  /\ Reported(s, ok).exists = s.exists
           /\ Reported(s, ok).deleting = s.deleting
           /\ Reported(s, ok).finalizer = s.finalizer
           /\ Reported(s, ok).revision = s.revision
           /\ Reported(s, ok).lifecycle = s.lifecycle
           /\ Reported(s, ok).pausedFor = s.pausedFor
           /\ Reported(s, ok).statusPausedFor = s.pausedFor
           /\ Reported(s, ok).archived => s.archived \/ s.lifecycle = "Archived"
BY DEF Reported, SetRecord

LEMMA FinishStep ==
    ASSUME TypeOK, PauseInvariant, FinishReconcile
    PROVE  PauseInvariant'
<1> DEFINE u == worker.uid
<1>1. /\ UNCHANGED <<cache, created>>
      /\ worker'.step = "idle" /\ worker'.uid = 0 /\ 0 \notin Sets
      /\ worker.step # "idle"
      /\ worker.read \in SetRecord /\ worker.ok \in BOOLEAN
  BY DEF FinishReconcile, Idle, TypeOK, WorkerRecord, Sets
<1>2. CASE sets' = sets
  BY <1>1, <1>2, WorkerStep
<1>3. CASE /\ u \in Sets
           /\ worker.read.deleting
           /\ sets' = [sets EXCEPT ![u] = Removed(sets[u])]
  <2>1. ~sets'[u].exists /\ \A v \in Sets \ {u} : sets'[v] = sets[v]
    BY <1>3, NoSetType DEF TypeOK, Removed, NoSet, SetRecord
  <2>2. cache[u].exists => cache[u].deleting
    BY <1>1, <1>3 DEF PauseInvariant, Held, WorksOn
  <2>3. Known'
    BY <1>1, <2>1 DEF PauseInvariant, Known
  <2>4. Held'
    BY <1>1, <2>1, <2>2 DEF PauseInvariant, Held, WorksOn, Reconciles
  <2>5. QuietSpreads'
    BY <1>1, <2>1 DEF PauseInvariant, QuietSpreads, WorksOn, Quiet
  <2>6. ToldIsQuiet'
    BY <1>1, <2>1 DEF PauseInvariant, ToldIsQuiet, Reconciles, Quiet, Told
  <2>7. OlderQuiet'
    BY <1>1 DEF PauseInvariant, OlderQuiet, Reconciles, Quiet
  <2> QED
    BY <2>3, <2>4, <2>5, <2>6, <2>7 DEF PauseInvariant
<1>4. CASE /\ u \in Sets
           /\ sets[u] = worker.read
           /\ sets' = [sets EXCEPT ![u] = Reported(worker.read, worker.ok)]
  <2>1. /\ sets'[u] = Reported(sets[u], worker.ok)
        /\ \A v \in Sets \ {u} : sets'[v] = sets[v]
    BY <1>4 DEF TypeOK
  <2>2. /\ sets'[u].exists = sets[u].exists
        /\ sets'[u].deleting = sets[u].deleting
        /\ sets'[u].finalizer = sets[u].finalizer
        /\ sets'[u].lifecycle = sets[u].lifecycle
        /\ sets'[u].pausedFor = sets[u].pausedFor
        /\ sets'[u].statusPausedFor = sets[u].pausedFor
        /\ sets'[u].archived => sets[u].archived \/ sets[u].lifecycle = "Archived"
    BY <1>1, <1>4, <2>1, ReportedFields
  <2>3. Known'
    BY <1>1, <2>1, <2>2 DEF PauseInvariant, Known
  <2>4. Held'
    BY <1>1, <2>1, <2>2 DEF PauseInvariant, Held, WorksOn, Reconciles
  <2>5. QuietSpreads'
    BY <1>1, <2>1, <2>2 DEF PauseInvariant, QuietSpreads, WorksOn, Quiet
  <2>6. sets[u].exists /\ Quiet(sets[u]) => Quiet(cache[u])
    BY <1>1, <1>4 DEF PauseInvariant, Known, QuietSpreads, WorksOn
  <2>7. sets'[u].exists /\ Told(sets'[u]) => Quiet(cache[u])
    BY <2>2, <2>6, <1>4 DEF PauseInvariant, QuietSpreads, ToldIsQuiet, Told, Quiet
  <2>8. ToldIsQuiet'
    BY <1>1, <2>1, <2>7 DEF PauseInvariant, ToldIsQuiet, Reconciles, Quiet, Told
  <2>9. OlderQuiet'
    BY <1>1 DEF PauseInvariant, OlderQuiet, Reconciles, Quiet
  <2> QED
    BY <2>3, <2>4, <2>5, <2>8, <2>9 DEF PauseInvariant
<1>5. \/ sets' = sets
      \/ /\ worker.read.deleting
         /\ sets' = [sets EXCEPT ![u] = Removed(sets[u])]
      \/ /\ sets[u] = worker.read
         /\ sets' = [sets EXCEPT ![u] = Reported(worker.read, worker.ok)]
  BY DEF FinishReconcile
<1>6. u \notin Sets => sets' = sets
  BY <1>5 DEF TypeOK
<1> QED
  BY <1>2, <1>3, <1>4, <1>5, <1>6

-----------------------------------------------------------------------------
LEMMA PauseStep ==
    ASSUME TypeOK, PauseInvariant, WaitForPause \/ FailToPause \/ CountCollision
    PROVE  PauseInvariant'
<1>1. PICK S : sets' = AfterPause(S)
  BY DEF WaitForPause, FailToPause, CountCollision
<1>2. \A u \in Sets : Evolves(sets[u], sets'[u])
  BY <1>1, AfterPauseEvolves
<1>3. UNCHANGED <<cache, created, worker>>
  BY DEF WaitForPause, FailToPause, CountCollision
<1> QED
  BY <1>2, <1>3, EvolveStep

LEMMA KeepEffect ==
    ASSUME TypeOK, ToldIsQuiet, KeepRevision
    PROVE  \A u \in Sets : Evolves(sets[u], sets'[u])
<1> DEFINE s == AfterPause(Outdated)
<1>1. s \in [Sets -> SetRecord]
  BY AfterPauseType
<1>2. \A u \in Sets : Evolves(sets[u], s[u]) /\ (Quiet(sets[u]) => Quiet(s[u]))
  BY AfterPauseEvolves
<1>3. \A u \in Outdated : Told(cache[u])
  BY ListedSets, PassedIsTold DEF KeepRevision
<1>4. Deprecate(s)
  BY DEF KeepRevision
<1> HIDE DEF s
<1>5. \A u \in Sets : Evolves(s[u], sets'[u])
  BY <1>1, <1>2, <1>3, <1>4, ListedSets, DeprecateEvolves
<1>6. ASSUME NEW u \in Sets PROVE Evolves(sets[u], sets'[u])
  BY <1>2, <1>5, EvolvesTransitive
<1> QED
  BY <1>6

LEMMA KeepStep ==
    ASSUME TypeOK, PauseInvariant, KeepRevision
    PROVE  PauseInvariant'
BY KeepEffect, EvolveStep DEF PauseInvariant, KeepRevision

(* What a new revision finds: everyone was told, and nobody else changes.  *)
LEMMA CreateEffect ==
    ASSUME TypeOK, Known, ToldIsQuiet, SeesOwnCreates, CreateRevision
    PROVE  /\ created + 1 \in Sets
           /\ created' = created + 1
           /\ worker' = worker
           /\ \A u \in Sets : cache[u].exists => Told(cache[u])
           /\ \A u \in Sets \ {created + 1} : /\ Evolves(sets[u], sets'[u])
                                              /\ cache'[u] = cache[u]
           /\ \E q \in ByRevision(Listed) : /\ sets'[created + 1] = NewObjectSet(q)
                                            /\ cache'[created + 1] = NewObjectSet(q)
<1>1. PICK q \in ByRevision(Outdated) :
        /\ Deprecate([AfterPause(Outdated) EXCEPT ![created + 1] = NewObjectSet(q)])
        /\ cache' = [cache EXCEPT ![created + 1] = NewObjectSet(q)]
  BY DEF CreateRevision
<1> DEFINE s == [AfterPause(Outdated) EXCEPT ![created + 1] = NewObjectSet(q)]
<1>2. Outdated = Listed
  BY DEF CreateRevision, Outdated
<1>3. created + 1 \in Sets /\ created' = created + 1 /\ worker' = worker
  BY BoundAssumption DEF CreateRevision, TypeOK, Sets
<1>4. created + 1 \notin Outdated
  BY <1>3 DEF TypeOK, Known, Outdated, Listed
<1>5. s \in [Sets -> SetRecord]
  BY AfterPauseType, NewObjectSetType
<1>6. /\ s[created + 1] = NewObjectSet(q)
      /\ \A u \in Sets \ {created + 1} : s[u] = AfterPause(Outdated)[u]
  BY <1>3, AfterPauseType
<1>7. \A u \in Outdated : Told(cache[u])
  BY ListedSets, PassedIsTold DEF CreateRevision
<1>8. \A u \in Outdated : Quiet(sets[u]) => Quiet(s[u])
  BY <1>4, <1>6, ListedSets, AfterPauseEvolves
<1> HIDE DEF s
<1>9. \A u \in Sets : /\ Evolves(s[u], sets'[u])
                      /\ u \notin Outdated => sets'[u] = s[u]
  BY <1>1, <1>5, <1>7, <1>8, DeprecateEvolves DEF s
<1>10. ASSUME NEW u \in Sets \ {created + 1}
       PROVE  Evolves(sets[u], sets'[u])
  <2>1. Evolves(sets[u], s[u])
    BY <1>6, AfterPauseEvolves
  <2>2. Evolves(s[u], sets'[u])
    BY <1>9
  <2> QED
    BY <2>1, <2>2, EvolvesTransitive
<1>11. \A u \in Sets : cache[u].exists => Told(cache[u])
  BY <1>2, <1>7 DEF Listed
<1>12. \A u \in Sets \ {created + 1} : cache'[u] = cache[u]
  BY <1>1 DEF TypeOK
<1>13. sets'[created + 1] = NewObjectSet(q)
  <2>1. sets'[created + 1] = s[created + 1]
    BY <1>3, <1>4, <1>9
  <2> QED
    BY <1>6, <2>1
<1>14. cache'[created + 1] = NewObjectSet(q)
  BY <1>1, <1>3 DEF TypeOK
<1> QED
  BY <1>1, <1>2, <1>3, <1>10, <1>11, <1>12, <1>13, <1>14

LEMMA CreateStep ==
    ASSUME TypeOK, PauseInvariant, SeesOwnCreates, CreateRevision
    PROVE  PauseInvariant'
<1> DEFINE n == created + 1
<1>1. /\ n \in Sets /\ created' = n /\ worker' = worker /\ created \in Nat
      /\ \A u \in Sets : cache[u].exists => Told(cache[u])
      /\ \A u \in Sets \ {n} : Evolves(sets[u], sets'[u]) /\ cache'[u] = cache[u]
  BY CreateEffect DEF PauseInvariant, TypeOK
<1>2. PICK new \in SetRecord : /\ sets'[n] = new /\ cache'[n] = new
                               /\ new.exists /\ ~new.deleting /\ ~new.finalizer
                               /\ new.lifecycle = "Active"
                               /\ ~new.archived
                               /\ new.statusPausedFor = new.pausedFor
  <2>1. PICK q \in ByRevision(Listed) : sets'[n] = NewObjectSet(q) /\ cache'[n] = NewObjectSet(q)
    BY CreateEffect DEF PauseInvariant
  <2>2. Listed = Outdated
    BY DEF CreateRevision, Outdated
  <2>3. NewObjectSet(q) \in SetRecord
    BY <2>2, NewObjectSetType
  <2> QED
    BY <2>1, <2>3, NoSetType DEF NewObjectSet, NoSet, SetRecord
<1>3. worker.uid # n
  BY <1>1 DEF PauseInvariant, Known
<1> HIDE DEF n
<1>4. Known'
  <2>1. \A u \in Sets : u > n => u > created /\ u # n
    BY <1>1 DEF n, Sets
  <2> QED
    BY <1>1, <1>2, <2>1 DEF PauseInvariant, Known, Evolves, n, Sets
<1>5. Held'
  BY <1>1, <1>2, <1>3 DEF PauseInvariant, Held, Evolves, WorksOn, Reconciles
<1>6. QuietSpreads'
  BY <1>1, <1>2, <1>3 DEF PauseInvariant, QuietSpreads, Evolves, WorksOn, Quiet
<1>7. ToldIsQuiet'
  BY <1>1, <1>2, <1>3 DEF PauseInvariant, ToldIsQuiet, Evolves, Reconciles, Quiet, Told
<1>8. OlderQuiet'
  <2>1. ASSUME NEW u \in Sets, u < n
        PROVE  /\ cache[u].exists => Quiet(cache[u])
               /\ Reconciles(u) => Quiet(worker.read)
    <3>1. Reconciles(u) => cache[u].exists
      BY DEF PauseInvariant, Known, Held
    <3> QED
      BY <1>1, <3>1 DEF PauseInvariant, ToldIsQuiet
  <2>2. \A u \in Sets : u < n => u \in Sets \ {n}
    BY <1>1 DEF Sets, n
  <2> QED
    BY <1>1, <2>1, <2>2 DEF OlderQuiet, Reconciles, Quiet
<1> QED
  BY <1>4, <1>5, <1>6, <1>7, <1>8 DEF PauseInvariant

LEMMA OtherStep ==
    ASSUME TypeOK, PauseInvariant, UNCHANGED <<sets, cache, created, worker>>
    PROVE  PauseInvariant'
BY EvolvesReflexive, EvolveStep

LEMMA EditEffect ==
    ASSUME TypeOK, NEW u \in Sets, EditSet(u)
    PROVE  \A v \in Sets : Evolves(sets[v], sets'[v])
<1>1. sets[u] \in SetRecord /\ SpecChanged(sets[u]) \in SetRecord
  BY SetUpdates DEF TypeOK
<1>2. ASSUME NEW l \in {"Active", "Paused"}
      PROVE  Evolves(sets[u], [SpecChanged(sets[u]) EXCEPT !.lifecycle = l])
  <2> DEFINE t == [SpecChanged(sets[u]) EXCEPT !.lifecycle = l]
  <2>1. /\ t.exists = sets[u].exists
        /\ t.deleting = sets[u].deleting
        /\ t.finalizer = sets[u].finalizer
        /\ t.revision = sets[u].revision
        /\ t.lifecycle # "Archived"
        /\ t.pausedFor = sets[u].pausedFor
        /\ t.statusPausedFor = sets[u].statusPausedFor
        /\ t.archived = sets[u].archived
    BY <1>1, SpecChangedFields DEF SetRecord
  <2> HIDE DEF t
  <2>2. Evolves(sets[u], t)
    BY <2>1 DEF Evolves, Quiet
  <2> QED
    BY <2>2 DEF t
<1>3. PICK t : sets' = [sets EXCEPT ![u] = t] /\ Evolves(sets[u], t)
  BY <1>1, <1>2, DeleteEvolves DEF EditSet
<1> QED
  BY <1>3, EvolvesReflexive DEF TypeOK

LEMMA EditStep ==
    ASSUME TypeOK, PauseInvariant, NEW u \in Sets, EditSet(u)
    PROVE  PauseInvariant'
BY EditEffect, EvolveStep DEF EditSet

LEMMA ReconcileStep ==
    ASSUME TypeOK, PauseInvariant, ReconcileObject \/ TeardownObject \/ AbortReconcile
    PROVE  PauseInvariant'
<1>1. worker \in WorkerRecord /\ worker.phase + 1 \in Int /\ worker.phase - 1 \in Int
  BY DEF TypeOK, WorkerRecord
<1>2. UNCHANGED <<sets, cache, created>> /\ worker.step # "idle"
  BY DEF ReconcileObject, TeardownObject, AbortReconcile
<1>3. \/ worker' = Idle
      \/ \E good : \/ worker' = AfterObject(worker, good, worker.phase + 1)
                   \/ worker' = AfterObject(worker, good, worker.phase - 1)
  BY Zenon DEF ReconcileObject, TeardownObject, AbortReconcile
<1>4. CASE worker' = Idle
  BY <1>2, <1>4, WorkerStep DEF Idle
<1>5. ASSUME NEW good, NEW p \in Int, worker' = AfterObject(worker, good, p)
      PROVE  PauseInvariant'
  <2>1. /\ worker'.step \in {worker.step, "report"}
        /\ worker'.uid = worker.uid
        /\ worker'.read = worker.read
    BY <1>1, <1>5, AfterObjectKeeps
  <2> QED
    BY <1>2, <2>1, WorkerStep
<1> QED
  BY <1>1, <1>3, <1>4, <1>5, Zenon

LEMMA PauseInit == Init => PauseInvariant
<1> SUFFICES ASSUME Init PROVE PauseInvariant
  OBVIOUS
<1>1. \A u \in Sets : /\ ~sets[u].exists
                     /\ ~cache[u].exists
                     /\ ~Reconciles(u)
                     /\ ~WorksOn(u)
                     /\ worker.uid # u
  BY DEF Init, NoSet, Idle, Reconciles, WorksOn, Sets
<1> QED
  BY <1>1 DEF PauseInvariant, Known, Held, QuietSpreads, ToldIsQuiet, OlderQuiet, Init, Idle

LEMMA PauseNext ==
    ASSUME TypeOK, PauseInvariant, SeesOwnCreates, [Next]_vars
    PROVE  PauseInvariant'
<1>1. CASE ObjectDeploymentNext
  BY <1>1, PauseStep, KeepStep, CreateStep DEF ObjectDeploymentNext
<1>2. CASE ObjectSetNext
  BY <1>2, BeginStep, ReconcileStep, FinishStep DEF ObjectSetNext
<1>3. CASE SyncSets
  BY <1>3, SyncStep
<1>4. CASE \E u \in Sets : EditSet(u)
  BY <1>4, EditStep
<1>5. CASE \/ SyncDeployment
           \/ ChangeTemplate
           \/ \E o \in Objects : BecomeReady(o) \/ Disappear(o) \/ CollectGarbage(o) \/ Drift(o)
  BY <1>5, OtherStep DEF SyncDeployment, ChangeTemplate, BecomeReady, Disappear,
     CollectGarbage, Drift
<1>6. CASE UNCHANGED vars
  BY <1>6, OtherStep DEF vars
<1> QED
  BY <1>1, <1>2, <1>3, <1>4, <1>5, <1>6 DEF Next, Environment

(* What the invariant says of the worker at any object it may write.       *)
LEMMA InvariantImplies ==
    ASSUME TypeOK, PauseInvariant
    PROVE  KeptHasSoleWriter
<1> SUFFICES ASSUME worker.step = "reconcile",
                    NEW v \in worker.uid + 1 .. MaxSets,
                    sets[v].exists,
                    NEW i \in worker.at .. Len(Content[worker.read.template]),
                    Content[worker.read.template][i] \in Kept
             PROVE  IsObjectPaused(worker.read, Content[worker.read.template][i])
  BY DEF KeptHasSoleWriter, SoleWriterOf
<1>1. worker.uid \in 0 .. MaxSets /\ created \in 0 .. MaxSets
  BY DEF TypeOK, WorkerRecord
<1>2. v \in Sets /\ v <= created
  BY <1>1, BoundAssumption DEF PauseInvariant, Known, Sets
<1>3. worker.uid \in Sets
  BY DEF PauseInvariant, Known
<1>4. Quiet(worker.read)
  BY <1>1, <1>2, <1>3 DEF PauseInvariant, OlderQuiet, Reconciles, Sets
<1> QED
  BY <1>4 DEF Quiet, IsObjectPaused

(* What every copy of an ObjectSet says of its pause fits together, for    *)
(* any number of revisions, edits and failures.                            *)
THEOREM PauseInvariantHolds ==
    ASSUME SeesOwnCreates
    PROVE  Spec => []PauseInvariant
<1>1. Init => TypeOK /\ PauseInvariant
  BY TypeInit, PauseInit
<1>2. TypeOK /\ PauseInvariant /\ [Next]_vars => (TypeOK /\ PauseInvariant)'
  BY TypeStep, PauseNext
<1> QED
  BY <1>1, <1>2, PTL DEF Spec

(* EnsurePauseReconciler keeps its promise for every object no template    *)
(* drops, whatever fails and however late the ObjectSet worker and its     *)
(* cache are: once a newer revision exists, no reconcile of an older one   *)
(* writes the object again.                                                *)
THEOREM KeptObjectsHaveSoleWriter ==
    ASSUME SeesOwnCreates
    PROVE  Spec => []KeptHasSoleWriter
<1>1. Init => TypeOK /\ PauseInvariant
  BY TypeInit, PauseInit
<1>2. TypeOK /\ PauseInvariant /\ [Next]_vars => (TypeOK /\ PauseInvariant)'
  BY TypeStep, PauseNext
<1>3. TypeOK /\ PauseInvariant => KeptHasSoleWriter
  BY InvariantImplies
<1> QED
  BY <1>1, <1>2, <1>3, PTL DEF Spec

-----------------------------------------------------------------------------
(* The revision numbers.                                                   *)

(* The number computed from the sorted list exceeds all it was drawn from. *)
LEMMA NewestRevision ==
    ASSUME TypeOK, NEW S \in SUBSET Sets, NEW q \in ByRevision(S), NEW u \in S
    PROVE  cache[u].revision < LatestRevision(q) + 1
<1>1. PICK i \in 1 .. Len(q) : q[i] = u
  BY ByRevisionIndexes
<1>2. Len(q) \in Nat /\ q \in Seq(S)
  BY ByRevisionIndexes
<1>3. q # << >> /\ Len(q) \in 1 .. Len(q)
  BY <1>1, <1>2
<1>4. q[Len(q)] \in Sets /\ u \in Sets
  BY <1>3, ByRevisionIndexes
<1>5. cache[u].revision \in Nat /\ cache[q[Len(q)]].revision \in Nat
  BY <1>4 DEF TypeOK, SetRecord
<1>6. cache[u].revision <= cache[q[Len(q)]].revision
  <2>1. CASE i = Len(q)
    BY <1>1, <1>5, <2>1
  <2>2. CASE i < Len(q)
    BY <1>1, <1>3, <2>2, ByRevisionIndexes
  <2> QED
    BY <1>1, <1>2, <2>1, <2>2
<1> QED
  BY <1>3, <1>5, <1>6 DEF LatestRevision

(* Whoever leaves the numbers and the cache alone keeps the invariant.     *)
LEMMA RevisionsKept ==
    ASSUME TypeOK, RevisionInvariant, Known', UNCHANGED cache,
           \A u \in Sets : sets'[u].exists =>
             sets[u].exists /\ sets'[u].revision = sets[u].revision
    PROVE  RevisionInvariant'
BY DEF RevisionInvariant

LEMMA RevisionsEvolve ==
    ASSUME TypeOK, RevisionInvariant, Known', UNCHANGED cache,
           \A u \in Sets : Evolves(sets[u], sets'[u])
    PROVE  RevisionInvariant'
BY RevisionsKept DEF Evolves

LEMMA RevisionCreate ==
    ASSUME TypeOK, PauseInvariant, Known', RevisionInvariant, SeesOwnCreates, CreateRevision
    PROVE  RevisionInvariant'
<1> DEFINE n == created + 1
<1>1. /\ n \in Sets /\ created' = n /\ created \in Nat
      /\ \A u \in Sets \ {n} : Evolves(sets[u], sets'[u]) /\ cache'[u] = cache[u]
  BY CreateEffect DEF PauseInvariant, TypeOK
<1>2. PICK q \in ByRevision(Listed) : sets'[n] = NewObjectSet(q) /\ cache'[n] = NewObjectSet(q)
  BY CreateEffect DEF PauseInvariant
<1>3. NewObjectSet(q).revision = LatestRevision(q) + 1
  BY DEF NewObjectSet, NoSet
<1>4. \A u \in Listed : cache[u].revision < LatestRevision(q) + 1
  BY ListedSets, NewestRevision
<1>5. \A u \in Sets : u > n => ~cache[u].exists
  BY <1>1 DEF PauseInvariant, Known, Sets
<1> HIDE DEF n
<1>6. \A u \in Sets \ {n} : cache'[u].exists => u < n
  BY <1>1, <1>5 DEF Sets
<1>7. \A u \in Sets : cache'[u].exists /\ sets'[u].exists =>
        cache'[u].revision = sets'[u].revision
  BY <1>1, <1>2 DEF RevisionInvariant, Evolves
<1>8. ASSUME NEW u \in Sets, NEW v \in Sets, u < v, cache'[u].exists, cache'[v].exists
      PROVE  cache'[u].revision < cache'[v].revision
  <2>1. u # n
    BY <1>1, <1>6, <1>8 DEF Sets
  <2>2. cache'[u] = cache[u] /\ u \in Listed
    BY <1>1, <1>8, <2>1 DEF Listed
  <2>3. CASE v = n
    BY <1>2, <1>3, <1>4, <2>2, <2>3
  <2>4. CASE v # n
    BY <1>1, <1>8, <2>2, <2>4 DEF RevisionInvariant
  <2> QED
    BY <2>3, <2>4
<1> QED
  BY <1>7, <1>8 DEF RevisionInvariant

LEMMA RevisionNext ==
    ASSUME TypeOK, PauseInvariant, RevisionInvariant, SeesOwnCreates, [Next]_vars
    PROVE  RevisionInvariant'
<1>1. Known'
  BY PauseNext DEF PauseInvariant
<1>2. CASE WaitForPause \/ FailToPause \/ CountCollision
  <2>1. PICK S : sets' = AfterPause(S)
    BY <1>2 DEF WaitForPause, FailToPause, CountCollision
  <2>2. \A u \in Sets : Evolves(sets[u], sets'[u])
    BY <2>1, AfterPauseEvolves
  <2> QED
    BY <1>1, <1>2, <2>2, RevisionsEvolve DEF WaitForPause, FailToPause, CountCollision
<1>3. CASE KeepRevision
  BY <1>1, <1>3, KeepEffect, RevisionsEvolve DEF PauseInvariant, KeepRevision
<1>4. CASE CreateRevision
  BY <1>1, <1>4, RevisionCreate
<1>5. ASSUME NEW u \in Sets, BeginReconcile(u)
      PROVE  RevisionInvariant'
  <2>1. cache[u] \in SetRecord
    BY DEF TypeOK
  <2>2. [cache[u] EXCEPT !.finalizer = TRUE].exists = cache[u].exists
    BY <2>1 DEF SetRecord
  <2>3. [cache[u] EXCEPT !.finalizer = TRUE].revision = cache[u].revision
    BY <2>1 DEF SetRecord
  <2>4. \/ sets' = sets
        \/ /\ cache[u] = sets[u]
           /\ sets' = [sets EXCEPT ![u] = [cache[u] EXCEPT !.finalizer = TRUE]]
    BY <1>5 DEF BeginReconcile
  <2>5. \A v \in Sets : sets'[v].exists =>
          sets[v].exists /\ sets'[v].revision = sets[v].revision
    BY <2>2, <2>3, <2>4 DEF TypeOK
  <2> QED
    BY <1>1, <1>5, <2>5, RevisionsKept DEF BeginReconcile
<1>6. CASE FinishReconcile
  <2>1. \/ sets' = sets
        \/ sets' = [sets EXCEPT ![worker.uid] = Removed(sets[worker.uid])]
        \/ /\ sets[worker.uid] = worker.read
           /\ sets' = [sets EXCEPT ![worker.uid] = Reported(worker.read, worker.ok)]
    BY <1>6 DEF FinishReconcile
  <2>2. worker.read \in SetRecord /\ worker.ok \in BOOLEAN
    BY DEF TypeOK, WorkerRecord
  <2>3. /\ Reported(worker.read, worker.ok).exists = worker.read.exists
        /\ Reported(worker.read, worker.ok).revision = worker.read.revision
    BY <2>2, ReportedFields
  <2>4. \A s : ~Removed(s).exists
    BY DEF Removed, NoSet
  <2>5. \A v \in Sets : sets'[v].exists =>
          sets[v].exists /\ sets'[v].revision = sets[v].revision
    BY <2>1, <2>3, <2>4 DEF TypeOK
  <2> QED
    BY <1>1, <1>6, <2>5, RevisionsKept DEF FinishReconcile
<1>7. CASE SyncSets
  BY <1>1, <1>7 DEF SyncSets, RevisionInvariant, Known
<1>8. CASE \E u \in Sets : EditSet(u)
  BY <1>1, <1>8, EditEffect, RevisionsEvolve DEF EditSet
<1>9. CASE UNCHANGED <<sets, cache>>
  BY <1>1, <1>9 DEF RevisionInvariant
<1>10. \/ ReconcileObject \/ TeardownObject \/ AbortReconcile
       \/ SyncDeployment \/ ChangeTemplate \/ UNCHANGED vars
       \/ \E o \in Objects : BecomeReady(o) \/ Disappear(o) \/ CollectGarbage(o) \/ Drift(o)
       => UNCHANGED <<sets, cache>>
  BY DEF ReconcileObject, TeardownObject, AbortReconcile, SyncDeployment, ChangeTemplate,
     BecomeReady, Disappear, CollectGarbage, Drift, vars
<1> QED
  BY <1>2, <1>3, <1>4, <1>5, <1>6, <1>7, <1>8, <1>9, <1>10
  DEF Next, ObjectDeploymentNext, ObjectSetNext, Environment
=============================================================================
