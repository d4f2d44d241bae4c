--------------------------- MODULE TeardownProofs ---------------------------
(***************************************************************************)
(* The teardown of ObjectSets, for any templates, phases, bounds and lag   *)
(* of the cache.                                                           *)
(***************************************************************************)
EXTENDS RolloutProofs, SequenceTheorems

(* A worker that is at an object is at one of the phase it is at.          *)
Positioned ==
    worker.step \in {"reconcile", "teardown"} =>
      LET t == worker.read.template
      IN  /\ worker.phase \in 1 .. LastPhase(t)
          /\ worker.at \in PhaseStart(t, worker.phase) .. PhaseEnds[t][worker.phase]

(* Every copy of an ObjectSet, its slot in the API server and its objects  *)
(* are of one ObjectSet; while it is there, what may write its objects and *)
(* what has written them keeps its finalizer.                              *)
CopyAgrees(u) ==
    /\ u > created => /\ ~sets[u].exists /\ ~cache[u].exists /\ ~WorksOn(u)
                      /\ \A o \in Objects : objs[o].controller # u
    /\ cache[u].exists => cache[u].hash = sets[u].hash
    /\ cache[u].exists /\ sets[u].exists =>
         /\ cache[u].template = sets[u].template
         /\ cache[u].finalizer => sets[u].finalizer
    /\ WorksOn(u) => worker.read.hash = sets[u].hash
    /\ WorksOn(u) /\ sets[u].exists => worker.read.template = sets[u].template
    /\ Reconciles(u) /\ sets[u].exists => sets[u].finalizer
    /\ sets[u].exists =>
         \A o \in Objects : Owns(u, o) =>
           sets[u].finalizer /\ Names(sets[u].template, o)

(* The i-th object of a teardown is gone, with another, or paused.         *)
Spared(i) ==
    LET o == Content[worker.read.template][i]
    IN  Owns(worker.uid, o) => IsObjectPaused(worker.read, o)

(* What the worker has come past is spared, if it has come past all of it. *)
TornDown ==
    LET t == worker.read.template
    IN  /\ worker.step = "reconcile" => ~Retired(worker.read)
        /\ worker.step = "teardown" =>
             \A i \in 1 .. Len(Content[t]) :
               \/ i > PhaseEnds[t][worker.phase]
               \/ worker.ok /\ i \in PhaseStart(t, worker.phase) .. worker.at - 1
               => Spared(i)
        /\ worker.step = "report" /\ worker.ok /\ Retired(worker.read) =>
             \A i \in 1 .. Len(Content[t]) : Spared(i)

TeardownInvariant ==
    /\ TypeOK
    /\ worker.step # "idle" => worker.uid \in Sets
    /\ Positioned
    /\ \A u \in Sets : CopyAgrees(u)
    /\ TornDown

-----------------------------------------------------------------------------
LEMMA ControllerIsSet ==
    ASSUME TypeOK, NEW o \in Objects, objs[o].controller # 0
    PROVE  objs[o].controller \in Sets
<1>1. objs \in [Objects -> ObjectRecord]
  BY DEF TypeOK
<1>2. objs[o].controller \in 0 .. MaxSets
  BY <1>1 DEF ObjectRecord
<1> QED BY <1>2, BoundAssumption DEF Sets

LEMMA WorkerTypes ==
    ASSUME TypeOK
    PROVE  /\ worker \in WorkerRecord /\ worker.read \in SetRecord
           /\ worker.read.template \in Templates /\ worker.ok \in BOOLEAN
           /\ worker.phase + 1 \in Int /\ worker.phase - 1 \in Int
<1>1. worker \in WorkerRecord
  BY DEF TypeOK
<1>2. worker.read \in SetRecord /\ worker.ok \in BOOLEAN /\ worker.phase \in Nat
  BY <1>1 DEF WorkerRecord
<1> QED BY <1>1, <1>2 DEF SetRecord

-----------------------------------------------------------------------------
(* What can become of an ObjectSet.                                        *)
Grows(s, t) ==
    /\ t.hash = s.hash
    /\ \/ ~t.exists /\ ~(s.exists /\ s.finalizer)
       \/ /\ t.exists = s.exists
          /\ t.template = s.template
          /\ t.revision = s.revision
          /\ s.finalizer => t.finalizer

Arrives(u) ==
    /\ CreateRevision
    /\ u = created + 1 /\ created' = u
    /\ \E q \in ByRevision(Outdated) : sets'[u] = NewObjectSet(q)
    /\ ~sets'[u].finalizer /\ ~sets'[u].deleting
    /\ sets'[u].template = Template /\ sets'[u].hash = TemplateHash

Leaves(u) ==
    /\ worker.step = "report" /\ worker.uid = u
    /\ worker.ok /\ worker.read.deleting /\ sets[u] = worker.read
    /\ sets'[u] = Removed(sets[u])

LEMMA GrowsTransitive ==
    ASSUME NEW s, NEW t, NEW r, Grows(s, t), Grows(t, r)
    PROVE  Grows(s, r)
BY DEF Grows

LEMMA GrowsReflexive == ASSUME NEW s PROVE Grows(s, s)
BY DEF Grows

LEMMA SpecChangedKeeps ==
    ASSUME NEW s \in SetRecord
    PROVE  /\ SpecChanged(s).template = s.template
           /\ SpecChanged(s).hash = s.hash
           /\ SpecChanged(s).revision = s.revision
BY DEF SpecChanged, SetRecord

LEMMA UpdateGrows ==
    ASSUME TypeOK, NEW s \in SetRecord
    PROVE  /\ Grows(s, Pause(s))
           /\ Grows(s, Delete(s))
           /\ Grows(s, SetArchived(s))
           /\ \A l \in Lifecycles : Grows(s, [SpecChanged(s) EXCEPT !.lifecycle = l])
           /\ \A ok \in BOOLEAN : Grows(s, Reported(s, ok))
           /\ Grows(s, [s EXCEPT !.finalizer = TRUE])
<1> DEFINE r == SpecChanged(s)
<1>1. r \in SetRecord /\ r.exists = s.exists /\ r.finalizer = s.finalizer
      /\ r.template = s.template /\ r.hash = s.hash /\ r.revision = s.revision
  BY SetUpdates, SpecChangedFields, SpecChangedKeeps
<1> HIDE DEF r
<1>2. ASSUME NEW l
      PROVE  /\ Grows(s, [r EXCEPT !.lifecycle = l])
             /\ Grows(s, [r EXCEPT !.pausedFor = l])
             /\ Grows(s, [r EXCEPT !.deleting = l])
  BY <1>1 DEF Grows, SetRecord
<1>3. Removed(s).hash = s.hash /\ ~Removed(s).exists
  BY NoSetType DEF Removed, NoSet, SetRecord
<1>4. Grows(s, Pause(s))
  BY <1>2 DEF Pause, r
<1>5. Grows(s, Delete(s))
  <2>1. CASE ~s.finalizer
    BY <1>3, <2>1 DEF Delete, Grows
  <2>2. CASE s.finalizer
    BY <1>2, <2>2, GrowsReflexive DEF Delete, r
  <2> QED BY <2>1, <2>2
<1>6. Grows(s, SetArchived(s))
  BY <1>2, GrowsReflexive DEF SetArchived, r
<1>7. \A l \in Lifecycles : Grows(s, [SpecChanged(s) EXCEPT !.lifecycle = l])
  BY <1>2 DEF r
<1>8. \A ok \in BOOLEAN : Grows(s, Reported(s, ok))
  BY DEF Reported, Grows, SetRecord
<1>9. Grows(s, [s EXCEPT !.finalizer = TRUE])
  BY DEF Grows, SetRecord
<1> QED BY <1>4, <1>5, <1>6, <1>7, <1>8, <1>9

LEMMA AfterPauseGrows ==
    ASSUME TypeOK, NEW S, NEW u \in Sets
    PROVE  Grows(sets[u], AfterPause(S)[u])
<1>1. sets[u] \in SetRecord
  BY DEF TypeOK
<1>2. AfterPause(S)[u] = Pause(sets[u]) \/ AfterPause(S)[u] = sets[u]
  BY DEF AfterPause
<1> QED BY <1>1, <1>2, UpdateGrows, GrowsReflexive

LEMMA DeprecateGrows ==
    ASSUME TypeOK, NEW s \in [Sets -> SetRecord], Deprecate(s), NEW u \in Sets
    PROVE  /\ Grows(s[u], sets'[u])
           /\ u \notin Outdated => sets'[u] = s[u]
<1>1. PICK c \in ByRevision(IF SomeAvailable(s) THEN ForCleanup(s) ELSE {}) :
      \E n \in 0 .. Len(c) : sets' = AfterCleanup(s, c, n)
  BY DEF Deprecate
<1>2. PICK n \in 0 .. Len(c) : sets' = AfterCleanup(s, c, n)
  BY <1>1
<1>3. (IF SomeAvailable(s) THEN ForCleanup(s) ELSE {}) \subseteq Outdated
  BY DEF ForCleanup
<1>4. Len(c) \in Nat /\ \A i \in 1 .. Len(c) : c[i] \in Outdated
  BY <1>3, ListedSets, ByRevisionIndexes
<1>5. \A i \in 1 .. n : c[i] \in Outdated
  BY <1>4
<1>6. s[u] \in SetRecord
  OBVIOUS
<1>7. \/ u \in Outdated /\ sets'[u] \in {Delete(s[u]), SetArchived(s[u])}
      \/ sets'[u] = s[u]
  BY <1>2, <1>5 DEF AfterCleanup
<1> QED BY <1>6, <1>7, UpdateGrows, GrowsReflexive

LEMMA AfterPauseAllGrow ==
    ASSUME TypeOK, NEW S, sets' = AfterPause(S)
    PROVE  \A u \in Sets : Grows(sets[u], sets'[u])
BY AfterPauseGrows

LEMMA KeepGrows ==
    ASSUME TypeOK, KeepRevision
    PROVE  \A u \in Sets : Grows(sets[u], sets'[u])
<1> DEFINE s == AfterPause(Outdated)
<1>1. s \in [Sets -> SetRecord]
  BY AfterPauseType
<1>2. Deprecate(s)
  BY DEF KeepRevision
<1>3. ASSUME NEW u \in Sets PROVE Grows(sets[u], s[u]) /\ Grows(s[u], sets'[u])
  <2>1. Grows(sets[u], s[u])
    BY AfterPauseGrows
  <2> HIDE DEF s
  <2> QED BY <1>1, <1>2, <2>1, DeprecateGrows
<1> HIDE DEF s
<1> QED BY <1>3, GrowsTransitive

LEMMA CreateGrows ==
    ASSUME TypeOK, CreateRevision, \A u \in Sets : u > created => ~cache[u].exists
    PROVE  /\ Arrives(created + 1)
           /\ \A u \in Sets \ {created + 1} : Grows(sets[u], sets'[u]) /\ cache'[u] = cache[u]
           /\ cache'[created + 1] \in {cache[created + 1], sets'[created + 1]}
<1> DEFINE n == created + 1
<1>1. created' = n /\ created \in Nat /\ n \in Sets
  BY BoundAssumption DEF CreateRevision, TypeOK, Sets
<1>2. n > created
  BY <1>1
<1> HIDE DEF n
<1>3. PICK q \in ByRevision(Outdated) :
        /\ Deprecate([AfterPause(Outdated) EXCEPT ![n] = NewObjectSet(q)])
        /\ cache' = IF SeesOwnCreates
                      THEN [cache EXCEPT ![n] = NewObjectSet(q)] ELSE cache
  BY DEF CreateRevision, n
<1>4. n \notin Outdated
  BY <1>1, <1>2 DEF Outdated, Listed
<1> DEFINE s == [AfterPause(Outdated) EXCEPT ![n] = NewObjectSet(q)]
<1>5. NewObjectSet(q) \in SetRecord
  BY NewObjectSetType
<1>6. AfterPause(Outdated) \in [Sets -> SetRecord]
  BY AfterPauseType
<1>7. s \in [Sets -> SetRecord] /\ s[n] = NewObjectSet(q)
      /\ \A u \in Sets \ {n} : s[u] = AfterPause(Outdated)[u]
  BY <1>1, <1>5, <1>6
<1>8. Deprecate(s)
  BY <1>3
<1> HIDE DEF s
<1>9. \A u \in Sets : Grows(s[u], sets'[u]) /\ (u \notin Outdated => sets'[u] = s[u])
  BY <1>7, <1>8, DeprecateGrows
<1>10. \A u \in Sets \ {n} : Grows(sets[u], sets'[u])
  BY <1>7, <1>9, AfterPauseGrows, GrowsTransitive
<1>11. sets'[n] = NewObjectSet(q)
  BY <1>1, <1>4, <1>7, <1>9
<1>12. /\ ~NewObjectSet(q).finalizer /\ ~NewObjectSet(q).deleting
       /\ NewObjectSet(q).template = Template /\ NewObjectSet(q).hash = TemplateHash
  BY NoSetType, TemplateTypes DEF NewObjectSet, NoSet, SetRecord
<1>13. \A u \in Sets \ {n} : cache'[u] = cache[u]
  BY <1>3 DEF TypeOK
<1>14. cache'[n] \in {cache[n], sets'[n]}
  BY <1>1, <1>3, <1>11 DEF TypeOK
<1>15. Arrives(n)
  BY <1>1, <1>11, <1>12, Zenon DEF Arrives, n
<1> QED BY <1>10, <1>13, <1>14, <1>15 DEF n

LEMMA EditGrows ==
    ASSUME TypeOK, NEW u \in Sets, EditSet(u)
    PROVE  \A v \in Sets : Grows(sets[v], sets'[v])
<1>1. sets[u] \in SetRecord
  BY DEF TypeOK
<1>2. PICK t : sets' = [sets EXCEPT ![u] = t] /\ Grows(sets[u], t)
  <2>1. "Paused" \in Lifecycles /\ "Active" \in Lifecycles
    BY DEF Lifecycles
  <2> QED BY <1>1, <2>1, UpdateGrows DEF EditSet
<1> QED BY <1>2, GrowsReflexive DEF TypeOK

LEMMA BeginGrows ==
    ASSUME TypeOK, NEW u \in Sets, BeginReconcile(u)
    PROVE  \A v \in Sets : Grows(sets[v], sets'[v])
<1>1. sets[u] \in SetRecord
  BY DEF TypeOK
<1>2. \/ sets' = sets
      \/ sets' = [sets EXCEPT ![u] = [sets[u] EXCEPT !.finalizer = TRUE]]
  BY DEF BeginReconcile
<1>3. Grows(sets[u], [sets[u] EXCEPT !.finalizer = TRUE])
  BY <1>1, UpdateGrows
<1> QED BY <1>2, <1>3, GrowsReflexive DEF TypeOK

LEMMA FinishGrows ==
    ASSUME TypeOK, FinishReconcile
    PROVE  \A u \in Sets : Grows(sets[u], sets'[u]) \/ Leaves(u)
<1>1. worker.read \in SetRecord /\ worker.ok \in BOOLEAN
  BY WorkerTypes
<1>2. \/ sets' = sets
      \/ /\ worker.read.deleting /\ worker.ok /\ sets[worker.uid] = worker.read
         /\ sets' = [sets EXCEPT ![worker.uid] = Removed(sets[worker.uid])]
      \/ /\ sets[worker.uid] = worker.read
         /\ sets' = [sets EXCEPT ![worker.uid] = Reported(sets[worker.uid], worker.ok)]
  BY DEF FinishReconcile
<1>3. ASSUME NEW u \in Sets, worker.uid # u PROVE sets'[u] = sets[u]
  BY <1>2, <1>3 DEF TypeOK
<1>4. ASSUME NEW u \in Sets, worker.uid = u
      PROVE  Grows(sets[u], sets'[u]) \/ Leaves(u)
  <2>1. sets[u] \in SetRecord
    BY DEF TypeOK
  <2>2. Grows(sets[u], Reported(sets[u], worker.ok))
    BY <1>1, <2>1, UpdateGrows
  <2>3. worker.step = "report"
    BY DEF FinishReconcile
  <2> QED BY <1>2, <1>4, <2>2, <2>3, GrowsReflexive DEF TypeOK, Leaves
<1> QED BY <1>3, <1>4, GrowsReflexive

(* Whatever the step, an ObjectSet grows, arrives or leaves, and the cache *)
(* keeps its copy or takes the present one.                                *)
LEMMA SetSteps ==
    ASSUME TypeOK, [Next]_vars, \A u \in Sets : u > created => ~cache[u].exists
    PROVE  /\ \A u \in Sets : /\ Grows(sets[u], sets'[u]) \/ Arrives(u) \/ Leaves(u)
                              /\ cache'[u] \in {cache[u], sets'[u]}
           /\ created' = created \/ created' = created + 1
<1>1. CASE WaitForPause \/ FailToPause \/ CountCollision
  <2>1. PICK S : sets' = AfterPause(S)
    BY <1>1 DEF WaitForPause, FailToPause, CountCollision
  <2> QED BY <1>1, <2>1, AfterPauseAllGrow DEF WaitForPause, FailToPause, CountCollision
<1>2. CASE KeepRevision
  BY <1>2, KeepGrows DEF KeepRevision
<1>3. CASE CreateRevision
  <2>1. created' = created + 1
    BY <1>3 DEF CreateRevision
  <2>2. /\ Arrives(created + 1)
        /\ \A u \in Sets \ {created + 1} : Grows(sets[u], sets'[u]) /\ cache'[u] = cache[u]
        /\ cache'[created + 1] \in {cache[created + 1], sets'[created + 1]}
    BY <1>3, CreateGrows
  <2>3. \A u \in Sets : u = created + 1 \/ u \in Sets \ {created + 1}
    OBVIOUS
  <2> QED BY <2>1, <2>2, <2>3
<1>4. ASSUME NEW u \in Sets, BeginReconcile(u)
      PROVE  \A v \in Sets : Grows(sets[v], sets'[v]) /\ cache' = cache /\ created' = created
  BY <1>4, BeginGrows DEF BeginReconcile
<1>5. CASE FinishReconcile
  BY <1>5, FinishGrows DEF FinishReconcile
<1>6. CASE SyncSets
  BY <1>6, GrowsReflexive DEF SyncSets
<1>7. ASSUME NEW u \in Sets, EditSet(u)
      PROVE  \A v \in Sets : Grows(sets[v], sets'[v]) /\ cache' = cache /\ created' = created
  BY <1>7, EditGrows DEF EditSet
<1>8. CASE UNCHANGED <<sets, cache, created>>
  BY <1>8, GrowsReflexive
<1>9. \/ ReconcileObject \/ TeardownObject \/ AbortReconcile
      \/ SyncDeployment \/ ChangeTemplate \/ UNCHANGED vars
      \/ \E o \in Objects : BecomeReady(o) \/ Disappear(o) \/ CollectGarbage(o) \/ Drift(o)
      => UNCHANGED <<sets, cache, created>>
  BY DEF ReconcileObject, TeardownObject, AbortReconcile, SyncDeployment, ChangeTemplate,
     BecomeReady, Disappear, CollectGarbage, Drift, vars
<1>10. CASE \E u \in Sets : BeginReconcile(u)
  BY <1>4, <1>10
<1>11. CASE \E u \in Sets : EditSet(u)
  BY <1>7, <1>11
<1> QED
  BY <1>1, <1>2, <1>3, <1>5, <1>6, <1>8, <1>9, <1>10, <1>11
  DEF Next, ObjectDeploymentNext, ObjectSetNext, Environment

-----------------------------------------------------------------------------
(* What can become of an object, and of the worker.                        *)
Takes(o) ==
    /\ worker.step = "reconcile"
    /\ o = Content[worker.read.template][worker.at]
    /\ ~IsObjectPaused(worker.read, o)
    /\ objs[o].exists => MayControl(worker.read, objs[o])
    /\ objs'[o].controller = worker.uid
    /\ ReconcileObject

LEMMA ObjectSteps ==
    ASSUME TypeOK, [Next]_vars, NEW o \in Objects
    PROVE  \/ /\ objs'[o].controller = objs[o].controller
              /\ objs'[o].exists => objs[o].exists
           \/ objs'[o].controller = 0
           \/ Takes(o)
<1>1. objs[o] \in ObjectRecord /\ objs \in [Objects -> ObjectRecord]
  BY DEF TypeOK
<1>2. CASE ReconcileObject
  <2> DEFINE x == Content[worker.read.template][worker.at]
  <2>1. \/ objs' = objs
        \/ objs' = [objs EXCEPT ![x] = objs[x]]
        \/ /\ ~IsObjectPaused(worker.read, x)
           /\ ~objs[x].exists
           /\ objs' = [objs EXCEPT ![x] = [Absent EXCEPT !.exists = TRUE,
                                                          !.controller = worker.uid]]
        \/ /\ ~IsObjectPaused(worker.read, x)
           /\ MayControl(worker.read, objs[x])
           /\ objs' = [objs EXCEPT ![x] = [objs[x] EXCEPT !.controller = worker.uid]]
    BY <1>2, Zenon DEF ReconcileObject
  <2>2. worker.step = "reconcile"
    BY <1>2 DEF ReconcileObject
  <2>3. [Absent EXCEPT !.exists = TRUE, !.controller = worker.uid].controller = worker.uid
    BY DEF Absent
  <2>4. [objs[o] EXCEPT !.controller = worker.uid].controller = worker.uid
    BY <1>1 DEF ObjectRecord
  <2>5. CASE o # x
    <3>1. objs'[o] = objs[o]
      BY <1>1, <2>1, <2>5
    <3> QED BY <3>1
  <2>6. CASE o = x
    <3>1. \/ objs'[o] = objs[o]
          \/ /\ ~IsObjectPaused(worker.read, o)
             /\ ~objs[o].exists
             /\ objs'[o].controller = worker.uid
          \/ /\ ~IsObjectPaused(worker.read, o)
             /\ MayControl(worker.read, objs[o])
             /\ objs'[o].controller = worker.uid
      BY <1>1, <2>1, <2>3, <2>4, <2>6
    <3> QED BY <1>2, <2>2, <2>6, <3>1 DEF Takes
  <2> QED BY <2>5, <2>6
<1>3. CASE TeardownObject
  BY <1>1, <1>3 DEF TeardownObject, ObjectRecord
<1>4. ASSUME NEW x \in Objects, BecomeReady(x) \/ Disappear(x) \/ CollectGarbage(x) \/ Drift(x)
      PROVE  \/ /\ objs'[o].controller = objs[o].controller
                /\ objs'[o].exists => objs[o].exists
             \/ objs'[o].controller = 0
  <2>1. objs[x] \in ObjectRecord
    BY DEF TypeOK
  <2>2. CASE BecomeReady(x)
    BY <1>1, <2>1, <2>2 DEF BecomeReady, ObjectRecord
  <2>3. CASE Disappear(x)
    BY <1>1, <2>3 DEF Disappear, Absent
  <2>4. CASE CollectGarbage(x)
    BY <1>1, <2>1, <2>4 DEF CollectGarbage, ObjectRecord
  <2>5. CASE Drift(x)
    BY <1>1, <2>1, <2>5 DEF Drift, ObjectRecord
  <2> QED BY <1>4, <2>2, <2>3, <2>4, <2>5
<1>5. CASE \E x \in Objects : BecomeReady(x) \/ Disappear(x) \/ CollectGarbage(x) \/ Drift(x)
  BY <1>4, <1>5
<1>6. \/ ObjectDeploymentNext \/ (\E u \in Sets : BeginReconcile(u)) \/ FinishReconcile
      \/ AbortReconcile \/ SyncSets \/ SyncDeployment \/ ChangeTemplate
      \/ (\E u \in Sets : EditSet(u)) \/ UNCHANGED vars
      => objs' = objs
  BY DEF ObjectDeploymentNext, WaitForPause, FailToPause, KeepRevision, CreateRevision,
     CountCollision, BeginReconcile, FinishReconcile, AbortReconcile, SyncSets,
     SyncDeployment, ChangeTemplate, EditSet, vars
<1> QED
  BY <1>2, <1>3, <1>5, <1>6 DEF Next, ObjectSetNext, Environment

LEMMA WorkerSteps ==
    ASSUME [Next]_vars
    PROVE  \/ worker' = worker /\ ~ReconcileObject
           \/ worker' = Idle
           \/ \E u \in Sets : BeginReconcile(u)
           \/ \E good : /\ ReconcileObject
                        /\ worker' = AfterObject(worker, good, worker.phase + 1)
           \/ TeardownObject
<1>1. CASE worker' = worker
  <2>1. CASE ReconcileObject
    BY <2>1, Zenon DEF ReconcileObject
  <2> QED BY <1>1, <2>1
<1>2. \/ ObjectDeploymentNext \/ SyncSets \/ SyncDeployment \/ ChangeTemplate
      \/ (\E x \in Objects : BecomeReady(x) \/ Disappear(x) \/ CollectGarbage(x) \/ Drift(x))
      \/ (\E u \in Sets : EditSet(u)) \/ UNCHANGED vars
      => worker' = worker
  BY DEF ObjectDeploymentNext, WaitForPause, FailToPause, KeepRevision, CreateRevision,
     CountCollision, BecomeReady, Disappear, CollectGarbage, Drift, SyncSets,
     SyncDeployment, ChangeTemplate, EditSet, vars
<1>3. FinishReconcile \/ AbortReconcile => worker' = Idle
  BY DEF FinishReconcile, AbortReconcile
<1>4. CASE ReconcileObject
  <2>1. \/ worker' = Idle
        \/ \E good : worker' = AfterObject(worker, good, worker.phase + 1)
    BY <1>4, Zenon DEF ReconcileObject
  <2> QED BY <1>4, <2>1
<1> QED
  BY <1>1, <1>2, <1>3, <1>4 DEF Next, ObjectSetNext, Environment

-----------------------------------------------------------------------------
(* The phases of a template.                                               *)
LEMMA PhaseBounds ==
    ASSUME NEW t \in Templates
    PROVE  /\ Content[t] \in Seq(Objects) /\ Len(Content[t]) \in Nat /\ LastPhase(t) \in Nat
           /\ \A p \in 1 .. LastPhase(t) :
                /\ PhaseEnds[t][p] \in 1 .. Len(Content[t])
                /\ PhaseStart(t, p) \in 1 .. PhaseEnds[t][p]
                /\ p = 1 => PhaseStart(t, p) = 1
                /\ p > 1 => PhaseStart(t, p) = PhaseEnds[t][p - 1] + 1
           /\ LastPhase(t) = 0 => Len(Content[t]) = 0
           /\ LastPhase(t) > 0 => PhaseEnds[t][LastPhase(t)] = Len(Content[t])
<1>1. /\ Content[t] \in Seq(Objects) /\ PhaseEnds[t] \in Seq(Nat)
      /\ \A p \in 1 .. Len(PhaseEnds[t]) :
           /\ PhaseEnds[t][p] \in 1 .. Len(Content[t])
           /\ \A q \in 1 .. p - 1 : PhaseEnds[t][q] < PhaseEnds[t][p]
      /\ IF PhaseEnds[t] = << >>
           THEN Content[t] = << >>
           ELSE PhaseEnds[t][Len(PhaseEnds[t])] = Len(Content[t])
  BY TemplateAssumption
<1>2. LastPhase(t) = Len(PhaseEnds[t]) /\ Len(PhaseEnds[t]) \in Nat /\ Len(Content[t]) \in Nat
  BY <1>1 DEF LastPhase
<1>3. ASSUME NEW p \in 1 .. LastPhase(t)
      PROVE  /\ PhaseEnds[t][p] \in 1 .. Len(Content[t])
             /\ PhaseStart(t, p) \in 1 .. PhaseEnds[t][p]
             /\ p = 1 => PhaseStart(t, p) = 1
             /\ p > 1 => PhaseStart(t, p) = PhaseEnds[t][p - 1] + 1
  <2>1. PhaseEnds[t][p] \in 1 .. Len(Content[t])
    BY <1>1, <1>2
  <2>2. CASE p = 1
    BY <2>1, <2>2 DEF PhaseStart
  <2>3. CASE p > 1
    <3>1. p - 1 \in 1 .. LastPhase(t) /\ p - 1 \in 1 .. p - 1
      BY <1>2, <2>3
    <3>2. PhaseEnds[t][p - 1] \in 1 .. Len(Content[t]) /\ PhaseEnds[t][p - 1] < PhaseEnds[t][p]
      BY <1>1, <1>2, <2>3, <3>1
    <3> QED BY <2>1, <2>3, <3>2 DEF PhaseStart
  <2> QED BY <2>1, <2>2, <2>3
<1>4. LastPhase(t) = 0 => Len(Content[t]) = 0
  <2>1. LastPhase(t) = 0 => PhaseEnds[t] = << >>
    BY <1>1, <1>2, EmptySeq
  <2>2. PhaseEnds[t] = << >> => Content[t] = << >>
    BY <1>1, Zenon
  <2>3. Content[t] = << >> => Len(Content[t]) = 0
    OBVIOUS
  <2> QED BY <2>1, <2>2, <2>3
<1>5. LastPhase(t) > 0 => PhaseEnds[t][LastPhase(t)] = Len(Content[t])
  BY <1>1, <1>2
<1> QED BY <1>1, <1>2, <1>3, <1>4, <1>5

(* A worker between two objects: still in its phase, in the next one, or    *)
(* done.                                                                   *)
Stays(w, x, ok) ==
    /\ w.at < PhaseEnds[w.read.template][w.phase]
    /\ x.step = w.step /\ x.phase = w.phase /\ x.at = w.at + 1 /\ x.ok = ok

Enters(w, x, p) ==
    IF p \in 1 .. LastPhase(w.read.template)
      THEN /\ x.step = w.step /\ x.phase = p /\ x.ok
           /\ x.at = PhaseStart(w.read.template, p)
      ELSE x.step = "report" /\ x.ok

LEMMA EnterPhaseEffect ==
    ASSUME NEW w \in WorkerRecord, NEW p \in Int
    PROVE  /\ EnterPhase(w, p).uid = w.uid /\ EnterPhase(w, p).read = w.read
           /\ Enters(w, EnterPhase(w, p), p)
BY EnterPhaseKeeps DEF EnterPhase, Enters, WorkerRecord

LEMMA AfterObjectEffect ==
    ASSUME NEW w \in WorkerRecord, NEW good, NEW p \in Int,
           NEW x, x = AfterObject(w, good, p)
    PROVE  /\ x.uid = w.uid /\ x.read = w.read
           /\ \/ Stays(w, x, w.ok /\ good)
              \/ /\ ~(w.at < PhaseEnds[w.read.template][w.phase])
                 /\ \/ w.ok /\ good /\ Enters(w, x, p)
                    \/ x.step = "report" /\ ~x.ok
<1>1. x.uid = w.uid /\ x.read = w.read
  BY AfterObjectKeeps
<1>2. CASE w.at < PhaseEnds[w.read.template][w.phase]
  <2>1. x = [w EXCEPT !.at = w.at + 1, !.ok = w.ok /\ good]
    BY <1>2 DEF AfterObject
  <2>2. x.step = w.step /\ x.phase = w.phase /\ x.at = w.at + 1
    BY <2>1 DEF WorkerRecord
  <2>3. x.ok = (w.ok /\ good)
    BY <2>1, Zenon DEF WorkerRecord
  <2> QED BY <1>1, <1>2, <2>2, <2>3 DEF Stays
<1>3. CASE ~(w.at < PhaseEnds[w.read.template][w.phase]) /\ w.ok /\ good
  <2>1. x = EnterPhase(w, p)
    BY <1>3 DEF AfterObject
  <2> QED BY <1>1, <1>3, <2>1, EnterPhaseEffect
<1>4. CASE ~(w.at < PhaseEnds[w.read.template][w.phase]) /\ ~(w.ok /\ good)
  <2>1. x = [w EXCEPT !.step = "report", !.phase = 0, !.at = 0, !.ok = FALSE]
    BY <1>4, Zenon DEF AfterObject
  <2>2. x.step = "report" /\ ~x.ok
    BY <2>1 DEF WorkerRecord
  <2> QED BY <1>1, <1>4, <2>2
<1> QED BY <1>2, <1>3, <1>4

(* A worker that starts is at the first object, or has nothing to do.      *)
LEMMA StartEffect ==
    ASSUME TypeOK, NEW u \in Sets, NEW s \in SetRecord, NEW x
    PROVE  /\ x = StartReconcile(u, s) =>
                /\ x.uid = u /\ x.read = s
                /\ IF LastPhase(s.template) > 0
                     THEN /\ x.step = "reconcile" /\ x.phase = 1
                          /\ x.at = PhaseStart(s.template, 1)
                     ELSE x.step = "report"
           /\ x = StartTeardown(u, s) =>
                /\ x.uid = u /\ x.read = s
                /\ IF LastPhase(s.template) > 0
                     THEN /\ x.step = "teardown" /\ x.phase = LastPhase(s.template)
                          /\ x.at = PhaseStart(s.template, x.phase)
                     ELSE x.step = "report"
<1>1. LastPhase(s.template) \in Nat
  BY PhaseBounds DEF SetRecord
<1>2. Idle \in WorkerRecord /\ u \in 0 .. MaxSets
  BY IdleType, BoundAssumption DEF Sets
<1> DEFINE w(step) == [Idle EXCEPT !.step = step, !.uid = u, !.read = s]
<1>3. \A step \in {"reconcile", "teardown"} :
        w(step) \in WorkerRecord /\ w(step).step = step /\ w(step).uid = u /\ w(step).read = s
  BY <1>2 DEF WorkerRecord, Steps
<1>4. StartReconcile(u, s) = EnterPhase(w("reconcile"), 1)
  BY DEF StartReconcile
<1>5. StartTeardown(u, s) = EnterPhase(w("teardown"), LastPhase(s.template))
  BY DEF StartTeardown
<1> HIDE DEF w
<1>6. ASSUME x = StartReconcile(u, s)
      PROVE  /\ x.uid = u /\ x.read = s
             /\ IF LastPhase(s.template) > 0
                  THEN /\ x.step = "reconcile" /\ x.phase = 1
                       /\ x.at = PhaseStart(s.template, 1)
                  ELSE x.step = "report"
  <2>1. x.uid = u /\ x.read = s /\ Enters(w("reconcile"), x, 1)
    BY <1>3, <1>4, <1>6, EnterPhaseEffect
  <2> QED BY <1>1, <1>3, <2>1 DEF Enters
<1>7. ASSUME x = StartTeardown(u, s)
      PROVE  /\ x.uid = u /\ x.read = s
             /\ IF LastPhase(s.template) > 0
                  THEN /\ x.step = "teardown" /\ x.phase = LastPhase(s.template)
                       /\ x.at = PhaseStart(s.template, x.phase)
                  ELSE x.step = "report"
  <2>1. x.uid = u /\ x.read = s /\ Enters(w("teardown"), x, LastPhase(s.template))
    BY <1>1, <1>3, <1>5, <1>7, EnterPhaseEffect
  <2> QED BY <1>1, <1>3, <2>1 DEF Enters
<1> QED BY <1>6, <1>7

(* What a reconcile begins with, and what it writes first.                 *)
LEMMA BeginEffect ==
    ASSUME TypeOK, NEW u \in Sets, BeginReconcile(u)
    PROVE  \E s \in SetRecord :
             /\ cache[u].exists
             /\ s.template = cache[u].template /\ s.hash = cache[u].hash
             /\ s.deleting = cache[u].deleting /\ s.lifecycle = cache[u].lifecycle
             /\ s.pausedFor = cache[u].pausedFor /\ s.available = cache[u].available
             /\ s.exists
             /\ \/ worker' = StartTeardown(u, s) /\ Retired(s)
                \/ /\ worker' = StartReconcile(u, s)
                   /\ ~Retired(s)
                   /\ cache[u].finalizer \/ sets'[u].finalizer
<1>1. cache[u] \in SetRecord
  BY DEF TypeOK
<1>2. CASE cache[u].deleting
  BY <1>1, <1>2 DEF BeginReconcile, Retired
<1>3. CASE ~cache[u].deleting
  <2> DEFINE s == [cache[u] EXCEPT !.finalizer = TRUE]
  <2>1. /\ s \in SetRecord /\ s.finalizer
        /\ s.template = cache[u].template /\ s.hash = cache[u].hash
        /\ s.deleting = cache[u].deleting /\ s.lifecycle = cache[u].lifecycle
        /\ s.pausedFor = cache[u].pausedFor /\ s.available = cache[u].available
        /\ s.exists = cache[u].exists
    BY <1>1 DEF SetRecord
  <2>2. /\ cache[u].exists
        /\ worker' = IF s.lifecycle = "Archived" THEN StartTeardown(u, s) ELSE StartReconcile(u, s)
        /\ cache[u].finalizer \/ sets' = [sets EXCEPT ![u] = s]
    BY <1>3 DEF BeginReconcile
  <2> HIDE DEF s
  <2>3. cache[u].finalizer \/ sets'[u].finalizer
    BY <2>1, <2>2 DEF TypeOK
  <2> QED BY <1>3, <2>1, <2>2, <2>3 DEF Retired
<1> QED BY <1>2, <1>3

-----------------------------------------------------------------------------
(* The worker's position.                                                  *)
LEMMA PositionedStep ==
    ASSUME TypeOK, TeardownInvariant, [Next]_vars
    PROVE  Positioned'
<1>1. worker \in WorkerRecord /\ worker.read \in SetRecord /\ worker.read.template \in Templates
      /\ worker.phase + 1 \in Int /\ worker.phase - 1 \in Int
  BY WorkerTypes
<1>2. ASSUME NEW w \in WorkerRecord, w = worker, NEW x, x = worker', NEW good, NEW p \in Int,
             x = AfterObject(w, good, p), w.step \in {"reconcile", "teardown"}
      PROVE  Positioned'
  <2> DEFINE t == w.read.template
  <2>1. /\ w.phase \in 1 .. LastPhase(t)
        /\ w.at \in PhaseStart(t, w.phase) .. PhaseEnds[t][w.phase]
    BY <1>2 DEF TeardownInvariant, Positioned
  <2>2. t \in Templates
    BY <1>1, <1>2
  <2>3. /\ x.read = w.read
        /\ \/ Stays(w, x, w.ok /\ good)
           \/ Enters(w, x, p)
           \/ x.step = "report"
    BY <1>2, AfterObjectEffect
  <2>4. PhaseEnds[t][w.phase] \in Nat /\ PhaseStart(t, w.phase) \in Nat
    BY <2>1, <2>2, PhaseBounds
  <2>5. CASE Stays(w, x, w.ok /\ good)
    <3>1. x.phase = w.phase /\ x.at = w.at + 1 /\ w.at < PhaseEnds[t][w.phase]
      BY <2>5 DEF Stays
    <3>2. x.at \in PhaseStart(t, x.phase) .. PhaseEnds[t][x.phase]
      BY <2>1, <2>4, <3>1
    <3> QED BY <1>2, <2>1, <2>3, <3>1, <3>2 DEF Positioned
  <2>6. CASE Enters(w, x, p)
    <3>1. CASE p \in 1 .. LastPhase(t)
      <4>1. x.phase = p /\ x.at = PhaseStart(t, p)
        BY <2>6, <3>1 DEF Enters
      <4>2. PhaseStart(t, p) \in PhaseStart(t, p) .. PhaseEnds[t][p]
        BY <2>2, <3>1, PhaseBounds
      <4> QED BY <1>2, <2>3, <3>1, <4>1, <4>2 DEF Positioned
    <3>2. CASE p \notin 1 .. LastPhase(t)
      BY <1>2, <2>6, <3>2 DEF Enters, Positioned
    <3> QED BY <3>1, <3>2
  <2>7. CASE x.step = "report"
    BY <1>2, <2>7 DEF Positioned
  <2> QED BY <2>3, <2>5, <2>6, <2>7
<1>3. ASSUME NEW u \in Sets, BeginReconcile(u)
      PROVE  Positioned'
  <2>1. PICK s \in SetRecord : worker' = StartTeardown(u, s) \/ worker' = StartReconcile(u, s)
    BY <1>3, BeginEffect
  <2>2. PICK x : x = worker'
    OBVIOUS
  <2>3. s.template \in Templates
    BY DEF SetRecord
  <2>4. /\ x.read = s
        /\ \/ x.step = "report"
           \/ /\ x.phase \in 1 .. LastPhase(s.template)
              /\ x.at = PhaseStart(s.template, x.phase)
    BY <2>1, <2>2, <2>3, StartEffect, PhaseBounds
  <2>5. ASSUME NEW p \in 1 .. LastPhase(s.template)
        PROVE  PhaseStart(s.template, p) \in PhaseStart(s.template, p) .. PhaseEnds[s.template][p]
    BY <2>3, PhaseBounds
  <2> QED BY <2>2, <2>4, <2>5 DEF Positioned
<1>4. CASE worker' = worker
  BY <1>4 DEF TeardownInvariant, Positioned
<1>5. CASE worker' = Idle
  BY <1>5 DEF Idle, Positioned
<1>6. CASE \E good : ReconcileObject /\ worker' = AfterObject(worker, good, worker.phase + 1)
  <2>1. worker.step = "reconcile"
    BY <1>6 DEF ReconcileObject
  <2>2. PICK good : worker' = AfterObject(worker, good, worker.phase + 1)
    BY <1>6
  <2>3. PICK w \in WorkerRecord : w = worker
    BY <1>1
  <2> QED BY <1>1, <1>2, <2>1, <2>2, <2>3
<1>7. CASE TeardownObject
  <2>1. worker.step = "teardown"
    BY <1>7 DEF TeardownObject
  <2>2. PICK good : worker' = AfterObject(worker, good, worker.phase - 1)
    BY <1>7 DEF TeardownObject
  <2>3. PICK w \in WorkerRecord : w = worker
    BY <1>1
  <2> QED BY <1>1, <1>2, <2>1, <2>2, <2>3
<1> QED BY <1>3, <1>4, <1>5, <1>6, <1>7, WorkerSteps

(* Who works on which ObjectSet after a step.                              *)
LEMMA WorksOnSteps ==
    ASSUME TypeOK, [Next]_vars, worker'.step # "idle"
    PROVE  \/ /\ worker.step # "idle"
              /\ worker'.uid = worker.uid /\ worker'.read = worker.read
              /\ worker'.step \in {worker.step, "report"}
           \/ \E u \in Sets : BeginReconcile(u) /\ worker'.uid = u
<1>1. worker \in WorkerRecord /\ worker.phase + 1 \in Int /\ worker.phase - 1 \in Int
  BY WorkerTypes
<1>2. CASE worker' = worker
  BY <1>2
<1>3. CASE worker' = Idle
  BY <1>3 DEF Idle
<1>4. ASSUME NEW u \in Sets, BeginReconcile(u)
      PROVE  worker'.uid = u
  <2>1. PICK s \in SetRecord : worker' = StartTeardown(u, s) \/ worker' = StartReconcile(u, s)
    BY <1>4, BeginEffect
  <2> QED BY <2>1, StartKeeps
<1>5. CASE \E good : ReconcileObject /\ worker' = AfterObject(worker, good, worker.phase + 1)
  <2>1. PICK good : worker' = AfterObject(worker, good, worker.phase + 1)
    BY <1>5
  <2>2. worker.step = "reconcile"
    BY <1>5 DEF ReconcileObject
  <2> QED BY <1>1, <2>1, <2>2, AfterObjectKeeps
<1>6. CASE TeardownObject
  <2>1. PICK good : worker' = AfterObject(worker, good, worker.phase - 1)
    BY <1>6 DEF TeardownObject
  <2>2. worker.step = "teardown"
    BY <1>6 DEF TeardownObject
  <2> QED BY <1>1, <2>1, <2>2, AfterObjectKeeps
<1> QED BY <1>2, <1>3, <1>4, <1>5, <1>6, WorkerSteps

-----------------------------------------------------------------------------
(* The copies of an ObjectSet and its objects.                             *)

\* an object controlled before and after a step, or taken in it
LEMMA OwnsSteps ==
    ASSUME TypeOK, [Next]_vars, NEW u \in Sets, NEW o \in Objects, Owns(u, o)'
    PROVE  Owns(u, o) \/ (Takes(o) /\ worker.uid = u)
<1>1. u # 0
  BY DEF Sets
<1> QED BY <1>1, ObjectSteps DEF Owns, Takes

LEMMA WorkerPlace ==
    ASSUME TeardownInvariant, worker.step \in {"reconcile", "teardown"}
    PROVE  LET t == worker.read.template
               o == Content[t][worker.at]
           IN  /\ worker.at \in 1 .. Len(Content[t])
               /\ t \in Templates /\ worker.uid \in Sets
               /\ o \in Objects /\ Names(t, o)
<1>1. worker.read.template \in Templates /\ worker.uid \in Sets
  BY WorkerTypes DEF TeardownInvariant
<1>2. PICK t \in Templates : t = worker.read.template
  BY <1>1
<1>3. PICK p : p = worker.phase
  OBVIOUS
<1>4. p \in 1 .. LastPhase(t) /\ worker.at \in PhaseStart(t, p) .. PhaseEnds[t][p]
  BY <1>2, <1>3 DEF TeardownInvariant, Positioned
<1>5. worker.at \in 1 .. Len(Content[t])
  BY <1>4, PhaseBounds
<1>6. Content[t] \in Seq(Objects)
  BY PhaseBounds
<1> QED BY <1>1, <1>2, <1>5, <1>6 DEF Names, Range

LEMMA TakenIsNamed ==
    ASSUME TypeOK, TeardownInvariant, NEW o \in Objects, Takes(o)
    PROVE  /\ Reconciles(worker.uid)
           /\ Names(worker.read.template, o)
BY WorkerPlace DEF Takes, Reconciles

LEMMA CopyAgreesStep ==
    ASSUME TypeOK, TypeOK', TeardownInvariant, [Next]_vars, NEW u \in Sets
    PROVE  CopyAgrees(u)'
<1>1. CopyAgrees(u) /\ \A v \in Sets : v > created => ~cache[v].exists
  BY DEF TeardownInvariant, CopyAgrees
<1>2. /\ Grows(sets[u], sets'[u]) \/ Arrives(u) \/ Leaves(u)
      /\ cache'[u] \in {cache[u], sets'[u]}
      /\ created' = created \/ created' = created + 1
  BY <1>1, SetSteps
<1>3. created \in Nat /\ u \in Nat /\ u # 0
  BY BoundAssumption DEF TypeOK, Sets
<1>4. sets[u] \in SetRecord /\ sets'[u] \in SetRecord
  BY DEF TypeOK
<1>5. WorksOn(u)' => \/ /\ WorksOn(u) /\ worker'.read = worker.read
                        /\ Reconciles(u)' => Reconciles(u)
                     \/ BeginReconcile(u)
  BY WorksOnSteps DEF WorksOn, Reconciles
<1>6. Leaves(u) => /\ ~sets'[u].exists /\ sets'[u].hash = sets[u].hash
  BY <1>4, NoSetType DEF Leaves, Removed, NoSet, SetRecord
<1>7. Arrives(u) => u > created /\ u <= created'
  BY <1>3 DEF Arrives
<1>8. u > created' => u > created /\ Grows(sets[u], sets'[u]) /\ ~sets'[u].exists
  BY <1>1, <1>2, <1>3, <1>7 DEF Grows, CopyAgrees, Leaves, WorksOn
<1>9. ASSUME u > created'
      PROVE  /\ ~sets'[u].exists /\ ~cache'[u].exists /\ ~WorksOn(u)'
             /\ \A o \in Objects : objs'[o].controller # u
  <2>1. u > created /\ ~sets'[u].exists
    BY <1>8, <1>9
  <2>2. ~cache'[u].exists
    BY <1>1, <1>2, <2>1
  <2>3. ~BeginReconcile(u)
    BY <1>1, <2>1 DEF BeginReconcile
  <2>4. ~WorksOn(u)' /\ ~WorksOn(u)
    BY <1>1, <1>5, <2>1, <2>3 DEF CopyAgrees
  <2>5. \A o \in Objects : objs'[o].controller # u
    BY <1>1, <1>3, <2>1, <2>4, ObjectSteps DEF CopyAgrees, Takes, WorksOn
  <2> QED BY <2>1, <2>2, <2>4, <2>5
<1>10. cache'[u].exists => cache'[u].hash = sets'[u].hash
  BY <1>1, <1>2, <1>6, <1>7 DEF CopyAgrees, Grows
<1>11. cache'[u].exists /\ sets'[u].exists =>
         /\ cache'[u].template = sets'[u].template
         /\ cache'[u].finalizer => sets'[u].finalizer
  BY <1>1, <1>2, <1>6, <1>7 DEF CopyAgrees, Grows
<1>12. WorksOn(u)' =>
         /\ worker'.read.hash = sets'[u].hash
         /\ sets'[u].exists => worker'.read.template = sets'[u].template
         /\ Reconciles(u)' /\ sets'[u].exists => sets'[u].finalizer
  <2>1. CASE BeginReconcile(u)
    <3>1. PICK s \in SetRecord :
             /\ cache[u].exists
             /\ s.template = cache[u].template /\ s.hash = cache[u].hash
             /\ \/ worker' = StartTeardown(u, s)
                \/ /\ worker' = StartReconcile(u, s)
                   /\ cache[u].finalizer \/ sets'[u].finalizer
      BY <2>1, BeginEffect
    <3>2. /\ worker'.read = s
          /\ worker'.step = "reconcile" => cache[u].finalizer \/ sets'[u].finalizer
      BY <3>1, StartKeeps
    <3>3. cache'[u] = cache[u]
      BY <2>1 DEF BeginReconcile
    <3> QED BY <1>10, <1>11, <3>1, <3>2, <3>3 DEF Reconciles
  <2>2. CASE ~BeginReconcile(u) /\ WorksOn(u)'
    <3>1. /\ WorksOn(u) /\ worker'.read = worker.read
          /\ Reconciles(u)' => Reconciles(u)
      BY <1>5, <2>2
    <3>2. ~Arrives(u)
      BY <1>1, <1>7, <3>1 DEF CopyAgrees
    <3> QED BY <1>1, <1>2, <1>6, <3>1, <3>2 DEF CopyAgrees, Grows
  <2> QED BY <2>1, <2>2
<1>13. ASSUME sets'[u].exists, NEW o \in Objects, Owns(u, o)'
       PROVE  sets'[u].finalizer /\ Names(sets'[u].template, o)
  <2>1. Owns(u, o) \/ (Takes(o) /\ worker.uid = u)
    BY <1>13, OwnsSteps
  <2>2. ~Arrives(u)
    <3>1. Owns(u, o) => ~(u > created)
      BY <1>1 DEF CopyAgrees, Owns
    <3>2. Takes(o) /\ worker.uid = u => ~(u > created)
      BY <1>1 DEF CopyAgrees, WorksOn, Takes
    <3> QED BY <1>7, <2>1, <3>1, <3>2
  <2>3. /\ sets[u].exists /\ sets'[u].template = sets[u].template
        /\ sets[u].finalizer => sets'[u].finalizer
    BY <1>2, <1>6, <1>13, <2>2 DEF Grows
  <2>4. CASE Owns(u, o)
    BY <1>1, <2>3, <2>4 DEF CopyAgrees
  <2>5. CASE Takes(o) /\ worker.uid = u
    <3>1. Reconciles(u) /\ Names(worker.read.template, o)
      BY <2>5, TakenIsNamed
    <3> QED BY <1>1, <2>3, <3>1 DEF CopyAgrees, Reconciles, WorksOn
  <2> QED BY <2>1, <2>4, <2>5
<1>14. Reconciles(u)' => WorksOn(u)'
  BY DEF Reconciles, WorksOn
<1> QED BY <1>9, <1>10, <1>11, <1>12, <1>13, <1>14 DEF CopyAgrees

-----------------------------------------------------------------------------
(* The teardown.                                                           *)

\* while no object is taken, what is spared stays spared
LEMMA SparedStep ==
    ASSUME TypeOK, [Next]_vars, worker.uid \in Sets, worker'.uid = worker.uid,
           worker'.read = worker.read, worker.step # "reconcile",
           NEW i \in 1 .. Len(Content[worker.read.template]), Spared(i)
    PROVE  Spared(i)'
<1>1. worker.read.template \in Templates
  BY WorkerTypes
<1>2. PICK t \in Templates : t = worker.read.template
  BY <1>1
<1>3. PICK u \in Sets : u = worker.uid
  OBVIOUS
<1>4. PICK o \in Objects : o = Content[t][i]
  BY <1>2, PhaseBounds
<1>5. Owns(u, o)' => Owns(u, o)
  BY OwnsSteps DEF Takes
<1>6. Owns(u, o) => IsObjectPaused(worker.read, o)
  BY <1>2, <1>3, <1>4 DEF Spared
<1>7. IsObjectPaused(worker.read, o) => IsObjectPaused(worker'.read, o)
  BY Zenon
<1> QED BY <1>2, <1>3, <1>4, <1>5, <1>6, <1>7 DEF Spared, IsObjectPaused

LEMMA TeardownGoes ==
    ASSUME TypeOK, TypeOK', TeardownInvariant, [Next]_vars, TeardownObject
    PROVE  TornDown'
<1>1. /\ worker \in WorkerRecord /\ worker.read.template \in Templates
      /\ worker.phase - 1 \in Int
      /\ worker.step = "teardown" /\ worker.uid \in Sets
  <2>1. worker \in WorkerRecord /\ worker.read.template \in Templates
    BY WorkerTypes
  <2>2. worker.phase - 1 \in Int
    BY <2>1 DEF WorkerRecord
  <2>3. worker.step = "teardown"
    BY DEF TeardownObject
  <2>4. worker.uid \in Sets
    BY <2>3 DEF TeardownInvariant
  <2> QED BY <2>1, <2>2, <2>3, <2>4
<1>2. PICK w \in WorkerRecord : w = worker
  BY <1>1
<1>3. PICK x \in WorkerRecord : x = worker'
  BY DEF TypeOK
<1> DEFINE t == w.read.template
           o == Content[t][w.at]
           delete == ~IsObjectPaused(w.read, o) /\ objs[o].exists
<1>4. t \in Templates
  BY <1>1, <1>2
<1>5. delete \/ objs' = objs
  BY <1>2, <1>3 DEF TeardownObject
<1>6. PICK good \in BOOLEAN : good = ~delete
  BY Zenon
<1>7. x = AfterObject(w, good, w.phase - 1)
  BY <1>2, <1>3, <1>6, Zenon DEF TeardownObject
<1>8. /\ x.uid = w.uid /\ x.read = w.read
      /\ \/ Stays(w, x, w.ok /\ good)
         \/ /\ ~(w.at < PhaseEnds[t][w.phase])
            /\ \/ w.ok /\ good /\ Enters(w, x, w.phase - 1)
               \/ x.step = "report" /\ ~x.ok
  BY <1>1, <1>2, <1>7, AfterObjectEffect
<1>9. /\ w.phase \in 1 .. LastPhase(t)
      /\ w.at \in PhaseStart(t, w.phase) .. PhaseEnds[t][w.phase]
  BY <1>1, <1>2 DEF TeardownInvariant, Positioned
<1>10. /\ PhaseEnds[t][w.phase] \in 1 .. Len(Content[t])
       /\ PhaseStart(t, w.phase) \in 1 .. PhaseEnds[t][w.phase]
       /\ w.phase = 1 => PhaseStart(t, w.phase) = 1
       /\ w.phase > 1 => PhaseStart(t, w.phase) = PhaseEnds[t][w.phase - 1] + 1
       /\ Len(Content[t]) \in Nat /\ LastPhase(t) \in Nat
  BY <1>4, <1>9, PhaseBounds
<1>11. \A i \in 1 .. Len(Content[t]) :
        \/ i > PhaseEnds[t][w.phase]
        \/ w.ok /\ i \in PhaseStart(t, w.phase) .. w.at - 1
        => Spared(i)'
  BY <1>1, <1>2, <1>3, <1>8, SparedStep DEF TeardownInvariant, TornDown
<1>12. ASSUME good PROVE Spared(w.at)'
  <2>1. ~delete
    BY <1>12, <1>6
  <2>2. objs' = objs
    BY <1>5, <2>1
  <2>3. objs'[o].exists => IsObjectPaused(x.read, o)
    BY <1>8, <2>1, <2>2
  <2> QED BY <1>3, <1>8, <2>3 DEF Spared, Owns, IsObjectPaused
<1> HIDE DEF delete, o
<1>13. CASE Stays(w, x, w.ok /\ good)
  <2>1. x.step = "teardown" /\ x.phase = w.phase /\ x.at = w.at + 1 /\ x.ok = (w.ok /\ good)
    BY <1>1, <1>2, <1>13, Zenon DEF Stays
  <2>2. x.ok => w.ok /\ good
    BY <2>1, Zenon
  <2>3. \A i \in 1 .. Len(Content[t]) :
          \/ i > PhaseEnds[t][x.phase]
          \/ x.ok /\ i \in PhaseStart(t, x.phase) .. x.at - 1
          => Spared(i)'
    BY <1>9, <1>10, <1>11, <1>12, <2>1, <2>2
  <2> QED BY <1>3, <1>8, <2>1, <2>3 DEF TornDown
<1>14. CASE ~(w.at < PhaseEnds[t][w.phase]) /\ w.ok /\ good /\ Enters(w, x, w.phase - 1)
  <2>1. w.at = PhaseEnds[t][w.phase]
    BY <1>9, <1>10, <1>14
  <2>2. \A i \in 1 .. Len(Content[t]) : i >= PhaseStart(t, w.phase) => Spared(i)'
    BY <1>10, <1>11, <1>12, <1>14, <2>1
  <2>3. CASE w.phase = 1
    <3>1. x.step = "report"
      BY <1>14, <2>3 DEF Enters
    <3>2. \A i \in 1 .. Len(Content[t]) : Spared(i)'
      BY <1>10, <2>2, <2>3
    <3> QED BY <1>3, <1>8, <3>1, <3>2 DEF TornDown
  <2>4. CASE w.phase > 1
    <3>1. w.phase - 1 \in 1 .. LastPhase(t)
      BY <1>9, <1>10, <2>4
    <3>2. x.step = "teardown" /\ x.phase = w.phase - 1 /\ x.at = PhaseStart(t, x.phase)
      BY <1>1, <1>2, <1>14, <3>1 DEF Enters
    <3>3. PhaseEnds[t][x.phase] \in Nat /\ PhaseStart(t, x.phase) \in Nat
      BY <1>4, <3>1, <3>2, PhaseBounds
    <3>4. \A i \in 1 .. Len(Content[t]) :
            \/ i > PhaseEnds[t][x.phase]
            \/ x.ok /\ i \in PhaseStart(t, x.phase) .. x.at - 1
            => Spared(i)'
      BY <1>10, <2>2, <2>4, <3>2, <3>3
    <3> QED BY <1>3, <1>8, <3>2, <3>4 DEF TornDown
  <2> QED BY <1>9, <1>10, <2>3, <2>4
<1>15. CASE x.step = "report" /\ ~x.ok
  BY <1>3, <1>15 DEF TornDown
<1> QED BY <1>8, <1>13, <1>14, <1>15

LEMMA TornDownStep ==
    ASSUME TypeOK, TypeOK', TeardownInvariant, [Next]_vars
    PROVE  TornDown'
<1>1. worker \in WorkerRecord /\ worker.phase + 1 \in Int
  BY WorkerTypes
<1>2. CASE worker' = worker /\ ~ReconcileObject
  <2>1. CASE worker.step \in {"idle", "reconcile"}
    BY <1>2, <2>1 DEF TeardownInvariant, TornDown
  <2>2. CASE worker.step \in {"teardown", "report"}
    <3>1. worker.uid \in Sets
      BY <2>2 DEF TeardownInvariant
    <3>2. \A i \in 1 .. Len(Content[worker.read.template]) : Spared(i) => Spared(i)'
      BY <1>2, <2>2, <3>1, SparedStep
    <3> QED BY <1>2, <2>2, <3>2 DEF TeardownInvariant, TornDown
  <2> QED BY <1>1, <2>1, <2>2 DEF WorkerRecord, Steps
<1>3. CASE worker' = Idle
  BY <1>3 DEF Idle, TornDown
<1>4. ASSUME NEW u \in Sets, BeginReconcile(u)
      PROVE  TornDown'
  <2>1. PICK s \in SetRecord : \/ worker' = StartTeardown(u, s)
                               \/ worker' = StartReconcile(u, s) /\ ~Retired(s)
    BY <1>4, BeginEffect
  <2>2. PICK x : x = worker'
    OBVIOUS
  <2> DEFINE t == s.template
  <2>3. t \in Templates
    BY DEF SetRecord
  <2>4. x.read = s
    BY <2>1, <2>2, StartEffect
  <2>5. CASE x = StartReconcile(u, s) /\ ~Retired(s)
    <3>1. x.step # "teardown"
      BY <2>5, StartKeeps
    <3> QED BY <2>2, <2>4, <2>5, <3>1 DEF TornDown, Retired
  <2>6. CASE x = StartTeardown(u, s)
    <3>1. CASE LastPhase(t) > 0
      <4>1. /\ x.step = "teardown" /\ x.phase = LastPhase(t)
            /\ x.at = PhaseStart(t, x.phase)
        BY <2>6, <3>1, StartEffect
      <4>2. LastPhase(t) \in 1 .. LastPhase(t)
        BY <2>3, <3>1, PhaseBounds
      <4>3. PhaseEnds[t][x.phase] = Len(Content[t]) /\ Len(Content[t]) \in Nat
        BY <2>3, <3>1, <4>1, PhaseBounds
      <4>4. PhaseStart(t, x.phase) \in Nat
        BY <2>3, <4>1, <4>2, PhaseBounds
      <4>5. \A i \in 1 .. Len(Content[t]) :
              ~(i > PhaseEnds[t][x.phase]) /\ i \notin PhaseStart(t, x.phase) .. x.at - 1
        BY <4>1, <4>3, <4>4
      <4> QED BY <2>2, <2>4, <4>1, <4>5 DEF TornDown
    <3>2. CASE LastPhase(t) = 0
      <4>1. x.step = "report" /\ Len(Content[t]) = 0
        BY <2>3, <2>6, <3>2, StartEffect, PhaseBounds
      <4> QED BY <2>2, <2>4, <4>1 DEF TornDown
    <3> QED BY <2>3, <3>1, <3>2, PhaseBounds
  <2> QED BY <2>1, <2>2, <2>5, <2>6
<1>5. CASE \E good : ReconcileObject /\ worker' = AfterObject(worker, good, worker.phase + 1)
  <2>1. worker.step = "reconcile"
    BY <1>5 DEF ReconcileObject
  <2>2. PICK good : worker' = AfterObject(worker, good, worker.phase + 1)
    BY <1>5
  <2>3. worker'.read = worker.read /\ worker'.step \in {"reconcile", "report"}
    BY <1>1, <2>1, <2>2, AfterObjectKeeps
  <2>4. ~Retired(worker.read)
    BY <2>1 DEF TeardownInvariant, TornDown
  <2> QED BY <2>3, <2>4 DEF TornDown, Retired
<1>6. CASE TeardownObject
  BY <1>6, TeardownGoes
<1> QED BY <1>2, <1>3, <1>4, <1>5, <1>6, WorkerSteps

-----------------------------------------------------------------------------
LEMMA TeardownInit == Init => TeardownInvariant
<1> SUFFICES ASSUME Init PROVE TeardownInvariant
  OBVIOUS
<1>1. TypeOK /\ worker.step = "idle" /\ worker.uid = 0 /\ worker = Idle
  BY TypeInit DEF Init, Idle
<1>2. ASSUME NEW u \in Sets PROVE CopyAgrees(u)
  <2>1. ~sets[u].exists /\ ~cache[u].exists
    BY DEF Init, NoSet
  <2>2. ASSUME NEW o \in Objects PROVE objs[o].controller = 0
    BY DEF Init, Absent
  <2>3. u # 0
    BY DEF Sets
  <2> QED BY <1>1, <2>1, <2>2, <2>3 DEF CopyAgrees, WorksOn, Reconciles
<1> QED BY <1>1, <1>2 DEF TeardownInvariant, Positioned, TornDown

LEMMA TeardownNext ==
    ASSUME TeardownInvariant, [Next]_vars
    PROVE  TeardownInvariant'
<1>1. TypeOK /\ TypeOK'
  BY TypeStep DEF TeardownInvariant
<1>2. worker'.step # "idle" => worker'.uid \in Sets
  BY <1>1, WorksOnSteps DEF TeardownInvariant
<1>3. Positioned'
  BY <1>1, PositionedStep
<1>4. \A u \in Sets : CopyAgrees(u)'
  BY <1>1, CopyAgreesStep
<1>5. TornDown'
  BY <1>1, TornDownStep
<1> QED BY <1>1, <1>2, <1>3, <1>4, <1>5 DEF TeardownInvariant

LEMMA RemovalSpares ==
    ASSUME TeardownInvariant, [Next]_vars, NEW u \in Sets, NEW o \in Objects,
           sets[u].exists, ~sets'[u].exists, Owns(u, o)
    PROVE  IsObjectPaused(sets[u], o)
<1>1. TypeOK /\ CopyAgrees(u) /\ \A v \in Sets : v > created => ~cache[v].exists
  BY DEF TeardownInvariant, CopyAgrees
<1>2. Grows(sets[u], sets'[u]) \/ Arrives(u) \/ Leaves(u)
  BY <1>1, SetSteps
<1>3. sets[u].finalizer /\ Names(sets[u].template, o)
  BY <1>1 DEF CopyAgrees
<1>4. ~Arrives(u)
  BY <1>1 DEF CopyAgrees, Arrives, TypeOK
<1>5. Leaves(u)
  BY <1>2, <1>3, <1>4 DEF Grows
<1>6. \A i \in 1 .. Len(Content[sets[u].template]) : Spared(i)
  BY <1>5 DEF Leaves, TeardownInvariant, TornDown, Retired
<1>7. PICK t \in Templates : t = sets[u].template
  BY <1>1 DEF TypeOK, SetRecord
<1>8. PICK i \in 1 .. Len(Content[t]) : Content[t][i] = o
  BY <1>3, <1>7, PhaseBounds DEF Names, Range
<1> QED BY <1>5, <1>6, <1>7, <1>8 DEF Leaves, Spared

(* GenericObjectSetController.Reconcile removes the finalizer of a deleted  *)
(* ObjectSet only when TeardownPhase has found each of its objects gone,    *)
(* paused or with another controller: for any templates, failures, user     *)
(* edits and lag of the cache, and whatever takes and loses objects while   *)
(* the teardown goes on, an ObjectSet never vanishes from under an object   *)
(* it was to clean up.                                                     *)
THEOREM RemovalSparesPaused == Spec => RemovalLeavesOnlyPaused
<1>1. TeardownInvariant /\ [Next]_vars =>
        [\A u \in Sets : sets[u].exists /\ ~sets'[u].exists =>
           \A o \in Objects : Owns(u, o) => IsObjectPaused(sets[u], o)]_vars
  BY RemovalSpares
<1>2. TeardownInvariant /\ [Next]_vars => TeardownInvariant'
  BY TeardownNext
<1> QED BY <1>1, <1>2, TeardownInit, PTL DEF Spec, RemovalLeavesOnlyPaused

-----------------------------------------------------------------------------
(* The revision numbers.                                                   *)

(* The numbers in the cache are those in the API server.                   *)
NumbersShown ==
    \A u \in Sets : cache[u].exists /\ sets[u].exists => cache[u].revision = sets[u].revision

LEMMA NumbersNext ==
    ASSUME TeardownInvariant, NumbersShown, [Next]_vars
    PROVE  NumbersShown'
<1> SUFFICES ASSUME NEW u \in Sets, cache'[u].exists, sets'[u].exists
             PROVE  cache'[u].revision = sets'[u].revision
  BY DEF NumbersShown
<1>1. TypeOK /\ \A v \in Sets : v > created => ~cache[v].exists
  BY DEF TeardownInvariant, CopyAgrees
<1>2. /\ Grows(sets[u], sets'[u]) \/ Arrives(u) \/ Leaves(u)
      /\ cache'[u] \in {cache[u], sets'[u]}
  BY <1>1, SetSteps
<1>3. CASE cache'[u] = sets'[u]
  BY <1>3
<1>4. CASE cache'[u] = cache[u]
  <2>1. ~Arrives(u)
    BY <1>1, <1>4 DEF Arrives, TypeOK
  <2>2. ~Leaves(u)
    BY DEF Leaves, Removed, NoSet
  <2> QED BY <1>2, <1>4, <2>1, <2>2 DEF Grows, NumbersShown
<1> QED BY <1>2, <1>3, <1>4

LEMMA NewNumbers ==
    ASSUME TeardownInvariant, NumbersShown, [Next]_vars, NEW u \in Sets, NEW v \in Sets,
           sets[u].exists, cache[u].exists, ~sets[v].exists, sets'[v].exists
    PROVE  sets[u].revision < sets'[v].revision
<1>1. TypeOK /\ \A w \in Sets : w > created => ~cache[w].exists
  BY DEF TeardownInvariant, CopyAgrees
<1>2. Grows(sets[v], sets'[v]) \/ Arrives(v) \/ Leaves(v)
  BY <1>1, SetSteps
<1>3. ~Grows(sets[v], sets'[v]) /\ ~Leaves(v)
  BY DEF Grows, Leaves, Removed, NoSet
<1>4. CreateRevision
  BY <1>2, <1>3 DEF Arrives
<1>5. PICK q \in ByRevision(Outdated) : sets'[v] = NewObjectSet(q)
  BY <1>2, <1>3 DEF Arrives
<1>6. sets'[v].revision = LatestRevision(q) + 1
  BY <1>5 DEF NewObjectSet, NoSet
<1>7. u \in Outdated
  BY <1>4 DEF CreateRevision, Outdated, Listed
<1>8. cache[u].revision < LatestRevision(q) + 1
  BY <1>1, <1>7, ListedSets, NewestRevision
<1> QED BY <1>6, <1>8 DEF NumbersShown

(* newRevision numbers a new ObjectSet above all that its list shows, for  *)
(* any lag of the cache, any failures and edits: two ObjectSets share a    *)
(* number only if the list of the later one has missed the earlier one.    *)
THEOREM RevisionsAlwaysAscend == Spec => RevisionsAscend
<1>1. Init => NumbersShown
  BY DEF Init, NumbersShown, NoSet
<1>2. TeardownInvariant /\ NumbersShown /\ [Next]_vars =>
        (TeardownInvariant /\ NumbersShown)'
  BY TeardownNext, NumbersNext
<1>3. TeardownInvariant /\ NumbersShown /\ [Next]_vars =>
        [\A u, v \in Sets :
           /\ sets[u].exists /\ cache[u].exists
           /\ ~sets[v].exists /\ sets'[v].exists
           => sets[u].revision < sets'[v].revision]_vars
  BY NewNumbers
<1> QED BY <1>1, <1>2, <1>3, TeardownInit, PTL DEF Spec, RevisionsAscend

-----------------------------------------------------------------------------
(* Teardowns and the objects of other ObjectSets.                          *)

(* A template keeps the objects of the others or has its own.              *)
KeptOrOwn ==
    \A o \in Objects \ Kept : \A s, t \in Templates : Names(s, o) /\ Names(t, o) => s = t

Identifies(s) == s.hash = Hash[s.template][0]

(* Without collisions the hash tells the template; an object only one      *)
(* template names is controlled by an ObjectSet of that template.          *)
Identified ==
    /\ deployment.collisionCount = 0
    /\ \A u \in Sets : /\ cache[u].exists => Identifies(cache[u])
                       /\ sets[u].exists => Identifies(sets[u])
    /\ worker.step # "idle" => Identifies(worker.read)
    /\ \A o \in Objects \ Kept : objs[o].controller # 0 =>
         \E t \in Templates : Names(t, o) /\ sets[objs[o].controller].hash = Hash[t][0]

(* Unless users delete ObjectSets, only quiet ones are torn down.          *)
QuietRetired ==
    /\ \A u \in Sets : /\ sets[u].exists /\ sets[u].deleting => Quiet(sets[u])
                       /\ cache[u].exists /\ cache[u].deleting => Quiet(cache[u])
    /\ worker.step = "teardown" => Quiet(worker.read)

SharingInvariant == PauseInvariant /\ TeardownInvariant /\ Identified /\ QuietRetired

\* an ObjectSet is deleted only once it is quiet, and stays so
Settles(s, t) ==
    t.exists => /\ t.deleting => Quiet(t) \/ (s.exists /\ s.deleting)
                /\ s.exists /\ Quiet(s) => Quiet(t)

LEMMA SamePauseSettles ==
    ASSUME NEW s, NEW t, t.exists = s.exists, t.pausedFor = s.pausedFor,
           t.deleting => s.deleting \/ Quiet(s)
    PROVE  Settles(s, t)
BY DEF Settles, Quiet

LEMMA UpdateSettles ==
    ASSUME TypeOK, NEW s \in SetRecord
    PROVE  /\ Settles(s, Pause(s))
           /\ Settles(s, s)
           /\ Quiet(s) => Settles(s, Delete(s)) /\ Settles(s, SetArchived(s))
           /\ \A l : Settles(s, [SpecChanged(s) EXCEPT !.lifecycle = l])
           /\ \A ok \in BOOLEAN : Settles(s, Reported(s, ok))
           /\ Settles(s, [s EXCEPT !.finalizer = TRUE])
           /\ Settles(s, Removed(s))
<1> DEFINE r == SpecChanged(s)
<1>1. r \in SetRecord /\ r.exists = s.exists /\ r.deleting = s.deleting
      /\ r.pausedFor = s.pausedFor
  BY SetUpdates, SpecChangedFields
<1> HIDE DEF r
<1>2. Settles(s, Pause(s))
  <2>1. /\ Pause(s).deleting = s.deleting /\ Pause(s).exists = s.exists
    BY <1>1 DEF Pause, SetRecord, r
  <2> QED BY <2>1, PauseEvolves DEF Settles
<1>3. Settles(s, s)
  BY SamePauseSettles
<1>4. \A l : Settles(s, [r EXCEPT !.lifecycle = l])
  <2>1. ASSUME NEW l
        PROVE  /\ [r EXCEPT !.lifecycle = l].exists = s.exists
               /\ [r EXCEPT !.lifecycle = l].deleting = s.deleting
               /\ [r EXCEPT !.lifecycle = l].pausedFor = s.pausedFor
    BY <1>1 DEF SetRecord
  <2> QED BY <2>1, SamePauseSettles
<1>5. Settles(s, Removed(s))
  <2>1. ~Removed(s).exists
    BY DEF Removed, NoSet
  <2> QED BY <2>1 DEF Settles
<1>6. Quiet(s) => Settles(s, SetArchived(s))
  BY <1>3, <1>4 DEF SetArchived, r
<1>7. Quiet(s) => Settles(s, Delete(s))
  <2>1. /\ [r EXCEPT !.deleting = TRUE].exists = s.exists
        /\ [r EXCEPT !.deleting = TRUE].pausedFor = s.pausedFor
    BY <1>1 DEF SetRecord
  <2>2. Quiet(s) => Settles(s, [r EXCEPT !.deleting = TRUE])
    BY <2>1, SamePauseSettles
  <2> QED BY <1>3, <1>5, <2>2 DEF Delete, r
<1>8. \A ok \in BOOLEAN : Settles(s, Reported(s, ok))
  BY ReportedFields, SamePauseSettles
<1>9. Settles(s, [s EXCEPT !.finalizer = TRUE])
  <2>1. /\ [s EXCEPT !.finalizer = TRUE].exists = s.exists
        /\ [s EXCEPT !.finalizer = TRUE].deleting = s.deleting
        /\ [s EXCEPT !.finalizer = TRUE].pausedFor = s.pausedFor
    BY DEF SetRecord
  <2> QED BY <2>1, SamePauseSettles
<1> QED BY <1>2, <1>3, <1>4, <1>5, <1>6, <1>7, <1>8, <1>9 DEF r

LEMMA SettlesTransitive ==
    ASSUME NEW s, NEW t, NEW r, Settles(s, t), Settles(t, r),
           t.exists = s.exists, Grows(t, r)
    PROVE  Settles(s, r)
BY DEF Settles, Grows

LEMMA AfterPauseSettles ==
    ASSUME TypeOK, NEW S, NEW u \in Sets
    PROVE  /\ Settles(sets[u], AfterPause(S)[u])
           /\ AfterPause(S)[u].exists = sets[u].exists
<1>1. sets[u] \in SetRecord
  BY DEF TypeOK
<1>2. AfterPause(S)[u] = Pause(sets[u]) \/ AfterPause(S)[u] = sets[u]
  BY DEF AfterPause
<1>3. SpecChanged(sets[u]) \in SetRecord
  BY <1>1, SetUpdates
<1>4. Pause(sets[u]).exists = sets[u].exists
  BY <1>1, <1>3, SpecChangedFields DEF Pause, SetRecord
<1> QED BY <1>1, <1>2, <1>4, UpdateSettles

LEMMA DeprecateSettles ==
    ASSUME TypeOK, NEW s \in [Sets -> SetRecord], Deprecate(s),
           \A v \in Outdated : s[v].exists => Quiet(s[v]), NEW u \in Sets
    PROVE  Settles(s[u], sets'[u])
<1>1. PICK c \in ByRevision(IF SomeAvailable(s) THEN ForCleanup(s) ELSE {}) :
      \E n \in 0 .. Len(c) : sets' = AfterCleanup(s, c, n)
  BY DEF Deprecate
<1>2. PICK n \in 0 .. Len(c) : sets' = AfterCleanup(s, c, n)
  BY <1>1
<1>3. (IF SomeAvailable(s) THEN ForCleanup(s) ELSE {}) \subseteq Outdated
  BY DEF ForCleanup
<1>4. Len(c) \in Nat /\ \A i \in 1 .. Len(c) : c[i] \in Outdated
  BY <1>3, ListedSets, ByRevisionIndexes
<1>5. \A i \in 1 .. n : c[i] \in Outdated
  BY <1>4
<1>6. \/ u \in Outdated /\ sets'[u] \in {Delete(s[u]), SetArchived(s[u])}
      \/ sets'[u] = s[u]
  BY <1>2, <1>5 DEF AfterCleanup
<1>7. s[u] \in SetRecord /\ Grows(s[u], sets'[u])
  BY DeprecateGrows
<1>8. CASE s[u].exists
  BY <1>6, <1>7, <1>8, UpdateSettles
<1>9. CASE ~s[u].exists
  BY <1>7, <1>9 DEF Grows, Settles
<1> QED BY <1>8, <1>9

\* who is outdated and has been told is quiet, in the API server too
LEMMA OutdatedQuiet ==
    ASSUME TypeOK, PauseInvariant, \A v \in Outdated : PausePasses(v), NEW u \in Outdated
    PROVE  /\ sets[u].exists => Quiet(sets[u])
           /\ AfterPause(Outdated)[u].exists => Quiet(AfterPause(Outdated)[u])
<1>1. u \in Sets /\ cache[u].exists /\ Told(cache[u])
  BY ListedSets, PassedIsTold DEF Outdated, Listed
<1>2. Quiet(cache[u])
  BY <1>1 DEF PauseInvariant, ToldIsQuiet
<1>3. sets[u].exists => Quiet(sets[u])
  BY <1>1, <1>2 DEF PauseInvariant, QuietSpreads
<1> QED BY <1>1, <1>3, AfterPauseEvolves, AfterPauseSettles

LEMMA SettleSteps ==
    ASSUME TypeOK, PauseInvariant, SeesOwnCreates, MaxUserEdits = 0, [Next]_vars
    PROVE  \A u \in Sets : Settles(sets[u], sets'[u])
<1>1. \A u \in Sets : sets[u] \in SetRecord
  BY DEF TypeOK
<1>2. CASE WaitForPause \/ FailToPause \/ CountCollision
  <2>1. PICK S : sets' = AfterPause(S)
    BY <1>2 DEF WaitForPause, FailToPause, CountCollision
  <2> QED BY <2>1, AfterPauseSettles
<1> DEFINE p == AfterPause(Outdated)
<1>3. /\ p \in [Sets -> SetRecord]
      /\ \A u \in Sets : Settles(sets[u], p[u]) /\ p[u].exists = sets[u].exists
  BY AfterPauseType, AfterPauseSettles
<1>4. CASE KeepRevision
  <2>1. Deprecate(p) /\ \A v \in Outdated : p[v].exists => Quiet(p[v])
    BY <1>4, OutdatedQuiet DEF KeepRevision
  <2> HIDE DEF p
  <2>2. \A u \in Sets : Settles(p[u], sets'[u]) /\ Grows(p[u], sets'[u])
    BY <1>3, <2>1, DeprecateSettles, DeprecateGrows
  <2> QED BY <1>3, <2>2, SettlesTransitive
<1>5. CASE CreateRevision
  <2> DEFINE n == created + 1
  <2>1. n \in Sets /\ created \in Nat /\ ~cache[n].exists /\ ~sets[n].exists
    BY <1>5, BoundAssumption DEF CreateRevision, TypeOK, Sets, PauseInvariant, Known
  <2> HIDE DEF n
  <2>2. PICK q \in ByRevision(Outdated) : Deprecate([p EXCEPT ![n] = NewObjectSet(q)])
    BY <1>5 DEF CreateRevision, n
  <2> DEFINE s == [p EXCEPT ![n] = NewObjectSet(q)]
  <2>3. NewObjectSet(q) \in SetRecord
    BY NewObjectSetType
  <2>4. n \notin Outdated
    BY <2>1 DEF Outdated, Listed
  <2>5. \A v \in Outdated : v \in Sets /\ (p[v].exists => Quiet(p[v]))
    BY <1>5, ListedSets, OutdatedQuiet DEF CreateRevision
  <2> HIDE DEF p
  <2>6. /\ s \in [Sets -> SetRecord] /\ s[n] = NewObjectSet(q)
        /\ \A u \in Sets \ {n} : s[u] = p[u]
    BY <1>3, <2>1, <2>3
  <2>7. Deprecate(s) /\ \A v \in Outdated : s[v].exists => Quiet(s[v])
    BY <2>2, <2>4, <2>5, <2>6
  <2> HIDE DEF s
  <2>8. \A u \in Sets : /\ Settles(s[u], sets'[u]) /\ Grows(s[u], sets'[u])
                        /\ u \notin Outdated => sets'[u] = s[u]
    BY <2>6, <2>7, DeprecateSettles, DeprecateGrows
  <2>9. \A u \in Sets \ {n} : Settles(sets[u], sets'[u])
    BY <1>3, <2>6, <2>8, SettlesTransitive
  <2>10. ~NewObjectSet(q).deleting
    BY NoSetType, TemplateTypes DEF NewObjectSet, NoSet, SetRecord
  <2>11. Settles(sets[n], sets'[n])
    BY <2>1, <2>4, <2>6, <2>8, <2>10 DEF Settles
  <2> QED BY <2>9, <2>11
<1>6. ASSUME NEW u \in Sets, BeginReconcile(u)
      PROVE  \A v \in Sets : Settles(sets[v], sets'[v])
  <2>1. \/ sets' = sets
        \/ sets' = [sets EXCEPT ![u] = [sets[u] EXCEPT !.finalizer = TRUE]]
    BY <1>6 DEF BeginReconcile
  <2> QED BY <1>1, <2>1, UpdateSettles DEF TypeOK
<1>7. CASE FinishReconcile
  <2>1. worker.ok \in BOOLEAN
    BY WorkerTypes
  <2>2. \/ sets' = sets
        \/ sets' = [sets EXCEPT ![worker.uid] = Removed(sets[worker.uid])]
        \/ /\ sets[worker.uid] = worker.read
           /\ sets' = [sets EXCEPT ![worker.uid] = Reported(sets[worker.uid], worker.ok)]
    BY <1>7 DEF FinishReconcile
  <2>3. ASSUME NEW u \in Sets, worker.uid # u PROVE sets'[u] = sets[u]
    BY <2>2, <2>3 DEF TypeOK
  <2>4. ASSUME NEW u \in Sets, worker.uid = u PROVE Settles(sets[u], sets'[u])
    <3>1. sets'[u] \in {sets[u], Removed(sets[u]), Reported(sets[u], worker.ok)}
      BY <2>2, <2>4 DEF TypeOK
    <3>2. PICK s \in SetRecord : s = sets[u]
      BY <1>1
    <3>3. PICK ok \in BOOLEAN : ok = worker.ok
      BY <2>1
    <3>4. Settles(s, s) /\ Settles(s, Removed(s)) /\ Settles(s, Reported(s, ok))
      BY UpdateSettles
    <3> QED BY <3>1, <3>2, <3>3, <3>4
  <2> QED BY <1>1, <2>3, <2>4, UpdateSettles
<1>8. CASE UNCHANGED sets
  BY <1>1, <1>8, UpdateSettles
<1>9. \A u \in Sets : ~EditSet(u)
  BY DEF EditSet, TypeOK
<1>10. \/ ReconcileObject \/ TeardownObject \/ AbortReconcile
       \/ SyncSets \/ SyncDeployment \/ ChangeTemplate \/ UNCHANGED vars
       \/ \E o \in Objects : BecomeReady(o) \/ Disappear(o) \/ CollectGarbage(o) \/ Drift(o)
       => UNCHANGED sets
  BY DEF ReconcileObject, TeardownObject, AbortReconcile, SyncSets, SyncDeployment,
     ChangeTemplate, BecomeReady, Disappear, CollectGarbage, Drift, vars
<1>11. CASE \E u \in Sets : BeginReconcile(u)
  BY <1>6, <1>11
<1> QED
  BY <1>2, <1>4, <1>5, <1>7, <1>8, <1>9, <1>10, <1>11
  DEF Next, ObjectDeploymentNext, ObjectSetNext, Environment

LEMMA CollisionSteps ==
    ASSUME TypeOK, [Next]_vars
    PROVE  deployment'.collisionCount = deployment.collisionCount \/ CountCollision
<1> DEFINE count == deployment.collisionCount
<1>1. \A h, available, concluded :
             /\ [deployment EXCEPT !.hash = h].collisionCount = count
             /\ [deployment EXCEPT !.hash = h, !.available = available,
                                   !.concluded = concluded].collisionCount = count
  BY DEF TypeOK, DeploymentStatus
<1>2. CASE WaitForPause
  BY <1>1, <1>2, Zenon DEF WaitForPause, UpdateStatus
<1>3. ASSUME NEW s, Deprecate(s) PROVE deployment'.collisionCount = count
  <2> DEFINE status == [deployment EXCEPT
                          !.hash = TemplateHash,
                          !.available = SomeAvailable(s),
                          !.concluded = IF CurrentAvailable THEN seen ELSE 0]
  <2>1. UpdateStatus(status) \/ deployment' = deployment
    BY <1>3, Zenon DEF Deprecate
  <2>2. status.collisionCount = count
    BY <1>1
  <2> HIDE DEF status
  <2> QED BY <2>1, <2>2 DEF UpdateStatus
<1>4. CASE KeepRevision \/ CreateRevision
  BY <1>3, <1>4 DEF KeepRevision, CreateRevision
<1>5. ~WaitForPause /\ ~KeepRevision /\ ~CreateRevision /\ ~CountCollision =>
        deployment' = deployment
  BY DEF Next, ObjectDeploymentNext, FailToPause, ObjectSetNext, BeginReconcile,
     ReconcileObject, TeardownObject, FinishReconcile, AbortReconcile, Environment, SyncSets,
     SyncDeployment, ChangeTemplate, BecomeReady, Disappear, CollectGarbage, Drift, EditSet, vars
<1> QED BY <1>2, <1>4, <1>5

LEMMA IdentifiedStep ==
    ASSUME SharingInvariant, [Next]_vars, Foreign = {}
    PROVE  Identified'
<1>1. TypeOK /\ TypeOK' /\ TeardownInvariant /\ Identified
  BY TypeStep DEF SharingInvariant, TeardownInvariant
<1>2. deployment'.collisionCount = 0 /\ deployment.collisionCount = 0
  BY <1>1, CollisionSteps DEF Identified, CountCollision
<1>3. \A u \in Sets : /\ CopyAgrees(u)
                      /\ Grows(sets[u], sets'[u]) \/ Arrives(u) \/ Leaves(u)
                      /\ cache'[u] \in {cache[u], sets'[u]}
  BY <1>1, SetSteps DEF TeardownInvariant, CopyAgrees
<1>4. ASSUME NEW u \in Sets
      PROVE  /\ sets'[u].exists => Identifies(sets'[u])
             /\ Arrives(u) \/ sets'[u].hash = sets[u].hash
  <2>1. Arrives(u) => Identifies(sets'[u])
    BY <1>2 DEF Arrives, TemplateHash, Identifies
  <2>2. sets[u] \in SetRecord /\ sets'[u] \in SetRecord
    BY <1>1 DEF TypeOK
  <2>3. Leaves(u) => ~sets'[u].exists /\ sets'[u].hash = sets[u].hash
    BY <1>1, <2>2, NoSetType DEF Leaves, Removed, NoSet, SetRecord
  <2> QED BY <1>1, <1>3, <2>1, <2>3 DEF Grows, Identified, Identifies
<1>5. \A u \in Sets : cache'[u].exists => Identifies(cache'[u])
  BY <1>1, <1>3, <1>4 DEF Identified
<1>6. worker'.step # "idle" => Identifies(worker'.read)
  <2>1. CASE worker.step # "idle" /\ worker'.read = worker.read
    BY <1>1, <2>1 DEF Identified
  <2>2. ASSUME NEW u \in Sets, BeginReconcile(u)
        PROVE  Identifies(worker'.read)
    <3>1. PICK s \in SetRecord :
            /\ cache[u].exists
            /\ s.template = cache[u].template /\ s.hash = cache[u].hash
            /\ worker' = StartTeardown(u, s) \/ worker' = StartReconcile(u, s)
      BY <1>1, <2>2, BeginEffect
    <3>2. worker'.read = s
      BY <1>1, <3>1, StartKeeps
    <3> QED BY <1>1, <3>1, <3>2 DEF Identified, Identifies
  <2> QED BY <1>1, <2>1, <2>2, WorksOnSteps
<1>7. ASSUME NEW o \in Objects \ Kept, objs'[o].controller # 0
      PROVE  \E t \in Templates : Names(t, o) /\ sets'[objs'[o].controller].hash = Hash[t][0]
  <2>1. PICK u \in Sets : u = objs'[o].controller
    <3>1. objs' \in [Objects -> ObjectRecord]
      BY <1>1 DEF TypeOK
    <3>2. objs'[o].controller \in 0 .. MaxSets
      BY <1>7, <3>1 DEF ObjectRecord
    <3> QED BY <1>7, <3>2, BoundAssumption DEF Sets
  <2>2. CASE objs[o].controller = u
    <3>1. ~Arrives(u)
      BY <1>1, <1>3, <2>2 DEF CopyAgrees, Arrives, TypeOK
    <3>2. u # 0 /\ sets'[u].hash = sets[u].hash
      BY <1>4, <1>7, <2>1, <3>1
    <3> QED BY <1>1, <2>1, <2>2, <3>2 DEF Identified
  <2>3. CASE Takes(o)
    <3>1. worker.uid = u /\ Reconciles(u) /\ Names(worker.read.template, o)
      BY <1>1, <2>1, <2>3, TakenIsNamed DEF Takes, Reconciles
    <3>2. ~Arrives(u) /\ worker.read.hash = sets[u].hash
      BY <1>1, <1>3, <3>1 DEF CopyAgrees, Arrives, TypeOK, WorksOn, Reconciles
    <3>3. worker.read.hash = Hash[worker.read.template][0]
      BY <1>1, <3>1 DEF Identified, Identifies, Reconciles
    <3>4. worker.read.template \in Templates
      BY <1>1, WorkerTypes
    <3> QED BY <1>4, <2>1, <3>1, <3>2, <3>3, <3>4
  <2> QED BY <1>1, <1>7, <2>1, <2>2, <2>3, ObjectSteps
<1> QED BY <1>2, <1>4, <1>5, <1>6, <1>7 DEF Identified

LEMMA QuietRetiredStep ==
    ASSUME SharingInvariant, [Next]_vars, SeesOwnCreates, MaxUserEdits = 0
    PROVE  QuietRetired'
<1>1. TypeOK /\ PauseInvariant /\ QuietRetired /\ TeardownInvariant
  BY DEF SharingInvariant, TeardownInvariant
<1>2. \A u \in Sets : Settles(sets[u], sets'[u])
  BY <1>1, SettleSteps
<1>3. \A u \in Sets : cache'[u] \in {cache[u], sets'[u]}
  BY <1>1, SetSteps DEF TeardownInvariant, CopyAgrees
<1>4. \A u \in Sets : sets'[u].exists /\ sets'[u].deleting => Quiet(sets'[u])
  BY <1>1, <1>2 DEF QuietRetired, Settles
<1>5. \A u \in Sets : cache'[u].exists /\ cache'[u].deleting => Quiet(cache'[u])
  BY <1>1, <1>3, <1>4 DEF QuietRetired
<1>6. ASSUME worker'.step = "teardown"
      PROVE  Quiet(worker'.read)
  <2>1. CASE /\ worker.step # "idle" /\ worker'.read = worker.read
             /\ worker'.step \in {worker.step, "report"}
    BY <1>1, <1>6, <2>1 DEF QuietRetired
  <2>2. ASSUME NEW u \in Sets, BeginReconcile(u)
        PROVE  Quiet(worker'.read)
    <3>1. PICK s \in SetRecord :
            /\ cache[u].exists
            /\ s.deleting = cache[u].deleting /\ s.lifecycle = cache[u].lifecycle
            /\ s.pausedFor = cache[u].pausedFor
            /\ \/ worker' = StartTeardown(u, s) /\ Retired(s)
               \/ worker' = StartReconcile(u, s)
      BY <1>1, <2>2, BeginEffect
    <3>2. Retired(s) /\ worker'.read = s
      BY <1>1, <1>6, <3>1, StartKeeps
    <3>3. Quiet(cache[u])
      BY <1>1, <3>1, <3>2 DEF Retired, QuietRetired, PauseInvariant, QuietSpreads
    <3> QED BY <3>1, <3>2, <3>3 DEF Quiet
  <2> QED BY <1>1, <1>6, <2>1, <2>2, WorksOnSteps
<1> QED BY <1>4, <1>5, <1>6 DEF QuietRetired, Quiet

LEMMA SharingInit == Init => SharingInvariant
<1> SUFFICES ASSUME Init PROVE SharingInvariant
  OBVIOUS
<1>1. \A u \in Sets : ~sets[u].exists /\ ~cache[u].exists
  BY DEF Init, NoSet
<1>2. worker.step = "idle" /\ deployment.collisionCount = 0
  BY DEF Init, Idle
<1>3. \A o \in Objects : objs[o].controller = 0
  BY DEF Init, Absent
<1> QED
  BY <1>1, <1>2, <1>3, PauseInit, TeardownInit
  DEF SharingInvariant, Identified, QuietRetired

LEMMA SharingNext ==
    ASSUME SharingInvariant, [Next]_vars, SeesOwnCreates, MaxUserEdits = 0, Foreign = {}
    PROVE  SharingInvariant'
<1>1. TypeOK /\ PauseInvariant /\ TeardownInvariant
  BY DEF SharingInvariant, TeardownInvariant
<1>2. PauseInvariant' /\ TeardownInvariant'
  BY <1>1, PauseNext, TeardownNext
<1>3. Identified' /\ QuietRetired'
  BY IdentifiedStep, QuietRetiredStep
<1> QED BY <1>2, <1>3 DEF SharingInvariant

LEMMA SharingImplies ==
    ASSUME SharingInvariant, KeptOrOwn
    PROVE  TeardownSparesOthers
<1>1. TypeOK /\ Positioned /\ Identified /\ QuietRetired
  BY DEF SharingInvariant, TeardownInvariant
<1> SUFFICES ASSUME worker.step = "teardown",
                    NEW o, o = Content[worker.read.template][worker.at],
                    objs[o].exists, ~IsObjectPaused(worker.read, o),
                    objs[o].controller # 0
             PROVE  sets[objs[o].controller].hash = worker.read.hash
  BY DEF TeardownSparesOthers, MayControl
<1>2. PICK t \in Templates : t = worker.read.template
  BY <1>1, WorkerTypes
<1>3. PICK p : p = worker.phase
  OBVIOUS
<1>4. p \in 1 .. LastPhase(t) /\ worker.at \in PhaseStart(t, p) .. PhaseEnds[t][p]
  BY <1>1, <1>2, <1>3 DEF Positioned
<1>5. worker.at \in 1 .. Len(Content[t]) /\ Content[t] \in Seq(Objects)
  BY <1>4, PhaseBounds
<1>6. o \in Objects /\ Names(t, o)
  BY <1>2, <1>5 DEF Names, Range
<1>7. o \notin Kept
  BY <1>1 DEF QuietRetired, Quiet, IsObjectPaused
<1>8. PICK s \in Templates : Names(s, o) /\ sets[objs[o].controller].hash = Hash[s][0]
  BY <1>1, <1>6, <1>7 DEF Identified
<1>9. s = t
  BY <1>6, <1>7, <1>8 DEF KeptOrOwn
<1>10. worker.read.hash = Hash[t][0]
  BY <1>1, <1>2 DEF Identified, Identifies
<1> QED BY <1>8, <1>9, <1>10

(* TeardownPhase deletes its objects by name, whoever controls them by then. *)
(* What keeps it from the objects of other revisions is the pause: as long  *)
(* as every template keeps what the others share, no hash collides and no   *)
(* user deletes an ObjectSet, only ObjectSets that have been told are torn  *)
(* down, and no unpaused object they come to is another's.                 *)
THEOREM TeardownsSpareOthers ==
    ASSUME SeesOwnCreates, MaxUserEdits = 0, Foreign = {}, KeptOrOwn
    PROVE  Spec => []TeardownSparesOthers
<1>1. SharingInvariant /\ [Next]_vars => SharingInvariant'
  BY SharingNext
<1>2. SharingInvariant => TeardownSparesOthers
  BY SharingImplies
<1> QED BY <1>1, <1>2, SharingInit, PTL DEF Spec

=============================================================================
