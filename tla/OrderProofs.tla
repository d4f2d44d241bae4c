----------------------------- MODULE OrderProofs -----------------------------
(***************************************************************************)
(* The order of the phases and what a concluded update means, for any      *)
(* templates that share no object, any failures and any bounds, while      *)
(* nobody interferes; the history limit and the revision in service, for   *)
(* templates that may share objects and objects that drift.                *)
(***************************************************************************)
EXTENDS TeardownProofs

(* Every object has one place in one template.                             *)
NamedOnce ==
    \A s, t \in Templates : \A i \in 1 .. Len(Content[s]), j \in 1 .. Len(Content[t]) :
      Content[s][i] = Content[t][j] => s = t /\ i = j

(* The user does not come back to an earlier template.                     *)
NeverRepeats ==
    \A h \in Histories : \A i, j \in 1 .. Len(h) : h[i] = h[j] => i = j

(* Only the controllers and the informers act.                             *)
Undisturbed == SeesOwnCreates /\ MaxDrift = 0 /\ MaxUserEdits = 0

(* ObjectSet u as the API server has it, as the cache shows it and as it   *)
(* is in the worker's hands.                                               *)
Copies(u) ==
    {s \in {sets[u], cache[u]} \cup (IF WorksOn(u) THEN {worker.read} ELSE {}) : s.exists}

(* All copies are of one template the user has applied, and are current if *)
(* they are of the template that the deployment has now.                   *)
CopiesBelong ==
    \A u \in Sets : \A s \in Copies(u) :
      /\ \E k \in 1 .. seen : s.template = edits[k]
      /\ \A r \in Copies(u) : r.template = s.template
      /\ s.template = Template =>
           sets[u].exists /\ s.hash = TemplateHash /\ ~Retired(s)

Lineage == TeardownInvariant /\ PauseInvariant /\ CopiesBelong

(* No object is paused for an ObjectSet that names it.                     *)
NothingPaused ==
    \A u \in Sets : \A s \in Copies(u) : \A o \in Objects :
      Names(s.template, o) => ~IsObjectPaused(s, o)

OnePerTemplate ==
    \A u, v \in Sets : \A s \in Copies(u), r \in Copies(v) : s.template = r.template => u = v

(* What is controlled is there and has its ObjectSet.                      *)
ObjectsHeld ==
    \A o \in Objects :
      /\ objs[o].controller # 0 => objs[o].exists /\ sets[objs[o].controller].exists
      /\ objs[o].dying => objs[o].exists

(* An object is deleted only for ObjectSets of a template of the past, all *)
(* of whose copies say so.                                                 *)
DyingIsPast ==
    \A o \in Objects, t \in Templates : objs[o].dying /\ Names(t, o) =>
      /\ \A k \in seen .. Len(edits) : edits[k] # t
      /\ \A u \in Sets : \A s \in Copies(u) : s.template = t => Retired(s)

(* Later copies of an ObjectSet stay retired.                              *)
RetirementSpreads ==
    /\ worker.step # "idle" => worker.read.exists
    /\ worker.step = "teardown" => Retired(worker.read)
    /\ \A u \in Sets :
         /\ cache[u].exists /\ sets[u].exists /\ Retired(cache[u]) => Retired(sets[u])
         /\ WorksOn(u) /\ cache[u].exists /\ Retired(worker.read) => Retired(cache[u])

(* What a reconcile has come past it owns, to the end if it goes well.     *)
Built ==
    LET t == worker.read.template
    IN  /\ worker.step = "reconcile" =>
             \A i \in 1 .. worker.at - 1 : Owns(worker.uid, Content[t][i])
        /\ worker.step = "report" /\ worker.ok /\ ~Retired(worker.read) =>
             \A i \in 1 .. Len(Content[t]) : Owns(worker.uid, Content[t][i])

(* PhasesInOrder, without regard to pauses.                                *)
InOrder ==
    \A u \in Sets : sets[u].exists =>
      LET t == sets[u].template IN
      \A p \in 1 .. LastPhase(t) : \A j \in PhaseStart(t, p) .. PhaseEnds[t][p] :
        Owns(u, Content[t][j]) =>
          \A i \in 1 .. PhaseStart(t, p) - 1 :
            objs[Content[t][i]].exists /\ ~objs[Content[t][i]].dying

OrderInvariant ==
    /\ Lineage
    /\ NothingPaused
    /\ OnePerTemplate
    /\ ObjectsHeld
    /\ DyingIsPast
    /\ RetirementSpreads
    /\ Built
    /\ InOrder

-----------------------------------------------------------------------------
(* What a write may do to a copy r of ObjectSet u.                         *)
Confirms(u) ==
    worker.step = "report" /\ worker.uid = u /\ worker.ok /\ ~Retired(worker.read)

Alters(u, r, s) ==
    /\ s.template = r.template /\ s.hash = r.hash
    /\ s.pausedFor = r.pausedFor \/ (u \in Outdated /\ s.pausedFor = PausedObjects)
    /\ s.lifecycle = "Paused" => r.lifecycle = "Paused"
    /\ Retired(r) => Retired(s)
    /\ Retired(s) => Retired(r) \/ u \in Outdated
    /\ s.available # "False" => r.available # "False" \/ Confirms(u)

(* ObjectSet u, if it was there, leaves the API server.                    *)
Vanishes(u) ==
    /\ ~sets'[u].exists
    /\ sets[u].exists => Leaves(u) \/ (u \in Outdated /\ ~sets[u].finalizer)

LEMMA AltersReflexive == ASSUME NEW u, NEW s PROVE Alters(u, s, s)
BY DEF Alters

LEMMA AltersTransitive ==
    ASSUME NEW u, NEW r, NEW s, NEW q, Alters(u, r, s), Alters(u, s, q)
    PROVE  Alters(u, r, q)
BY DEF Alters

LEMMA SpecChangedAvailable ==
    ASSUME NEW s \in SetRecord
    PROVE  SpecChanged(s).available # "False" => s.available # "False"
BY DEF SpecChanged, SetRecord

LEMMA UpdateAlters ==
    ASSUME TypeOK, NEW u \in Sets, NEW s \in SetRecord
    PROVE  /\ u \in Outdated =>
                /\ Alters(u, s, Pause(s)) /\ Pause(s).exists = s.exists
                   /\ Pause(s).finalizer = s.finalizer
                /\ Alters(u, s, SetArchived(s)) /\ SetArchived(s).exists = s.exists
                /\ s.finalizer => Alters(u, s, Delete(s)) /\ Delete(s).exists = s.exists
                /\ ~s.finalizer => ~Delete(s).exists
           /\ \A ok \in BOOLEAN : (ok /\ s.lifecycle # "Archived" => Confirms(u)) =>
                Alters(u, s, Reported(s, ok)) /\ Reported(s, ok).exists = s.exists
           /\ /\ Alters(u, s, [s EXCEPT !.finalizer = TRUE])
              /\ [s EXCEPT !.finalizer = TRUE].exists = s.exists
<1> DEFINE r == SpecChanged(s)
<1>1. /\ r \in SetRecord /\ r.exists = s.exists /\ r.finalizer = s.finalizer
      /\ r.template = s.template /\ r.hash = s.hash /\ r.pausedFor = s.pausedFor
      /\ r.lifecycle = s.lifecycle /\ r.deleting = s.deleting
      /\ r.available # "False" => s.available # "False"
  BY SetUpdates, SpecChangedFields, SpecChangedKeeps, SpecChangedAvailable
<1> HIDE DEF r
<1>2. ASSUME u \in Outdated
      PROVE  /\ Alters(u, s, [r EXCEPT !.pausedFor = PausedObjects])
             /\ Alters(u, s, [r EXCEPT !.lifecycle = "Archived"])
             /\ Alters(u, s, [r EXCEPT !.deleting = TRUE])
  BY <1>1, <1>2 DEF Alters, SetRecord, Retired
<1>3. \A l : /\ [r EXCEPT !.pausedFor = l].exists = s.exists
             /\ [r EXCEPT !.pausedFor = l].finalizer = s.finalizer
             /\ [r EXCEPT !.lifecycle = l].exists = s.exists
             /\ [r EXCEPT !.deleting = l].exists = s.exists
  BY <1>1 DEF SetRecord
<1>4. ASSUME u \in Outdated
      PROVE  /\ Alters(u, s, Pause(s)) /\ Pause(s).exists = s.exists
             /\ Pause(s).finalizer = s.finalizer
  BY <1>2, <1>3, <1>4 DEF Pause, r
<1>5. ASSUME u \in Outdated
      PROVE  Alters(u, s, SetArchived(s)) /\ SetArchived(s).exists = s.exists
  BY <1>2, <1>3, <1>5, AltersReflexive DEF SetArchived, r
<1>6. ASSUME u \in Outdated, s.finalizer
      PROVE  Alters(u, s, Delete(s)) /\ Delete(s).exists = s.exists
  BY <1>2, <1>3, <1>6, AltersReflexive DEF Delete, r
<1>7. ~s.finalizer => ~Delete(s).exists
  BY NoSetType DEF Delete, Removed, NoSet, SetRecord
<1>8. ASSUME NEW ok \in BOOLEAN, ok /\ s.lifecycle # "Archived" => Confirms(u)
      PROVE  Alters(u, s, Reported(s, ok)) /\ Reported(s, ok).exists = s.exists
  <2>1. /\ Reported(s, ok).template = s.template /\ Reported(s, ok).hash = s.hash
        /\ Reported(s, ok).available # "False" => ok /\ s.lifecycle # "Archived"
    BY DEF Reported, SetRecord
  <2> QED BY <1>8, <2>1, ReportedFields DEF Alters, Retired
<1>9. Alters(u, s, [s EXCEPT !.finalizer = TRUE]) /\ [s EXCEPT !.finalizer = TRUE].exists = s.exists
  BY DEF Alters, Retired, SetRecord
<1> QED BY <1>4, <1>5, <1>6, <1>7, <1>8, <1>9

LEMMA AfterPauseAlters ==
    ASSUME TypeOK, NEW S \in SUBSET Outdated, NEW u \in Sets
    PROVE  /\ Alters(u, sets[u], AfterPause(S)[u])
           /\ AfterPause(S)[u].exists = sets[u].exists
           /\ AfterPause(S)[u].finalizer = sets[u].finalizer
<1>1. sets[u] \in SetRecord
  BY DEF TypeOK
<1>2. \/ u \in Outdated /\ AfterPause(S)[u] = Pause(sets[u])
      \/ AfterPause(S)[u] = sets[u]
  BY DEF AfterPause
<1> QED BY <1>1, <1>2, UpdateAlters, AltersReflexive

LEMMA DeprecateAlters ==
    ASSUME TypeOK, NEW s \in [Sets -> SetRecord], Deprecate(s), NEW u \in Sets
    PROVE  \/ Alters(u, s[u], sets'[u]) /\ sets'[u].exists = s[u].exists
           \/ ~sets'[u].exists /\ u \in Outdated /\ ~s[u].finalizer
<1>1. PICK c \in ByRevision(IF SomeAvailable(s) THEN ForCleanup(s) ELSE {}) :
      \E n \in 0 .. Len(c) : sets' = AfterCleanup(s, c, n)
  BY DEF Deprecate
<1>2. PICK n \in 0 .. Len(c) : sets' = AfterCleanup(s, c, n)
  BY <1>1
<1>3. (IF SomeAvailable(s) THEN ForCleanup(s) ELSE {}) \subseteq Outdated
  BY DEF ForCleanup
<1>4. Len(c) \in Nat /\ \A i \in 1 .. Len(c) : c[i] \in Outdated
  BY <1>3, ListedSets, ByRevisionIndexes
<1>5. \A i \in 1 .. n : c[i] \in Outdated
  BY <1>4
<1>6. s[u] \in SetRecord
  OBVIOUS
<1>7. \/ u \in Outdated /\ sets'[u] \in {Delete(s[u]), SetArchived(s[u])}
      \/ sets'[u] = s[u]
  BY <1>2, <1>5 DEF AfterCleanup
<1>8. CASE sets'[u] = s[u]
  BY <1>8, AltersReflexive
<1>9. CASE u \in Outdated /\ sets'[u] = SetArchived(s[u])
  BY <1>6, <1>9, UpdateAlters
<1>10. CASE u \in Outdated /\ sets'[u] = Delete(s[u])
  <2>1. CASE s[u].finalizer
    BY <1>6, <1>10, <2>1, UpdateAlters
  <2>2. CASE ~s[u].finalizer
    <3>1. ~Delete(s[u]).exists
      BY <1>6, <1>10, <2>2, UpdateAlters, Zenon
    <3> QED BY <1>10, <2>2, <3>1, Zenon
  <2> QED BY <2>1, <2>2
<1> QED BY <1>7, <1>8, <1>9, <1>10

LEMMA PauseAlters ==
    ASSUME TypeOK, WaitForPause \/ FailToPause \/ CountCollision, NEW u \in Sets
    PROVE  Alters(u, sets[u], sets'[u]) /\ sets'[u].exists = sets[u].exists
<1>1. \E S \in SUBSET Outdated : sets' = AfterPause(S)
  <2>1. CASE CountCollision
    BY <2>1 DEF CountCollision
  <2>2. CASE WaitForPause \/ FailToPause
    <3>1. PICK q \in ByRevision(Outdated) : \E i \in DOMAIN q :
            sets' = AfterPause({q[j] : j \in 1 .. i})
      BY <2>2 DEF WaitForPause, FailToPause
    <3>2. PICK i \in DOMAIN q : sets' = AfterPause({q[j] : j \in 1 .. i})
      BY <3>1
    <3>3. {q[j] : j \in 1 .. i} \in SUBSET Outdated
      BY ListedSets, ByRevisionIndexes
    <3> QED BY <3>2, <3>3
  <2> QED BY <2>1, <2>2
<1> QED BY <1>1, AfterPauseAlters

LEMMA KeepAlters ==
    ASSUME TypeOK, KeepRevision, NEW u \in Sets
    PROVE  \/ Alters(u, sets[u], sets'[u]) /\ sets'[u].exists = sets[u].exists
           \/ Vanishes(u)
<1> DEFINE s == AfterPause(Outdated)
<1>1. s \in [Sets -> SetRecord]
  BY AfterPauseType
<1>2. Deprecate(s)
  BY DEF KeepRevision
<1>3. /\ Alters(u, sets[u], s[u]) /\ s[u].exists = sets[u].exists
      /\ s[u].finalizer = sets[u].finalizer
  BY AfterPauseAlters
<1> HIDE DEF s
<1>4. \/ Alters(u, s[u], sets'[u]) /\ sets'[u].exists = s[u].exists
      \/ ~sets'[u].exists /\ u \in Outdated /\ ~s[u].finalizer
  BY <1>1, <1>2, DeprecateAlters
<1> QED BY <1>3, <1>4, AltersTransitive DEF Vanishes

LEMMA CreateAlters ==
    ASSUME TypeOK, CreateRevision, NEW u \in Sets, u # created + 1
    PROVE  \/ Alters(u, sets[u], sets'[u]) /\ sets'[u].exists = sets[u].exists
           \/ Vanishes(u)
<1>1. PICK q \in ByRevision(Outdated) :
        Deprecate([AfterPause(Outdated) EXCEPT ![created + 1] = NewObjectSet(q)])
  BY DEF CreateRevision
<1> DEFINE s == [AfterPause(Outdated) EXCEPT ![created + 1] = NewObjectSet(q)]
<1>2. AfterPause(Outdated) \in [Sets -> SetRecord] /\ NewObjectSet(q) \in SetRecord
  BY AfterPauseType, NewObjectSetType
<1>3. s \in [Sets -> SetRecord] /\ s[u] = AfterPause(Outdated)[u]
  BY <1>2
<1>4. Deprecate(s)
  BY <1>1
<1> HIDE DEF s
<1>5. /\ Alters(u, sets[u], s[u]) /\ s[u].exists = sets[u].exists
      /\ s[u].finalizer = sets[u].finalizer
  BY <1>3, AfterPauseAlters
<1>6. \/ Alters(u, s[u], sets'[u]) /\ sets'[u].exists = s[u].exists
      \/ ~sets'[u].exists /\ u \in Outdated /\ ~s[u].finalizer
  BY <1>3, <1>4, DeprecateAlters
<1> QED BY <1>5, <1>6, AltersTransitive DEF Vanishes

LEMMA FinishAlters ==
    ASSUME TypeOK, FinishReconcile, NEW u \in Sets
    PROVE  \/ Alters(u, sets[u], sets'[u]) /\ sets'[u].exists = sets[u].exists
           \/ Vanishes(u)
<1>1. worker.read \in SetRecord /\ worker.ok \in BOOLEAN /\ worker.step = "report"
  BY DEF TypeOK, WorkerRecord, FinishReconcile
<1>2. \/ sets' = sets
      \/ /\ worker.read.deleting /\ worker.ok /\ sets[worker.uid] = worker.read
         /\ sets' = [sets EXCEPT ![worker.uid] = Removed(sets[worker.uid])]
      \/ /\ ~worker.read.deleting /\ sets[worker.uid] = worker.read
         /\ sets' = [sets EXCEPT ![worker.uid] = Reported(sets[worker.uid], worker.ok)]
  BY DEF FinishReconcile
<1>3. CASE worker.uid # u \/ sets' = sets
  <2>1. sets'[u] = sets[u]
    BY <1>2, <1>3 DEF TypeOK
  <2> QED BY <2>1, AltersReflexive
<1>4. CASE /\ worker.uid = u
           /\ worker.read.deleting /\ worker.ok /\ sets[u] = worker.read
           /\ sets' = [sets EXCEPT ![u] = Removed(sets[u])]
  <2>1. sets'[u] = Removed(sets[u])
    BY <1>4 DEF TypeOK
  <2>2. ~Removed(sets[u]).exists
    BY NoSetType DEF Removed, NoSet, SetRecord
  <2> QED BY <1>1, <1>4, <2>1, <2>2 DEF Vanishes, Leaves
<1>5. CASE /\ worker.uid = u
           /\ ~worker.read.deleting /\ sets[u] = worker.read
           /\ sets' = [sets EXCEPT ![u] = Reported(sets[u], worker.ok)]
  <2>1. sets'[u] = Reported(sets[u], worker.ok) /\ sets[u] \in SetRecord
    BY <1>5 DEF TypeOK
  <2>2. worker.ok /\ sets[u].lifecycle # "Archived" => Confirms(u)
    BY <1>1, <1>5 DEF Confirms, Retired
  <2> QED BY <1>1, <2>1, <2>2, UpdateAlters
<1> QED BY <1>2, <1>3, <1>4, <1>5

(* Whatever the step, an ObjectSet is altered, arrives or vanishes.        *)
LEMMA AlterSteps ==
    ASSUME TeardownInvariant, [Next]_vars, MaxUserEdits = 0, NEW u \in Sets
    PROVE  \/ Alters(u, sets[u], sets'[u]) /\ sets'[u].exists = sets[u].exists
           \/ Vanishes(u)
           \/ Arrives(u)
<1>1. TypeOK /\ \A v \in Sets : v > created => ~cache[v].exists
  BY DEF TeardownInvariant, CopyAgrees
<1>2. CASE CreateRevision
  BY <1>1, <1>2, CreateAlters, CreateGrows
<1>3. CASE WaitForPause \/ FailToPause \/ CountCollision \/ KeepRevision \/ FinishReconcile
  BY <1>1, <1>3, PauseAlters, KeepAlters, FinishAlters
<1>4. ASSUME NEW v \in Sets, BeginReconcile(v)
      PROVE  Alters(u, sets[u], sets'[u]) /\ sets'[u].exists = sets[u].exists
  <2>1. \/ sets' = sets
        \/ sets' = [sets EXCEPT ![v] = [sets[v] EXCEPT !.finalizer = TRUE]]
    BY <1>4 DEF BeginReconcile
  <2>2. sets[u] \in SetRecord
    BY <1>1 DEF TypeOK
  <2>3. sets'[u] \in {sets[u], [sets[u] EXCEPT !.finalizer = TRUE]}
    BY <1>1, <2>1 DEF TypeOK
  <2> QED BY <1>1, <2>2, <2>3, UpdateAlters, AltersReflexive
<1>5. CASE \E v \in Sets : BeginReconcile(v)
  BY <1>4, <1>5
<1>6. ~\E v \in Sets : EditSet(v)
  BY <1>1 DEF EditSet, TypeOK
<1>7. \/ ReconcileObject \/ TeardownObject \/ AbortReconcile
      \/ SyncSets \/ SyncDeployment \/ ChangeTemplate \/ UNCHANGED vars
      \/ \E o \in Objects : BecomeReady(o) \/ Disappear(o) \/ CollectGarbage(o) \/ Drift(o)
      => sets' = sets
  BY DEF ReconcileObject, TeardownObject, AbortReconcile, SyncSets, SyncDeployment,
     ChangeTemplate, BecomeReady, Disappear, CollectGarbage, Drift, vars
<1> QED
  BY <1>2, <1>3, <1>5, <1>6, <1>7, AltersReflexive
  DEF Next, ObjectDeploymentNext, ObjectSetNext, Environment

-----------------------------------------------------------------------------
(* What can become of the copies of an ObjectSet.                          *)
LEMMA CopySteps ==
    ASSUME TeardownInvariant, [Next]_vars, MaxUserEdits = 0,
           NEW u \in Sets, NEW s, s \in Copies(u)'
    PROVE  \/ \E r \in Copies(u) : Alters(u, r, s)
           \/ Arrives(u) /\ s = sets'[u]
<1>1. TypeOK /\ \A v \in Sets : v > created => ~cache[v].exists
  BY DEF TeardownInvariant, CopyAgrees
<1>2. s.exists /\ (s \in {sets'[u], cache'[u]} \/ (WorksOn(u)' /\ s = worker'.read))
  BY DEF Copies
<1>3. CASE s = sets'[u]
  <2>1. sets[u].exists => sets[u] \in Copies(u)
    BY DEF Copies
  <2> QED BY <1>2, <1>3, <2>1, AlterSteps DEF Vanishes
<1>4. CASE s = cache[u]
  <2>1. s \in Copies(u)
    BY <1>2, <1>4 DEF Copies
  <2> QED BY <2>1, AltersReflexive
<1>5. CASE WorksOn(u)' /\ s = worker'.read
  <2>1. CASE WorksOn(u) /\ worker'.read = worker.read
    <3>1. s \in Copies(u)
      BY <1>2, <1>5, <2>1 DEF Copies
    <3> QED BY <3>1, AltersReflexive
  <2>2. CASE BeginReconcile(u)
    <3>1. PICK b \in SetRecord :
            /\ cache[u].exists
            /\ b.template = cache[u].template /\ b.hash = cache[u].hash
            /\ b.deleting = cache[u].deleting /\ b.lifecycle = cache[u].lifecycle
            /\ b.pausedFor = cache[u].pausedFor /\ b.available = cache[u].available
            /\ worker' = StartTeardown(u, b) \/ worker' = StartReconcile(u, b)
      BY <1>1, <2>2, BeginEffect
    <3>2. s = b
      BY <1>1, <1>5, <3>1, StartKeeps
    <3>3. Alters(u, cache[u], s)
      BY <3>1, <3>2 DEF Alters, Retired
    <3>4. cache[u] \in Copies(u)
      BY <3>1 DEF Copies
    <3> QED BY <3>3, <3>4
  <2> QED BY <1>1, <1>5, <2>1, <2>2, WorksOnSteps DEF WorksOn
<1>6. cache'[u] \in {cache[u], sets'[u]}
  BY <1>1, SetSteps
<1> QED BY <1>2, <1>3, <1>4, <1>5, <1>6

LEMMA NoCopyArrives ==
    ASSUME TeardownInvariant, NEW u \in Sets, Arrives(u)
    PROVE  /\ Copies(u) = {}
           /\ CreateRevision
           /\ sets'[u].exists /\ sets'[u].available = "False" /\ ~Retired(sets'[u])
           /\ sets'[u].lifecycle = "Active" /\ sets'[u].pausedFor = << >>
           /\ sets'[u].template = Template /\ sets'[u].hash = TemplateHash
<1>1. TypeOK /\ CopyAgrees(u) /\ u > created
  BY BoundAssumption DEF TeardownInvariant, Arrives, TypeOK, Sets
<1>2. Copies(u) = {}
  BY <1>1 DEF Copies, CopyAgrees
<1>3. PICK q : sets'[u] = NewObjectSet(q)
  BY DEF Arrives
<1>4. /\ NewObjectSet(q).exists /\ NewObjectSet(q).available = "False"
      /\ NewObjectSet(q).lifecycle = "Active" /\ NewObjectSet(q).pausedFor = << >>
      /\ ~NewObjectSet(q).deleting
  BY DEF NewObjectSet, NoSet
<1> QED BY <1>2, <1>3, <1>4 DEF Arrives, Retired

(* An ObjectSet the cache lists as outdated is of an earlier template.     *)
LEMMA OutdatedIsPast ==
    ASSUME CopiesBelong, NEW u \in Outdated, NEW r \in Copies(u)
    PROVE  r.template # Template
<1>1. u \in Sets /\ cache[u].exists /\ cache[u].hash # TemplateHash
  BY DEF Outdated, Current, Listed
<1>2. cache[u] \in Copies(u)
  BY <1>1 DEF Copies
<1> QED BY <1>1, <1>2 DEF CopiesBelong

LEMMA CopyTypes ==
    ASSUME TypeOK, NEW u \in Sets, NEW s \in Copies(u)
    PROVE  s \in SetRecord /\ s.template \in Templates
BY DEF Copies, TypeOK, WorkerRecord, SetRecord

(* The deployment's template, as the cache shows it.                       *)
LEMMA SeenSteps ==
    ASSUME TypeOK, TypeOK', [Next]_vars
    PROVE  /\ edits' = edits /\ edits \in Histories /\ Len(edits) \in Nat
           /\ seen \in 1 .. Len(edits) /\ seen' \in 1 .. Len(edits)
           /\ seen <= seen' /\ edit <= edit' /\ edit \in Nat
           /\ seen' # seen => UNCHANGED <<sets, cache, objs, worker, deployment, edit>>
           /\ edit' # edit => UNCHANGED <<sets, cache, objs, worker, deployment, seen>>
<1>1. /\ edits \in Histories /\ edits \in Seq(Templates) /\ Len(edits) \in Nat
      /\ edit \in 1 .. Len(edits) /\ seen \in 1 .. edit
  BY HistoryAssumption DEF TypeOK
<1>2. CASE SyncDeployment
  BY <1>1, <1>2 DEF SyncDeployment
<1>3. CASE ChangeTemplate
  BY <1>1, <1>3 DEF ChangeTemplate
<1>4. ~SyncDeployment /\ ~ChangeTemplate => UNCHANGED <<edits, edit, seen>>
  BY DEF Next, ObjectDeploymentNext, WaitForPause, FailToPause, KeepRevision, CreateRevision,
     CountCollision, ObjectSetNext, BeginReconcile, ReconcileObject, TeardownObject,
     FinishReconcile, AbortReconcile, Environment, SyncSets, BecomeReady, Disappear,
     CollectGarbage, Drift, EditSet, vars
<1> QED BY <1>1, <1>2, <1>3, <1>4

LEMMA NamedByOne ==
    ASSUME NamedOnce, NEW s \in Templates, NEW t \in Templates, NEW o \in Objects,
           Names(s, o), Names(t, o)
    PROVE  s = t
<1>1. /\ Content[s] \in Seq(Objects) /\ Content[t] \in Seq(Objects)
  BY PhaseBounds
<1>2. PICK i \in 1 .. Len(Content[s]) : Content[s][i] = o
  BY <1>1 DEF Names, Range
<1>3. PICK j \in 1 .. Len(Content[t]) : Content[t][j] = o
  BY <1>1 DEF Names, Range
<1> QED BY <1>2, <1>3 DEF NamedOnce

(* While there is a copy of the template that the deployment has, the      *)
(* deployment controller finds an ObjectSet for it.                        *)
LEMMA CopyIsCurrent ==
    ASSUME Lineage, NEW u \in Sets, NEW r \in Copies(u), r.template = Template
    PROVE  /\ sets[u].exists /\ sets[u].template = Template /\ sets[u].hash = TemplateHash
           /\ cache[u].exists /\ u \in Current /\ u \notin Outdated
           /\ ~Retired(sets[u])
           /\ NameTaken /\ Current # {}
<1>1. sets[u].exists
  BY DEF Lineage, CopiesBelong
<1>2. cache[u].exists
  BY <1>1 DEF Lineage, PauseInvariant, Known
<1>3. sets[u] \in Copies(u) /\ cache[u] \in Copies(u)
  BY <1>1, <1>2 DEF Copies
<1>4. /\ sets[u].template = Template /\ sets[u].hash = TemplateHash /\ ~Retired(sets[u])
      /\ cache[u].hash = TemplateHash
  BY <1>3 DEF Lineage, CopiesBelong
<1>5. u \in Current
  BY <1>2, <1>4 DEF Current, Listed
<1> QED BY <1>1, <1>2, <1>4, <1>5 DEF NameTaken, Outdated

LEMMA CopiesBelongStep ==
    ASSUME Lineage, TypeOK', [Next]_vars,
           SeesOwnCreates, MaxUserEdits = 0, NeverRepeats
    PROVE  CopiesBelong'
<1>1. TypeOK /\ TeardownInvariant /\ CopiesBelong
  BY DEF Lineage, TeardownInvariant
<1>2. /\ edits' = edits /\ edits \in Histories /\ Len(edits) \in Nat
      /\ seen \in 1 .. Len(edits) /\ seen' \in 1 .. Len(edits) /\ seen <= seen'
      /\ seen' # seen => UNCHANGED <<sets, cache, worker, deployment>>
  BY <1>1, SeenSteps
<1>3. ASSUME NEW u \in Sets, NEW s \in Copies(u)', NEW r \in Copies(u), Alters(u, r, s)
      PROVE  /\ \E k \in 1 .. seen' : s.template = edits'[k]
             /\ s.template = Template' =>
                  sets'[u].exists /\ s.hash = TemplateHash' /\ ~Retired(s)
  <2>1. /\ s.template = r.template /\ s.hash = r.hash
        /\ Retired(s) => Retired(r) \/ u \in Outdated
    BY <1>3 DEF Alters
  <2>2. PICK k \in 1 .. seen : r.template = edits[k]
    BY <1>1 DEF CopiesBelong
  <2>3. \E m \in 1 .. seen' : s.template = edits'[m]
    BY <1>2, <2>1, <2>2
  <2>4. ASSUME s.template = Template'
        PROVE  sets'[u].exists /\ s.hash = TemplateHash' /\ ~Retired(s)
    <3>1. Template' = edits[seen']
      BY <1>2 DEF Template
    <3>2. seen' = seen
      BY <1>2, <2>1, <2>2, <2>4, <3>1 DEF NeverRepeats
    <3>3. Template' = Template
      BY <3>1, <3>2 DEF Template
    <3>4. r.template = Template
      BY <2>1, <2>4, <3>3
    <3>5. sets[u].exists /\ u \notin Outdated /\ ~Retired(sets[u]) /\ Current # {}
      BY <3>4, CopyIsCurrent
    <3>6. TemplateHash' = TemplateHash
      BY <1>1, <3>3, <3>5, CollisionSteps DEF CountCollision, TemplateHash
    <3>7. s.hash = TemplateHash' /\ ~Retired(s)
      BY <1>1, <2>1, <3>4, <3>5, <3>6 DEF CopiesBelong
    <3>8. sets'[u].exists
      BY <1>1, <3>5, AlterSteps, NoCopyArrives DEF Vanishes, Leaves, Retired
    <3> QED BY <3>7, <3>8
  <2> QED BY <2>3, <2>4
<1>4. ASSUME NEW u \in Sets, Arrives(u), NEW s, s = sets'[u]
      PROVE  /\ \E k \in 1 .. seen' : s.template = edits'[k]
             /\ s.template = Template' =>
                  sets'[u].exists /\ s.hash = TemplateHash' /\ ~Retired(s)
  <2>1. /\ CreateRevision
        /\ s.exists /\ ~Retired(s)
        /\ s.template = Template /\ s.hash = TemplateHash
    BY <1>1, <1>4, NoCopyArrives
  <2>2. seen' = seen /\ Template' = Template
    BY <2>1 DEF CreateRevision, Template
  <2>3. TemplateHash' = TemplateHash
    <3>1. ~CountCollision
      BY <2>1, <1>1, BoundAssumption DEF CreateRevision, CountCollision, TypeOK
    <3> QED BY <1>1, <2>2, <3>1, CollisionSteps DEF TemplateHash
  <2>4. s.template = edits'[seen'] /\ seen' \in 1 .. seen'
    BY <1>2, <2>1, <2>2 DEF Template
  <2> QED BY <1>4, <2>1, <2>2, <2>3, <2>4
<1>5. ASSUME NEW u \in Sets, NEW s \in Copies(u)'
      PROVE  \/ \E r \in Copies(u) : Alters(u, r, s)
             \/ Arrives(u) /\ s = sets'[u]
  BY <1>1, <1>5, CopySteps
<1>6. ASSUME NEW u \in Sets, NEW s \in Copies(u)', NEW q \in Copies(u)'
      PROVE  q.template = s.template
  <2>1. CASE Arrives(u)
    BY <1>1, <1>5, <2>1, NoCopyArrives
  <2>2. CASE ~Arrives(u)
    <3>1. PICK r \in Copies(u) : r.template = s.template
      BY <1>5, <2>2 DEF Alters
    <3>2. PICK p \in Copies(u) : p.template = q.template
      BY <1>5, <2>2 DEF Alters
    <3> QED BY <1>1, <3>1, <3>2 DEF CopiesBelong
  <2> QED BY <2>1, <2>2
<1>7. ASSUME NEW u \in Sets, NEW s \in Copies(u)'
      PROVE  /\ \E k \in 1 .. seen' : s.template = edits'[k]
             /\ s.template = Template' =>
                  sets'[u].exists /\ s.hash = TemplateHash' /\ ~Retired(s)
  BY <1>3, <1>4, <1>5, <1>7
<1> QED BY <1>6, <1>7 DEF CopiesBelong

LEMMA NothingPausedStep ==
    ASSUME OrderInvariant, [Next]_vars, Undisturbed, NamedOnce
    PROVE  NothingPaused'
<1>1. TypeOK /\ TeardownInvariant /\ CopiesBelong /\ NothingPaused /\ MaxUserEdits = 0
  BY DEF OrderInvariant, Lineage, TeardownInvariant, Undisturbed
<1>2. ASSUME NEW u \in Sets, NEW s \in Copies(u)', NEW o \in Objects, Names(s.template, o)
      PROVE  ~IsObjectPaused(s, o)
  <2>1. CASE \E r \in Copies(u) : Alters(u, r, s)
    <3>1. PICK r \in Copies(u) :
            /\ s.template = r.template
            /\ s.pausedFor = r.pausedFor \/ (u \in Outdated /\ s.pausedFor = PausedObjects)
            /\ s.lifecycle = "Paused" => r.lifecycle = "Paused"
      BY <2>1 DEF Alters
    <3>2. ~IsObjectPaused(r, o)
      BY <1>1, <1>2, <3>1 DEF NothingPaused
    <3>3. ASSUME u \in Outdated, s.pausedFor = PausedObjects, o \in Range(PausedObjects)
          PROVE  FALSE
      <4>1. Template \in Templates /\ Names(Template, o)
        BY <1>1, <3>3, TemplateTypes DEF Names, PausedObjects
      <4>2. r.template \in Templates /\ r.template # Template
        BY <1>1, <3>3, CopyTypes, OutdatedIsPast
      <4>3. PICK t \in Templates : t = Template
        BY <4>1
      <4> QED BY <1>2, <3>1, <4>1, <4>2, <4>3, NamedByOne
    <3> QED BY <3>1, <3>2, <3>3 DEF IsObjectPaused
  <2>2. CASE Arrives(u) /\ s = sets'[u]
    <3>1. s.lifecycle = "Active" /\ s.pausedFor = << >>
      BY <1>1, <2>2, NoCopyArrives
    <3> QED BY <3>1 DEF IsObjectPaused, Range
  <2> QED BY <1>1, <1>2, <2>1, <2>2, CopySteps
<1> QED BY <1>2 DEF NothingPaused

LEMMA OnePerTemplateStep ==
    ASSUME OrderInvariant, TypeOK', [Next]_vars, Undisturbed
    PROVE  OnePerTemplate'
<1>1. TypeOK /\ TeardownInvariant /\ Lineage /\ OnePerTemplate /\ MaxUserEdits = 0
  BY DEF OrderInvariant, Lineage, TeardownInvariant, Undisturbed
<1>2. ASSUME NEW u \in Sets, NEW s \in Copies(u)'
      PROVE  \/ \E r \in Copies(u) : r.template = s.template
             \/ Arrives(u) /\ s.template = Template
  BY <1>1, <1>2, CopySteps, NoCopyArrives DEF Alters
<1>3. ASSUME NEW u \in Sets, Arrives(u), NEW v \in Sets, NEW r \in Copies(v)
      PROVE  r.template # Template
  BY <1>1, <1>3, NoCopyArrives, CopyIsCurrent DEF CreateRevision
<1>4. ASSUME NEW u \in Sets, NEW v \in Sets, Arrives(u), Arrives(v)
      PROVE  u = v
  BY <1>4 DEF Arrives
<1>5. ASSUME NEW u \in Sets, NEW v \in Sets, NEW s \in Copies(u)', NEW r \in Copies(v)',
             s.template = r.template
      PROVE  u = v
  BY <1>1, <1>2, <1>3, <1>4, <1>5 DEF OnePerTemplate
<1> QED BY <1>5 DEF OnePerTemplate

-----------------------------------------------------------------------------
(* The life of an object nobody meddles with.                              *)
Kills(o) ==
    /\ TeardownObject
    /\ o = Content[worker.read.template][worker.at]
    /\ objs[o].exists /\ ~IsObjectPaused(worker.read, o)

LEMMA ReconcileLife ==
    ASSUME TeardownInvariant, ObjectsHeld, ReconcileObject, NEW o \in Objects
    PROVE  /\ objs'[o].dying => objs[o].exists /\ objs[o].dying
           /\ objs[o].exists => objs'[o].exists
           /\ objs'[o].controller = objs[o].controller \/ Takes(o)
           /\ Takes(o) => objs'[o].exists
           /\ objs[o].dying => objs'[o].exists
<1>1. /\ objs[o] \in ObjectRecord /\ objs \in [Objects -> ObjectRecord]
      /\ worker.step = "reconcile" /\ worker.uid \in Sets
  BY DEF TeardownInvariant, TypeOK, ReconcileObject
<1> DEFINE x == Content[worker.read.template][worker.at]
           new == [Absent EXCEPT !.exists = TRUE, !.controller = worker.uid]
           taken == [objs[o] EXCEPT !.controller = worker.uid]
<1>2. \/ objs' = objs
      \/ /\ ~IsObjectPaused(worker.read, x)
         /\ ~objs[x].exists
         /\ objs' = [objs EXCEPT ![x] = new]
      \/ /\ ~IsObjectPaused(worker.read, x)
         /\ objs[x].exists
         /\ MayControl(worker.read, objs[x])
         /\ objs' = [objs EXCEPT ![x] = [objs[x] EXCEPT !.controller = worker.uid]]
  <2>1. \/ objs' = objs
        \/ objs' = [objs EXCEPT ![x] = objs[x]]
        \/ /\ ~IsObjectPaused(worker.read, x)
           /\ ~objs[x].exists
           /\ objs' = [objs EXCEPT ![x] = new]
        \/ /\ ~IsObjectPaused(worker.read, x)
           /\ objs[x].exists
           /\ MayControl(worker.read, objs[x])
           /\ objs' = [objs EXCEPT ![x] = [objs[x] EXCEPT !.controller = worker.uid]]
    BY Zenon DEF ReconcileObject
  <2>2. [objs EXCEPT ![x] = objs[x]] = objs
    BY <1>1
  <2> QED BY <2>1, <2>2
<1>3. new.exists /\ ~new.dying /\ new.controller = worker.uid
  BY DEF Absent
<1>4. taken.exists = objs[o].exists /\ taken.dying = objs[o].dying
      /\ taken.controller = worker.uid
  BY <1>1 DEF ObjectRecord
<1>5. \/ objs'[o] = objs[o]
      \/ /\ o = x /\ ~IsObjectPaused(worker.read, o) /\ ~objs[o].exists
         /\ objs'[o] = new
      \/ /\ o = x /\ ~IsObjectPaused(worker.read, o) /\ objs[o].exists
         /\ MayControl(worker.read, objs[o])
         /\ objs'[o] = taken
  <2> HIDE DEF new
  <2> QED BY <1>1, <1>2
<1> HIDE DEF new, taken
<1>6. objs[o].dying => objs[o].exists
  BY DEF ObjectsHeld
<1>7. objs'[o].controller = objs[o].controller \/ Takes(o)
  BY <1>1, <1>3, <1>4, <1>5 DEF Takes
<1>8. Takes(o) => objs'[o].exists
  <2>1. worker.uid # 0
    BY <1>1 DEF Sets
  <2>2. CASE objs'[o] = objs[o]
    BY <2>1, <2>2 DEF Takes, ObjectsHeld
  <2> QED BY <1>3, <1>4, <1>5, <2>2
<1>9. objs'[o].dying => objs[o].exists /\ objs[o].dying
  BY <1>3, <1>4, <1>5, <1>6
<1>10. objs[o].exists => objs'[o].exists
  BY <1>3, <1>4, <1>5
<1> QED BY <1>6, <1>7, <1>8, <1>9, <1>10

LEMMA ObjectLife ==
    ASSUME TeardownInvariant, ObjectsHeld, [Next]_vars, MaxDrift = 0, NEW o \in Objects
    PROVE  /\ objs'[o].dying => objs'[o].exists /\ (objs[o].dying \/ Kills(o))
           /\ objs[o].exists => objs'[o].exists \/ (objs[o].dying /\ objs'[o].controller = 0)
           /\ \/ objs'[o].controller = objs[o].controller
              \/ Takes(o) /\ objs'[o].exists
              \/ objs[o].dying /\ objs'[o].controller = 0
<1>1. /\ objs[o] \in ObjectRecord /\ objs \in [Objects -> ObjectRecord]
      /\ spent.drift \in 0 .. MaxDrift
  BY DEF TeardownInvariant, TypeOK
<1>2. objs[o].dying => objs[o].exists
  BY DEF ObjectsHeld
<1>3. CASE ReconcileObject
  BY <1>3, ReconcileLife
<1>4. CASE TeardownObject
  <2> DEFINE x == Content[worker.read.template][worker.at]
  <2>1. \/ objs' = objs
        \/ /\ ~IsObjectPaused(worker.read, x) /\ objs[x].exists
           /\ objs' = [objs EXCEPT ![x].dying = TRUE]
    BY <1>4 DEF TeardownObject
  <2>2. \/ objs'[o] = objs[o]
        \/ Kills(o) /\ objs'[o] = [objs[o] EXCEPT !.dying = TRUE]
    BY <1>1, <1>4, <2>1 DEF Kills
  <2>3. /\ [objs[o] EXCEPT !.dying = TRUE].exists = objs[o].exists
        /\ [objs[o] EXCEPT !.dying = TRUE].controller = objs[o].controller
    BY <1>1 DEF ObjectRecord
  <2> QED BY <1>2, <2>2, <2>3 DEF Kills
<1>5. ASSUME NEW x \in Objects, BecomeReady(x) \/ Disappear(x) \/ CollectGarbage(x) \/ Drift(x)
      PROVE  \/ /\ objs'[o].dying = objs[o].dying
                /\ objs'[o].exists = objs[o].exists
                /\ objs'[o].controller = objs[o].controller
             \/ objs[o].dying /\ objs'[o] = Absent
  <2>1. CASE BecomeReady(x)
    BY <1>1, <2>1 DEF BecomeReady, ObjectRecord
  <2>2. CASE Disappear(x)
    BY <1>1, <2>2 DEF Disappear
  <2>3. ~CollectGarbage(x)
    BY DEF CollectGarbage, ObjectsHeld
  <2>4. ~Drift(x)
    BY <1>1 DEF Drift
  <2> QED BY <1>5, <2>1, <2>2, <2>3, <2>4
<1>6. ~Absent.dying /\ Absent.controller = 0
  BY DEF Absent
<1>7. CASE \E x \in Objects : BecomeReady(x) \/ Disappear(x) \/ CollectGarbage(x) \/ Drift(x)
  BY <1>2, <1>5, <1>6, <1>7
<1>8. \/ ObjectDeploymentNext \/ (\E u \in Sets : BeginReconcile(u)) \/ FinishReconcile
      \/ AbortReconcile \/ SyncSets \/ SyncDeployment \/ ChangeTemplate
      \/ (\E u \in Sets : EditSet(u)) \/ UNCHANGED vars
      => objs' = objs
  BY DEF ObjectDeploymentNext, WaitForPause, FailToPause, KeepRevision, CreateRevision,
     CountCollision, BeginReconcile, FinishReconcile, AbortReconcile, SyncSets,
     SyncDeployment, ChangeTemplate, EditSet, vars
<1> QED BY <1>2, <1>3, <1>4, <1>7, <1>8 DEF Next, ObjectSetNext, Environment

LEMMA ObjectsHeldStep ==
    ASSUME OrderInvariant, TypeOK', [Next]_vars, Undisturbed
    PROVE  ObjectsHeld'
<1>1. /\ TypeOK /\ TeardownInvariant /\ ObjectsHeld /\ NothingPaused
      /\ MaxUserEdits = 0 /\ MaxDrift = 0
  BY DEF OrderInvariant, Lineage, TeardownInvariant, Undisturbed
<1>2. ASSUME NEW o \in Objects, objs'[o].controller # 0
      PROVE  objs'[o].exists /\ sets'[objs'[o].controller].exists
  <2>1. CASE Takes(o) /\ objs'[o].exists
    <3>1. worker.step = "reconcile" /\ worker.uid \in Sets /\ sets' = sets
          /\ objs'[o].controller = worker.uid
      BY <1>1, <2>1 DEF Takes, ReconcileObject, TeardownInvariant
    <3>2. sets[worker.uid].exists
      BY <3>1 DEF OrderInvariant, Lineage, PauseInvariant, Held, Reconciles
    <3> QED BY <2>1, <3>1, <3>2
  <2>2. CASE objs'[o].controller = objs[o].controller
    <3>1. PICK u \in Sets : u = objs[o].controller
      BY <1>1, <1>2, <2>2, ControllerIsSet
    <3>2. objs[o].exists /\ sets[u].exists /\ objs'[o].exists
      BY <1>1, <1>2, <2>2, <3>1, ObjectLife DEF ObjectsHeld
    <3>3. Owns(u, o)
      BY <3>1, <3>2 DEF Owns
    <3>4. ~IsObjectPaused(sets[u], o)
      <4>1. sets[u] \in Copies(u)
        BY <3>2 DEF Copies
      <4>2. Names(sets[u].template, o)
        BY <1>1, <3>2, <3>3 DEF TeardownInvariant, CopyAgrees
      <4> QED BY <1>1, <4>1, <4>2 DEF NothingPaused
    <3>5. sets'[u].exists
      BY <1>1, <3>2, <3>3, <3>4, RemovalSpares
    <3> QED BY <2>2, <3>1, <3>2, <3>5
  <2> QED BY <1>1, <1>2, <2>1, <2>2, ObjectLife
<1>3. \A o \in Objects : objs'[o].dying => objs'[o].exists
  BY <1>1, ObjectLife
<1> QED BY <1>2, <1>3 DEF ObjectsHeld

LEMMA RetirementSpreadsStep ==
    ASSUME OrderInvariant, TypeOK', [Next]_vars, Undisturbed
    PROVE  RetirementSpreads'
<1>1. /\ TypeOK /\ TeardownInvariant /\ RetirementSpreads /\ Known /\ MaxUserEdits = 0
      /\ \A u \in Sets : u > created => ~cache[u].exists
  BY DEF OrderInvariant, Lineage, TeardownInvariant, PauseInvariant, Undisturbed, CopyAgrees
<1>2. ASSUME NEW u \in Sets, BeginReconcile(u)
      PROVE  /\ worker'.read.exists /\ cache[u].exists /\ cache' = cache
             /\ Retired(worker'.read) => Retired(cache[u])
             /\ worker'.step = "teardown" => Retired(worker'.read)
  <2>1. PICK b \in SetRecord :
          /\ cache[u].exists /\ b.exists
          /\ b.deleting = cache[u].deleting /\ b.lifecycle = cache[u].lifecycle
          /\ \/ worker' = StartTeardown(u, b) /\ Retired(b)
             \/ worker' = StartReconcile(u, b)
    BY <1>1, <1>2, BeginEffect
  <2>2. worker'.read = b /\ (worker'.step = "teardown" => Retired(b))
    BY <1>1, <2>1, StartKeeps
  <2>3. cache' = cache
    BY <1>2 DEF BeginReconcile
  <2> QED BY <2>1, <2>2, <2>3 DEF Retired
<1>3. worker'.step # "idle" =>
        \/ /\ worker.step # "idle"
           /\ worker'.uid = worker.uid /\ worker'.read = worker.read
           /\ worker'.step \in {worker.step, "report"}
        \/ \E u \in Sets : BeginReconcile(u) /\ worker'.uid = u
  BY <1>1, WorksOnSteps
<1>4. worker'.step # "idle" => worker'.read.exists
  BY <1>1, <1>2, <1>3 DEF RetirementSpreads
<1>5. worker'.step = "teardown" => Retired(worker'.read)
  BY <1>1, <1>2, <1>3 DEF RetirementSpreads, Retired
<1>6. ASSUME NEW u \in Sets
      PROVE  /\ cache'[u].exists /\ sets'[u].exists /\ Retired(cache'[u]) => Retired(sets'[u])
             /\ WorksOn(u)' /\ cache'[u].exists /\ Retired(worker'.read) => Retired(cache'[u])
  <2>1. cache'[u] = cache[u] \/ cache'[u] = sets'[u]
    BY <1>1, SetSteps
  <2>2. \/ /\ sets'[u].exists = sets[u].exists
           /\ Retired(sets[u]) => Retired(sets'[u])
        \/ ~sets'[u].exists
        \/ Arrives(u)
    BY <1>1, AlterSteps DEF Alters, Vanishes
  <2>3. Arrives(u) => ~cache[u].exists /\ ~WorksOn(u)
    BY <1>1, NoCopyArrives DEF Copies, RetirementSpreads, WorksOn
  <2>4. WorksOn(u)' => \/ WorksOn(u) /\ worker'.read = worker.read
                       \/ BeginReconcile(u)
    BY <1>3 DEF WorksOn
  <2>5. sets[u].exists => cache[u].exists
    BY <1>1 DEF Known
  <2>6. /\ cache[u].exists /\ sets[u].exists /\ Retired(cache[u]) => Retired(sets[u])
        /\ WorksOn(u) /\ cache[u].exists /\ Retired(worker.read) => Retired(cache[u])
    BY <1>1 DEF RetirementSpreads
  <2>7. CASE BeginReconcile(u)
    BY <1>2, <2>1, <2>2, <2>3, <2>6, <2>7
  <2>8. CASE ~BeginReconcile(u)
    BY <2>1, <2>2, <2>3, <2>4, <2>5, <2>6, <2>8 DEF Retired
  <2> QED BY <2>7, <2>8
<1> QED BY <1>4, <1>5, <1>6 DEF RetirementSpreads, Retired, WorksOn

LEMMA DyingIsPastStep ==
    ASSUME OrderInvariant, TypeOK', [Next]_vars, Undisturbed, NamedOnce, NeverRepeats
    PROVE  DyingIsPast'
<1>1. /\ TypeOK /\ TeardownInvariant /\ ObjectsHeld /\ CopiesBelong /\ DyingIsPast
      /\ MaxUserEdits = 0 /\ MaxDrift = 0
  BY DEF OrderInvariant, Lineage, TeardownInvariant, Undisturbed
<1>2. /\ edits' = edits /\ edits \in Histories /\ Len(edits) \in Nat
      /\ seen \in 1 .. Len(edits) /\ seen' \in 1 .. Len(edits) /\ seen <= seen'
  BY <1>1, SeenSteps
<1>3. ASSUME NEW o \in Objects, NEW t \in Templates, objs'[o].dying, Names(t, o)
      PROVE  /\ \A k \in seen .. Len(edits) : edits[k] # t
             /\ \A u \in Sets : \A r \in Copies(u) : r.template = t => Retired(r)
  <2>1. CASE objs[o].dying
    BY <1>1, <1>3, <2>1 DEF DyingIsPast
  <2>2. CASE Kills(o)
    <3>1. worker.step = "teardown" /\ worker.uid \in Sets
      BY <1>1, <2>2 DEF Kills, TeardownObject, TeardownInvariant
    <3>2. worker.read.template = t
      <4>1. worker.read.template \in Templates /\ Names(worker.read.template, o)
        BY <1>1, <2>2, <3>1, WorkerPlace DEF Kills
      <4>2. PICK x \in Templates : x = worker.read.template
        BY <4>1
      <4> QED BY <1>3, <4>1, <4>2, NamedByOne
    <3>3. PICK u \in Sets : u = worker.uid
      BY <3>1
    <3>4. WorksOn(u) /\ Retired(worker.read) /\ worker.read \in Copies(u)
      BY <3>1, <3>3 DEF OrderInvariant, RetirementSpreads, WorksOn, Copies
    <3>5. PICK k \in 1 .. seen : t = edits[k]
      BY <1>1, <3>2, <3>4 DEF CopiesBelong
    <3>6. t # edits[seen]
      BY <1>1, <3>2, <3>4 DEF CopiesBelong, Template
    <3>7. \A m \in seen .. Len(edits) : edits[m] # t
      BY <1>2, <3>5, <3>6 DEF NeverRepeats
    <3>8. ASSUME NEW v \in Sets, NEW r \in Copies(v), r.template = t
          PROVE  Retired(r)
      <4>1. v = u
        BY <3>2, <3>4, <3>8 DEF OrderInvariant, OnePerTemplate
      <4>2. cache[u].exists => Retired(cache[u])
        BY <3>4 DEF OrderInvariant, RetirementSpreads
      <4>3. sets[u].exists => Retired(sets[u])
        BY <4>2 DEF OrderInvariant, Lineage, RetirementSpreads, PauseInvariant, Known
      <4> QED BY <3>4, <3>8, <4>1, <4>2, <4>3 DEF Copies
    <3> QED BY <3>7, <3>8
  <2> QED BY <1>1, <1>3, <2>1, <2>2, ObjectLife
<1>4. ASSUME NEW o \in Objects, NEW t \in Templates, objs'[o].dying, Names(t, o),
             NEW u \in Sets, NEW s \in Copies(u)', s.template = t
      PROVE  Retired(s)
  <2>1. t # Template
    BY <1>2, <1>3, <1>4 DEF Template
  <2>2. PICK r \in Copies(u) : Alters(u, r, s)
    BY <1>1, <1>4, <2>1, CopySteps, NoCopyArrives
  <2> QED BY <1>3, <1>4, <2>2 DEF Alters
<1>5. \A o \in Objects, t \in Templates : objs'[o].dying /\ Names(t, o) =>
        \A k \in seen' .. Len(edits') : edits'[k] # t
  BY <1>2, <1>3
<1> QED BY <1>4, <1>5 DEF DyingIsPast, Names

-----------------------------------------------------------------------------
(* Building up.                                                            *)
LEMMA OwnedStays ==
    ASSUME OrderInvariant, [Next]_vars, MaxDrift = 0, NEW u \in Sets, NEW o \in Objects,
           Owns(u, o), ~objs[o].dying, Takes(o) => worker.uid = u
    PROVE  Owns(u, o)'
<1>1. TeardownInvariant /\ ObjectsHeld
  BY DEF OrderInvariant, Lineage
<1>2. /\ objs'[o].exists
      /\ objs'[o].controller = objs[o].controller \/ Takes(o)
  BY <1>1, ObjectLife DEF Owns
<1> QED BY <1>2 DEF Owns, Takes

(* What the copy in the worker's hands names is not dying, unless it is    *)
(* retired.                                                                *)
LEMMA WorkedOnLives ==
    ASSUME OrderInvariant, worker.step # "idle", ~Retired(worker.read),
           NEW i \in 1 .. Len(Content[worker.read.template])
    PROVE  LET o == Content[worker.read.template][i]
           IN  o \in Objects /\ Names(worker.read.template, o) /\ ~objs[o].dying
<1>1. worker.uid \in Sets /\ worker.read.template \in Templates
  BY WorkerTypes DEF OrderInvariant, Lineage, TeardownInvariant
<1>2. PICK t \in Templates : t = worker.read.template
  BY <1>1
<1>3. PICK o \in Objects : o = Content[t][i] /\ Names(t, o)
  BY <1>2, PhaseBounds DEF Names, Range
<1>4. PICK u \in Sets : u = worker.uid
  BY <1>1
<1>5. worker.read \in Copies(u)
  BY <1>4 DEF OrderInvariant, RetirementSpreads, Copies, WorksOn
<1>6. ~objs[o].dying
  BY <1>2, <1>3, <1>5 DEF OrderInvariant, DyingIsPast
<1> QED BY <1>2, <1>3, <1>6

LEMMA WorkedOnStays ==
    ASSUME OrderInvariant, [Next]_vars, MaxDrift = 0,
           worker.step # "idle", ~Retired(worker.read),
           NEW i \in 1 .. Len(Content[worker.read.template]),
           Owns(worker.uid, Content[worker.read.template][i])
    PROVE  LET o == Content[worker.read.template][i]
           IN  objs'[o].exists /\ objs'[o].controller = worker.uid
<1>1. worker.uid \in Sets
  BY DEF OrderInvariant, Lineage, TeardownInvariant
<1>2. PICK u \in Sets : u = worker.uid
  BY <1>1
<1>3. PICK o \in Objects : o = Content[worker.read.template][i] /\ ~objs[o].dying
  BY WorkedOnLives
<1>4. Owns(u, o)'
  BY <1>2, <1>3, OwnedStays
<1> QED BY <1>2, <1>3, <1>4 DEF Owns

(* The object that a reconcile handles is its own afterwards.              *)
LEMMA ReconcileOwns ==
    ASSUME OrderInvariant, ReconcileObject, worker'.uid = worker.uid
    PROVE  LET o == Content[worker.read.template][worker.at]
           IN  objs'[o].exists /\ objs'[o].controller = worker.uid
<1>1. /\ worker.step = "reconcile" /\ worker.uid \in Sets /\ worker.uid # 0
      /\ objs \in [Objects -> ObjectRecord]
  <2>1. worker.step = "reconcile" /\ objs \in [Objects -> ObjectRecord]
    BY DEF OrderInvariant, Lineage, TeardownInvariant, TypeOK, ReconcileObject
  <2>2. worker.uid \in Sets
    BY <2>1 DEF OrderInvariant, Lineage, TeardownInvariant
  <2> QED BY <2>1, <2>2 DEF Sets
<1>2. PICK t \in Templates : t = worker.read.template
  BY <1>1, WorkerPlace DEF OrderInvariant, Lineage
<1>3. PICK o \in Objects : o = Content[t][worker.at] /\ Names(t, o)
  BY <1>1, <1>2, WorkerPlace DEF OrderInvariant, Lineage
<1>4. PICK u \in Sets : u = worker.uid
  BY <1>1
<1>5. worker.read \in Copies(u)
  BY <1>1, <1>4 DEF OrderInvariant, RetirementSpreads, Copies, WorksOn
<1>6. ~IsObjectPaused(worker.read, o)
  BY <1>2, <1>3, <1>5 DEF OrderInvariant, NothingPaused
<1>7. worker' # Idle
  BY <1>1 DEF Idle
<1>8. \/ objs' = [objs EXCEPT ![o] = [Absent EXCEPT !.exists = TRUE, !.controller = worker.uid]]
      \/ /\ objs[o].exists
         /\ objs' = [objs EXCEPT ![o] = [objs[o] EXCEPT !.controller = worker.uid]]
  BY <1>2, <1>3, <1>6, <1>7, Zenon DEF ReconcileObject
<1>9. /\ [Absent EXCEPT !.exists = TRUE, !.controller = worker.uid].exists
      /\ [Absent EXCEPT !.exists = TRUE, !.controller = worker.uid].controller = worker.uid
  BY DEF Absent
<1>10. /\ [objs[o] EXCEPT !.controller = worker.uid].exists = objs[o].exists
       /\ [objs[o] EXCEPT !.controller = worker.uid].controller = worker.uid
  BY <1>1 DEF ObjectRecord
<1> QED BY <1>1, <1>2, <1>3, <1>8, <1>9, <1>10

LEMMA BuiltGoes ==
    ASSUME OrderInvariant, TypeOK', [Next]_vars, Undisturbed, ReconcileObject,
           NEW good, worker' = AfterObject(worker, good, worker.phase + 1)
    PROVE  Built'
<1>1. /\ worker \in WorkerRecord /\ worker.read.template \in Templates
      /\ worker.phase + 1 \in Int /\ worker.step = "reconcile"
      /\ TeardownInvariant /\ MaxDrift = 0
  BY WorkerTypes DEF OrderInvariant, Lineage, TeardownInvariant, ReconcileObject, Undisturbed
<1>2. PICK w \in WorkerRecord : w = worker
  BY <1>1
<1>3. PICK x \in WorkerRecord : x = worker'
  BY DEF TypeOK
<1>4. PICK t \in Templates : t = w.read.template
  BY <1>1, <1>2
<1>5. /\ x.uid = w.uid /\ x.read = w.read
      /\ \/ Stays(w, x, w.ok /\ good)
         \/ /\ ~(w.at < PhaseEnds[t][w.phase])
            /\ \/ w.ok /\ good /\ Enters(w, x, w.phase + 1)
               \/ x.step = "report" /\ ~x.ok
  BY <1>1, <1>2, <1>3, <1>4, AfterObjectEffect
<1>6. /\ w.phase \in 1 .. LastPhase(t)
      /\ w.at \in PhaseStart(t, w.phase) .. PhaseEnds[t][w.phase]
  BY <1>1, <1>2, <1>4 DEF TeardownInvariant, Positioned
<1>7. /\ PhaseEnds[t][w.phase] \in 1 .. Len(Content[t])
      /\ PhaseStart(t, w.phase) \in 1 .. PhaseEnds[t][w.phase]
      /\ Len(Content[t]) \in Nat /\ LastPhase(t) \in Nat
  BY <1>6, PhaseBounds
<1>8. w.at \in 1 .. Len(Content[t])
  BY <1>6, <1>7
<1>9. \A i \in 1 .. w.at :
        objs'[Content[t][i]].exists /\ objs'[Content[t][i]].controller = w.uid
  <2>1. ~Retired(worker.read)
    BY <1>1 DEF TeardownInvariant, TornDown
  <2>2. ASSUME NEW i \in 1 .. w.at, i # w.at
        PROVE  objs'[Content[t][i]].exists /\ objs'[Content[t][i]].controller = w.uid
    <3>1. i \in 1 .. w.at - 1 /\ i \in 1 .. Len(Content[t])
      BY <1>8, <2>2
    <3>2. Owns(worker.uid, Content[t][i])
      BY <1>1, <1>2, <1>4, <3>1 DEF OrderInvariant, Built
    <3> QED BY <1>1, <1>2, <1>4, <2>1, <3>1, <3>2, WorkedOnStays
  <2>3. objs'[Content[t][w.at]].exists /\ objs'[Content[t][w.at]].controller = w.uid
    BY <1>2, <1>3, <1>4, <1>5, ReconcileOwns
  <2> QED BY <2>2, <2>3
<1>10. ASSUME x.at = w.at + 1, x.step = "reconcile" PROVE Built'
  <2>1. \A i \in 1 .. x.at - 1 :
          objs'[Content[t][i]].exists /\ objs'[Content[t][i]].controller = x.uid
    BY <1>5, <1>8, <1>9, <1>10
  <2> QED BY <1>3, <1>4, <1>5, <1>10, <2>1 DEF Built, Owns
<1>11. CASE Stays(w, x, w.ok /\ good)
  BY <1>1, <1>2, <1>10, <1>11 DEF Stays
<1>12. CASE ~(w.at < PhaseEnds[t][w.phase]) /\ Enters(w, x, w.phase + 1)
  <2>1. w.at = PhaseEnds[t][w.phase]
    BY <1>6, <1>7, <1>12
  <2>2. CASE w.phase + 1 \in 1 .. LastPhase(t)
    <3>1. x.step = "reconcile" /\ x.at = PhaseStart(t, w.phase + 1)
      BY <1>1, <1>2, <1>4, <1>12, <2>2 DEF Enters
    <3>2. PhaseStart(t, w.phase + 1) = PhaseEnds[t][w.phase + 1 - 1] + 1
      BY <1>6, <1>7, <2>2, PhaseBounds
    <3>3. w.phase + 1 - 1 = w.phase
      BY <1>6, <1>7
    <3> QED BY <1>10, <2>1, <3>1, <3>2, <3>3
  <2>3. CASE ~(w.phase + 1 \in 1 .. LastPhase(t))
    <3>1. x.step = "report"
      BY <1>4, <1>12, <2>3 DEF Enters
    <3>2. w.phase = LastPhase(t) /\ LastPhase(t) > 0
      BY <1>6, <1>7, <2>3
    <3>3. w.at = Len(Content[t])
      BY <2>1, <3>2, PhaseBounds
    <3>4. \A i \in 1 .. Len(Content[t]) :
            objs'[Content[t][i]].exists /\ objs'[Content[t][i]].controller = x.uid
      BY <1>5, <1>9, <3>3
    <3> QED BY <1>3, <1>4, <1>5, <3>1, <3>4 DEF Built, Owns
  <2> QED BY <2>2, <2>3
<1>13. CASE x.step = "report" /\ ~x.ok
  BY <1>3, <1>13 DEF Built
<1> QED BY <1>5, <1>11, <1>12, <1>13

LEMMA BuiltStep ==
    ASSUME OrderInvariant, TypeOK', [Next]_vars, Undisturbed
    PROVE  Built'
<1>1. /\ TypeOK /\ TeardownInvariant /\ MaxDrift = 0
      /\ worker \in WorkerRecord /\ worker.phase - 1 \in Int
      /\ worker.read.template \in Templates
  BY WorkerTypes DEF OrderInvariant, Lineage, TeardownInvariant, Undisturbed
<1>2. CASE worker' = worker /\ ~ReconcileObject
  <2> DEFINE t == worker.read.template
  <2>1. ASSUME NEW i \in 1 .. Len(Content[t]), worker.step # "idle", ~Retired(worker.read),
               Owns(worker.uid, Content[t][i])
        PROVE  Owns(worker.uid, Content[t][i])'
    <3>1. /\ objs'[Content[t][i]].exists
          /\ objs'[Content[t][i]].controller = worker.uid
      BY <1>1, <2>1, WorkedOnStays
    <3> QED BY <1>2, <3>1 DEF Owns
  <2>2. CASE worker.step = "reconcile"
    <3>1. ~Retired(worker.read)
      BY <1>1, <2>2 DEF TeardownInvariant, TornDown
    <3>2. PICK s \in Templates : s = t
      BY <1>1
    <3>3. worker.at \in 1 .. Len(Content[s]) /\ Len(Content[s]) \in Nat
      BY <1>1, <2>2, <3>2, WorkerPlace, PhaseBounds
    <3>4. \A i \in 1 .. worker.at - 1 : i \in 1 .. Len(Content[t])
      BY <3>2, <3>3
    <3>5. \A i \in 1 .. worker.at - 1 : Owns(worker.uid, Content[t][i])
      BY <2>2 DEF OrderInvariant, Built
    <3>6. \A i \in 1 .. worker.at - 1 : Owns(worker.uid, Content[t][i])'
      BY <2>1, <2>2, <3>1, <3>4, <3>5
    <3> QED BY <1>2, <2>2, <3>6 DEF Built
  <2>3. CASE worker.step = "report" /\ worker.ok /\ ~Retired(worker.read)
    <3>1. \A i \in 1 .. Len(Content[t]) : Owns(worker.uid, Content[t][i])
      BY <2>3 DEF OrderInvariant, Built
    <3>2. \A i \in 1 .. Len(Content[t]) : Owns(worker.uid, Content[t][i])'
      BY <2>1, <2>3, <3>1
    <3> QED BY <1>2, <2>3, <3>2 DEF Built
  <2> QED BY <1>2, <2>2, <2>3 DEF Built, Retired
<1>3. CASE worker' = Idle
  BY <1>3 DEF Idle, Built
<1>4. ASSUME NEW u \in Sets, BeginReconcile(u)
      PROVE  Built'
  <2>1. PICK s \in SetRecord : \/ worker' = StartTeardown(u, s) /\ Retired(s)
                               \/ worker' = StartReconcile(u, s)
    BY <1>1, <1>4, BeginEffect
  <2>2. PICK x : x = worker'
    OBVIOUS
  <2>3. s.template \in Templates
    BY DEF SetRecord
  <2>4. x.read = s
    BY <1>1, <2>1, <2>2, StartEffect
  <2>5. CASE x = StartTeardown(u, s) /\ Retired(s)
    <3>1. x.step # "reconcile"
      BY <1>1, <2>5, StartKeeps
    <3> QED BY <2>2, <2>4, <2>5, <3>1 DEF Built, Retired
  <2>6. CASE x = StartReconcile(u, s)
    <3>1. CASE LastPhase(s.template) > 0
      <4>1. 1 \in 1 .. LastPhase(s.template)
        BY <2>3, <3>1, PhaseBounds
      <4>2. x.step = "reconcile" /\ x.at = 1
        BY <1>1, <2>3, <2>6, <3>1, <4>1, StartEffect, PhaseBounds
      <4>3. 1 .. x.at - 1 = {}
        BY <4>2
      <4> QED BY <2>2, <4>2, <4>3 DEF Built
    <3>2. CASE LastPhase(s.template) = 0
      <4>1. x.step = "report" /\ 1 .. Len(Content[s.template]) = {}
        BY <1>1, <2>3, <2>6, <3>2, StartEffect, PhaseBounds
      <4> QED BY <2>2, <2>4, <4>1 DEF Built
    <3> QED BY <2>3, <3>1, <3>2, PhaseBounds
  <2> QED BY <2>1, <2>2, <2>5, <2>6
<1>5. CASE \E good : ReconcileObject /\ worker' = AfterObject(worker, good, worker.phase + 1)
  BY <1>5, BuiltGoes
<1>6. CASE TeardownObject
  <2>1. worker.step = "teardown" /\ Retired(worker.read)
    BY <1>6 DEF TeardownObject, OrderInvariant, RetirementSpreads
  <2>2. PICK good : worker' = AfterObject(worker, good, worker.phase - 1)
    BY <1>6 DEF TeardownObject
  <2>3. worker'.step \in {"teardown", "report"} /\ worker'.read = worker.read
    BY <1>1, <2>1, <2>2, AfterObjectKeeps
  <2> QED BY <2>1, <2>3 DEF Built, Retired
<1> QED BY <1>2, <1>3, <1>4, <1>5, <1>6, WorkerSteps

-----------------------------------------------------------------------------
(* The order of the phases.                                                *)
LEMMA PhasesAscend ==
    ASSUME NEW t \in Templates, NEW p \in 1 .. LastPhase(t), NEW q \in 1 .. LastPhase(t), q < p
    PROVE  PhaseEnds[t][q] < PhaseStart(t, p)
<1>1. /\ PhaseEnds[t] \in Seq(Nat)
      /\ \A k \in 1 .. Len(PhaseEnds[t]) : \A m \in 1 .. k - 1 :
           PhaseEnds[t][m] < PhaseEnds[t][k]
  BY TemplateAssumption
<1>2. LastPhase(t) = Len(PhaseEnds[t]) /\ LastPhase(t) \in Nat
  BY <1>1 DEF LastPhase
<1>3. p - 1 \in 1 .. LastPhase(t) /\ p > 1 /\ q \in Nat
  BY <1>2
<1>4. PhaseEnds[t][p - 1] \in Nat /\ PhaseEnds[t][q] \in Nat
  BY <1>3, PhaseBounds
<1>5. PhaseStart(t, p) = PhaseEnds[t][p - 1] + 1
  BY <1>3, PhaseBounds
<1>6. q = p - 1 \/ q \in 1 .. (p - 1) - 1
  BY <1>3
<1>7. q = p - 1 \/ PhaseEnds[t][q] < PhaseEnds[t][p - 1]
  BY <1>1, <1>2, <1>3, <1>6
<1> QED BY <1>4, <1>5, <1>7

\* p is after q if it begins after an object of q
LEMMA LaterPhase ==
    ASSUME NEW t \in Templates, NEW p \in 1 .. LastPhase(t), NEW q \in 1 .. LastPhase(t),
           NEW i \in PhaseStart(t, q) .. PhaseEnds[t][q], i < PhaseStart(t, p),
           NEW j \in PhaseStart(t, p) .. PhaseEnds[t][p]
    PROVE  j > PhaseEnds[t][q]
<1>1. /\ PhaseEnds[t][p] \in Nat /\ PhaseStart(t, p) \in 1 .. PhaseEnds[t][p]
      /\ PhaseEnds[t][q] \in Nat /\ PhaseStart(t, q) \in 1 .. PhaseEnds[t][q]
      /\ LastPhase(t) \in Nat
  BY PhaseBounds
<1>2. p # q
  BY <1>1
<1>3. ~(p < q)
  BY <1>1, PhasesAscend
<1>4. q < p
  BY <1>1, <1>2, <1>3
<1>5. PhaseEnds[t][q] < PhaseStart(t, p)
  BY <1>4, PhasesAscend
<1> QED BY <1>1, <1>5

LEMMA OnePlace ==
    ASSUME NamedOnce, NEW s \in Templates, NEW t \in Templates,
           NEW i \in 1 .. Len(Content[s]), NEW j \in 1 .. Len(Content[t]),
           Content[s][i] = Content[t][j]
    PROVE  s = t /\ i = j
BY DEF NamedOnce

LEMMA InOrderStep ==
    ASSUME OrderInvariant, TypeOK', [Next]_vars, Undisturbed, NamedOnce
    PROVE  InOrder'
<1>1. /\ TypeOK /\ TeardownInvariant /\ ObjectsHeld /\ RetirementSpreads
      /\ CopiesBelong /\ NothingPaused
      /\ MaxUserEdits = 0 /\ MaxDrift = 0
  BY DEF OrderInvariant, Lineage, TeardownInvariant, Undisturbed
<1> SUFFICES ASSUME NEW u \in Sets, sets'[u].exists,
                    NEW t, t = sets'[u].template,
                    NEW p \in 1 .. LastPhase(t),
                    NEW j \in PhaseStart(t, p) .. PhaseEnds[t][p],
                    Owns(u, Content[t][j])',
                    NEW i \in 1 .. PhaseStart(t, p) - 1
             PROVE  objs'[Content[t][i]].exists /\ ~objs'[Content[t][i]].dying
  BY DEF InOrder, LastPhase, PhaseStart
<1>2. t \in Templates
  BY DEF TypeOK, SetRecord
<1>3. /\ PhaseEnds[t][p] \in 1 .. Len(Content[t]) /\ PhaseStart(t, p) \in 1 .. PhaseEnds[t][p]
      /\ Len(Content[t]) \in Nat /\ Content[t] \in Seq(Objects)
  BY <1>2, PhaseBounds
<1>4. j \in 1 .. Len(Content[t]) /\ i \in 1 .. Len(Content[t]) /\ i < j
  BY <1>3
<1>5. PICK late \in Objects : late = Content[t][j] /\ Names(t, late)
  BY <1>3, <1>4 DEF Names, Range
<1>6. PICK early \in Objects : early = Content[t][i] /\ Names(t, early)
  BY <1>3, <1>4 DEF Names, Range
<1>7. Owns(u, late) \/ (Takes(late) /\ worker.uid = u)
  <2>1. Owns(u, late)'
    BY <1>5 DEF Owns
  <2> QED BY <1>1, <2>1, OwnsSteps
<1>8. sets[u].exists /\ sets[u].template = t
  <2>1. ~Arrives(u)
    <3>1. Owns(u, late) => ~(u > created)
      BY <1>1 DEF TeardownInvariant, CopyAgrees, Owns
    <3>2. Takes(late) /\ worker.uid = u => ~(u > created)
      BY <1>1 DEF TeardownInvariant, CopyAgrees, WorksOn, Takes
    <3>3. Arrives(u) => u > created
      BY <1>1, BoundAssumption DEF Arrives, TypeOK, Sets
    <3> QED BY <1>7, <3>1, <3>2, <3>3
  <2> QED BY <1>1, <2>1, AlterSteps DEF Alters, Vanishes
<1>9. sets[u] \in Copies(u)
  BY <1>8 DEF Copies
<1>10. CASE Takes(late) /\ worker.uid = u
  <2>1. /\ worker.step = "reconcile" /\ worker.read \in Copies(u) /\ ~Retired(worker.read)
        /\ late = Content[worker.read.template][worker.at]
    BY <1>1, <1>10 DEF Takes, Copies, WorksOn, RetirementSpreads, TeardownInvariant, TornDown
  <2>2. worker.read.template = t
    BY <1>1, <1>8, <1>9, <2>1 DEF CopiesBelong
  <2>3. worker.at \in 1 .. Len(Content[t])
    BY <1>1, <2>1, <2>2, WorkerPlace
  <2>4. worker.at = j
    <3>1. PICK m : m = worker.at
      OBVIOUS
    <3>2. Content[t][m] = Content[t][j] /\ m \in 1 .. Len(Content[t])
      BY <1>5, <2>1, <2>2, <2>3, <3>1
    <3> QED BY <1>2, <1>4, <3>1, <3>2, OnePlace
  <2>5. i \in 1 .. worker.at - 1
    BY <1>4, <2>3, <2>4
  <2>6. Owns(u, early)
    BY <1>6, <1>10, <2>1, <2>2, <2>5 DEF OrderInvariant, Built
  <2>7. ~objs[early].dying
    BY <1>4, <1>6, <2>1, <2>2, WorkedOnLives
  <2>8. ~Kills(early)
    BY <2>1 DEF Kills, TeardownObject
  <2> QED BY <1>1, <1>6, <2>6, <2>7, <2>8, ObjectLife DEF Owns
<1>11. CASE Owns(u, late)
  <2>1. objs[early].exists /\ ~objs[early].dying
    BY <1>5, <1>6, <1>8, <1>11 DEF OrderInvariant, InOrder
  <2>2. ~Kills(early)
    <3> SUFFICES ASSUME Kills(early) PROVE FALSE
      OBVIOUS
    <3>1. worker.step = "teardown" /\ worker.uid \in Sets
          /\ early = Content[worker.read.template][worker.at]
      BY <1>1 DEF Kills, TeardownObject, TeardownInvariant
    <3>2. PICK v \in Sets : v = worker.uid
      BY <3>1
    <3>3. PICK s \in Templates : s = worker.read.template
      BY <1>1, WorkerTypes
    <3>4. worker.at \in 1 .. Len(Content[s]) /\ Names(s, early)
      BY <1>1, <3>1, <3>3, WorkerPlace
    <3>5. s = t /\ worker.at = i
      <4>1. PICK m : m = worker.at
        OBVIOUS
      <4>2. Content[s][m] = Content[t][i] /\ m \in 1 .. Len(Content[s])
        BY <1>6, <3>1, <3>3, <3>4, <4>1
      <4> QED BY <1>2, <1>4, <4>1, <4>2, OnePlace
    <3>6. worker.read \in Copies(v)
      BY <1>1, <3>1, <3>2 DEF Copies, WorksOn, RetirementSpreads
    <3>7. v = u
      BY <1>8, <1>9, <3>3, <3>5, <3>6 DEF OrderInvariant, OnePerTemplate
    <3>8. PICK q : q = worker.phase
      OBVIOUS
    <3>9. q \in 1 .. LastPhase(t) /\ i \in PhaseStart(t, q) .. PhaseEnds[t][q]
      BY <1>1, <3>1, <3>3, <3>5, <3>8 DEF TeardownInvariant, Positioned
    <3>10. i < PhaseStart(t, p)
      BY <1>3
    <3>11. j > PhaseEnds[t][q]
      BY <1>2, <3>9, <3>10, LaterPhase
    <3>12. Spared(j)
      BY <1>1, <1>4, <3>1, <3>3, <3>5, <3>8, <3>11 DEF TeardownInvariant, TornDown
    <3>13. IsObjectPaused(worker.read, late)
      BY <1>5, <1>11, <3>2, <3>3, <3>5, <3>7, <3>12 DEF Spared
    <3> QED BY <1>1, <1>5, <3>3, <3>5, <3>6, <3>13 DEF NothingPaused
  <2> QED BY <1>1, <1>6, <2>1, <2>2, ObjectLife
<1> QED BY <1>7, <1>10, <1>11

-----------------------------------------------------------------------------
LEMMA OrderInit == Init => OrderInvariant
<1> SUFFICES ASSUME Init PROVE OrderInvariant
  OBVIOUS
<1>1. TeardownInvariant /\ PauseInvariant
  BY TeardownInit, PauseInit
<1>2. /\ worker.step = "idle"
      /\ \A u \in Sets : ~sets[u].exists /\ ~cache[u].exists
      /\ \A o \in Objects : objs[o].controller = 0 /\ ~objs[o].dying
  BY DEF Init, NoSet, Idle, Absent
<1>3. \A u \in Sets : Copies(u) = {}
  BY <1>2 DEF Copies, WorksOn
<1> QED
  BY <1>1, <1>2, <1>3 DEF OrderInvariant, Lineage, CopiesBelong, NothingPaused,
     OnePerTemplate, ObjectsHeld, DyingIsPast, RetirementSpreads, WorksOn, Built, InOrder

LEMMA OrderNext ==
    ASSUME OrderInvariant, [Next]_vars, Undisturbed, NamedOnce, NeverRepeats
    PROVE  OrderInvariant'
<1>1. TeardownInvariant' /\ TypeOK'
  BY TeardownNext DEF OrderInvariant, Lineage, TeardownInvariant
<1>2. PauseInvariant'
  BY PauseNext DEF OrderInvariant, Lineage, TeardownInvariant, Undisturbed
<1>3. CopiesBelong' /\ NothingPaused' /\ OnePerTemplate'
  BY <1>1, CopiesBelongStep, NothingPausedStep, OnePerTemplateStep
  DEF OrderInvariant, Undisturbed
<1>4. ObjectsHeld' /\ DyingIsPast' /\ RetirementSpreads'
  BY <1>1, ObjectsHeldStep, DyingIsPastStep, RetirementSpreadsStep
<1>5. Built' /\ InOrder'
  BY <1>1, BuiltStep, InOrderStep
<1> QED BY <1>1, <1>2, <1>3, <1>4, <1>5 DEF OrderInvariant, Lineage

(* PhaseReconciler brings up one phase after the other and                 *)
(* TeardownPhase goes back in reverse: for any templates without a common  *)
(* object, any hashes, name collisions, failures and lag of the cache, and *)
(* although several ObjectSets are built up and torn down at once, what a  *)
(* later phase has is never left without the phases before it.             *)
THEOREM PhasesStayInOrder ==
    ASSUME Undisturbed, NamedOnce, NeverRepeats
    PROVE  Spec => []PhasesInOrder
<1>1. OrderInvariant /\ [Next]_vars => OrderInvariant'
  BY OrderNext
<1>2. OrderInvariant => PhasesInOrder
  <2> SUFFICES ASSUME OrderInvariant, NEW u \in Sets, sets[u].exists,
                      NEW t, t = sets[u].template, NEW p \in 2 .. LastPhase(t),
                      NEW j \in PhaseStart(t, p) .. PhaseEnds[t][p],
                      Owns(u, Content[t][j]), NEW i \in 1 .. PhaseStart(t, p) - 1
               PROVE  objs[Content[t][i]].exists /\ ~objs[Content[t][i]].dying
    BY DEF PhasesInOrder
  <2>1. t \in Templates
    BY DEF OrderInvariant, Lineage, TeardownInvariant, TypeOK, SetRecord
  <2>2. p \in 1 .. LastPhase(t)
    BY <2>1, PhaseBounds
  <2> QED BY <2>2 DEF OrderInvariant, InOrder
<1> QED BY <1>1, <1>2, OrderInit, PTL DEF Spec

-----------------------------------------------------------------------------
(* What a concluded update means.                                          *)

(* ComputeHash tells the templates apart, whatever the collision counts.   *)
HashesTell ==
    \A s, t \in Templates, m, n \in 0 .. MaxCollisions : Hash[s][m] = Hash[t][n] => s = t

(* ObjectSet u has all the objects of the deployment's template.           *)
Complete(u) ==
    \A i \in 1 .. Len(Content[Template]) : Owns(u, Content[Template][i])

HashesKnown ==
    \A u \in Sets : \A s \in Copies(u) :
      \E m \in 0 .. MaxCollisions : s.hash = Hash[s.template][m]

(* A copy of the current template that shows or showed the ObjectSet       *)
(* available tells that it is complete.                                    *)
AvailableIsComplete ==
    \A u \in Sets : \A s \in Copies(u) :
      s.template = Template /\ s.available # "False" => Complete(u)

Concluded ==
    /\ deployment.concluded <= edit
    /\ deployment.concluded = edit =>
         /\ seen = edit
         /\ \E u \in Sets :
              /\ sets[u].exists /\ sets[u].template = Template
              /\ Complete(u)
              /\ \A v \in Sets \ {u} : sets[v].exists => Retired(sets[v])

ConclusionInvariant ==
    /\ OrderInvariant
    /\ HashesKnown
    /\ AvailableIsComplete
    /\ Concluded

LEMMA HashesKnownStep ==
    ASSUME Lineage, HashesKnown, [Next]_vars, MaxUserEdits = 0
    PROVE  HashesKnown'
<1>1. TypeOK /\ TeardownInvariant
  BY DEF Lineage, TeardownInvariant
<1>2. ASSUME NEW u \in Sets, NEW s \in Copies(u)'
      PROVE  \E m \in 0 .. MaxCollisions : s.hash = Hash[s.template][m]
  <2>1. CASE \E r \in Copies(u) : Alters(u, r, s)
    <3>1. PICK r \in Copies(u) : Alters(u, r, s)
      BY <2>1
    <3> QED BY <3>1 DEF HashesKnown, Alters
  <2>2. CASE Arrives(u) /\ s = sets'[u]
    <3>1. s.template = Template /\ s.hash = TemplateHash
      BY <1>1, <2>2, NoCopyArrives
    <3>2. deployment.collisionCount \in 0 .. MaxCollisions
      BY <1>1 DEF TypeOK, DeploymentStatus
    <3> QED BY <3>1, <3>2 DEF TemplateHash
  <2> QED BY <1>1, <1>2, <2>1, <2>2, CopySteps
<1> QED BY <1>2 DEF HashesKnown

LEMMA TemplateIs ==
    ASSUME TypeOK
    PROVE  \E t \in Templates : t = Template
BY TemplateTypes

\* what the cache lists as current is of the deployment's template
LEMMA CurrentIsOfTemplate ==
    ASSUME TypeOK, HashesKnown, HashesTell, NEW v \in Current
    PROVE  v \in Sets /\ cache[v] \in Copies(v) /\ cache[v].template = Template
<1>1. v \in Sets /\ cache[v].exists /\ cache[v].hash = TemplateHash
  BY DEF Current, Listed
<1>2. cache[v] \in Copies(v)
  BY <1>1 DEF Copies
<1>3. PICK m \in 0 .. MaxCollisions : cache[v].hash = Hash[cache[v].template][m]
  BY <1>1, <1>2 DEF HashesKnown
<1>4. PICK n \in 0 .. MaxCollisions : TemplateHash = Hash[Template][n]
  BY DEF TemplateHash, TypeOK, DeploymentStatus
<1>5. PICK t \in Templates : t = Template
  BY TemplateIs
<1>6. PICK s \in Templates : s = cache[v].template
  BY <1>1, <1>2, CopyTypes
<1>7. Hash[s][m] = Hash[t][n]
  BY <1>1, <1>3, <1>4, <1>5, <1>6
<1> QED BY <1>1, <1>2, <1>5, <1>6, <1>7 DEF HashesTell

(* An ObjectSet of the current template keeps the objects it has.          *)
LEMMA CurrentKeeps ==
    ASSUME OrderInvariant, [Next]_vars, Undisturbed, NamedOnce,
           NEW u \in Sets, NEW r \in Copies(u), r.template = Template,
           NEW i \in 1 .. Len(Content[Template]),
           Owns(u, Content[Template][i])
    PROVE  objs'[Content[Template][i]].exists /\ objs'[Content[Template][i]].controller = u
<1>1. TypeOK /\ TeardownInvariant /\ MaxDrift = 0 /\ u # 0
  BY DEF OrderInvariant, Lineage, TeardownInvariant, Undisturbed, Sets
<1>2. PICK t \in Templates : t = Template
  BY <1>1, TemplateIs
<1>3. Content[t] \in Seq(Objects)
  BY PhaseBounds
<1>4. PICK o \in Objects : o = Content[t][i] /\ Names(t, o)
  BY <1>2, <1>3 DEF Names, Range
<1>5. ~objs[o].dying
  <2>1. seen \in seen .. Len(edits)
    BY <1>1, TemplateTypes DEF TypeOK
  <2> QED BY <1>2, <1>4, <2>1 DEF OrderInvariant, DyingIsPast, Template
<1>6. ASSUME Takes(o) PROVE worker.uid = u
  <2>1. worker.step = "reconcile" /\ o = Content[worker.read.template][worker.at]
    BY <1>6 DEF Takes
  <2>2. worker.read.template \in Templates /\ worker.uid \in Sets
        /\ Names(worker.read.template, o)
    BY <1>1, <2>1, WorkerPlace
  <2>3. PICK s \in Templates : s = worker.read.template
    BY <2>2
  <2>4. worker.read.template = t
    BY <1>4, <2>2, <2>3, NamedByOne
  <2>5. PICK v \in Sets : v = worker.uid
    BY <2>2
  <2>6. worker.read \in Copies(v)
    BY <2>1, <2>5 DEF OrderInvariant, RetirementSpreads, Copies, WorksOn
  <2> QED BY <1>2, <2>4, <2>5, <2>6 DEF OrderInvariant, OnePerTemplate
<1>7. Owns(u, o)'
  BY <1>1, <1>2, <1>4, <1>5, <1>6, OwnedStays
<1> QED BY <1>2, <1>4, <1>7 DEF Owns

LEMMA CompleteStays ==
    ASSUME OrderInvariant, [Next]_vars, Undisturbed, NamedOnce,
           NEW u \in Sets, NEW r \in Copies(u), r.template = Template,
           Complete(u), Template' = Template
    PROVE  Complete(u)'
<1>1. \A i \in 1 .. Len(Content[Template]) :
        objs'[Content[Template][i]].exists /\ objs'[Content[Template][i]].controller = u
  BY CurrentKeeps DEF Complete
<1>2. PICK t : t = Template
  OBVIOUS
<1> QED BY <1>1, <1>2 DEF Complete, Owns

LEMMA TemplateStays ==
    ASSUME Lineage, TypeOK', [Next]_vars, NeverRepeats,
           NEW u \in Sets, NEW r \in Copies(u), r.template = Template'
    PROVE  seen' = seen /\ Template' = Template
<1>1. /\ edits' = edits /\ edits \in Histories /\ Len(edits) \in Nat
      /\ seen \in 1 .. Len(edits) /\ seen' \in 1 .. Len(edits) /\ seen <= seen'
  BY SeenSteps DEF Lineage, TeardownInvariant
<1>2. PICK k \in 1 .. seen : r.template = edits[k]
  BY DEF Lineage, CopiesBelong
<1>3. seen' = seen
  BY <1>1, <1>2 DEF NeverRepeats, Template
<1> QED BY <1>1, <1>3 DEF Template

LEMMA AvailableIsCompleteStep ==
    ASSUME OrderInvariant, AvailableIsComplete, TypeOK', [Next]_vars,
           Undisturbed, NamedOnce, NeverRepeats
    PROVE  AvailableIsComplete'
<1>1. TypeOK /\ TeardownInvariant /\ MaxUserEdits = 0
  BY DEF OrderInvariant, Lineage, TeardownInvariant, Undisturbed
<1>2. ASSUME NEW u \in Sets, NEW s \in Copies(u)',
             s.template = Template', s.available # "False"
      PROVE  Complete(u)'
  <2>1. PICK r \in Copies(u) : Alters(u, r, s)
    BY <1>1, <1>2, CopySteps, NoCopyArrives
  <2>2. r.template = Template' /\ (r.available # "False" \/ Confirms(u))
    BY <1>2, <2>1 DEF Alters
  <2>3. Template' = Template
    BY <2>2, TemplateStays DEF OrderInvariant
  <2>4. CASE r.available # "False"
    <3>1. Complete(u)
      BY <2>2, <2>3, <2>4 DEF AvailableIsComplete
    <3> QED BY <2>2, <2>3, <3>1, CompleteStays
  <2>5. CASE Confirms(u)
    <3>1. /\ worker.step = "report" /\ worker.uid = u /\ worker.ok /\ ~Retired(worker.read)
          /\ worker.read \in Copies(u)
      BY <2>5 DEF Confirms, OrderInvariant, RetirementSpreads, Copies, WorksOn
    <3>2. worker.read.template = Template
      BY <2>2, <2>3, <3>1 DEF OrderInvariant, Lineage, CopiesBelong
    <3>3. Complete(u)
      BY <3>1, <3>2 DEF OrderInvariant, Built, Complete
    <3> QED BY <2>2, <2>3, <3>3, CompleteStays
  <2> QED BY <2>2, <2>4, <2>5
<1> QED BY <1>2 DEF AvailableIsComplete

(* What a reconcile of the deployment does with the condition.             *)
LEMMA ConcludeSteps ==
    ASSUME TypeOK, [Next]_vars
    PROVE  \/ deployment'.concluded = deployment.concluded
           \/ edit' = edit /\ seen' = seen /\ seen = edit /\ deployment'.concluded = 0
           \/ /\ KeepRevision /\ CurrentAvailable
              /\ edit' = edit /\ seen' = seen /\ seen = edit /\ deployment'.concluded = seen
              /\ \E c \in ByRevision(Outdated) :
                   sets' = AfterCleanup(AfterPause(Outdated), c, Len(c))
<1> DEFINE concluded == deployment.concluded
           Status(h, a, k) == [deployment EXCEPT !.hash = h, !.available = a, !.concluded = k]
<1>1. \A h, k : /\ [deployment EXCEPT !.hash = h].concluded = concluded
                /\ [deployment EXCEPT !.hash = h, !.collisionCount = k].concluded = concluded
  BY DEF TypeOK, DeploymentStatus
<1>2. \A h, a, k : Status(h, a, k).concluded = k
  BY DEF TypeOK, DeploymentStatus
<1>3. CASE WaitForPause
  BY <1>1, <1>3, Zenon DEF WaitForPause, UpdateStatus
<1>4. CASE CountCollision
  <2>1. UpdateStatus([deployment EXCEPT !.hash = TemplateHash,
                                        !.collisionCount = deployment.collisionCount + 1])
    BY <1>4, Zenon DEF CountCollision
  <2>2. PICK h : h = TemplateHash
    OBVIOUS
  <2>3. PICK k : k = deployment.collisionCount + 1
    OBVIOUS
  <2>4. UpdateStatus([deployment EXCEPT !.hash = h, !.collisionCount = k])
    BY <2>1, <2>2, <2>3, Zenon
  <2> QED BY <1>1, <2>4, Zenon DEF UpdateStatus
<1>5. ASSUME NEW s, Deprecate(s)
      PROVE  \/ deployment' = deployment
             \/ /\ seen = edit
                /\ deployment'.concluded = IF CurrentAvailable THEN seen ELSE 0
                /\ \E c \in ByRevision(IF SomeAvailable(s) THEN ForCleanup(s) ELSE {}) :
                     sets' = AfterCleanup(s, c, Len(c))
  <2>1. \/ deployment' = deployment
        \/ /\ UpdateStatus(Status(TemplateHash, SomeAvailable(s),
                                  IF CurrentAvailable THEN seen ELSE 0))
           /\ \E c \in ByRevision(IF SomeAvailable(s) THEN ForCleanup(s) ELSE {}) :
                sets' = AfterCleanup(s, c, Len(c))
    BY <1>5, Zenon DEF Deprecate
  <2>2. Status(TemplateHash, SomeAvailable(s), IF CurrentAvailable THEN seen ELSE 0).concluded
          = IF CurrentAvailable THEN seen ELSE 0
    <3>1. PICK h : h = TemplateHash
      OBVIOUS
    <3>2. PICK a : a = SomeAvailable(s)
      OBVIOUS
    <3>3. PICK k : k = IF CurrentAvailable THEN seen ELSE 0
      OBVIOUS
    <3>4. Status(h, a, k).concluded = k
      BY <1>2
    <3> QED BY <3>1, <3>2, <3>3, <3>4, Zenon
  <2> HIDE DEF Status
  <2> QED BY <2>1, <2>2 DEF UpdateStatus
<1>6. CASE CreateRevision
  <2>1. ~CurrentAvailable /\ edit' = edit /\ seen' = seen
    BY <1>6 DEF CreateRevision, CurrentAvailable
  <2>2. PICK s : Deprecate(s)
    BY <1>6 DEF CreateRevision
  <2> QED BY <1>5, <2>1, <2>2
<1>7. CASE KeepRevision
  <2>1. edit' = edit /\ seen' = seen /\ Deprecate(AfterPause(Outdated))
    BY <1>7 DEF KeepRevision
  <2>2. CurrentAvailable => /\ SomeAvailable(AfterPause(Outdated))
                            /\ ForCleanup(AfterPause(Outdated)) = Outdated
    BY DEF SomeAvailable, ForCleanup
  <2> QED BY <1>5, <1>7, <2>1, <2>2
<1>8. ~WaitForPause /\ ~KeepRevision /\ ~CreateRevision /\ ~CountCollision =>
        deployment' = deployment
  BY DEF Next, ObjectDeploymentNext, FailToPause, ObjectSetNext, BeginReconcile,
     ReconcileObject, TeardownObject, FinishReconcile, AbortReconcile, Environment, SyncSets,
     SyncDeployment, ChangeTemplate, BecomeReady, Disappear, CollectGarbage, Drift, EditSet, vars
<1> QED BY <1>3, <1>4, <1>6, <1>7, <1>8

LEMMA CleanupRetires ==
    ASSUME TypeOK, NEW s \in [Sets -> SetRecord], NEW c \in ByRevision(Outdated),
           sets' = AfterCleanup(s, c, Len(c)), NEW u \in Outdated
    PROVE  sets'[u].exists => Retired(sets'[u])
<1>1. u \in Sets /\ Outdated \in SUBSET Sets
  BY ListedSets
<1>2. PICK i \in 1 .. Len(c) : c[i] = u
  BY <1>1, ByRevisionIndexes
<1>3. sets'[u] \in {Delete(s[u]), SetArchived(s[u])}
  BY <1>1, <1>2 DEF AfterCleanup
<1>4. s[u] \in SetRecord /\ SpecChanged(s[u]) \in SetRecord
  BY <1>1, SetUpdates
<1>5. Retired(SetArchived(s[u]))
  BY <1>4 DEF SetArchived, Retired, SetRecord
<1>6. ~Delete(s[u]).exists \/ Retired(Delete(s[u]))
  BY <1>4, NoSetType DEF Delete, Removed, NoSet, Retired, SetRecord
<1> QED BY <1>3, <1>5, <1>6

\* A complete ObjectSet of the current template stays, and no other arrives.
LEMMA CurrentStays ==
    ASSUME OrderInvariant, TypeOK', [Next]_vars, Undisturbed, NamedOnce,
           NEW u \in Sets, sets[u].exists, sets[u].template = Template,
           Complete(u), Template' = Template
    PROVE  /\ sets'[u].exists /\ sets'[u].template = Template'
           /\ Complete(u)'
           /\ \A v \in Sets : sets'[v].exists =>
                sets[v].exists /\ (Retired(sets[v]) => Retired(sets'[v]))
<1>1. TeardownInvariant /\ MaxUserEdits = 0
  BY DEF OrderInvariant, Lineage, Undisturbed
<1>2. sets[u] \in Copies(u)
  BY DEF Copies
<1>3. u \notin Outdated /\ ~Retired(sets[u]) /\ NameTaken
  BY <1>2, CopyIsCurrent DEF OrderInvariant
<1>4. \A v \in Sets : ~Arrives(v)
  BY <1>1, <1>3, NoCopyArrives DEF CreateRevision
<1>5. \A v \in Sets : \/ Alters(v, sets[v], sets'[v]) /\ sets'[v].exists = sets[v].exists
                      \/ Vanishes(v)
  BY <1>1, <1>4, AlterSteps
<1>6. ~Vanishes(u)
  BY <1>3 DEF Vanishes, Leaves, Retired
<1>7. sets'[u].exists /\ sets'[u].template = Template'
  BY <1>5, <1>6 DEF Alters
<1>8. Complete(u)'
  BY <1>2, CompleteStays
<1>9. \A v \in Sets : sets'[v].exists =>
        sets[v].exists /\ (Retired(sets[v]) => Retired(sets'[v]))
  BY <1>5 DEF Alters, Vanishes
<1> QED BY <1>7, <1>8, <1>9

LEMMA ConcludedStep ==
    ASSUME ConclusionInvariant, TypeOK', [Next]_vars,
           Undisturbed, NamedOnce, HashesTell
    PROVE  Concluded'
<1>1. /\ OrderInvariant /\ TypeOK /\ Concluded
      /\ seen \in Nat /\ edit \in Nat /\ seen' \in Nat /\ edit' \in Nat
      /\ 1 <= edit' /\ seen' <= edit' /\ seen <= seen' /\ edit <= edit'
      /\ edit' # edit => deployment' = deployment
      /\ deployment.concluded \in Nat
  <2>1. OrderInvariant /\ TypeOK /\ Concluded
    BY DEF ConclusionInvariant, OrderInvariant, Lineage, TeardownInvariant
  <2>2. /\ edits \in Histories /\ Len(edits) \in Nat /\ edits' = edits
        /\ seen <= seen' /\ edit <= edit'
        /\ edit' # edit => deployment' = deployment
    BY <2>1, SeenSteps
  <2>3. seen \in 1 .. edit /\ edit \in 1 .. Len(edits) /\ deployment.concluded \in Nat
    BY <2>1 DEF TypeOK, DeploymentStatus
  <2>4. seen' \in 1 .. edit' /\ edit' \in 1 .. Len(edits)
    BY <2>2 DEF TypeOK
  <2> QED BY <2>1, <2>2, <2>3, <2>4
<1>2. ASSUME NEW u \in Sets, sets[u].exists, sets[u].template = Template, Complete(u),
             seen' = seen, seen' = edit', deployment'.concluded = edit',
             \A v \in Sets \ {u} : sets'[v].exists /\ sets[v].exists => Retired(sets'[v])
      PROVE  Concluded'
  <2>1. Template' = Template
    BY <1>1, <1>2, SeenSteps DEF Template
  <2>2. /\ sets'[u].exists /\ sets'[u].template = Template' /\ Complete(u)'
        /\ \A v \in Sets : sets'[v].exists => sets[v].exists
    BY <1>1, <1>2, <2>1, CurrentStays
  <2>3. \A v \in Sets \ {u} : sets'[v].exists => Retired(sets'[v])
    BY <1>2, <2>2
  <2> QED BY <1>1, <1>2, <2>2, <2>3 DEF Concluded, Retired
<1>3. CASE deployment'.concluded = deployment.concluded
  <2>1. deployment'.concluded <= edit'
    BY <1>1, <1>3 DEF Concluded
  <2>2. CASE deployment'.concluded = edit'
    <3>1. edit' = edit /\ deployment.concluded = edit
      BY <1>1, <1>3, <2>2 DEF Concluded
    <3>2. PICK u \in Sets :
            /\ sets[u].exists /\ sets[u].template = Template /\ Complete(u)
            /\ \A v \in Sets \ {u} : sets[v].exists => Retired(sets[v])
      BY <1>1, <3>1 DEF Concluded
    <3>3. seen' = seen /\ seen' = edit'
      BY <1>1, <3>1 DEF Concluded
    <3>4. Template' = Template
      BY <1>1, <3>3, SeenSteps DEF Template
    <3>5. \A v \in Sets : sets'[v].exists => (Retired(sets[v]) => Retired(sets'[v]))
      BY <1>1, <3>2, <3>4, CurrentStays
    <3> QED BY <1>2, <2>2, <3>2, <3>3, <3>5
  <2> QED BY <2>1, <2>2 DEF Concluded
<1>4. CASE edit' = edit /\ deployment'.concluded = 0
  BY <1>1, <1>4 DEF Concluded
<1>5. ASSUME CurrentAvailable, edit' = edit, seen' = seen, seen = edit,
             deployment'.concluded = seen,
             NEW c \in ByRevision(Outdated),
             sets' = AfterCleanup(AfterPause(Outdated), c, Len(c))
      PROVE  Concluded'
  <2>1. PICK u \in Current : cache[u].available # "False"
    BY <1>5 DEF CurrentAvailable
  <2>2. ASSUME NEW v \in Current
        PROVE  v \in Sets /\ cache[v] \in Copies(v) /\ cache[v].template = Template
    BY <1>1, CurrentIsOfTemplate DEF ConclusionInvariant
  <2>3. Complete(u)
    BY <2>1, <2>2 DEF ConclusionInvariant, AvailableIsComplete
  <2>4. u \in Sets /\ sets[u].exists /\ sets[u].template = Template
    BY <1>1, <2>1, <2>2, CopyIsCurrent DEF OrderInvariant
  <2>5. ASSUME NEW v \in Sets \ {u}, sets[v].exists, sets'[v].exists
        PROVE  Retired(sets'[v])
    <3>1. cache[v].exists
      BY <1>1, <2>5 DEF OrderInvariant, Lineage, PauseInvariant, Known
    <3>2. v \notin Current
      BY <1>1, <2>1, <2>2, <2>5 DEF OrderInvariant, OnePerTemplate
    <3>3. v \in Outdated
      BY <3>1, <3>2 DEF Outdated, Listed
    <3> QED BY <1>1, <1>5, <2>5, <3>3, AfterPauseType, CleanupRetires
  <2> QED BY <1>2, <1>5, <2>3, <2>4, <2>5
<1> QED BY <1>1, <1>3, <1>4, <1>5, ConcludeSteps

LEMMA ConclusionNext ==
    ASSUME ConclusionInvariant, [Next]_vars, Undisturbed, NamedOnce, NeverRepeats, HashesTell
    PROVE  ConclusionInvariant'
<1>1. OrderInvariant /\ HashesKnown /\ AvailableIsComplete
  BY DEF ConclusionInvariant
<1>2. OrderInvariant'
  BY <1>1, OrderNext
<1>3. TypeOK'
  BY <1>2 DEF OrderInvariant, Lineage, TeardownInvariant
<1>4. HashesKnown' /\ AvailableIsComplete'
  BY <1>1, <1>3, HashesKnownStep, AvailableIsCompleteStep DEF OrderInvariant, Undisturbed
<1>5. Concluded'
  BY <1>3, ConcludedStep
<1> QED BY <1>2, <1>4, <1>5 DEF ConclusionInvariant

(* updateStatus sets Progressing to False, "Update concluded.", from what  *)
(* a lagging cache shows, also after an ObjectSet reported itself available *)
(* and its copy went stale: when the deployment says so of the generation  *)
(* its spec has, the ObjectSet of that template still has all its objects  *)
(* and every other one is archived or being deleted.                       *)
THEOREM ConclusionsHold ==
    ASSUME Undisturbed, NamedOnce, NeverRepeats, HashesTell
    PROVE  Spec => []ConcludedMeansRolledOut
<1>1. Init => ConclusionInvariant
  <2> SUFFICES ASSUME Init PROVE ConclusionInvariant
    OBVIOUS
  <2>1. OrderInvariant
    BY OrderInit
  <2>2. deployment.concluded = 0 /\ edit = 1
    BY DEF Init
  <2>3. \A u \in Sets : Copies(u) = {}
    BY DEF Init, NoSet, Idle, Copies, WorksOn
  <2> QED
    BY <2>1, <2>2, <2>3 DEF ConclusionInvariant, HashesKnown, AvailableIsComplete, Concluded
<1>2. ConclusionInvariant /\ [Next]_vars => ConclusionInvariant'
  BY ConclusionNext
<1>3. ConclusionInvariant => ConcludedMeansRolledOut
  <2> SUFFICES ASSUME ConclusionInvariant, deployment.concluded = edit
               PROVE  \E u \in Sets :
                        /\ sets[u].exists
                        /\ sets[u].template = edits[edit]
                        /\ \A o \in Range(Content[edits[edit]]) : Owns(u, o)
                        /\ \A v \in Sets \ {u} : sets[v].exists => Retired(sets[v])
    BY DEF ConcludedMeansRolledOut
  <2>1. seen = edit
    BY DEF ConclusionInvariant, Concluded
  <2>2. PICK u \in Sets :
          /\ sets[u].exists /\ sets[u].template = Template /\ Complete(u)
          /\ \A v \in Sets \ {u} : sets[v].exists => Retired(sets[v])
    BY DEF ConclusionInvariant, Concluded
  <2>3. Template = edits[edit]
    BY <2>1 DEF Template
  <2>4. PICK t \in Templates : t = Template
    BY TemplateIs DEF ConclusionInvariant, OrderInvariant, Lineage, TeardownInvariant
  <2>5. \A o \in Range(Content[t]) : Owns(u, o)
    <3>1. DOMAIN Content[t] = 1 .. Len(Content[t])
      BY PhaseBounds
    <3> QED BY <2>2, <2>4, <3>1 DEF Complete, Range
  <2> QED BY <2>2, <2>3, <2>4, <2>5
<1> QED BY <1>1, <1>2, <1>3, PTL DEF Spec

-----------------------------------------------------------------------------
(* The history limit.                                                      *)
Live(s) == s.exists /\ ~s.deleting

(* The later revisions of earlier templates.                               *)
Newer(u) == {v \in Sets : v > u /\ Live(sets[v]) /\ sets[v].template # Template}

(* An ObjectSet that the cache still lists, but that is being deleted or   *)
(* gone, is beyond the limit already.                                      *)
History ==
    \A u \in Sets : cache[u].exists /\ ~Live(sets[u]) => RevisionLimit <= Cardinality(Newer(u))

HistoryInvariant == Lineage /\ HashesKnown /\ RevisionInvariant /\ History

\* the sorted list c has v beyond the limit
Pruned(c, v) == \E i \in 1 .. Len(c) : c[i] = v /\ OverLimit(c, i)

Endures(r, s) == s.exists = r.exists /\ s.deleting = r.deleting

LEMMA UpdateEndures ==
    ASSUME TypeOK, NEW s \in SetRecord
    PROVE  /\ Endures(s, Pause(s)) /\ Endures(s, SetArchived(s))
           /\ Endures(s, [s EXCEPT !.finalizer = TRUE])
           /\ \A ok \in BOOLEAN : Endures(s, Reported(s, ok))
           /\ ~Removed(s).exists /\ ~Removed(s).deleting
<1>1. SpecChanged(s) \in SetRecord /\ Endures(s, SpecChanged(s))
  BY SetUpdates, SpecChangedFields DEF Endures
<1>2. \A l : /\ Endures(s, [SpecChanged(s) EXCEPT !.pausedFor = l])
             /\ Endures(s, [SpecChanged(s) EXCEPT !.lifecycle = l])
  BY <1>1 DEF Endures, SetRecord
<1>3. Endures(s, Pause(s)) /\ Endures(s, SetArchived(s))
  BY <1>2 DEF Pause, SetArchived, Endures
<1>4. \A ok \in BOOLEAN : Endures(s, Reported(s, ok))
  BY ReportedFields DEF Endures
<1>5. Endures(s, [s EXCEPT !.finalizer = TRUE])
  BY DEF Endures, SetRecord
<1>6. ~Removed(s).exists /\ ~Removed(s).deleting
  BY NoSetType DEF Removed, NoSet, SetRecord
<1> QED BY <1>3, <1>4, <1>5, <1>6

LEMMA AfterPauseEndures ==
    ASSUME TypeOK, NEW S, NEW u \in Sets
    PROVE  Endures(sets[u], AfterPause(S)[u])
<1>1. sets[u] \in SetRecord
  BY DEF TypeOK
<1>2. AfterPause(S)[u] \in {Pause(sets[u]), sets[u]}
  BY DEF AfterPause
<1> QED BY <1>1, <1>2, UpdateEndures DEF Endures

LEMMA DeprecatePrunes ==
    ASSUME TypeOK, NEW s \in [Sets -> SetRecord], Deprecate(s)
    PROVE  \E S \in SUBSET Outdated : \E c \in ByRevision(S) : \A v \in Sets :
             Endures(s[v], sets'[v]) \/ (Pruned(c, v) /\ sets[v].exists)
<1>1. PICK S : S = IF SomeAvailable(s) THEN ForCleanup(s) ELSE {}
  OBVIOUS
<1>2. S \in SUBSET Outdated
  BY <1>1 DEF ForCleanup
<1>3. PICK c \in ByRevision(S) : \E n \in 0 .. Len(c) :
        /\ \A i \in 1 .. n : ~CleanupFails(c, i)
        /\ sets' = AfterCleanup(s, c, n)
  BY <1>1 DEF Deprecate
<1>4. PICK n \in 0 .. Len(c) :
        /\ \A i \in 1 .. n : ~CleanupFails(c, i)
        /\ sets' = AfterCleanup(s, c, n)
  BY <1>3
<1>5. Len(c) \in Nat
  BY <1>2, ListedSets, ByRevisionIndexes
<1>6. ASSUME NEW v \in Sets
      PROVE  Endures(s[v], sets'[v]) \/ (Pruned(c, v) /\ sets[v].exists)
  <2>1. CASE \E i \in 1 .. n : c[i] = v /\ OverLimit(c, i)
    <3>1. PICK i \in 1 .. n : c[i] = v /\ OverLimit(c, i)
      BY <2>1
    <3>2. sets[v].exists
      BY <1>4, <3>1 DEF CleanupFails
    <3> QED BY <1>5, <3>1, <3>2 DEF Pruned
  <2>2. CASE ~\E i \in 1 .. n : c[i] = v /\ OverLimit(c, i)
    <3>1. sets'[v] \in {s[v], SetArchived(s[v])}
      BY <1>4, <2>2 DEF AfterCleanup
    <3>2. s[v] \in SetRecord
      BY <1>6
    <3> QED BY <3>1, <3>2, UpdateEndures DEF Endures
  <2> QED BY <2>1, <2>2
<1> QED BY <1>2, <1>6

(* Only deleteObjectSetsOverLimit begins the deletion of an ObjectSet.     *)
LEMMA PruneSteps ==
    ASSUME TeardownInvariant, [Next]_vars, MaxUserEdits = 0
    PROVE  \E S \in SUBSET Outdated : \E c \in ByRevision(S) : \A v \in Sets :
             \/ Endures(sets[v], sets'[v])
             \/ Pruned(c, v) /\ sets[v].exists
             \/ Arrives(v)
             \/ Leaves(v)
<1>1. /\ TypeOK /\ \A v \in Sets : v > created => ~cache[v].exists
      /\ \A v \in Sets : sets[v] \in SetRecord
  BY DEF TeardownInvariant, CopyAgrees, TypeOK
<1>2. CASE \A v \in Sets : Endures(sets[v], sets'[v]) \/ Leaves(v)
  <2>1. << >> \in ByRevision({})
    <3>1. << >> \in [1 .. 0 -> {}]
      OBVIOUS
    <3> QED BY <3>1, FS_EmptySet DEF ByRevision, SetToSeqs
  <2> QED BY <1>2, <2>1
<1>3. CASE WaitForPause \/ FailToPause \/ CountCollision
  <2>1. PICK S : sets' = AfterPause(S)
    BY <1>3 DEF WaitForPause, FailToPause, CountCollision
  <2> QED BY <1>1, <1>2, <2>1, AfterPauseEndures
<1> DEFINE p == AfterPause(Outdated)
<1>4. p \in [Sets -> SetRecord] /\ \A v \in Sets : Endures(sets[v], p[v])
  BY <1>1, AfterPauseType, AfterPauseEndures
<1>5. CASE KeepRevision
  <2>1. Deprecate(p)
    BY <1>5 DEF KeepRevision
  <2> HIDE DEF p
  <2>2. PICK S \in SUBSET Outdated : \E c \in ByRevision(S) : \A v \in Sets :
          Endures(p[v], sets'[v]) \/ (Pruned(c, v) /\ sets[v].exists)
    BY <1>1, <1>4, <2>1, DeprecatePrunes
  <2>3. PICK c \in ByRevision(S) : \A v \in Sets :
          Endures(p[v], sets'[v]) \/ (Pruned(c, v) /\ sets[v].exists)
    BY <2>2
  <2>4. \A v \in Sets : Endures(sets[v], sets'[v]) \/ (Pruned(c, v) /\ sets[v].exists)
    BY <1>4, <2>3 DEF Endures
  <2> QED BY <2>4
<1>6. CASE CreateRevision
  <2>1. Arrives(created + 1)
    BY <1>1, <1>6, CreateGrows
  <2>2. PICK q \in ByRevision(Outdated) :
          Deprecate([p EXCEPT ![created + 1] = NewObjectSet(q)])
    BY <1>6 DEF CreateRevision
  <2> DEFINE s == [p EXCEPT ![created + 1] = NewObjectSet(q)]
  <2> HIDE DEF p
  <2>3. NewObjectSet(q) \in SetRecord
    BY <1>1, NewObjectSetType
  <2>4. s \in [Sets -> SetRecord] /\ \A v \in Sets \ {created + 1} : s[v] = p[v]
    BY <1>4, <2>3
  <2>5. Deprecate(s)
    BY <2>2
  <2> HIDE DEF s
  <2>6. PICK S \in SUBSET Outdated : \E c \in ByRevision(S) : \A v \in Sets :
          Endures(s[v], sets'[v]) \/ (Pruned(c, v) /\ sets[v].exists)
    BY <1>1, <2>4, <2>5, DeprecatePrunes
  <2>7. PICK c \in ByRevision(S) : \A v \in Sets :
          Endures(s[v], sets'[v]) \/ (Pruned(c, v) /\ sets[v].exists)
    BY <2>6
  <2>8. \A v \in Sets \ {created + 1} :
          Endures(sets[v], sets'[v]) \/ (Pruned(c, v) /\ sets[v].exists)
    BY <1>4, <2>4, <2>7 DEF Endures
  <2> QED BY <2>1, <2>8
<1>7. CASE FinishReconcile
  <2>1. worker.ok \in BOOLEAN /\ worker.step = "report"
    BY <1>1, <1>7, WorkerTypes DEF FinishReconcile
  <2>2. \/ sets' = sets
        \/ /\ worker.read.deleting /\ worker.ok /\ sets[worker.uid] = worker.read
           /\ sets' = [sets EXCEPT ![worker.uid] = Removed(sets[worker.uid])]
        \/ sets' = [sets EXCEPT ![worker.uid] = Reported(sets[worker.uid], worker.ok)]
    BY <1>7 DEF FinishReconcile
  <2>3. ASSUME NEW v \in Sets PROVE Endures(sets[v], sets'[v]) \/ Leaves(v)
    <3>1. CASE sets'[v] = sets[v]
      BY <3>1 DEF Endures
    <3>2. CASE worker.uid = v /\ sets'[v] = Reported(sets[v], worker.ok)
      BY <1>1, <2>1, <2>3, <3>2, UpdateEndures
    <3>3. CASE /\ worker.uid = v /\ sets'[v] = Removed(sets[v])
               /\ worker.read.deleting /\ worker.ok /\ sets[v] = worker.read
      BY <2>1, <3>3 DEF Leaves
    <3> QED BY <1>1, <2>2, <2>3, <3>1, <3>2, <3>3 DEF TypeOK
  <2> QED BY <1>2, <2>3
<1>8. ASSUME NEW u \in Sets, BeginReconcile(u)
      PROVE  \A v \in Sets : Endures(sets[v], sets'[v])
  <2>1. \/ sets' = sets
        \/ sets' = [sets EXCEPT ![u] = [sets[u] EXCEPT !.finalizer = TRUE]]
    BY <1>8 DEF BeginReconcile
  <2>2. \A v \in Sets : sets'[v] \in {sets[v], [sets[v] EXCEPT !.finalizer = TRUE]}
    BY <1>1, <2>1 DEF TypeOK
  <2> QED BY <1>1, <2>2, UpdateEndures DEF Endures
<1>9. CASE UNCHANGED sets
  BY <1>2, <1>9 DEF Endures
<1>10. ~\E v \in Sets : EditSet(v)
  BY <1>1 DEF EditSet, TypeOK
<1>11. \/ ReconcileObject \/ TeardownObject \/ AbortReconcile
       \/ SyncSets \/ SyncDeployment \/ ChangeTemplate \/ UNCHANGED vars
       \/ \E o \in Objects : BecomeReady(o) \/ Disappear(o) \/ CollectGarbage(o) \/ Drift(o)
       => UNCHANGED sets
  BY DEF ReconcileObject, TeardownObject, AbortReconcile, SyncSets, SyncDeployment,
     ChangeTemplate, BecomeReady, Disappear, CollectGarbage, Drift, vars
<1> QED
  BY <1>2, <1>3, <1>5, <1>6, <1>7, <1>8, <1>9, <1>10, <1>11
  DEF Next, ObjectDeploymentNext, ObjectSetNext, Environment

LEMMA NewerFinite == \A u : IsFiniteSet(Newer(u)) /\ IsFiniteSet(Newer(u)')
<1>1. IsFiniteSet(Sets)
  BY FS_Interval, BoundAssumption DEF Sets
<1>2. \A u : Newer(u) \in SUBSET Sets /\ Newer(u)' \in SUBSET Sets
  BY DEF Newer
<1> QED BY <1>1, <1>2, FS_Subset

\* the last ones of a sorted list are as many as the limit asks for
LEMMA LastOnesSuffice ==
    ASSUME NEW S \in SUBSET Sets, NEW c \in ByRevision(S), RevisionLimit < Len(c),
           NEW T, IsFiniteSet(T),
           \A j \in Len(c) - RevisionLimit + 1 .. Len(c) : c[j] \in T
    PROVE  RevisionLimit <= Cardinality(T)
<1>1. Len(c) \in Nat /\ DOMAIN c = 1 .. Len(c)
  BY ByRevisionIndexes
<1>2. RevisionLimit \in Nat
  BY BoundAssumption
<1> DEFINE K == Len(c) - RevisionLimit + 1 .. Len(c)
           f == [j \in K |-> c[j]]
<1>3. \A i, j \in DOMAIN c : i # j => c[i] # c[j]
  BY DEF ByRevision, SetToSeqs
<1>4. K \subseteq DOMAIN c
  BY <1>1, <1>2
<1>5. f \in Injection(K, T)
  BY <1>3, <1>4 DEF Injection, IsInjective
<1>6. Cardinality(K) = RevisionLimit
  BY <1>1, <1>2, FS_Interval
<1> QED BY <1>5, <1>6, FS_Injection

\* a later one of the list is a later ObjectSet
LEMMA SortedIsLater ==
    ASSUME TypeOK, RevisionInvariant, NEW S \in SUBSET Outdated, NEW c \in ByRevision(S),
           NEW i \in 1 .. Len(c), NEW j \in 1 .. Len(c), i < j
    PROVE  c[i] \in Sets /\ c[j] \in Sets /\ c[i] < c[j]
<1>1. S \in SUBSET Sets /\ DOMAIN c = 1 .. Len(c) /\ c[i] \in S /\ c[j] \in S
  BY ListedSets, ByRevisionIndexes
<1>2. cache[c[i]].exists /\ cache[c[j]].exists
  BY <1>1 DEF Outdated, Listed
<1>3. cache[c[i]].revision <= cache[c[j]].revision
  BY <1>1, ByRevisionIndexes
<1>4. c[i] # c[j]
  <2>1. \A k, l \in DOMAIN c : k # l => c[k] # c[l]
    BY DEF ByRevision, SetToSeqs
  <2> QED BY <1>1, <2>1
<1>5. \A v \in Sets : cache[v].revision \in Nat
  BY DEF TypeOK, SetRecord
<1>6. ~(c[j] < c[i])
  <2>1. PICK u \in Sets : u = c[i]
    BY <1>1
  <2>2. PICK v \in Sets : v = c[j]
    BY <1>1
  <2> QED BY <1>2, <1>3, <1>5, <2>1, <2>2 DEF RevisionInvariant
<1>7. \A u, v \in Sets : u < v \/ v < u \/ u = v
  BY BoundAssumption DEF Sets
<1> QED BY <1>1, <1>4, <1>6, <1>7

LEMMA HistoryStep ==
    ASSUME HistoryInvariant, TypeOK', [Next]_vars,
           SeesOwnCreates, MaxUserEdits = 0, NeverRepeats
    PROVE  /\ History'
           /\ \A d \in Sets : sets'[d].deleting /\ ~sets[d].deleting =>
                sets[d].exists /\ RevisionLimit <= Cardinality(Newer(d)')
<1>1. /\ TypeOK /\ Lineage /\ TeardownInvariant /\ RevisionInvariant /\ History
      /\ \A v \in Sets : /\ sets[v].exists => cache[v].exists
                         /\ v > created => ~sets[v].exists /\ ~cache[v].exists
      /\ \A v \in Sets : cache'[v] \in {cache[v], sets'[v]}
  <2>1. TypeOK /\ Lineage /\ TeardownInvariant /\ RevisionInvariant /\ History
    BY DEF HistoryInvariant, Lineage, TeardownInvariant
  <2>2. \A v \in Sets : /\ sets[v].exists => cache[v].exists
                        /\ v > created => ~sets[v].exists /\ ~cache[v].exists
    BY <2>1 DEF Lineage, PauseInvariant, Known
  <2>3. \A v \in Sets : cache'[v] \in {cache[v], sets'[v]}
    BY <2>1, <2>2, SetSteps
  <2> QED BY <2>1, <2>2, <2>3
<1>2. PICK S \in SUBSET Outdated : \E c \in ByRevision(S) : \A v \in Sets :
        \/ Endures(sets[v], sets'[v])
        \/ Pruned(c, v) /\ sets[v].exists
        \/ Arrives(v)
        \/ Leaves(v)
  BY <1>1, PruneSteps
<1>3. PICK c \in ByRevision(S) : \A v \in Sets :
        \/ Endures(sets[v], sets'[v])
        \/ Pruned(c, v) /\ sets[v].exists
        \/ Arrives(v)
        \/ Leaves(v)
  BY <1>2
<1>4. /\ S \in SUBSET Sets /\ Len(c) \in Nat /\ RevisionLimit \in Nat /\ created \in Nat
      /\ \A i \in 1 .. Len(c) : c[i] \in S
  BY <1>1, ListedSets, ByRevisionIndexes, BoundAssumption DEF TypeOK
<1>5. ASSUME NEW v \in Sets
      PROVE  /\ Arrives(v) => ~sets[v].exists /\ ~cache[v].exists /\ ~sets'[v].deleting
             /\ Leaves(v) => sets[v].deleting /\ ~sets'[v].exists /\ ~sets'[v].deleting
  <2>1. Arrives(v) => v > created
    BY <1>4 DEF Arrives
  <2>2. Leaves(v) => sets'[v] = Removed(sets[v]) /\ sets[v].deleting /\ sets[v] \in SetRecord
    BY <1>1, <1>5 DEF Leaves, TypeOK
  <2> QED BY <1>1, <2>1, <2>2, UpdateEndures DEF Arrives
<1>6. ASSUME NEW v \in Sets, sets[v].exists, sets'[v].exists, sets[v].template # Template
      PROVE  sets'[v].template # Template'
  <2>1. Alters(v, sets[v], sets'[v])
    BY <1>1, <1>5, <1>6, AlterSteps DEF Vanishes
  <2>2. sets[v] \in Copies(v) /\ sets'[v].template = sets[v].template
    BY <1>6, <2>1 DEF Copies, Alters
  <2> QED BY <1>1, <1>6, <2>2, TemplateStays
<1>7. ASSUME NEW d \in Sets, NEW v \in Sets, d < v, Newer(v) \subseteq Newer(v)',
             RevisionLimit <= Cardinality(Newer(v))
      PROVE  RevisionLimit <= Cardinality(Newer(d)')
  <2>1. Newer(v) \subseteq Newer(d)'
    <3>1. Newer(v)' \subseteq Newer(d)'
      BY <1>7 DEF Newer, Sets
    <3> QED BY <1>7, <3>1
  <2>2. Cardinality(Newer(v)) <= Cardinality(Newer(d)')
    BY <2>1, NewerFinite, FS_Subset
  <2>3. Cardinality(Newer(v)) \in Nat /\ Cardinality(Newer(d)') \in Nat
    BY NewerFinite, FS_CardinalityType
  <2> QED BY <1>4, <1>7, <2>2, <2>3
<1>8. ASSUME NEW v \in Sets, \A w \in Newer(v) : ~Pruned(c, w)
      PROVE  Newer(v) \subseteq Newer(v)'
  <2> SUFFICES ASSUME NEW w \in Newer(v) PROVE w \in Newer(v)'
    OBVIOUS
  <2>1. w \in Sets /\ w > v /\ Live(sets[w]) /\ sets[w].template # Template
    BY DEF Newer
  <2>2. Live(sets'[w])
    BY <1>3, <1>5, <1>8, <2>1 DEF Live, Endures
  <2> QED BY <1>6, <2>1, <2>2 DEF Newer, Live
<1>9. ASSUME NEW d \in Sets, Pruned(c, d)
      PROVE  RevisionLimit <= Cardinality(Newer(d)')
  <2>1. PICK i \in 1 .. Len(c) : c[i] = d /\ i <= Len(c) - RevisionLimit
    BY <1>9 DEF Pruned, OverLimit
  <2> DEFINE K == Len(c) - RevisionLimit + 1 .. Len(c)
  <2>2. \A j \in K : j \in 1 .. Len(c) /\ i < j
    BY <1>4, <2>1
  <2>3. \A j \in K : c[j] \in Sets /\ d < c[j] /\ c[j] \in Outdated
    BY <1>1, <1>4, <2>1, <2>2, SortedIsLater
  <2>4. CASE \A j \in K : Live(sets'[c[j]])
    <3>1. ASSUME NEW j \in K PROVE c[j] \in Newer(d)'
      <4>1. PICK v \in Sets : v = c[j]
        BY <2>3, <3>1
      <4>2. d < v /\ v \in Outdated /\ cache[v].exists /\ sets'[v].exists
        BY <2>3, <2>4, <3>1, <4>1 DEF Outdated, Listed, Live
      <4>3. sets[v].exists
        BY <1>3, <1>5, <4>2 DEF Endures
      <4>4. sets[v].template # Template
        BY <1>1, <4>2, <4>3, OutdatedIsPast DEF Lineage, Copies
      <4> QED BY <1>6, <2>4, <3>1, <4>1, <4>2, <4>3, <4>4 DEF Newer
    <3>2. RevisionLimit < Len(c)
      BY <1>4, <2>1
    <3> QED BY <1>4, <3>1, <3>2, NewerFinite, LastOnesSuffice
  <2>5. CASE \E j \in K : ~Live(sets'[c[j]])
    <3>1. PICK j \in K : ~Live(sets'[c[j]])
      BY <2>5
    <3>2. PICK v \in Sets : v = c[j] /\ d < v /\ cache[v].exists
      BY <2>3, <3>1 DEF Outdated, Listed
    <3>3. ASSUME NEW w \in Sets, Pruned(c, w) PROVE w < v
      <4>1. PICK k \in 1 .. Len(c) : c[k] = w /\ k <= Len(c) - RevisionLimit
        BY <3>3 DEF Pruned, OverLimit
      <4>2. j \in 1 .. Len(c) /\ k < j
        BY <1>4, <2>2, <3>1, <4>1
      <4> QED BY <1>1, <3>2, <4>1, <4>2, SortedIsLater
    <3>4. ~Live(sets[v])
      BY <1>3, <1>5, <3>1, <3>2, <3>3 DEF Live, Endures, Sets
    <3>5. RevisionLimit <= Cardinality(Newer(v))
      BY <1>1, <3>2, <3>4 DEF History
    <3>6. \A w \in Newer(v) : ~Pruned(c, w)
      BY <3>3 DEF Newer, Sets
    <3> QED BY <1>7, <1>8, <3>2, <3>5, <3>6
  <2> QED BY <2>4, <2>5
<1>10. ASSUME NEW u \in Sets, cache'[u].exists, ~Live(sets'[u])
       PROVE  RevisionLimit <= Cardinality(Newer(u)')
  <2>1. cache[u].exists
    BY <1>1, <1>3, <1>5, <1>10 DEF Live, Endures
  <2>2. CASE Pruned(c, u)
    BY <1>9, <2>2
  <2>3. CASE ~Pruned(c, u)
    <3>1. ~Live(sets[u])
      BY <1>3, <1>5, <1>10, <2>1, <2>3 DEF Live, Endures
    <3>2. RevisionLimit <= Cardinality(Newer(u))
      BY <1>1, <2>1, <3>1 DEF History
    <3>3. CASE \A w \in Newer(u) : ~Pruned(c, w)
      BY <1>4, <1>8, <3>2, <3>3, NewerFinite, FS_Subset, FS_CardinalityType
    <3>4. CASE \E w \in Newer(u) : Pruned(c, w)
      <4>1. PICK w \in Sets : w > u /\ Pruned(c, w)
        BY <3>4 DEF Newer
      <4>2. RevisionLimit <= Cardinality(Newer(w)')
        BY <1>9, <4>1
      <4>3. Newer(w)' \subseteq Newer(u)'
        BY <4>1 DEF Newer, Sets
      <4> QED BY <1>4, <4>2, <4>3, NewerFinite, FS_Subset, FS_CardinalityType
    <3> QED BY <3>3, <3>4
  <2> QED BY <2>2, <2>3
<1>11. ASSUME NEW d \in Sets, sets'[d].deleting, ~sets[d].deleting
       PROVE  sets[d].exists /\ RevisionLimit <= Cardinality(Newer(d)')
  <2>1. Pruned(c, d) /\ sets[d].exists
    BY <1>3, <1>5, <1>11 DEF Endures
  <2> QED BY <1>9, <2>1
<1> QED BY <1>10, <1>11 DEF History

LEMMA HistoryInit == Init => HistoryInvariant
<1> SUFFICES ASSUME Init PROVE HistoryInvariant
  OBVIOUS
<1>1. OrderInvariant
  BY OrderInit
<1>2. \A u \in Sets : ~cache[u].exists /\ Copies(u) = {}
  BY DEF Init, NoSet, Idle, Copies, WorksOn
<1> QED
  BY <1>1, <1>2
  DEF OrderInvariant, Lineage, PauseInvariant, HistoryInvariant, HashesKnown,
      RevisionInvariant, History

LEMMA HistoryNext ==
    ASSUME HistoryInvariant, [Next]_vars, SeesOwnCreates, MaxUserEdits = 0, NeverRepeats
    PROVE  HistoryInvariant'
<1>1. TypeOK /\ TeardownInvariant /\ PauseInvariant
  BY DEF HistoryInvariant, Lineage, TeardownInvariant
<1>2. TeardownInvariant' /\ TypeOK' /\ PauseInvariant'
  BY <1>1, TeardownNext, PauseNext DEF TeardownInvariant
<1>3. CopiesBelong' /\ HashesKnown'
  BY <1>2, CopiesBelongStep, HashesKnownStep DEF HistoryInvariant
<1>4. RevisionInvariant' /\ History'
  BY <1>1, <1>2, RevisionNext, HistoryStep DEF HistoryInvariant
<1> QED BY <1>2, <1>3, <1>4 DEF HistoryInvariant, Lineage

\* what is newer was there before, and still has an earlier template's hash
LEMMA NewerWere ==
    ASSUME HistoryInvariant, TypeOK', [Next]_vars,
           SeesOwnCreates, MaxUserEdits = 0, NeverRepeats, HashesTell,
           sets' # sets, NEW u \in Sets, sets[u].exists, NEW v \in Newer(u)'
    PROVE  /\ v \in Sets /\ sets'[v].exists /\ ~sets'[v].deleting
           /\ sets[v].revision > sets[u].revision
           /\ sets[v].hash # TemplateHash
<1>1. /\ TypeOK /\ TeardownInvariant
      /\ \A w \in Sets : sets[w].exists => cache[w].exists
      /\ \A w \in Sets : sets[w].exists => cache[w].revision = sets[w].revision
  BY DEF HistoryInvariant, Lineage, TeardownInvariant, PauseInvariant, Known, RevisionInvariant
<1>2. /\ v \in Sets /\ v > u /\ sets'[v].exists /\ ~sets'[v].deleting
      /\ sets'[v].template # Template'
  BY DEF Newer, Live
<1>3. seen' = seen /\ edits' = edits
  BY <1>1, SeenSteps
<1>4. Alters(v, sets[v], sets'[v]) /\ sets[v].exists
  <2>1. ~Arrives(v)
    BY <1>2, <1>3 DEF Arrives, Template
  <2> QED BY <1>1, <1>2, <2>1, AlterSteps DEF Vanishes
<1>5. sets[v].template # Template
  BY <1>2, <1>3, <1>4 DEF Alters, Template
<1>6. sets[v].revision > sets[u].revision
  <2>1. sets[u].revision \in Nat /\ sets[v].revision \in Nat
    BY <1>1, <1>2 DEF TypeOK, SetRecord
  <2>2. u < v
    BY <1>2 DEF Sets
  <2> QED BY <1>1, <1>2, <1>4, <2>1, <2>2 DEF HistoryInvariant, RevisionInvariant
<1>7. sets[v].hash # TemplateHash
  <2>1. PICK m \in 0 .. MaxCollisions : sets[v].hash = Hash[sets[v].template][m]
    BY <1>2, <1>4 DEF HistoryInvariant, HashesKnown, Copies
  <2>2. PICK n \in 0 .. MaxCollisions : TemplateHash = Hash[Template][n]
    BY <1>1 DEF TemplateHash, TypeOK, DeploymentStatus
  <2>3. PICK t \in Templates : t = Template
    BY <1>1, TemplateIs
  <2>4. PICK s \in Templates : s = sets[v].template
    BY <1>1, <1>2 DEF TypeOK, SetRecord
  <2> QED BY <1>5, <2>1, <2>2, <2>3, <2>4 DEF HashesTell
<1> QED BY <1>2, <1>4, <1>6, <1>7

(* deleteObjectSetsOverLimit counts on a cached list, in which ObjectSets  *)
(* may be deleted or gone already: whatever fails, drifts or collides, and *)
(* whatever the templates share, it deletes an ObjectSet only if           *)
(* RevisionLimit later ones of earlier templates stay.                     *)
THEOREM HistoryAlwaysKept ==
    ASSUME SeesOwnCreates, MaxUserEdits = 0, NeverRepeats, HashesTell
    PROVE  Spec => HistoryKept
<1> DEFINE Stay(u) == {v \in Sets : /\ sets'[v].exists /\ ~sets'[v].deleting
                                    /\ sets[v].revision > sets[u].revision
                                    /\ sets[v].hash # TemplateHash}
           Step == \A u \in Sets : sets'[u].deleting /\ ~sets[u].deleting =>
                     RevisionLimit <= Cardinality(Stay(u))
<1>1. HistoryInvariant /\ [Next]_vars => HistoryInvariant'
  BY HistoryNext
<1>2. ASSUME HistoryInvariant, [Next]_vars PROVE Step
  <2> SUFFICES ASSUME NEW u \in Sets, sets'[u].deleting, ~sets[u].deleting
               PROVE  RevisionLimit <= Cardinality(Stay(u))
    OBVIOUS
  <2>1. TypeOK' /\ sets' # sets
    BY <1>2, HistoryNext DEF HistoryInvariant, Lineage, TeardownInvariant
  <2>2. sets[u].exists /\ RevisionLimit <= Cardinality(Newer(u)')
    BY <1>2, <2>1, HistoryStep
  <2>3. Newer(u)' \subseteq Stay(u)
    <3>1. \A v \in Newer(u)' : v \in Stay(u)
      BY <1>2, <2>1, <2>2, NewerWere
    <3> QED BY <3>1
  <2>4. Stay(u) \in SUBSET Sets /\ IsFiniteSet(Sets)
    BY FS_Interval, BoundAssumption DEF Sets
  <2> HIDE DEF Stay
  <2>5. IsFiniteSet(Stay(u))
    BY <2>4, FS_Subset
  <2>6. Cardinality(Newer(u)') <= Cardinality(Stay(u))
    BY <2>3, <2>5, FS_Subset
  <2>7. Cardinality(Newer(u)') \in Nat /\ Cardinality(Stay(u)) \in Nat
    BY <2>5, NewerFinite, FS_CardinalityType
  <2>8. RevisionLimit \in Nat
    BY BoundAssumption
  <2> QED BY <2>2, <2>6, <2>7, <2>8
<1> QED BY <1>1, <1>2, HistoryInit, PTL DEF Spec, HistoryKept

-----------------------------------------------------------------------------
(* The revision in service.                                                *)

(* No edit merely drops the last objects of an earlier template.           *)
NeverShortened ==
    \A h \in Histories : \A j \in 1 .. Len(h) : \A i \in 1 .. j - 1 :
      IsPrefix(Content[h[j]], Content[h[i]]) => Content[h[i]] = Content[h[j]]

(* Who reports to be available has acknowledged what it was asked to pause: *)
(* the objects of a template the deployment has had, if any.               *)
Acknowledges(s) ==
    /\ s.available = "True" => s.statusPausedFor = s.pausedFor
    /\ s.pausedFor = << >> \/ \E k \in 1 .. seen : s.pausedFor = Content[edits[k]]

Acknowledged == \A u \in Sets : Acknowledges(sets[u])

ServiceInvariant == Lineage /\ HashesKnown /\ Acknowledged

(* The deprecation cleans up ObjectSet u, which p is after the pause.      *)
CleansUp(u, p) ==
    /\ u \in Outdated
    /\ PausePasses(u)
    /\ CurrentAvailable \/ (IF Conflicts(u) THEN cache[u] ELSE p).available # "True"
    /\ sets'[u] \in {Delete(p), SetArchived(p)}

LEMMA DeprecateCleansUp ==
    ASSUME TypeOK, NEW s \in [Sets -> SetRecord], Deprecate(s), NEW u \in Sets,
           \A v \in Outdated : PausePasses(v)
    PROVE  sets'[u] = s[u] \/ CleansUp(u, s[u])
<1>1. PICK S : S = IF SomeAvailable(s) THEN ForCleanup(s) ELSE {}
  OBVIOUS
<1>2. S \in SUBSET Outdated /\ \A v \in S : CurrentAvailable \/ ~AvailableIn(s, v)
  BY <1>1 DEF ForCleanup
<1>3. PICK c \in ByRevision(S) : \E n \in 0 .. Len(c) : sets' = AfterCleanup(s, c, n)
  BY <1>1 DEF Deprecate
<1>4. PICK n \in 0 .. Len(c) : sets' = AfterCleanup(s, c, n)
  BY <1>3
<1>5. Len(c) \in Nat /\ \A i \in 1 .. Len(c) : c[i] \in S
  BY <1>2, ListedSets, ByRevisionIndexes
<1>6. \A i \in 1 .. n : c[i] \in S
  BY <1>5
<1>7. \/ u \in S /\ sets'[u] \in {Delete(s[u]), SetArchived(s[u])}
      \/ sets'[u] = s[u]
  BY <1>4, <1>6 DEF AfterCleanup
<1> QED BY <1>2, <1>7 DEF CleansUp, AvailableIn

(* All that a step may do to ObjectSet u.                                  *)
LEMMA SetWrites ==
    ASSUME TeardownInvariant, [Next]_vars, MaxUserEdits = 0, NEW u \in Sets
    PROVE  \/ sets'[u] \in {sets[u], Pause(sets[u])}
           \/ CleansUp(u, AfterPause(Outdated)[u])
           \/ sets'[u] \in {[sets[u] EXCEPT !.finalizer = TRUE], Removed(sets[u])}
           \/ \E ok \in BOOLEAN : sets'[u] = Reported(sets[u], ok)
           \/ Arrives(u)
<1>1. TypeOK /\ \A v \in Sets : v > created => ~cache[v].exists
  BY DEF TeardownInvariant, CopyAgrees
<1>2. AfterPause(Outdated) \in [Sets -> SetRecord]
  BY <1>1, AfterPauseType
<1>3. \A S : AfterPause(S)[u] \in {sets[u], Pause(sets[u])}
  BY DEF AfterPause
<1>4. CASE WaitForPause \/ FailToPause \/ CountCollision
  <2>1. PICK S : sets' = AfterPause(S)
    BY <1>4 DEF WaitForPause, FailToPause, CountCollision
  <2> QED BY <1>3, <2>1
<1>5. CASE KeepRevision
  <2>1. Deprecate(AfterPause(Outdated)) /\ \A v \in Outdated : PausePasses(v)
    BY <1>5 DEF KeepRevision
  <2>2. \/ sets'[u] = AfterPause(Outdated)[u]
        \/ CleansUp(u, AfterPause(Outdated)[u])
    BY <1>1, <1>2, <2>1, DeprecateCleansUp
  <2> QED BY <1>3, <2>2
<1>6. CASE CreateRevision /\ u # created + 1
  <2>1. PICK q \in ByRevision(Outdated) :
          Deprecate([AfterPause(Outdated) EXCEPT ![created + 1] = NewObjectSet(q)])
    BY <1>6 DEF CreateRevision
  <2> DEFINE s == [AfterPause(Outdated) EXCEPT ![created + 1] = NewObjectSet(q)]
  <2>2. NewObjectSet(q) \in SetRecord
    BY <1>1, NewObjectSetType
  <2>3. s \in [Sets -> SetRecord] /\ s[u] = AfterPause(Outdated)[u]
    BY <1>2, <1>6, <2>2
  <2>4. Deprecate(s) /\ \A v \in Outdated : PausePasses(v)
    BY <1>6, <2>1 DEF CreateRevision
  <2> HIDE DEF s
  <2>5. sets'[u] = s[u] \/ CleansUp(u, s[u])
    BY <1>1, <2>3, <2>4, DeprecateCleansUp
  <2> QED BY <1>3, <2>3, <2>5
<1>7. CASE CreateRevision /\ u = created + 1
  BY <1>1, <1>7, CreateGrows
<1>8. CASE FinishReconcile
  <2>1. worker.ok \in BOOLEAN
    BY <1>1, WorkerTypes
  <2>2. \/ sets' = sets
        \/ sets' = [sets EXCEPT ![worker.uid] = Removed(sets[worker.uid])]
        \/ /\ sets[worker.uid] = worker.read
           /\ sets' = [sets EXCEPT ![worker.uid] = Reported(sets[worker.uid], worker.ok)]
    BY <1>8 DEF FinishReconcile
  <2>3. sets'[u] \in {sets[u], Removed(sets[u]), Reported(sets[u], worker.ok)}
    BY <1>1, <2>2 DEF TypeOK
  <2> QED BY <2>1, <2>3
<1>9. ASSUME NEW v \in Sets, BeginReconcile(v)
      PROVE  sets'[u] \in {sets[u], [sets[u] EXCEPT !.finalizer = TRUE]}
  <2>1. \/ sets' = sets
        \/ sets' = [sets EXCEPT ![v] = [sets[v] EXCEPT !.finalizer = TRUE]]
    BY <1>9 DEF BeginReconcile
  <2> QED BY <1>1, <2>1 DEF TypeOK
<1>10. CASE \E v \in Sets : BeginReconcile(v)
  BY <1>9, <1>10
<1>11. ~\E v \in Sets : EditSet(v)
  BY <1>1 DEF EditSet, TypeOK
<1>12. \/ ReconcileObject \/ TeardownObject \/ AbortReconcile
       \/ SyncSets \/ SyncDeployment \/ ChangeTemplate \/ UNCHANGED vars
       \/ \E o \in Objects : BecomeReady(o) \/ Disappear(o) \/ CollectGarbage(o) \/ Drift(o)
       => sets' = sets
  BY DEF ReconcileObject, TeardownObject, AbortReconcile, SyncSets, SyncDeployment,
     ChangeTemplate, BecomeReady, Disappear, CollectGarbage, Drift, vars
<1> QED
  BY <1>4, <1>5, <1>6, <1>7, <1>8, <1>10, <1>11, <1>12
  DEF Next, ObjectDeploymentNext, ObjectSetNext, Environment

LEMMA UpdateAcknowledges ==
    ASSUME TypeOK, NEW s \in SetRecord, Acknowledges(s)
    PROVE  /\ Acknowledges(Pause(s)) /\ Acknowledges(SetArchived(s))
           /\ Acknowledges(Delete(s)) /\ Acknowledges(Removed(s))
           /\ Acknowledges([s EXCEPT !.finalizer = TRUE])
           /\ \A ok \in BOOLEAN : Acknowledges(Reported(s, ok))
<1> DEFINE r == SpecChanged(s)
<1>1. r \in SetRecord /\ r.pausedFor = s.pausedFor /\ r.available # "True"
  BY SetUpdates, SpecChangedFields DEF SpecChanged, SetRecord
<1> HIDE DEF r
<1>2. Acknowledges(Removed(s))
  BY NoSetType DEF Removed, NoSet, SetRecord, Acknowledges
<1>3. Acknowledges(Pause(s))
  <2>1. Pause(s).available # "True" /\ Pause(s).pausedFor = PausedObjects
    BY <1>1 DEF Pause, r, SetRecord
  <2>2. seen \in 1 .. seen
    BY TemplateTypes DEF TypeOK
  <2> QED BY <2>1, <2>2 DEF Acknowledges, PausedObjects, Template
<1>4. Acknowledges(SetArchived(s))
  <2>1. [r EXCEPT !.lifecycle = "Archived"].available # "True"
        /\ [r EXCEPT !.lifecycle = "Archived"].pausedFor = s.pausedFor
    BY <1>1 DEF SetRecord
  <2> QED BY <2>1 DEF SetArchived, Acknowledges, r
<1>5. Acknowledges(Delete(s))
  <2>1. [r EXCEPT !.deleting = TRUE].available # "True"
        /\ [r EXCEPT !.deleting = TRUE].pausedFor = s.pausedFor
    BY <1>1 DEF SetRecord
  <2> QED BY <1>2, <2>1 DEF Delete, Acknowledges, r
<1>6. Acknowledges([s EXCEPT !.finalizer = TRUE])
  BY DEF Acknowledges, SetRecord
<1>7. \A ok \in BOOLEAN : Acknowledges(Reported(s, ok))
  BY ReportedFields DEF Acknowledges
<1> QED BY <1>2, <1>3, <1>4, <1>5, <1>6, <1>7

LEMMA AcknowledgedStep ==
    ASSUME TeardownInvariant, TypeOK', Acknowledged, [Next]_vars, MaxUserEdits = 0
    PROVE  Acknowledged'
<1>1. TypeOK
  BY DEF TeardownInvariant
<1>2. edits' = edits /\ seen \in Nat /\ seen' \in Nat /\ seen <= seen'
  BY <1>1, SeenSteps
<1>3. ASSUME NEW u \in Sets PROVE Acknowledges(sets'[u])
  <2>1. sets[u] \in SetRecord /\ Acknowledges(sets[u])
    BY <1>1 DEF TypeOK, Acknowledged
  <2>2. /\ Acknowledges(Pause(sets[u])) /\ Acknowledges(Removed(sets[u]))
        /\ Acknowledges([sets[u] EXCEPT !.finalizer = TRUE])
        /\ \A ok \in BOOLEAN : Acknowledges(Reported(sets[u], ok))
    BY <1>1, <2>1, UpdateAcknowledges
  <2>3. CASE CleansUp(u, AfterPause(Outdated)[u])
    <3>1. PICK p \in SetRecord : p = AfterPause(Outdated)[u]
      BY <1>1, AfterPauseType
    <3>2. Acknowledges(p)
      BY <2>1, <2>2, <3>1 DEF AfterPause
    <3>3. sets'[u] \in {Delete(p), SetArchived(p)}
      BY <2>3, <3>1 DEF CleansUp
    <3>4. Acknowledges(Delete(p)) /\ Acknowledges(SetArchived(p))
      BY <1>1, <3>2, UpdateAcknowledges
    <3> QED BY <3>3, <3>4
  <2>4. CASE Arrives(u)
    <3>1. sets'[u].available = "False" /\ sets'[u].pausedFor = << >>
      BY <2>4, NoCopyArrives
    <3> QED BY <3>1 DEF Acknowledges
  <2> QED BY <2>1, <2>2, <2>3, <2>4, SetWrites
<1>4. ASSUME NEW u \in Sets PROVE Acknowledges(sets[u])'
  BY <1>2, <1>3 DEF Acknowledges
<1> QED BY <1>4 DEF Acknowledged

LEMMA ServiceInit == Init => ServiceInvariant
<1> SUFFICES ASSUME Init PROVE ServiceInvariant
  OBVIOUS
<1>1. HistoryInvariant
  BY HistoryInit
<1>2. \A u \in Sets : sets[u].available = "False" /\ sets[u].pausedFor = << >>
  BY DEF Init, NoSet
<1> QED BY <1>1, <1>2 DEF HistoryInvariant, ServiceInvariant, Acknowledged, Acknowledges

LEMMA ServiceNext ==
    ASSUME ServiceInvariant, [Next]_vars, SeesOwnCreates, MaxUserEdits = 0, NeverRepeats
    PROVE  ServiceInvariant'
<1>1. TypeOK /\ TeardownInvariant /\ PauseInvariant
  BY DEF ServiceInvariant, Lineage, TeardownInvariant
<1>2. TeardownInvariant' /\ TypeOK' /\ PauseInvariant'
  BY <1>1, TeardownNext, PauseNext DEF TeardownInvariant
<1>3. CopiesBelong' /\ HashesKnown' /\ Acknowledged'
  BY <1>1, <1>2, CopiesBelongStep, HashesKnownStep, AcknowledgedStep DEF ServiceInvariant
<1> QED BY <1>2, <1>3 DEF ServiceInvariant, Lineage

\* the deprecation alone retires, and never an ObjectSet that this very
\* reconcile has told to pause and that therefore is no longer available
LEMMA RetiresForCurrent ==
    ASSUME ServiceInvariant, [Next]_vars, MaxUserEdits = 0, NeverShortened,
           NEW u \in Sets, sets[u].exists, sets[u].available = "True", cache[u] = sets[u],
           Retired(sets'[u]), ~Retired(sets[u])
    PROVE  u \in Outdated /\ CurrentAvailable
<1>1. TypeOK /\ TeardownInvariant /\ Acknowledges(sets[u]) /\ sets[u] \in SetRecord
  BY DEF ServiceInvariant, Lineage, TeardownInvariant, Acknowledged, TypeOK
<1>2. CleansUp(u, AfterPause(Outdated)[u])
  <2>1. ~Retired(Pause(sets[u]))
    <3>1. SpecChanged(sets[u]) \in SetRecord
      BY <1>1, SetUpdates
    <3> QED BY <1>1, <3>1, SpecChangedFields DEF Pause, Retired, SetRecord
  <2>2. ~Retired([sets[u] EXCEPT !.finalizer = TRUE]) /\ ~Retired(Removed(sets[u]))
    BY <1>1, NoSetType DEF Removed, NoSet, Retired, SetRecord
  <2>3. \A ok \in BOOLEAN : ~Retired(Reported(sets[u], ok))
    BY <1>1, ReportedFields DEF Retired
  <2>4. ~Arrives(u)
    BY <1>1, NoCopyArrives DEF Copies
  <2> QED BY <1>1, <2>1, <2>2, <2>3, <2>4, SetWrites
<1>3. u \in Outdated /\ PausePasses(u) /\ ~Conflicts(u)
  BY <1>2 DEF CleansUp, Conflicts
<1>4. ASSUME ~CurrentAvailable PROVE FALSE
  <2>1. ~SkipsPause(u) /\ NeedsPause(u)
    BY <1>2, <1>3, <1>4 DEF CleansUp, AfterPause
  <2>2. IsPrefix(PausedObjects, sets[u].pausedFor) /\ sets[u].pausedFor # PausedObjects
    BY <1>1, <1>3, <2>1 DEF PausePasses, PauseAcked, NeedsPause, Acknowledges
  <2>3. PausedObjects \in Seq(Objects)
    BY <1>1, TemplateTypes, PhaseBounds DEF PausedObjects
  <2>4. CASE sets[u].pausedFor = << >>
    BY <2>2, <2>3, <2>4 DEF IsPrefix
  <2>5. ASSUME NEW k \in 1 .. seen, sets[u].pausedFor = Content[edits[k]] PROVE FALSE
    <3>1. edits \in Histories /\ seen \in 1 .. Len(edits) /\ Len(edits) \in Nat
      BY <1>1, SeenSteps, TypeStep
    <3>2. IsPrefix(Content[edits[seen]], Content[edits[k]])
      BY <2>2, <2>5 DEF PausedObjects, Template
    <3>3. k # seen
      BY <2>2, <2>5 DEF PausedObjects, Template
    <3>4. k \in 1 .. seen - 1
      BY <3>1, <3>3
    <3>5. Content[edits[k]] = Content[edits[seen]]
      BY <3>1, <3>2, <3>4 DEF NeverShortened
    <3> QED BY <2>2, <2>5, <3>5 DEF PausedObjects, Template
  <2> QED BY <1>1, <2>4, <2>5 DEF Acknowledges
<1> QED BY <1>3, <1>4

(* The deprecation decides on a cached list, and on copies that the pause  *)
(* just before has made stale: whatever fails, drifts or collides, and     *)
(* whatever the templates share, it retires an available ObjectSet only if *)
(* the one of the current template, which stays, is available too.         *)
THEOREM ServiceAlwaysKept ==
    ASSUME SeesOwnCreates, MaxUserEdits = 0, NeverRepeats, HashesTell, NeverShortened
    PROVE  Spec => KeepsAvailable
<1> DEFINE Step == \A u \in Sets :
             /\ sets[u].exists /\ sets[u].available = "True" /\ cache[u] = sets[u]
             /\ Retired(sets'[u]) /\ ~Retired(sets[u])
             => \E v \in Sets \ {u} : /\ cache[v].available # "False"
                                      /\ sets'[v].exists /\ ~Retired(sets'[v])
<1>1. ServiceInvariant /\ [Next]_vars => ServiceInvariant'
  BY ServiceNext
<1>2. ASSUME ServiceInvariant, [Next]_vars PROVE Step
  <2> SUFFICES ASSUME NEW u \in Sets,
                      sets[u].exists, sets[u].available = "True", cache[u] = sets[u],
                      Retired(sets'[u]), ~Retired(sets[u])
               PROVE  \E v \in Sets \ {u} : /\ cache[v].available # "False"
                                            /\ sets'[v].exists /\ ~Retired(sets'[v])
    OBVIOUS
  <2>1. Lineage /\ TypeOK /\ TeardownInvariant /\ HashesKnown
    BY <1>2 DEF ServiceInvariant, Lineage, TeardownInvariant
  <2>2. u \in Outdated /\ CurrentAvailable
    BY <1>2, RetiresForCurrent
  <2>3. PICK v \in Current : cache[v].available # "False"
    BY <2>2 DEF CurrentAvailable
  <2>4. v \in Sets /\ cache[v] \in Copies(v) /\ cache[v].template = Template
    BY <2>1, CurrentIsOfTemplate
  <2>5. sets[v].exists /\ v \notin Outdated /\ ~Retired(sets[v])
    BY <2>1, <2>4, CopyIsCurrent
  <2>6. ~Arrives(v)
    BY <2>1, <2>4, NoCopyArrives
  <2>7. ~Vanishes(v)
    BY <2>5 DEF Vanishes, Leaves, Retired
  <2>8. Alters(v, sets[v], sets'[v]) /\ sets'[v].exists
    BY <1>2, <2>1, <2>4, <2>5, <2>6, <2>7, AlterSteps
  <2> QED BY <2>2, <2>3, <2>4, <2>5, <2>8 DEF Alters
<1> QED BY <1>1, <1>2, ServiceInit, PTL DEF Spec, KeepsAvailable
=============================================================================
