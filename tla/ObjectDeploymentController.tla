--------------------- MODULE ObjectDeploymentController ---------------------
(***************************************************************************)
(* The ObjectDeployment controller: one reconcile runs HashReconciler and  *)
(* EnsurePauseReconciler, which ends by running NewRevisionReconciler and  *)
(* DeprecationReconciler, and then updates the deployment's status.        *)
(*                                                                         *)
(* A reconcile is one action.  It reads only the informer cache, which may *)
(* lag behind the API server, and each of its writes fails if the          *)
(* ObjectSet changed since: the steps other processes take between its     *)
(* writes are the ones that happened before it but are not in the cache.   *)
(***************************************************************************)
EXTENDS RolloutState

Template == edits[seen]

(* HashReconciler *)
TemplateHash == Hash[Template][deployment.collisionCount]

(* pausedObjectsFromPhases, on the deployment's template *)
PausedObjects == Content[Template]

(* listObjectSetsForDeployment, split as EnsurePauseReconciler does *)
Listed == {u \in Sets : cache[u].exists}
Current == {u \in Listed : cache[u].hash = TemplateHash}
Outdated == Listed \ Current

(* Some ObjectSets sorted by revision, equal revisions in any order.       *)
ByRevision(S) ==
    {q \in SetToSeqs(S) :
       \A i, j \in DOMAIN q : i < j => cache[q[i]].revision <= cache[q[j]].revision}

-----------------------------------------------------------------------------
\* Not the code: an ObjectSet that is being deleted need not be paused.
SkipsPauseOfDeleted(u) == cache[u].archived \/ cache[u].deleting

(* EnsurePauseReconciler, for the outdated ObjectSet u.                    *)
SkipsPause(u) == cache[u].archived
NeedsPause(u) == cache[u].pausedFor # PausedObjects
Conflicts(u) == cache[u] # sets[u]

\* Not the code: to have asked for the pause is enough.
PauseAsked(u) == IsPrefix(PausedObjects, cache[u].pausedFor)

PauseAcked(u) == IsPrefix(PausedObjects, cache[u].statusPausedFor)

PausePasses(u) ==
    SkipsPause(u) \/ (PauseAcked(u) /\ ~(NeedsPause(u) /\ Conflicts(u)))

Pause(s) == [SpecChanged(s) EXCEPT !.pausedFor = PausedObjects]

(* The API server's ObjectSets after the walk has handled those in S.      *)
AfterPause(S) ==
    [u \in Sets |-> IF u \in S /\ ~SkipsPause(u) /\ NeedsPause(u) /\ ~Conflicts(u)
                      THEN Pause(sets[u]) ELSE sets[u]]

(* Status().Update of the deployment, refused when its spec has changed.   *)
UpdateStatus(status) ==
    deployment' = IF seen = edit THEN status ELSE deployment

(* The walk ends at the i-th outdated ObjectSet: its update conflicts (an  *)
(* error) or it has yet to acknowledge the pause (wait for its status).    *)
WaitForPause ==
    \E q \in ByRevision(Outdated) : \E i \in DOMAIN q :
        LET u == q[i]
            conflict == NeedsPause(u) /\ Conflicts(u)
        IN  /\ \A j \in 1 .. i - 1 : PausePasses(q[j])
            /\ ~PausePasses(u)
            /\ sets' = AfterPause({q[j] : j \in 1 .. i})
            /\ IF conflict
                 THEN UNCHANGED deployment
                 ELSE UpdateStatus([deployment EXCEPT !.hash = TemplateHash])
            /\ UNCHANGED <<cache, created, objs, edits, edit, seen, worker, spent>>

(* The walk, or what follows it before any other write, fails at the i-th. *)
FailToPause ==
    /\ spent.errors < MaxErrors /\ DisturbancesLeft
    /\ Spend("errors")
    /\ \E q \in ByRevision(Outdated) : \E i \in DOMAIN q :
          /\ \A j \in 1 .. i - 1 : PausePasses(q[j])
          /\ sets' = AfterPause({q[j] : j \in 1 .. i})
    /\ UNCHANGED <<cache, created, objs, edits, edit, seen, deployment, worker>>

-----------------------------------------------------------------------------
\* Not the code: the list is taken to be sorted the other way round.
FirstRevision(q) == IF q = << >> THEN 0 ELSE cache[q[1]].revision

(* NewRevisionReconciler *)
LatestRevision(q) == IF q = << >> THEN 0 ELSE cache[q[Len(q)]].revision

NewObjectSet(q) ==
    [NoSet EXCEPT !.exists = TRUE,
                  !.template = Template,
                  !.hash = TemplateHash,
                  !.revision = LatestRevision(q) + 1]

NameTaken == \E u \in Sets : sets[u].exists /\ sets[u].hash = TemplateHash

-----------------------------------------------------------------------------
\* Not the code: any available ObjectSet concludes the update.
AnyAvailable == \E u \in Listed : cache[u].available \in {"True", "Stale"}

(* DeprecationReconciler, on the ObjectSets s the steps before have left.  *)
CurrentAvailable == \E u \in Current : cache[u].available \in {"True", "Stale"}

\* the copy in hand: from the cache, or the answer to the pause update
AvailableIn(s, u) ==
    (IF Conflicts(u) THEN cache[u] ELSE s[u]).available = "True"

\* Not the code: outdated ObjectSets are cleaned up at once.
ForCleanupAll(s) == Outdated

ForCleanup(s) ==
    IF CurrentAvailable THEN Outdated
                        ELSE {u \in Outdated : ~AvailableIn(s, u)}

SomeAvailable(s) ==
    CurrentAvailable \/ \E u \in Outdated : AvailableIn(s, u)

SetArchived(s) ==
    IF s.lifecycle = "Archived" THEN s
                                ELSE [SpecChanged(s) EXCEPT !.lifecycle = "Archived"]

(* Delete: the finalizer keeps the ObjectSet until it is torn down.        *)
Delete(s) ==
    IF ~s.finalizer THEN Removed(s)
    ELSE IF s.deleting THEN s
    ELSE [SpecChanged(s) EXCEPT !.deleting = TRUE]

\* Not the code: one too few is kept.
OverLimitByOne(c, i) == i <= Len(c) - RevisionLimit + 1

(* The oldest over the limit are deleted, the rest archived.               *)
OverLimit(c, i) == i <= Len(c) - RevisionLimit

\* NotFound, or a conflict
CleanupFails(c, i) ==
    IF OverLimit(c, i) THEN ~sets[c[i]].exists ELSE Conflicts(c[i])

(* deleteObjectSetsOverLimit, stopped after the first n of c.              *)
AfterCleanup(s, c, n) ==
    [u \in Sets |->
       IF \E i \in 1 .. n : c[i] = u /\ OverLimit(c, i) THEN Delete(s[u])
       ELSE IF \E i \in 1 .. n : c[i] = u THEN SetArchived(s[u])
       ELSE s[u]]

(* Deprecation, and the status update a reconcile without errors ends in.  *)
Deprecate(s) ==
    \E c \in ByRevision(IF SomeAvailable(s) THEN ForCleanup(s) ELSE {}) :
    \E n \in 0 .. Len(c) :
      /\ \A i \in 1 .. n : ~CleanupFails(c, i)
      /\ sets' = AfterCleanup(s, c, n)
      /\ \/ /\ n = Len(c)
            /\ UpdateStatus([deployment EXCEPT
                               !.hash = TemplateHash,
                               !.available = SomeAvailable(s),
                               !.concluded = IF CurrentAvailable THEN seen ELSE 0])
            /\ UNCHANGED spent
         \/ /\ n < Len(c)
            /\ CleanupFails(c, n + 1)
            /\ UNCHANGED <<deployment, spent>>
         \/ /\ spent.errors < MaxErrors /\ DisturbancesLeft
            /\ Spend("errors")
            /\ UNCHANGED deployment

-----------------------------------------------------------------------------
(* The walk passes and there is a current ObjectSet, or the cache does not *)
(* show it yet.                                                            *)
KeepRevision ==
    /\ Current # {} \/ (NameTaken /\ TemplateHash \notin Foreign)
    /\ \A u \in Outdated : PausePasses(u)
    /\ Deprecate(AfterPause(Outdated))
    /\ UNCHANGED <<cache, created, objs, edits, edit, seen, worker>>

(* The walk passes and a new ObjectSet is created.                         *)
CreateRevision ==
    /\ Current = {}
    /\ ~NameTaken
    /\ TemplateHash \notin Foreign
    /\ \A u \in Outdated : PausePasses(u)
    /\ created < MaxSets
    /\ created' = created + 1
    /\ \E q \in ByRevision(Outdated) :
          /\ Deprecate([AfterPause(Outdated) EXCEPT ![created + 1] = NewObjectSet(q)])
          /\ cache' = IF SeesOwnCreates
                        THEN [cache EXCEPT ![created + 1] = NewObjectSet(q)] ELSE cache
    /\ UNCHANGED <<objs, edits, edit, seen, worker>>

(* The name is held by an ObjectSet the deployment does not own: count a   *)
(* collision and skip the deprecation.                                     *)
CountCollision ==
    /\ Current = {}
    /\ TemplateHash \in Foreign
    /\ deployment.collisionCount < MaxCollisions
    /\ \A u \in Outdated : PausePasses(u)
    /\ sets' = AfterPause(Outdated)
    /\ UpdateStatus([deployment EXCEPT !.hash = TemplateHash,
                                       !.collisionCount = @ + 1])
    /\ UNCHANGED <<cache, created, objs, edits, edit, seen, worker, spent>>

ObjectDeploymentNext ==
    \/ WaitForPause
    \/ FailToPause
    \/ KeepRevision
    \/ CreateRevision
    \/ CountCollision
=============================================================================
