------------------------------- MODULE Rollout -------------------------------
(***************************************************************************)
(* One ObjectDeployment rolled out by the ObjectDeployment controller and  *)
(* the ObjectSet controller, in a cluster whose users edit the template    *)
(* and whose objects become ready, drift and are garbage collected.        *)
(***************************************************************************)
EXTENDS ObjectSetController, ObjectDeploymentController

Init ==
    /\ sets = [u \in Sets |-> NoSet]
    /\ cache = [u \in Sets |-> NoSet]
    /\ created = 0
    /\ objs = [o \in Objects |-> [Absent EXCEPT !.exists = o \in Preexisting]]
    /\ edits \in Histories
    /\ edit = 1
    /\ seen = 1
    /\ deployment = [hash |-> "none", collisionCount |-> 0,
                     available |-> FALSE, concluded |-> 0]
    /\ worker = Idle
    /\ spent = [errors |-> 0, drift |-> 0, edits |-> 0]

-----------------------------------------------------------------------------
(* The informers catch up with the API server.                             *)
SyncSets ==
    /\ cache # sets
    /\ cache' = sets
    /\ UNCHANGED <<sets, created, objs, edits, edit, seen, deployment, worker, spent>>

SyncDeployment ==
    /\ seen # edit
    /\ seen' = edit
    /\ UNCHANGED <<sets, cache, created, objs, edits, edit, deployment, worker, spent>>

(* The user applies the next template.                                     *)
ChangeTemplate ==
    /\ edit < Len(edits)
    /\ edit' = edit + 1
    /\ UNCHANGED <<sets, cache, created, objs, edits, seen, deployment, worker, spent>>

(* An object's own controller reports it ready.                            *)
BecomeReady(o) ==
    /\ objs[o].exists
    /\ ~objs[o].ready
    /\ objs' = [objs EXCEPT ![o].ready = TRUE]
    /\ UNCHANGED <<sets, cache, created, edits, edit, seen, deployment, worker, spent>>

(* A deleted object leaves the API server once its finalizers have run.    *)
Disappear(o) ==
    /\ objs[o].dying
    /\ objs' = [objs EXCEPT ![o] = Absent]
    /\ UNCHANGED <<sets, cache, created, edits, edit, seen, deployment, worker, spent>>

(* The garbage collector deletes what only a vanished ObjectSet owns.      *)
CollectGarbage(o) ==
    /\ objs[o].exists
    /\ ~objs[o].dying
    /\ objs[o].controller # 0
    /\ ~sets[objs[o].controller].exists
    /\ objs' = [objs EXCEPT ![o].dying = TRUE]
    /\ UNCHANGED <<sets, cache, created, edits, edit, seen, deployment, worker, spent>>

(* Somebody deletes an object, or it stops being ready.                    *)
Drift(o) ==
    /\ spent.drift < MaxDrift /\ DisturbancesLeft
    /\ objs[o].exists
    /\ \/ objs' = [objs EXCEPT ![o].dying = TRUE]
       \/ objs' = [objs EXCEPT ![o].ready = FALSE]
    /\ Spend("drift")
    /\ UNCHANGED <<sets, cache, created, edits, edit, seen, deployment, worker>>

(* A user pauses, resumes or deletes an ObjectSet.                         *)
EditSet(u) ==
    /\ spent.edits < MaxUserEdits /\ DisturbancesLeft
    /\ sets[u].exists
    /\ \/ /\ sets[u].lifecycle = "Active"
          /\ sets' = [sets EXCEPT ![u] = [SpecChanged(@) EXCEPT !.lifecycle = "Paused"]]
       \/ /\ sets[u].lifecycle = "Paused"
          /\ sets' = [sets EXCEPT ![u] = [SpecChanged(@) EXCEPT !.lifecycle = "Active"]]
       \/ sets' = [sets EXCEPT ![u] = Delete(@)]
    /\ Spend("edits")
    /\ UNCHANGED <<cache, created, objs, edits, edit, seen, deployment, worker>>

Environment ==
    \/ SyncSets
    \/ SyncDeployment
    \/ ChangeTemplate
    \/ \E o \in Objects : BecomeReady(o) \/ Disappear(o) \/ CollectGarbage(o) \/ Drift(o)
    \/ \E u \in Sets : EditSet(u)

Next == ObjectDeploymentNext \/ ObjectSetNext \/ Environment

Spec == Init /\ [][Next]_vars

(* Every key of both queues is reconciled again and again: each event, each *)
(* error and the informers' resync put it back, and the queues are fair.    *)
(* The worker finishes what it begins, and the cluster makes progress.      *)
Fairness ==
    /\ WF_vars(ObjectDeploymentNext)
    /\ \A u \in Sets : SF_vars(BeginReconcile(u))
    /\ WF_vars(ReconcileObject \/ TeardownObject \/ FinishReconcile)
    /\ WF_vars(SyncSets)
    /\ WF_vars(SyncDeployment)
    /\ \A o \in Objects : /\ WF_vars(BecomeReady(o))
                          /\ WF_vars(Disappear(o))
                          /\ WF_vars(CollectGarbage(o))

FairSpec == Spec /\ Fairness

-----------------------------------------------------------------------------
Names(t, o) == o \in Range(Content[t])

Owns(u, o) == objs[o].exists /\ objs[o].controller = u

(* The pause handshake: while a newer ObjectSet exists, a reconcile of an  *)
(* older one has no object of S left to write that the newer one names too. *)
SoleWriterOf(S) ==
    worker.step = "reconcile" =>
      \A v \in worker.uid + 1 .. MaxSets :
        sets[v].exists =>
          \A i \in worker.at .. Len(Content[worker.read.template]) :
            LET o == Content[worker.read.template][i]
            IN  o \in S /\ Names(sets[v].template, o) =>
                  IsObjectPaused(worker.read, o)

(* EnsurePauseReconciler is there to prevent two ObjectSets from writing   *)
(* one object.                                                             *)
SoleWriter == SoleWriterOf(Objects)

(* It does so for the objects that no template drops: a revision is created *)
(* only after every older one has acknowledged the pause, and later pauses  *)
(* go on naming them, whatever the worker and its cache were doing.         *)
Kept == {o \in Objects : \A t \in Templates : Names(t, o)}

KeptHasSoleWriter == SoleWriterOf(Kept)

(* A teardown, which deletes by name, never comes to an unpaused object    *)
(* that another ObjectSet controls.                                        *)
TeardownSparesOthers ==
    worker.step = "teardown" =>
      LET o == Content[worker.read.template][worker.at]
      IN  objs[o].exists /\ ~IsObjectPaused(worker.read, o) =>
            MayControl(worker.read, objs[o])

(* An ObjectSet is created with a greater revision number than each one    *)
(* there is that the cache shows, however old its copy: a number is given  *)
(* out again only if the list misses the ObjectSet that has it.            *)
RevisionsAscend ==
    [][\A u, v \in Sets :
         /\ sets[u].exists /\ cache[u].exists
         /\ ~sets[v].exists /\ sets'[v].exists
         => sets[u].revision < sets'[v].revision]_vars

(* Phases are built up in order and torn down in reverse: while an object  *)
(* of a later phase is there, all those of earlier phases are.             *)
PhasesInOrder ==
    \A u \in Sets : sets[u].exists =>
      LET t == sets[u].template IN
      \A p \in 2 .. LastPhase(t) : \A j \in PhaseStart(t, p) .. PhaseEnds[t][p] :
        Owns(u, Content[t][j]) /\ ~IsObjectPaused(sets[u], Content[t][j]) =>
          \A i \in 1 .. PhaseStart(t, p) - 1 :
            objs[Content[t][i]].exists /\ ~objs[Content[t][i]].dying

(* An ObjectSet leaves the API server only when the objects it still       *)
(* controls are the paused ones.                                           *)
RemovalLeavesOnlyPaused ==
    [][\A u \in Sets : sets[u].exists /\ ~sets'[u].exists =>
         \A o \in Objects : Owns(u, o) => IsObjectPaused(sets[u], o)]_vars

(* The deployment controller never retires the last revision in service:   *)
(* when it archives or deletes an available one that the cache shows as it *)
(* is, there is another that the cache shows available and that stays,     *)
(* unretired.  Of one that has changed since, the update of an archival    *)
(* conflicts; a delete, which goes by the name, does not.                  *)
Retired(s) == s.lifecycle = "Archived" \/ s.deleting

KeepsAvailable ==
    [][\A u \in Sets :
         /\ sets[u].exists /\ sets[u].available = "True" /\ cache[u] = sets[u]
         /\ Retired(sets'[u]) /\ ~Retired(sets[u])
         => \E v \in Sets \ {u} : /\ cache[v].available # "False"
                                  /\ sets'[v].exists /\ ~Retired(sets'[v])]_vars

(* Only revisions beyond the history limit are deleted: at least           *)
(* RevisionLimit newer revisions stay behind the current one.              *)
HistoryKept ==
    [][\A u \in Sets : sets'[u].deleting /\ ~sets[u].deleting =>
         RevisionLimit <= Cardinality({v \in Sets :
            /\ sets'[v].exists /\ ~sets'[v].deleting
            /\ sets[v].revision > sets[u].revision
            /\ sets[v].hash # TemplateHash})]_vars

(* A deployment that reports its update concluded, for the generation its  *)
(* spec has now, is rolled out: it has an ObjectSet of that template with  *)
(* all its objects, unless they drifted, and every other one is retired.   *)
ConcludedMeansRolledOut ==
    deployment.concluded = edit =>
      \E u \in Sets :
         /\ sets[u].exists
         /\ sets[u].template = edits[edit]
         /\ spent.drift = 0 => \A o \in Range(Content[edits[edit]]) : Owns(u, o)
         /\ \A v \in Sets \ {u} : sets[v].exists => Retired(sets[v])

(* An ObjectSet that reports Archived has torn down all that is not paused: *)
(* until then it should report "ObjectSet is tearing down."                 *)
ArchivedMeansGone ==
    \A u \in Sets : sets[u].archived =>
      \A o \in Objects : Owns(u, o) => IsObjectPaused(sets[u], o)

(* Once the user stops, the last template is rolled out: its ObjectSet is  *)
(* available, the deployment says so, and every other ObjectSet is retired *)
(* with its objects gone.                                                  *)
RolledOut ==
    /\ deployment.concluded = edit
    /\ \E u \in Sets :
         /\ sets[u].exists
         /\ sets[u].template = edits[edit]
         /\ sets[u].available = "True"
         /\ \A o \in Range(Content[edits[edit]]) : Owns(u, o)
         /\ \A v \in Sets \ {u} :
              /\ sets[v].exists => sets[v].archived
              /\ \A o \in Objects : ~Owns(v, o)

RolloutConcludes == <>[]RolledOut
=============================================================================
