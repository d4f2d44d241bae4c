------------------------ MODULE ObjectSetController ------------------------
(***************************************************************************)
(* The ObjectSet controller: GenericObjectSetController.Reconcile and what *)
(* it calls, for ObjectSets whose phases are all local (no phase.class).   *)
(*                                                                         *)
(* The controller runs one worker, so one reconcile at a time.  A          *)
(* reconcile copies the ObjectSet from the informer cache, walks its       *)
(* phases one object per step and ends with the status update; the         *)
(* deployment controller, users and the cluster act between any two steps. *)
(***************************************************************************)
EXTENDS RolloutState

(* The readiness probes that select o pass on what the API server returned *)
(* for it; without a selecting probe there is nothing to fail.             *)
ProbesPass(o, obj) == o \in Probed => obj.exists /\ obj.ready

(* SetControllerReference on the object as it is: refused while an owner   *)
(* reference names another controller.  ReleaseController, which runs just *)
(* before, changes copies of the references and takes no controller away.  *)
MayControl(s, obj) ==
    obj.controller # 0 => sets[obj.controller].hash = s.hash

(* The worker at the first object of phase p, or done with all the phases. *)
EnterPhase(w, p) ==
    IF p \in 1 .. LastPhase(w.read.template)
      THEN [w EXCEPT !.phase = p,
                     !.at = PhaseStart(w.read.template, p),
                     !.ok = TRUE]
      ELSE [w EXCEPT !.step = "report", !.phase = 0, !.at = 0, !.ok = TRUE]

\* Not the code: the next phase does not wait for this one.
AfterObjectUngated(w, good, next) ==
    IF w.at < PhaseEnds[w.read.template][w.phase]
      THEN [w EXCEPT !.at = @ + 1, !.ok = @ /\ good]
      ELSE EnterPhase(w, next)

(* Past one object: the rest of the phase is always handled, the next one  *)
(* only if every object of this one was good.                              *)
AfterObject(w, good, next) ==
    LET ok == w.ok /\ good
    IN  IF w.at < PhaseEnds[w.read.template][w.phase]
          THEN [w EXCEPT !.at = @ + 1, !.ok = ok]
          ELSE IF ok
                 THEN EnterPhase(w, next)
                 ELSE [w EXCEPT !.step = "report", !.phase = 0, !.at = 0,
                                !.ok = FALSE]

StartReconcile(u, s) ==
    EnterPhase([Idle EXCEPT !.step = "reconcile", !.uid = u, !.read = s], 1)

StartTeardown(u, s) ==
    EnterPhase([Idle EXCEPT !.step = "teardown", !.uid = u, !.read = s],
               LastPhase(s.template))

(* Get the ObjectSet from the cache.  A live one gets the cache finalizer  *)
(* first; when that update conflicts the reconcile ends with an error.     *)
BeginReconcile(u) ==
    /\ worker.step = "idle"
    /\ cache[u].exists
    /\ \/ /\ cache[u].deleting
          /\ worker' = StartTeardown(u, cache[u])
          /\ UNCHANGED sets
       \/ LET s == [cache[u] EXCEPT !.finalizer = TRUE]
          IN  /\ ~cache[u].deleting
              /\ cache[u].finalizer \/ cache[u] = sets[u]
              /\ sets' = IF cache[u].finalizer THEN sets
                                               ELSE [sets EXCEPT ![u] = s]
              /\ worker' = IF s.lifecycle = "Archived" THEN StartTeardown(u, s)
                                                       ELSE StartReconcile(u, s)
    /\ UNCHANGED <<cache, created, objs, edits, edit, seen, deployment, spent>>

(* reconcileObject and the probe of its result, for the next object.       *)
ReconcileObject ==
    LET u == worker.uid
        o == Content[worker.read.template][worker.at]
        Write(obj) == /\ objs' = [objs EXCEPT ![o] = obj]
                      /\ worker' = AfterObject(worker, ProbesPass(o, obj),
                                               worker.phase + 1)
    IN  /\ worker.step = "reconcile"
        /\ \/ /\ IsObjectPaused(worker.read, o)
              /\ Write(objs[o])                    \* reports only
           \/ /\ ~IsObjectPaused(worker.read, o)
              /\ ~objs[o].exists
              /\ Write([Absent EXCEPT !.exists = TRUE, !.controller = u])
           \/ /\ ~IsObjectPaused(worker.read, o)
              /\ objs[o].exists
              /\ MayControl(worker.read, objs[o])
              /\ Write([objs[o] EXCEPT !.controller = u])
           \/ /\ ~IsObjectPaused(worker.read, o)
              /\ ~MayControl(worker.read, objs[o])           \* AlreadyOwnedError
              /\ worker' = Idle
              /\ UNCHANGED objs
        /\ UNCHANGED <<sets, cache, created, edits, edit, seen, deployment, spent>>

\* Not the code: an object is cleaned up as soon as it is deleted.
TeardownObjectHasty ==
    LET o == Content[worker.read.template][worker.at]
        delete == ~IsObjectPaused(worker.read, o) /\ objs[o].exists
    IN  /\ worker.step = "teardown"
        /\ objs' = IF delete THEN [objs EXCEPT ![o].dying = TRUE] ELSE objs
        /\ worker' = AfterObject(worker, TRUE, worker.phase - 1)
        /\ UNCHANGED <<sets, cache, created, edits, edit, seen, deployment, spent>>

(* TeardownPhase, for the next object of the phase: an object counts as    *)
(* cleaned up only when the delete call finds it gone already.             *)
TeardownObject ==
    LET o == Content[worker.read.template][worker.at]
        delete == ~IsObjectPaused(worker.read, o) /\ objs[o].exists
    IN  /\ worker.step = "teardown"
        /\ objs' = IF delete THEN [objs EXCEPT ![o].dying = TRUE] ELSE objs
        /\ worker' = AfterObject(worker, ~delete, worker.phase - 1)
        /\ UNCHANGED <<sets, cache, created, edits, edit, seen, deployment, spent>>

\* Not the code: an archived ObjectSet does not say what it has paused.
ReportedUnacked(s, ok) ==
    IF s.lifecycle = "Archived"
      THEN [s EXCEPT !.available = "False", !.archived = TRUE]
      ELSE [s EXCEPT !.available = IF ok THEN "True" ELSE "False",
                     !.archived = @ /\ ~ok]

(* The status a reconcile leaves.  An archived ObjectSet reports Archived  *)
(* whether or not its teardown is done.                                    *)
Reported(s, ok) ==
    IF s.lifecycle = "Archived"
      THEN [s EXCEPT !.statusPausedFor = s.pausedFor,
                     !.available = "False",
                     !.archived = TRUE]
      ELSE [s EXCEPT !.statusPausedFor = s.pausedFor,
                     !.available = IF ok THEN "True" ELSE "False",
                     !.archived = @ /\ ~ok]

(* The status update, or for a deleted ObjectSet that is torn down the     *)
(* removal of the finalizer, which lets the API server drop it.  Either    *)
(* fails, and changes nothing, unless the copy read is still current.      *)
FinishReconcile ==
    LET u == worker.uid
        current == sets[u] = worker.read
    IN  /\ worker.step = "report"
        /\ \/ /\ worker.read.deleting
              /\ sets' = IF worker.ok /\ current
                           THEN [sets EXCEPT ![u] = Removed(@)] ELSE sets
           \/ /\ ~worker.read.deleting
              /\ sets' = IF current
                           THEN [sets EXCEPT ![u] = Reported(worker.read, worker.ok)]
                           ELSE sets
        /\ worker' = Idle
        /\ UNCHANGED <<cache, created, objs, edits, edit, seen, deployment, spent>>

(* Any call to the API server may fail, and the manager may crash; the     *)
(* reconcile ends and what it has written stays.                           *)
AbortReconcile ==
    /\ worker.step # "idle"
    /\ spent.errors < MaxErrors /\ DisturbancesLeft
    /\ worker' = Idle
    /\ Spend("errors")
    /\ UNCHANGED <<sets, cache, created, objs, edits, edit, seen, deployment>>

ObjectSetNext ==
    \/ \E u \in Sets : BeginReconcile(u)
    \/ ReconcileObject
    \/ TeardownObject
    \/ FinishReconcile
    \/ AbortReconcile
=============================================================================
