---------------------------- MODULE RemotePhases ----------------------------
(***************************************************************************)
(* An ObjectSet some of whose phases carry a class: they are delegated, as *)
(* ObjectSetPhase objects, to the ObjectSetPhase controller of that class, *)
(* which may run in another process against another cluster.               *)
(*                                                                         *)
(* Both controllers reconcile from informer caches, one request at a time, *)
(* and are woken by work queues alone: by changes the caches show, by      *)
(* changes of objects they watch, by errors.  The other half of the        *)
(* ObjectSet controller, several ObjectSets that follow each other, is     *)
(* module ObjectSetController.                                             *)
(***************************************************************************)
EXTENDS Integers, Sequences, FiniteSets, SequencesExt

CONSTANTS
    Objects,          \* the objects of the ObjectSet
    Content,          \* its phases, each a sequence of objects
    Layouts,          \* what phase.class can be, phase by phase
    Classes,          \* the classes some ObjectSetPhase controller serves
    Annotated,        \* those whose controller uses the annotation strategy
    Pausable,         \* objects that users pause
    Claimed,          \* objects another controller has when the story starts
    MaxUids,          \* bound: ObjectSetPhases ever created
    MaxFaults,        \* bound: failed calls, restarts and objects gone unready
    MaxEdits,         \* bound: changes of the ObjectSet by users
    MaxDisturbances   \* bound: faults and edits together

Local == ""
Phases == 1 .. Len(Content)
ObjectSet == 0                       \* the key of the ObjectSet in its queue
Keys == {ObjectSet} \union Phases
Nobody == 0
Stranger == -1
SetUid == 1
Uids == 2 .. MaxUids + 1

ASSUME RemoteAssumption ==
    /\ Content # << >>
    /\ \A p \in Phases : Content[p] \in Seq(Objects) /\ Content[p] # << >>
    /\ \A p, q \in Phases : p # q => Range(Content[p]) \cap Range(Content[q]) = {}
    /\ Layouts \subseteq [Phases -> Classes \union {Local}]
    /\ Local \notin Classes
    /\ Annotated \subseteq Classes
    /\ Pausable \subseteq Objects
    /\ Claimed \subseteq Objects
    /\ {MaxUids, MaxFaults, MaxEdits, MaxDisturbances} \subseteq Nat

VARIABLES
    class,        \* phase.class of every phase
    set,          \* the ObjectSet in the API server
    pauses,       \* what spec.pausedFor has been during its teardown (history)
    phases,       \* the ObjectSetPhases in the API server
    phasesSeen,   \* and in the caches
    created,      \* number of ObjectSetPhases created so far
    objs,         \* the managed objects, in their clusters
    queue,        \* keys with a reconcile request pending
    watching,     \* <<key, o>>: the dynamic watcher wakes key when o changes
    setWorker,    \* the reconcile of the ObjectSet that is running
    phaseWorker,  \* and that of each ObjectSetPhase controller
    spent         \* how much of the bounds is used up

apiVars == <<set, pauses, phases, created, objs>>
vars == <<class, set, pauses, phases, phasesSeen, created, objs,
          queue, watching, setWorker, phaseWorker, spent>>

-----------------------------------------------------------------------------
(* The Available condition is Stale when it speaks of an older generation. *)
Conditions == {"None", "Stale", "False", "True"}

SetRecord ==
    [exists : BOOLEAN, deleting : BOOLEAN, finalizer : BOOLEAN,
     lifecycle : {"Active", "Paused", "Archived"},
     pausedFor : SUBSET Objects, statusPausedFor : SUBSET Objects,
     available : Conditions]

NewSet ==
    [exists |-> TRUE, deleting |-> FALSE, finalizer |-> FALSE,
     lifecycle |-> "Active", pausedFor |-> {}, statusPausedFor |-> {},
     available |-> "None"]

NoSet == [NewSet EXCEPT !.exists = FALSE]

(* spec.paused of an ObjectSetPhase is left out: nothing in the code sets it. *)
PhaseRecord ==
    [exists : BOOLEAN, uid : Uids \union {Nobody},
     deleting : BOOLEAN, finalizer : BOOLEAN,
     pausedFor : SUBSET Objects, statusPausedFor : SUBSET Objects,
     available : Conditions]

NoPhase ==
    [exists |-> FALSE, uid |-> Nobody, deleting |-> FALSE, finalizer |-> FALSE,
     pausedFor |-> {}, statusPausedFor |-> {}, available |-> "None"]

NewPhase == [NoPhase EXCEPT !.exists = TRUE, !.uid = created + 2]

ObjectRecord ==
    [exists : BOOLEAN, dying : BOOLEAN, ready : BOOLEAN,
     controller : Uids \union {Nobody, Stranger, SetUid}]

Absent == [exists |-> FALSE, dying |-> FALSE, ready |-> FALSE, controller |-> Nobody]

Steps == {"idle", "reconcile", "teardown", "report"}

WorkerRecord(Copies) ==
    [step : Steps,
     phase : Phases \union {0},   \* the phase ...
     at : Nat,                    \* ... and the object the worker has come to
     read : Copies,               \* the copy the reconcile works on
     ok : BOOLEAN,                \* every object of this phase is as it should be
     overlooked : SUBSET Phases]  \* taken for gone, the cache not showing them (history)

IdleWith(copy) == [step |-> "idle", phase |-> 0, at |-> 0, read |-> copy, ok |-> TRUE,
                   overlooked |-> {}]
SetIdle == IdleWith(NoSet)
PhaseIdle == IdleWith(NoPhase)

(* The ObjectSet is to be torn down.                                       *)
Doomed(s) == s.deleting \/ s.lifecycle = "Archived"

SpecChanged(r) ==
    [r EXCEPT !.available = IF @ = "None" THEN "None" ELSE "Stale"]

\* Not the code: the finalizer of an ObjectSetPhase holds nothing up.
DeletePhaseAtOnce(ph) == NoPhase

(* A delete call: what has finalizers only starts to go.                   *)
DeletePhase(ph) ==
    IF ph.finalizer THEN [SpecChanged(ph) EXCEPT !.deleting = TRUE] ELSE NoPhase

(* Who reconciles o, in the terms of the queues.                           *)
PhaseOf(o) == CHOOSE p \in Phases : o \in Range(Content[p])
KeyOf(o) == IF class[PhaseOf(o)] = Local THEN ObjectSet ELSE PhaseOf(o)

SetPaused(s, o) == s.lifecycle = "Paused" \/ o \in s.pausedFor
PhasePaused(ph, o) == o \in ph.pausedFor

-----------------------------------------------------------------------------
\* Not the code: the handlers have no case for an object that goes away.
WokenByTheLiving ==
    {k \in Keys : \E o \in Objects :
       /\ objs'[o] # objs[o]
       /\ objs'[o].controller \notin {Nobody, Stranger}
       /\ k = KeyOf(o)
       /\ <<k, o>> \in watching'}

(* The handlers of the dynamic watcher: a change of o, which they look for *)
(* in the informers, wakes the owner o names, if that has a watch.         *)
Woken ==
    {k \in Keys : \E o \in Objects :
       /\ objs'[o] # objs[o]
       /\ {objs[o].controller, objs'[o].controller} \ {Nobody, Stranger} # {}
       /\ k = KeyOf(o)
       /\ <<k, o>> \in watching'}

Wake(keys) == queue' = queue \union keys \union Woken

DisturbancesLeft == spent.faults + spent.edits < MaxDisturbances
Spend(what) == spent' = [spent EXCEPT ![what] = @ + 1]

(* SetControllerReference: no other controller may be named.  The native   *)
(* strategy compares names, so that an ObjectSetPhase created anew takes   *)
(* over from its predecessor; the annotation strategy compares UIDs.       *)
MayControl(uid, o) ==
    \/ objs[o].controller \in {Nobody, uid}
    \/ objs[o].controller # Stranger /\ class[PhaseOf(o)] \notin Annotated

\* Not the code: an object that is missing is patched all the same.
AppliedBlindly(uid, o) == [objs[o] EXCEPT !.controller = uid]

(* What reconcileObject leaves in the API server.                          *)
Applied(uid, o) ==
    IF objs[o].exists THEN [objs[o] EXCEPT !.controller = uid]
                      ELSE [Absent EXCEPT !.exists = TRUE, !.controller = uid]

\* Not the code: an object counts as cleaned up once its deletion is asked for.
CleanedUpHasty(paused, o) == TRUE

(* TeardownPhase counts an object only when its delete call finds it gone. *)
CleanedUp(paused, o) == paused \/ ~objs[o].exists

DeleteObject(paused, o) ==
    objs' = IF paused \/ ~objs[o].exists THEN objs
                                         ELSE [objs EXCEPT ![o].dying = TRUE]

-----------------------------------------------------------------------------
(* Where a worker goes next.  The ObjectSet's walks the phases upwards to  *)
(* reconcile and downwards to tear down.                                   *)
Stop(w, ok) == [w EXCEPT !.step = "report", !.phase = 0, !.at = 0, !.ok = ok]

EnterPhase(w, p) ==
    IF p \in Phases THEN [w EXCEPT !.phase = p, !.at = 1, !.ok = TRUE]
                    ELSE Stop(w, TRUE)

Following(w) == IF w.step = "reconcile" THEN w.phase + 1 ELSE w.phase - 1

AfterSetPhase(w, ok) == IF ok THEN EnterPhase(w, Following(w)) ELSE Stop(w, FALSE)

AfterSetObject(w, good) ==
    IF w.at < Len(Content[w.phase])
      THEN [w EXCEPT !.at = @ + 1, !.ok = @ /\ good]
      ELSE AfterSetPhase(w, w.ok /\ good)

AfterPhaseObject(w, good) ==
    IF w.at < Len(Content[w.phase])
      THEN [w EXCEPT !.at = @ + 1, !.ok = @ /\ good]
      ELSE [w EXCEPT !.step = "report", !.ok = @ /\ good]

SetObject == Content[setWorker.phase][setWorker.at]
IsLocal == class[setWorker.phase] = Local

-----------------------------------------------------------------------------
(* GenericObjectSetController.Reconcile up to the first phase.  What it     *)
(* reads of the ObjectSet is current; what it goes on with may not be.      *)
BeginSet ==
    LET s == [set EXCEPT !.finalizer = TRUE]
        Start(step, p) ==
            setWorker' = EnterPhase([SetIdle EXCEPT !.step = step, !.read = s], p)
    IN  /\ ObjectSet \in queue
        /\ setWorker.step = "idle"
        /\ \/ /\ ~set.exists                                 \* not found
              /\ UNCHANGED <<set, setWorker>>
              /\ queue' = queue \ {ObjectSet}
           \/ /\ set.exists
              /\ set' = s
              /\ queue' = queue \ (IF set.finalizer THEN {ObjectSet} ELSE {})
              /\ IF Doomed(s)
                   THEN Start("teardown", Len(Content))
                   ELSE Start("reconcile", 1)
    /\ UNCHANGED <<class, pauses, phases, created, objs, phasesSeen, watching, phaseWorker, spent>>

(* reconcileLocalPhase, one object.                                        *)
ReconcileLocal ==
    LET o == SetObject
        paused == SetPaused(setWorker.read, o)
    IN  /\ setWorker.step = "reconcile"
        /\ IsLocal
        /\ watching' = watching \union {<<ObjectSet, o>>}
        /\ \/ /\ paused
              /\ setWorker' = AfterSetObject(setWorker, objs[o].exists /\ objs[o].ready)
              /\ UNCHANGED objs
              /\ Wake({})
           \/ /\ ~paused
              /\ MayControl(SetUid, o)
              /\ objs' = [objs EXCEPT ![o] = Applied(SetUid, o)]
              /\ setWorker' = AfterSetObject(setWorker, objs'[o].ready)
              /\ Wake({})
           \/ /\ ~paused
              /\ ~MayControl(SetUid, o)
              /\ setWorker' = SetIdle
              /\ UNCHANGED objs
              /\ Wake({ObjectSet})
        /\ UNCHANGED <<class, set, pauses, phases, created, phasesSeen, phaseWorker, spent>>

(* reconcileRemotePhase: an ObjectSetPhase that was just created fails no  *)
(* probe; of one that is there only the Available condition is looked at.  *)
ReconcileRemote ==
    LET p == setWorker.phase
        seen == phasesSeen[p]
    IN  /\ setWorker.step = "reconcile"
        /\ ~IsLocal
        /\ \/ /\ ~seen.exists
              /\ ~phases[p].exists
              /\ created < MaxUids
              /\ phases' = [phases EXCEPT ![p] = NewPhase]
              /\ created' = created + 1
              /\ setWorker' = AfterSetPhase(setWorker, TRUE)
              /\ UNCHANGED queue
           \/ /\ ~seen.exists                                \* already exists
              /\ phases[p].exists
              /\ setWorker' = SetIdle
              /\ queue' = queue \union {ObjectSet}
              /\ UNCHANGED <<phases, created>>
           \/ /\ seen.exists
              /\ setWorker' = AfterSetPhase(setWorker, seen.available = "True")
              /\ UNCHANGED <<phases, created, queue>>
        /\ UNCHANGED <<class, set, pauses, objs, phasesSeen, watching, phaseWorker, spent>>

TeardownLocal ==
    LET o == SetObject
        paused == SetPaused(setWorker.read, o)
    IN  /\ setWorker.step = "teardown"
        /\ IsLocal
        /\ DeleteObject(paused, o)
        /\ setWorker' = AfterSetObject(setWorker, CleanedUp(paused, o))
        /\ UNCHANGED <<class, set, pauses, phases, created, phasesSeen, watching, phaseWorker, spent>>
        /\ Wake({})

\* Not the code: the ObjectSetPhase is deleted with the pauses it has.
PauseForwardedNot(ph, s) == TRUE

(* "ensure PausedObject is up-to-date, _before_ we delete"                 *)
PauseForwarded(ph, s) == ph.statusPausedFor = s.pausedFor

Overlooks(p) ==
    IF phases[p].exists THEN [setWorker EXCEPT !.overlooked = @ \union {p}] ELSE setWorker

(* teardownRemotePhase: pass the pauses on and wait for the answer, then   *)
(* delete and wait for the end; the cache tells when it is gone.           *)
TeardownRemote ==
    LET p == setWorker.phase
        seen == phasesSeen[p]
        s == setWorker.read
    IN  /\ setWorker.step = "teardown"
        /\ ~IsLocal
        /\ \/ /\ ~seen.exists                                \* "already gone"
              /\ setWorker' = AfterSetPhase(Overlooks(p), TRUE)
              /\ UNCHANGED <<phases, queue>>
           \/ /\ seen.exists
              /\ ~PauseForwarded(seen, s)
              /\ seen = phases[p]
              /\ phases' = IF seen.pausedFor = s.pausedFor THEN phases
                           ELSE [phases EXCEPT ![p] =
                                   [SpecChanged(@) EXCEPT !.pausedFor = s.pausedFor]]
              /\ setWorker' = AfterSetPhase(setWorker, FALSE)
              /\ UNCHANGED queue
           \/ /\ seen.exists                                 \* conflict
              /\ ~PauseForwarded(seen, s)
              /\ seen # phases[p]
              /\ setWorker' = SetIdle
              /\ queue' = queue \union {ObjectSet}
              /\ UNCHANGED phases
           \/ /\ seen.exists
              /\ PauseForwarded(seen, s)
              /\ phases' = [phases EXCEPT ![p] = IF @.exists THEN DeletePhase(@) ELSE @]
              /\ setWorker' = AfterSetPhase(setWorker, ~phases[p].exists)
              /\ UNCHANGED queue
        /\ UNCHANGED <<class, set, pauses, created, objs, phasesSeen, watching, phaseWorker, spent>>

(* The status an ObjectSet is left with, whatever its phases were told; an *)
(* archived one reports Archived whether or not its teardown is done.      *)
Reported(s, ok) ==
    IF s.lifecycle = "Archived"
      THEN [s EXCEPT !.statusPausedFor = s.pausedFor, !.available = "None"]
      ELSE [s EXCEPT !.statusPausedFor = s.pausedFor,
                     !.available = IF ok THEN "True" ELSE "False"]

(* The end of a reconcile: the status update, or the removal of the        *)
(* finalizer once all is torn down.  Archival and removal free the watch.  *)
FinishSet ==
    LET s == setWorker.read
        writes == ~s.deleting \/ setWorker.ok
        freed == {ObjectSet} \X Objects
    IN  /\ setWorker.step = "report"
        /\ set' = IF ~writes \/ set # s THEN set
                  ELSE IF s.deleting THEN NoSet ELSE Reported(s, setWorker.ok)
        /\ queue' = IF (writes /\ set # s) \/ set' # set
                      THEN queue \union {ObjectSet} ELSE queue
        /\ watching' = IF \/ ~s.deleting /\ s.lifecycle = "Archived"
                          \/ s.deleting /\ setWorker.ok /\ set = s
                         THEN watching \ freed ELSE watching
        /\ setWorker' = SetIdle
        /\ UNCHANGED <<class, pauses, phases, created, objs, phasesSeen, phaseWorker, spent>>

-----------------------------------------------------------------------------
(* GenericObjectSetPhaseController.Reconcile of the controller of class c. *)
BeginPhase(c, p) ==
    LET ph == [phasesSeen[p] EXCEPT !.finalizer = TRUE]
        Start(step, copy) ==
            phaseWorker' = [phaseWorker EXCEPT ![c] =
              [PhaseIdle EXCEPT !.step = step, !.phase = p, !.at = 1, !.read = copy]]
    IN  /\ p \in queue
        /\ class[p] = c
        /\ phaseWorker[c].step = "idle"
        /\ \/ /\ ~phasesSeen[p].exists
              /\ queue' = queue \ {p}
              /\ UNCHANGED <<phases, phaseWorker>>
           \/ /\ phasesSeen[p].exists
              /\ phasesSeen[p].deleting
              /\ queue' = queue \ {p}
              /\ Start("teardown", phasesSeen[p])
              /\ UNCHANGED phases
           \/ /\ phasesSeen[p].exists
              /\ ~phasesSeen[p].deleting
              /\ phasesSeen[p].finalizer \/ phasesSeen[p] = phases[p]
              /\ queue' = queue \ {p}
              /\ phases' = IF phasesSeen[p].finalizer THEN phases
                                                      ELSE [phases EXCEPT ![p] = ph]
              /\ Start("reconcile", ph)
           \/ /\ phasesSeen[p].exists                        \* conflict
              /\ ~phasesSeen[p].deleting
              /\ ~phasesSeen[p].finalizer /\ phasesSeen[p] # phases[p]
              /\ UNCHANGED <<queue, phases, phaseWorker>>
    /\ UNCHANGED <<class, set, pauses, created, objs, phasesSeen, watching, setWorker, spent>>

ReconcilePhaseObject(c) ==
    LET w == phaseWorker[c]
        o == Content[w.phase][w.at]
        paused == PhasePaused(w.read, o)
        Go(w1) == phaseWorker' = [phaseWorker EXCEPT ![c] = w1]
    IN  /\ w.step = "reconcile"
        /\ watching' = watching \union {<<w.phase, o>>}
        /\ \/ /\ paused
              /\ Go(AfterPhaseObject(w, objs[o].exists /\ objs[o].ready))
              /\ UNCHANGED objs
              /\ Wake({})
           \/ /\ ~paused
              /\ MayControl(w.read.uid, o)
              /\ objs' = [objs EXCEPT ![o] = Applied(w.read.uid, o)]
              /\ Go(AfterPhaseObject(w, objs'[o].ready))
              /\ Wake({})
           \/ /\ ~paused
              /\ ~MayControl(w.read.uid, o)
              /\ Go(PhaseIdle)
              /\ UNCHANGED objs
              /\ Wake({w.phase})
        /\ UNCHANGED <<class, set, pauses, phases, created, phasesSeen, setWorker, spent>>

TeardownPhaseObject(c) ==
    LET w == phaseWorker[c]
        o == Content[w.phase][w.at]
        paused == PhasePaused(w.read, o)
    IN  /\ w.step = "teardown"
        /\ DeleteObject(paused, o)
        /\ phaseWorker' = [phaseWorker EXCEPT ![c] = AfterPhaseObject(w, CleanedUp(paused, o))]
        /\ UNCHANGED <<class, set, pauses, phases, created, phasesSeen, watching, setWorker, spent>>
        /\ Wake({})

(* The status acknowledges the pauses that this reconcile has heeded.      *)
PhaseReported(ph, ok) ==
    [ph EXCEPT !.statusPausedFor = ph.pausedFor,
               !.available = IF ok THEN "True" ELSE "False"]

FinishPhase(c) ==
    LET w == phaseWorker[c]
        p == w.phase
        writes == ~w.read.deleting \/ w.ok
        current == phases[p] = w.read
    IN  /\ w.step = "report"
        /\ phases' = IF ~writes \/ ~current THEN phases
                     ELSE [phases EXCEPT ![p] = IF w.read.deleting THEN NoPhase
                                                ELSE PhaseReported(w.read, w.ok)]
        /\ queue' = IF writes /\ ~current THEN queue \union {p} ELSE queue
        /\ watching' = IF w.read.deleting /\ w.ok /\ current
                         THEN watching \ ({p} \X Objects) ELSE watching
        /\ phaseWorker' = [phaseWorker EXCEPT ![c] = PhaseIdle]
        /\ UNCHANGED <<class, set, pauses, created, objs, phasesSeen, setWorker, spent>>

-----------------------------------------------------------------------------
(* A call to an API server fails: the reconcile ends and is tried again.   *)
Fail ==
    /\ spent.faults < MaxFaults /\ DisturbancesLeft
    /\ \/ /\ setWorker.step # "idle"
          /\ setWorker' = SetIdle
          /\ queue' = queue \union {ObjectSet}
          /\ UNCHANGED phaseWorker
       \/ \E c \in Classes :
            /\ phaseWorker[c].step # "idle"
            /\ phaseWorker' = [phaseWorker EXCEPT ![c] = PhaseIdle]
            /\ queue' = queue \union {phaseWorker[c].phase}
            /\ UNCHANGED setWorker
    /\ Spend("faults")
    /\ UNCHANGED <<class, apiVars, phasesSeen, watching>>

(* The operators restart: nothing is watched, and every object that the    *)
(* new caches list is reconciled.                                          *)
Restart ==
    /\ spent.faults < MaxFaults /\ DisturbancesLeft
    /\ setWorker' = SetIdle
    /\ phaseWorker' = [c \in Classes |-> PhaseIdle]
    /\ watching' = {}
    /\ queue' = Keys
    /\ phasesSeen' = phases
    /\ spent' = [spent EXCEPT !.faults = @ + 1, !.restarts = @ + 1]
    /\ UNCHANGED <<class, apiVars>>

\* Not the code: the ObjectSet controller does not watch what it owns.
SyncPhaseAlone(p) ==
    /\ phasesSeen[p] # phases[p]
    /\ phasesSeen' = [phasesSeen EXCEPT ![p] = phases[p]]
    /\ queue' = queue \union {p}
    /\ UNCHANGED <<class, apiVars, watching, setWorker, phaseWorker, spent>>

(* The cache catches up: the phase that changed is reconciled, and so is   *)
(* its owner.                                                              *)
SyncPhase(p) ==
    /\ phasesSeen[p] # phases[p]
    /\ phasesSeen' = [phasesSeen EXCEPT ![p] = phases[p]]
    /\ queue' = queue \union {p, ObjectSet}
    /\ UNCHANGED <<class, apiVars, watching, setWorker, phaseWorker, spent>>

\* Not the code: only the ObjectSets are resynced.
ResyncSets ==
    /\ queue # Keys
    /\ queue' = queue \union {ObjectSet}
    /\ UNCHANGED <<class, apiVars, phasesSeen, watching, setWorker, phaseWorker, spent>>

(* The informers resync every ten hours.                                   *)
Resync ==
    /\ queue # Keys
    /\ queue' = Keys
    /\ UNCHANGED <<class, apiVars, phasesSeen, watching, setWorker, phaseWorker, spent>>

ChangeObject(o, obj) ==
    /\ objs' = [objs EXCEPT ![o] = obj]
    /\ UNCHANGED <<class, set, pauses, phases, created, phasesSeen, watching, setWorker, phaseWorker>>
    /\ Wake({})

BecomeReady(o) ==
    /\ objs[o].exists
    /\ ~objs[o].ready
    /\ ChangeObject(o, [objs[o] EXCEPT !.ready = TRUE])
    /\ UNCHANGED spent

Disappear(o) ==
    /\ objs[o].dying
    /\ ChangeObject(o, Absent)
    /\ UNCHANGED spent

(* The other controller lets go of an object.                              *)
LetGo(o) ==
    /\ objs[o].controller = Stranger
    /\ ChangeObject(o, [objs[o] EXCEPT !.controller = Nobody])
    /\ UNCHANGED spent

Drift(o) ==
    /\ spent.faults < MaxFaults /\ DisturbancesLeft
    /\ objs[o].ready
    /\ ChangeObject(o, [objs[o] EXCEPT !.ready = FALSE])
    /\ Spend("faults")

(* The garbage collector deletes the ObjectSetPhases that are left when    *)
(* the ObjectSet, their controller, is gone.                               *)
CollectPhase(p) ==
    /\ ~set.exists
    /\ phases[p].exists /\ ~phases[p].deleting
    /\ phases' = [phases EXCEPT ![p] = DeletePhase(@)]
    /\ UNCHANGED <<class, set, pauses, created, objs, phasesSeen, queue, watching,
                   setWorker, phaseWorker, spent>>

(* Users and the ObjectDeployment controller.  The pauses may change at    *)
(* any time, also while the ObjectSet is being torn down; only an archival *)
(* is never taken back.                                                    *)
EditSet ==
    /\ spent.edits < MaxEdits /\ DisturbancesLeft
    /\ set.exists
    /\ \/ \E lifecycle \in {"Active", "Paused", "Archived"}, os \in SUBSET Pausable :
            /\ set.lifecycle = "Archived" => lifecycle = "Archived"
            /\ <<lifecycle, os>> # <<set.lifecycle, set.pausedFor>>
            /\ set' = [SpecChanged(set) EXCEPT !.lifecycle = lifecycle, !.pausedFor = os]
       \/ /\ ~set.deleting
          /\ set' = IF set.finalizer THEN [SpecChanged(set) EXCEPT !.deleting = TRUE]
                                     ELSE NoSet
    /\ pauses' = IF Doomed(set') THEN pauses \union {set'.pausedFor} ELSE pauses
    /\ Spend("edits")
    /\ queue' = queue \union {ObjectSet}
    /\ UNCHANGED <<class, phases, created, objs, phasesSeen, watching,
                   setWorker, phaseWorker>>

-----------------------------------------------------------------------------
Init ==
    /\ class \in Layouts
    /\ set = NewSet
    /\ pauses = {}
    /\ phases = [p \in Phases |-> NoPhase]
    /\ phasesSeen = [p \in Phases |-> NoPhase]
    /\ created = 0
    /\ objs = [o \in Objects |-> IF o \in Claimed
                 THEN [Absent EXCEPT !.exists = TRUE, !.controller = Stranger] ELSE Absent]
    /\ queue = {ObjectSet}
    /\ watching = {}
    /\ setWorker = SetIdle
    /\ phaseWorker = [c \in Classes |-> PhaseIdle]
    /\ spent = [faults |-> 0, restarts |-> 0, edits |-> 0]

SetStep == ReconcileLocal \/ ReconcileRemote \/ TeardownLocal \/ TeardownRemote \/ FinishSet

PhaseStep(c) == ReconcilePhaseObject(c) \/ TeardownPhaseObject(c) \/ FinishPhase(c)

Progress(o) == BecomeReady(o) \/ Disappear(o) \/ LetGo(o)

Next ==
    \/ BeginSet
    \/ SetStep
    \/ \E c \in Classes : PhaseStep(c) \/ \E p \in Phases : BeginPhase(c, p)
    \/ Fail
    \/ Restart
    \/ Resync
    \/ \E p \in Phases : SyncPhase(p) \/ CollectPhase(p)
    \/ \E o \in Objects : Progress(o) \/ Drift(o)
    \/ EditSet

Spec == Init /\ [][Next]_vars

(* A controller takes what is queued, in the order of the queue, and       *)
(* finishes what it began; the cache catches up and the clusters make      *)
(* progress.  No resync is counted on.                                     *)
Fairness ==
    /\ WF_vars(BeginSet \/ SetStep)
    /\ \A c \in Classes : WF_vars(PhaseStep(c) \/ \E p \in Phases : BeginPhase(c, p))
    /\ \A p \in Phases : WF_vars(SyncPhase(p))
    /\ WF_vars(\E o \in Objects : Progress(o))

FairSpec == Spec /\ Fairness

-----------------------------------------------------------------------------
TypeOK ==
    /\ class \in Layouts
    /\ set \in SetRecord
    /\ pauses \subseteq SUBSET Objects
    /\ phases \in [Phases -> PhaseRecord]
    /\ phasesSeen \in [Phases -> PhaseRecord]
    /\ created \in 0 .. MaxUids
    /\ objs \in [Objects -> ObjectRecord]
    /\ \A o \in Objects : objs[o].exists \/ objs[o] = Absent
    /\ queue \subseteq Keys
    /\ watching \subseteq Keys \X Objects
    /\ setWorker \in WorkerRecord(SetRecord)
    /\ phaseWorker \in [Classes -> WorkerRecord(PhaseRecord)]

Ours(o) == objs[o].exists /\ objs[o].controller \notin {Nobody, Stranger}

(* What is left of phase p are objects of os.                              *)
LeavesBut(p, os) == \A o \in Range(Content[p]) : Ours(o) => o \in os

(* Phase p is torn down: a local one but for what s pauses; a delegated    *)
(* one, together with its ObjectSetPhase, but for what pausedFor named at  *)
(* some moment of the teardown, which may not be what it names now.        *)
TornDown(p, s) ==
    IF class[p] = Local THEN LeavesBut(p, {o \in Objects : SetPaused(s, o)})
    ELSE ~phases[p].exists /\ \E P \in pauses \union {{}} : LeavesBut(p, P)

(* Phases are torn down in reverse order, across processes and clusters:   *)
(* when the ObjectSet controller comes to a phase, every later one is torn *)
(* down, unless it was not in the cache yet and passed for gone.           *)
TeardownInOrder ==
    setWorker.step = "teardown" =>
      \A q \in setWorker.phase + 1 .. Len(Content) :
        q \in setWorker.overlooked \/ TornDown(q, setWorker.read)

(* The finalizer goes last: when an ObjectSet leaves the API server, all   *)
(* its phases have been torn down, but for those that passed for gone.     *)
RemovalLeavesNothing ==
    [][set.exists /\ ~set'.exists =>
         \A p \in Phases : p \in setWorker.overlooked \/ TornDown(p, set)]_vars

(* While the ObjectSet is there, an object that its spec.pausedFor has     *)
(* named ever since the teardown was asked for is spared, whoever          *)
(* reconciles it, however late the word of it comes to the ObjectSetPhase  *)
(* and whatever else the pauses named meanwhile; before that all are.      *)
PausedAreSpared ==
    [][\A o \in Objects :
         set.exists /\ objs'[o].dying /\ ~objs[o].dying =>
           \E P \in pauses : o \notin P]_vars

(* If nobody edits the ObjectSet, all its objects are there in the end,    *)
(* controlled by it and ready, and its status says so, without a resync.   *)
RolledOut ==
    /\ set.available = "True"
    /\ \A o \in Objects : Ours(o) /\ objs[o].ready
    /\ \A p \in Phases : class[p] # Local => phases[p].available = "True"

RolloutConcludes == <>[](RolledOut \/ spent.edits > 0)

(* A deleted ObjectSet goes without a resync: every step of its teardown   *)
(* wakes the one who waits for it.  Two cases are left to the resync: after *)
(* a restart nobody watches what is being torn down, and the archival of   *)
(* an ObjectSet frees its watches at its first pass.  (A deletion is never *)
(* taken back: no ObjectSet stays deleted for ever.)                       *)
DeletionConcludes ==
    <>[](~set.deleting \/ spent.restarts > 0 \/ set.lifecycle = "Archived")

(* With the resync of the informers, a deleted ObjectSet always goes, and  *)
(* of an archived one all phases are torn down.                            *)
TeardownConcludes ==
    SF_vars(Resync) =>
      <>[](/\ ~set.deleting
           /\ set.lifecycle = "Archived" => \A p \in Phases : TornDown(p, set))

(* "Failing probes will prevent the reconcilation of objects in later      *)
(* phases": no object of a phase is written before the objects of earlier  *)
(* phases have been ready.                                                 *)
PhasesInOrder ==
    [][\A p, q \in Phases : p < q =>
         \A o \in Range(Content[q]) :
           /\ ~objs[o].exists /\ objs'[o].exists
           /\ spent.faults = 0 /\ spent.edits = 0
           => \A o1 \in Range(Content[p]) : objs[o1].ready]_vars
=============================================================================
