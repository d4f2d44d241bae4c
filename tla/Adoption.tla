------------------------------- MODULE Adoption -------------------------------
(***************************************************************************)
(* The adoption controller: objects of a kind that carry none of the       *)
(* labels of an Adoption are given some, always the same (Static) or one   *)
(* of several options in turn (RoundRobin), whose last index is kept in    *)
(* the status of the Adoption.                                             *)
(*                                                                         *)
(* Of the labels only the keys count, and every option has a key of its    *)
(* own.  The Adoption is read from a cache, its objects are not.           *)
(***************************************************************************)
EXTENDS Integers, FiniteSets

CONSTANTS
    Objects,     \* what there can be of the target kind in the namespace
    NumOptions,  \* how many options the round robin chooses from
    MaxFaults,   \* bound: failed calls, restarts and reads of an old Adoption
    MaxEdits     \* bound: changes of the Adoption and of labels by users

ASSUME AdoptionAssumption ==
    /\ NumOptions \in Nat \ {0}
    /\ {MaxFaults, MaxEdits} \subseteq Nat

VARIABLES
    adoption,      \* the Adoption in the API server
    adoptionSeen,  \* and in the cache
    objs,          \* the objects
    queued,        \* a reconcile is pending
    watching,      \* the dynamic watcher wakes the Adoption for its kind
    worker,        \* the reconcile that is running
    given,         \* how often each option was given to an object (history)
    spent          \* how much of the bounds is used up

vars == <<adoption, adoptionSeen, objs, queued, watching, worker, given, spent>>

Options == 0 .. NumOptions - 1
NoIndex == -1

AdoptionRecord ==
    [exists : BOOLEAN, deleting : BOOLEAN, finalizer : BOOLEAN,
     strategy : {"Static", "RoundRobin"},
     lastIndex : Options \union {NoIndex}, active : BOOLEAN]

NoAdoption ==
    [exists |-> FALSE, deleting |-> FALSE, finalizer |-> FALSE,
     strategy |-> "Static", lastIndex |-> NoIndex, active |-> FALSE]

(* options: the options whose key the object carries.                      *)
ObjectRecord == [exists : BOOLEAN, static : BOOLEAN, always : BOOLEAN,
                 options : SUBSET Options]

Absent == [exists |-> FALSE, static |-> FALSE, always |-> FALSE, options |-> {}]

(* todo: what List returned; stale: what has changed since; fresh: the     *)
(* Adoption is as the reconcile has read it; "free": the finalizer is      *)
(* removed, the watch not yet given back.                                  *)
WorkerRecord ==
    [step : {"idle", "list", "write", "free"}, strategy : {"Static", "RoundRobin"},
     index : Options \union {NoIndex}, fresh : BOOLEAN,
     todo : SUBSET Objects, stale : SUBSET Objects]

Idle == [step |-> "idle", strategy |-> "Static", index |-> NoIndex,
         fresh |-> TRUE, todo |-> {}, stale |-> {}]

Spend(what) == spent' = [spent EXCEPT ![what] = @ + 1]

OutdatedWorker == [worker EXCEPT !.fresh = worker.step = "idle"]

\* Not the code: the end of the options is passed by one.
RoundRobinIndexPast(lastIndex) == IF lastIndex + 1 <= NumOptions THEN lastIndex + 1 ELSE 0

(* roundRobinIndex, with the index that getLastRoundRobinIndex returns.    *)
RoundRobinIndex(lastIndex) == IF lastIndex + 1 \in Options THEN lastIndex + 1 ELSE 0

(* The negative selectors: objects that carry none of the keys.            *)
Selected(strategy, obj) ==
    obj.exists /\ IF strategy = "Static" THEN ~obj.static ELSE obj.options = {}

Labelled(strategy, index, obj) ==
    IF strategy = "Static" THEN [obj EXCEPT !.static = TRUE]
    ELSE [obj EXCEPT !.always = TRUE, !.options = @ \union {index}]

-----------------------------------------------------------------------------
(* GenericAdoptionController.Reconcile up to its reconcilers: the common   *)
(* finalizer is added before the watch is set up, and removed before it is *)
(* given back.  An update may get through without the word of it, and then *)
(* the reconcile ends there.  To go by an old Adoption counts as a fault.  *)
Begin ==
    LET seen == adoptionSeen
        fresh == seen = adoption
        Enter(index) ==
            worker' = [Idle EXCEPT !.step = "list", !.strategy = seen.strategy,
                                   !.index = index, !.fresh = fresh]
    IN  /\ queued
        /\ worker.step = "idle"
        /\ \/ /\ ~seen.exists
              /\ queued' = FALSE
              /\ UNCHANGED <<adoption, watching, worker, spent>>
           \/ /\ seen.exists /\ seen.deleting /\ fresh
              /\ adoption' = NoAdoption
              /\ worker' = [Idle EXCEPT !.step = "free"]
              /\ queued' = FALSE
              /\ UNCHANGED <<watching, spent>>
           \/ /\ seen.exists /\ ~seen.deleting
              /\ fresh
              /\ adoption' = [adoption EXCEPT !.finalizer = TRUE]
              /\ watching' = TRUE
              /\ queued' = FALSE
              /\ Enter(seen.lastIndex)
              /\ UNCHANGED spent
           \/ /\ seen.exists /\ fresh                        \* the reply is lost
              /\ seen.deleting \/ ~seen.finalizer
              /\ spent.faults < MaxFaults
              /\ adoption' = IF seen.deleting THEN NoAdoption
                                              ELSE [adoption EXCEPT !.finalizer = TRUE]
              /\ Spend("faults")
              /\ UNCHANGED <<watching, worker, queued>>
           \/ /\ seen.exists /\ ~seen.deleting
              /\ ~fresh /\ seen.finalizer
              /\ spent.faults < MaxFaults
              /\ watching' = TRUE
              /\ queued' = FALSE
              /\ Enter(seen.lastIndex)
              /\ Spend("faults")
              /\ UNCHANGED adoption
           \/ /\ seen.exists                                 \* conflict
              /\ ~fresh /\ (seen.deleting \/ ~seen.finalizer)
              /\ UNCHANGED <<adoption, watching, worker, queued, spent>>
    /\ UNCHANGED <<adoptionSeen, objs, given>>

(* The end of HandleCommonDeletion: dw.Free.                               *)
Free ==
    /\ worker.step = "free"
    /\ watching' = FALSE
    /\ worker' = Idle
    /\ UNCHANGED <<adoption, adoptionSeen, objs, queued, given, spent>>

List ==
    /\ worker.step = "list"
    /\ worker' = [worker EXCEPT !.step = "write",
                    !.todo = {o \in Objects : Selected(worker.strategy, objs[o])}]
    /\ UNCHANGED <<adoption, adoptionSeen, objs, queued, watching, given, spent>>

\* Not the code: a failed update saves nothing.
SavedNot == adoption

(* What a failed update leaves of the index, if the status can be written. *)
Saved ==
    IF worker.strategy = "RoundRobin" /\ worker.fresh
      THEN [adoption EXCEPT !.lastIndex = worker.index] ELSE adoption

\* Not the code: the error is not handed to the work queue.
GiveUpQuietly ==
    /\ adoption' = Saved
    /\ worker' = Idle
    /\ UNCHANGED queued

GiveUp ==
    /\ adoption' = Saved
    /\ worker' = Idle
    /\ queued' = TRUE

(* The update of an object got through, if not always the word of it.      *)
Commit(o) ==
    LET index == RoundRobinIndex(worker.index)
    IN  /\ objs' = [objs EXCEPT ![o] = Labelled(worker.strategy, index, @)]
        /\ given' = IF worker.strategy = "Static" THEN given
                    ELSE [given EXCEPT ![index] = @ + 1]

\* Not the code: the update of an object does not insist on its version.
OutOfDateNever(o) == FALSE

OutOfDate(o) == o \in worker.stale

(* One turn of the loops over what was listed.                             *)
Write(o) ==
    /\ worker.step = "write"
    /\ o \in worker.todo
    /\ \/ /\ ~OutOfDate(o)
          /\ Commit(o)
          /\ worker' = [worker EXCEPT !.todo = @ \ {o},
               !.index = IF worker.strategy = "Static" THEN @ ELSE RoundRobinIndex(@)]
          /\ queued' = (queued \/ watching)
          /\ UNCHANGED <<adoption, spent>>
       \/ /\ OutOfDate(o)                                    \* conflict
          /\ GiveUp
          /\ UNCHANGED <<objs, given, spent>>
       \/ /\ ~OutOfDate(o)                                   \* the reply is lost
          /\ spent.faults < MaxFaults
          /\ Commit(o)
          /\ GiveUp
          /\ Spend("faults")
    /\ UNCHANGED <<adoptionSeen, watching>>

(* The status update that ends a reconcile.                                *)
Finish ==
    LET reported == [adoption EXCEPT !.active = TRUE, !.lastIndex =
                       IF worker.strategy = "Static" THEN NoIndex ELSE worker.index]
    IN  /\ worker.step = "write"
        /\ worker.todo = {}
        /\ adoption' = IF worker.fresh THEN reported ELSE adoption
        /\ queued' = (queued \/ ~worker.fresh)
        /\ worker' = Idle
        /\ UNCHANGED <<adoptionSeen, objs, watching, given, spent>>

-----------------------------------------------------------------------------
(* The informer of Adoptions.                                              *)
Sync ==
    /\ adoptionSeen # adoption
    /\ adoptionSeen' = adoption
    /\ queued' = TRUE
    /\ UNCHANGED <<adoption, objs, watching, worker, given, spent>>

(* The operator restarts: no watch is left, everything is reconciled.      *)
Restart ==
    /\ spent.faults < MaxFaults
    /\ worker' = Idle
    /\ watching' = FALSE
    /\ queued' = TRUE
    /\ adoptionSeen' = adoption
    /\ Spend("faults")
    /\ UNCHANGED <<adoption, objs, given>>

(* Users change an object, which wakes those who watch its kind.           *)
ChangeObject(o, obj) ==
    /\ objs' = [objs EXCEPT ![o] = obj]
    /\ worker' = [worker EXCEPT !.stale = IF worker.step = "write" THEN @ \union {o} ELSE {}]
    /\ queued' = (queued \/ watching)
    /\ UNCHANGED <<adoption, adoptionSeen, watching, given>>

CreateObject(o) ==
    /\ ~objs[o].exists
    /\ ChangeObject(o, [Absent EXCEPT !.exists = TRUE])
    /\ UNCHANGED spent

Relabel(o) ==
    /\ spent.edits < MaxEdits
    /\ objs[o].exists
    /\ \/ ChangeObject(o, [Absent EXCEPT !.exists = TRUE])
       \/ /\ objs[o].options = {}
          /\ \E i \in Options : ChangeObject(o, [objs[o] EXCEPT !.options = {i}])
    /\ Spend("edits")

(* Users change the strategy of the Adoption, or delete it.                *)
EditAdoption ==
    /\ spent.edits < MaxEdits
    /\ adoption.exists /\ ~adoption.deleting
    /\ \/ \E strategy \in {"Static", "RoundRobin"} \ {adoption.strategy} :
            adoption' = [adoption EXCEPT !.strategy = strategy]
       \/ adoption' = IF adoption.finalizer THEN [adoption EXCEPT !.deleting = TRUE]
                                            ELSE NoAdoption
    /\ worker' = OutdatedWorker
    /\ spent' = [spent EXCEPT !.edits = @ + 1, !.adoptions = @ + 1]
    /\ UNCHANGED <<adoptionSeen, objs, queued, watching, given>>

-----------------------------------------------------------------------------
Init ==
    /\ \E strategy \in {"Static", "RoundRobin"} :
         adoption = [NoAdoption EXCEPT !.exists = TRUE, !.strategy = strategy]
    /\ adoptionSeen = NoAdoption
    /\ objs = [o \in Objects |-> Absent]
    /\ queued = FALSE
    /\ watching = FALSE
    /\ worker = Idle
    /\ given = [i \in Options |-> 0]
    /\ spent = [faults |-> 0, edits |-> 0, adoptions |-> 0]

ControllerStep == Begin \/ Free \/ List \/ (\E o \in Objects : Write(o)) \/ Finish

Next ==
    \/ ControllerStep
    \/ Sync
    \/ Restart
    \/ \E o \in Objects : CreateObject(o) \/ Relabel(o)
    \/ EditAdoption

Spec == Init /\ [][Next]_vars

(* The controller works off its queue and the cache catches up.            *)
Fairness == WF_vars(ControllerStep) /\ WF_vars(Sync)

FairSpec == Spec /\ Fairness

-----------------------------------------------------------------------------
TypeOK ==
    /\ adoption \in AdoptionRecord
    /\ adoptionSeen \in AdoptionRecord
    /\ objs \in [Objects -> ObjectRecord]
    /\ queued \in BOOLEAN
    /\ watching \in BOOLEAN
    /\ worker \in WorkerRecord
    /\ given \in [Options -> Nat]
    /\ spent \in [{"faults", "edits", "adoptions"} -> Nat]

(* "Only a single label set of all the provided options will be applied":  *)
(* not even if users label objects while the controller is at it.          *)
OneOptionOnly == \A o \in Objects : Cardinality(objs[o].options) <= 1

(* The options are given out evenly: the index is lost or read too old at  *)
(* most once or twice a fault, and once an edit of the Adoption, and each  *)
(* time the distribution is off by one more.  A conflict on an object      *)
(* loses nothing.                                                          *)
Balanced ==
    \A i, j \in Options : given[i] - given[j] <= 1 + 2 * spent.faults + spent.adoptions

(* Every object is labelled in the end, whenever it was created and        *)
(* whatever failed.                                                        *)
EveryoneIsLabelled ==
    <>[](adoption.exists /\ ~adoption.deleting =>
           /\ adoption.active
           /\ \A o \in Objects : ~Selected(adoption.strategy, objs[o]))
=============================================================================
