------------------------------- MODULE Handover -------------------------------
(***************************************************************************)
(* The Handover controller with the Relabel strategy: it hands the objects *)
(* of one kind over from one operator to another by changing a label, a    *)
(* few objects at a time, and keeps a queue of the ones in transition in   *)
(* the status of the Handover.                                             *)
(*                                                                         *)
(* The Handover is read from the informer cache, the objects from the API  *)
(* server.  An update that the API server accepts only at the current      *)
(* resourceVersion is accepted here when the copy read equals the record.  *)
(***************************************************************************)
EXTENDS Integers, Sequences, FiniteSets, SequencesExt

CONSTANTS
    Objects,          \* the names of the objects of the target kind
    MaxUnavailable,   \* spec.strategy.relabel.maxUnavailable
    EditedLabels,     \* the labels a user may give an object
    FreshReads,       \* the cache shows the Handover as it is when a reconcile begins
    MaxErrors,        \* bound: failed calls and crashes of the manager
    MaxDrift,         \* bound: objects removed or turned unready
    MaxUserEdits      \* bound: objects relabelled or added by a user

(* "from" and "to" stand for the two values of the label, "other" for      *)
(* another value or no such label, "none" for an object without any label. *)
Labels == {"from", "to", "other", "none"}

ASSUME HandoverAssumption ==
    /\ IsFiniteSet(Objects)
    /\ MaxUnavailable \in Nat \ {0}
    /\ EditedLabels \subseteq Labels
    /\ FreshReads \in BOOLEAN
    /\ MaxErrors \in Nat
    /\ MaxDrift \in Nat
    /\ MaxUserEdits \in Nat

VARIABLES
    objs,       \* the objects in the API server
    handover,   \* the Handover in the API server
    cache,      \* the Handover in the informer cache
    worker,     \* the reconcile in progress
    spent       \* how much of each bound is used up

vars == <<objs, handover, cache, worker, spent>>

(* status is the value at spec.statusPath, which the operator in charge    *)
(* reports; ready is the verdict of the probes; handed says that the label *)
(* was set by the Handover.                                                *)
ObjectRecord ==
    [exists : BOOLEAN, label : Labels, status : {"from", "to", "none"},
     ready : BOOLEAN, handed : BOOLEAN]

Absent == [exists |-> FALSE, label |-> "none", status |-> "none",
           ready |-> FALSE, handed |-> FALSE]

HandoverRecord ==
    [exists : BOOLEAN, deleting : BOOLEAN, finalizer : BOOLEAN,
     processing : Seq(Objects), completed : BOOLEAN]

(* The reconcile holds the Handover it read, works through its queue,      *)
(* lists the objects, and reports the next queue and the verdict.          *)
WorkerRecord ==
    [step : {"idle", "process", "list", "report"}, read : HandoverRecord,
     at : Nat \ {0}, queue : Seq(Objects), completed : BOOLEAN]

NewHandover == [exists |-> TRUE, deleting |-> FALSE, finalizer |-> FALSE,
                processing |-> << >>, completed |-> FALSE]

Idle == [step |-> "idle", read |-> NewHandover, at |-> 1,
         queue |-> << >>, completed |-> FALSE]

TypeOK ==
    /\ objs \in [Objects -> ObjectRecord]
    /\ handover \in HandoverRecord
    /\ cache \in HandoverRecord
    /\ worker \in WorkerRecord
    /\ worker.step = "process" => worker.at \in 1 .. Len(worker.read.processing)
    /\ spent \in [{"errors", "drift", "edits"} -> Nat]

Settled(label, ready) ==
    [exists |-> TRUE, label |-> label, status |-> label,
     ready |-> ready, handed |-> FALSE]

Init ==
    /\ objs \in [Objects -> {Absent} \union
                   {Settled(l, r) : l \in {"from", "to"}, r \in BOOLEAN}]
    /\ handover = NewHandover
    /\ cache = NewHandover
    /\ worker = Idle
    /\ spent = [errors |-> 0, drift |-> 0, edits |-> 0]

Spend(what) == spent' = [spent EXCEPT ![what] = @ + 1]

-----------------------------------------------------------------------------
(* A deleted Handover: drop the finalizer, and with it the record.  What   *)
(* it last said is kept for the properties.                                *)
RemoveFinalizer ==
    /\ worker.step = "idle"
    /\ cache.exists
    /\ cache.deleting
    /\ cache = handover
    /\ handover' = [handover EXCEPT !.exists = FALSE, !.finalizer = FALSE]
    /\ UNCHANGED <<objs, cache, worker, spent>>

\* Not the code: the loop over the queue runs one entry too far.
AtEntryPastEnd(w) ==
    [w EXCEPT !.step = IF w.at <= Len(w.read.processing) + 1 THEN "process" ELSE "list"]

AtEntry(w) ==
    [w EXCEPT !.step = IF w.at <= Len(w.read.processing) THEN "process" ELSE "list"]

\* Not the code: the finalizer is added at another time.
FinalizerForgotten(h) == h

WithFinalizer(h) == [h EXCEPT !.finalizer = TRUE]

(* Ensure the finalizer, which fails if the copy is outdated.              *)
BeginReconcile ==
    /\ worker.step = "idle"
    /\ cache.exists
    /\ ~cache.deleting
    /\ FreshReads \/ ~cache.finalizer => cache = handover
    /\ handover' = IF cache.finalizer THEN handover
                   ELSE WithFinalizer(handover)
    /\ worker' = AtEntry([Idle EXCEPT !.read = WithFinalizer(cache)])
    /\ UNCHANGED <<objs, cache, spent>>

Relabelled(obj) ==
    IF obj.label = "to" THEN obj ELSE [obj EXCEPT !.label = "to", !.handed = TRUE]

\* Not the code: the operator's report is not waited for.
FinishedWhenReady(obj) == obj.ready

Finished(obj) == obj.status = "to" /\ obj.ready

Entry == worker.read.processing[worker.at]

(* An entry of the queue: relabel the object, and keep the entry until the *)
(* new operator reports and the object is ready.                           *)
ProcessObject ==
    /\ worker.step = "process"
    /\ objs[Entry].exists
    /\ objs[Entry].label # "none"
    /\ objs' = [objs EXCEPT ![Entry] = Relabelled(@)]
    /\ worker' = AtEntry([worker EXCEPT
                   !.at = @ + 1,
                   !.queue = IF Finished(objs[Entry]) THEN @ ELSE Append(@, Entry)])
    /\ UNCHANGED <<handover, cache, spent>>

\* Not the code: an entry whose object is gone is kept.
KeepEntry ==
    /\ worker.step = "process"
    /\ ~objs[Entry].exists
    /\ worker' = AtEntry([worker EXCEPT !.at = @ + 1, !.queue = Append(@, Entry)])
    /\ UNCHANGED <<objs, handover, cache, spent>>

(* The object is gone: drop its entry.                                     *)
DropObject ==
    /\ worker.step = "process"
    /\ ~objs[Entry].exists
    /\ worker' = AtEntry([worker EXCEPT !.at = @ + 1])
    /\ UNCHANGED <<objs, handover, cache, spent>>

(* GetLabels returns nil for an object without labels, and the assignment  *)
(* to a nil map panics: the manager goes down.                             *)
PanicOnNilLabels ==
    /\ worker.step = "process"
    /\ objs[Entry].exists
    /\ objs[Entry].label = "none"
    /\ worker' = Idle
    /\ UNCHANGED <<objs, handover, cache, spent>>

Labelled(l) == {o \in Objects : objs[o].exists /\ objs[o].label = l}

Unavailable == {o \in Labelled("from") \union Labelled("to") : ~objs[o].ready}

\* Not the code: objects already in the queue are not counted.
RoomBesidesQueue == MaxUnavailable - Cardinality(Unavailable)

Room == MaxUnavailable - Len(worker.queue) - Cardinality(Unavailable)

\* Not the code: labels are all that counts.
CompleteByLabels == Labelled("from") = {}

Complete == Labelled("from") = {} /\ worker.queue = << >>

(* List the objects and queue old ones while there is room.                *)
ListObjects ==
    /\ worker.step = "list"
    /\ \E admitted \in SUBSET Labelled("from") :
         /\ admitted # {} => Cardinality(admitted) <= Room
         /\ admitted # Labelled("from") => Cardinality(admitted) >= Room
         /\ \E order \in SetToSeqs(admitted) :
              worker' = [worker EXCEPT
                           !.step = "report",
                           !.queue = @ \o order,
                           !.completed = Complete]
    /\ UNCHANGED <<objs, handover, cache, spent>>

(* Update the status, unless the Handover has changed since it was read.   *)
Report ==
    /\ worker.step = "report"
    /\ handover' = IF worker.read = handover
                     THEN [handover EXCEPT !.processing = worker.queue,
                                           !.completed = worker.completed]
                     ELSE handover
    /\ worker' = Idle
    /\ UNCHANGED <<objs, cache, spent>>

(* A call fails, or the manager crashes: no report.                        *)
AbortReconcile ==
    /\ worker.step # "idle"
    /\ spent.errors < MaxErrors
    /\ worker' = Idle
    /\ Spend("errors")
    /\ UNCHANGED <<objs, handover, cache>>

WorkerNext ==
    \/ RemoveFinalizer
    \/ BeginReconcile
    \/ ProcessObject
    \/ DropObject
    \/ PanicOnNilLabels
    \/ ListObjects
    \/ Report

-----------------------------------------------------------------------------
(* The informer catches up.                                                *)
SyncHandover ==
    /\ cache # handover
    /\ cache' = handover
    /\ UNCHANGED <<objs, handover, worker, spent>>

DeleteHandover ==
    /\ handover.exists
    /\ ~handover.deleting
    /\ handover' = [handover EXCEPT !.deleting = TRUE, !.exists = handover.finalizer]
    /\ UNCHANGED <<objs, cache, worker, spent>>

(* The operator that selects an object by its label reports its status.    *)
Post(o) ==
    /\ objs[o].exists
    /\ objs[o].label \in {"from", "to"}
    /\ objs[o].status # objs[o].label
    /\ objs' = [objs EXCEPT ![o].status = objs[o].label]
    /\ UNCHANGED <<handover, cache, worker, spent>>

(* The new operator restarts what it takes over.                           *)
Disrupt(o) ==
    /\ objs[o].ready
    /\ objs[o].label = "to"
    /\ objs[o].status # "to"
    /\ objs' = [objs EXCEPT ![o].ready = FALSE]
    /\ UNCHANGED <<handover, cache, worker, spent>>

BecomeReady(o) ==
    /\ objs[o].exists
    /\ ~objs[o].ready
    /\ objs' = [objs EXCEPT ![o].ready = TRUE]
    /\ UNCHANGED <<handover, cache, worker, spent>>

(* An object stops being ready, or is removed.                             *)
Drift(o) ==
    /\ spent.drift < MaxDrift
    /\ objs[o].exists
    /\ \/ objs' = [objs EXCEPT ![o].ready = FALSE]
       \/ objs' = [objs EXCEPT ![o] = Absent]
    /\ Spend("drift")
    /\ UNCHANGED <<handover, cache, worker>>

(* A user relabels an object, or adds one.                                 *)
EditObject(o) ==
    /\ spent.edits < MaxUserEdits
    /\ \/ /\ objs[o].exists
          /\ \E l \in EditedLabels \ {objs[o].label} :
               objs' = [objs EXCEPT ![o].label = l, ![o].handed = FALSE]
       \/ /\ ~objs[o].exists
          /\ \E l \in {"from", "to"} :
               objs' = [objs EXCEPT ![o] = [Absent EXCEPT !.exists = TRUE, !.label = l]]
    /\ Spend("edits")
    /\ UNCHANGED <<handover, cache, worker>>

Environment ==
    \/ SyncHandover
    \/ DeleteHandover
    \/ \E o \in Objects :
         Post(o) \/ Disrupt(o) \/ BecomeReady(o) \/ Drift(o) \/ EditObject(o)

Next == WorkerNext \/ AbortReconcile \/ Environment

Spec == Init /\ [][Next]_vars

(* The Handover is reconciled again after every event of it or of a        *)
(* watched object; operators report and objects become ready.              *)
Fairness ==
    /\ WF_vars(WorkerNext)
    /\ WF_vars(SyncHandover)
    /\ \A o \in Objects : WF_vars(Post(o)) /\ WF_vars(BecomeReady(o))

FairSpec == Spec /\ Fairness

-----------------------------------------------------------------------------
InTransition == {o \in Objects : objs[o].handed /\ objs[o].status # "to"}

(* maxUnavailable: never more objects than that have been relabelled by    *)
(* the Handover and wait for the new operator.                             *)
HandoverBounded == Cardinality(InTransition) <= MaxUnavailable

(* The bound is kept because the queue in the status names an object       *)
(* before handleSingleProcessing relabels it, and until it has arrived,    *)
(* whatever crashes in between.                                            *)
Promise == INSTANCE BoundedHandover WITH
    Limit <- MaxUnavailable,
    active <- handover.exists,
    announced <- Range(handover.processing),
    moving <- InTransition

KeepsPromise == Promise!Spec

(* A Handover that reports Completed has no object left on the old label,  *)
(* and none it relabelled is still without the new operator's report.      *)
AllHandedOver ==
    /\ InTransition = {}
    /\ Labelled("from") = {}

CompletedMeansDone ==
    handover.completed /\ spent.edits = 0 => AllHandedOver

(* Unless it is deleted, a Handover completes: crashes, failed calls and   *)
(* objects that come, go and turn unready only delay it.                   *)
HandoverCompletes ==
    <>[](handover.deleting \/ (handover.completed /\ AllHandedOver))
=============================================================================
