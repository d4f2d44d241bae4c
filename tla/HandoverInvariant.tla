-------------------------- MODULE HandoverInvariant --------------------------
(***************************************************************************)
(* The inductive invariant behind the promise of Handover.                 *)
(***************************************************************************)
EXTENDS Handover

(* An object carries the Handover's label until somebody else relabels it. *)
HandedIsTo == \A o \in Objects : objs[o].handed => objs[o].exists /\ objs[o].label = "to"

(* A record with a finalizer is there, and a reconcile only begins on one. *)
Guarded ==
    /\ handover.finalizer => handover.exists
    /\ cache.finalizer /\ ~cache.deleting => handover.finalizer
    /\ worker.step # "idle" => handover.finalizer

(* Every queue ever read or about to be reported respects maxUnavailable.  *)
QueuesFit ==
    /\ Len(handover.processing) <= MaxUnavailable
    /\ Len(cache.processing) <= MaxUnavailable
    /\ Len(worker.read.processing) <= MaxUnavailable
    /\ worker.step = "process" => Len(worker.queue) < worker.at
    /\ worker.step \in {"list", "report"} =>
         /\ worker.at > Len(worker.read.processing)
         /\ Len(worker.queue) <= MaxUnavailable

(* The queue in the API server names every object in transition.           *)
TransitionAnnounced == InTransition \subseteq Range(handover.processing)

(* A queue that is out of date names, besides objects that are still       *)
(* queued, only ones that need no relabelling.  With fresh reads no        *)
(* reconcile holds one.                                                    *)
OutdatedIsDone(queue) ==
    \A o \in Range(queue) \ Range(handover.processing) :
      objs[o].exists => objs[o].label = "to"

HeldQueue ==
    IF FreshReads
      THEN worker.step # "idle" => worker.read.processing = handover.processing
      ELSE OutdatedIsDone(cache.processing) /\ OutdatedIsDone(worker.read.processing)

(* An entry the reconcile has left behind, and not kept, is settled.       *)
LeftBehindIsDone ==
    worker.step # "idle" =>
      \A i \in 1 .. Len(worker.read.processing) :
        LET o == worker.read.processing[i] IN
        i < worker.at /\ o \notin Range(worker.queue) =>
          /\ objs[o].handed => objs[o].status = "to"
          /\ ~FreshReads /\ objs[o].exists => objs[o].label = "to"

HandoverInvariant ==
    /\ HandedIsTo
    /\ Guarded
    /\ QueuesFit
    /\ TransitionAnnounced
    /\ HeldQueue
    /\ LeftBehindIsDone

(* While no user interferes, objects have one of the two labels, and a     *)
(* verdict that is about to be reported is still true.                     *)
CompletionInvariant ==
    /\ spent.edits = 0 =>
         /\ \A o \in Objects : objs[o].exists => objs[o].label \in {"from", "to"}
         /\ worker.step = "report" /\ worker.completed =>
              Labelled("from") = {} /\ worker.queue = << >>
    /\ CompletedMeansDone
=============================================================================
