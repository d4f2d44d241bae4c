---------------------------- MODULE RolloutState ----------------------------
(***************************************************************************)
(* The state shared by the ObjectDeployment controller and the ObjectSet   *)
(* controller of one ObjectDeployment: the API server's ObjectSets and the *)
(* objects they manage, the manager's informer cache, and the worker of    *)
(* the ObjectSet controller.                                               *)
(*                                                                         *)
(* An ObjectSet is known by its UID, a number handed out in the order of   *)
(* creation; its name is the template hash.  An update that the API server *)
(* accepts only at the current resourceVersion is accepted here when the   *)
(* copy the writer read equals the stored record.                          *)
(***************************************************************************)
EXTENDS Integers, Sequences, FiniteSets, SequencesExt

CONSTANTS
    Objects,          \* the objects named by any template
    Probed,           \* the objects some readiness probe selects
    Templates,        \* the object set templates
    Content,          \* template |-> its objects, phase after phase
    PhaseEnds,        \* template |-> the index of the last object of each phase
    Hashes,           \* the values of ComputeHash
    Hash,             \* template |-> [collision count |-> hash]
    Foreign,          \* hashes whose ObjectSet name an unrelated ObjectSet holds
    Preexisting,      \* objects that are in the cluster, unowned, at the start
    Histories,        \* the sequences of templates a user may apply
    RevisionLimit,    \* spec.revisionHistoryLimit
    SeesOwnCreates,   \* the cache shows a created ObjectSet before the next reconcile
    MaxSets,          \* bound: ObjectSets ever created
    MaxCollisions,    \* bound: status.collisionCount
    MaxErrors,        \* bound: failed API calls and manager crashes
    MaxDrift,         \* bound: objects deleted or turned unready behind our back
    MaxUserEdits,     \* bound: ObjectSets paused, resumed or deleted by a user
    MaxDisturbances   \* bound: errors, drift and user edits together

Sets == 1 .. MaxSets
Lifecycles == {"Active", "Paused", "Archived"}

(* A template without objects has no phase; a phase without objects passes *)
(* and is left out, so PhaseEnds increases strictly to the end of Content. *)
ASSUME TemplateAssumption ==
    /\ Probed \subseteq Objects
    /\ Preexisting \subseteq Objects
    /\ Content \in [Templates -> Seq(Objects)]
    /\ PhaseEnds \in [Templates -> Seq(Nat)]
    /\ \A t \in Templates :
         /\ \A p \in 1 .. Len(PhaseEnds[t]) :
              /\ PhaseEnds[t][p] \in 1 .. Len(Content[t])
              /\ \A q \in 1 .. p - 1 : PhaseEnds[t][q] < PhaseEnds[t][p]
         /\ IF PhaseEnds[t] = << >>
              THEN Content[t] = << >>
              ELSE PhaseEnds[t][Len(PhaseEnds[t])] = Len(Content[t])

ASSUME BoundAssumption ==
    /\ MaxSets \in Nat
    /\ MaxCollisions \in Nat
    /\ MaxErrors \in Nat
    /\ MaxDrift \in Nat
    /\ MaxUserEdits \in Nat
    /\ MaxDisturbances \in Nat
    /\ RevisionLimit \in Nat
    /\ SeesOwnCreates \in BOOLEAN

ASSUME HashAssumption ==
    /\ Hash \in [Templates -> [0 .. MaxCollisions -> Hashes]]
    /\ Foreign \subseteq Hashes

ASSUME HistoryAssumption ==
    /\ Histories \subseteq Seq(Templates)
    /\ \A h \in Histories : h # << >>

VARIABLES
    sets,         \* UID |-> ObjectSet in the API server
    cache,        \* UID |-> ObjectSet in the informer cache of the manager
    created,      \* number of ObjectSets created so far
    objs,         \* the managed objects in the API server
    edits,        \* the templates the user applies, in order
    edit,         \* index in edits of the deployment's spec.template
    seen,         \* the same, in the informer cache
    deployment,   \* status of the ObjectDeployment
    worker,       \* the ObjectSet reconcile that is running
    spent         \* how much of the three disturbance bounds is used up

vars == <<sets, cache, created, objs, edits, edit, seen, deployment, worker, spent>>

-----------------------------------------------------------------------------
SetRecord ==
    [exists : BOOLEAN, deleting : BOOLEAN, finalizer : BOOLEAN,
     template : Templates, hash : Hashes, revision : Nat,
     lifecycle : Lifecycles,
     pausedFor : Seq(Objects),            \* spec.pausedFor
     statusPausedFor : Seq(Objects),      \* status.pausedFor
     \* the Available condition: "Stale" is True at an older generation
     available : {"False", "Stale", "True"},
     archived : BOOLEAN]                  \* the Archived condition is True

ObjectRecord ==
    [exists : BOOLEAN, dying : BOOLEAN, ready : BOOLEAN,
     controller : 0 .. MaxSets]           \* UID of the controlling ObjectSet

Absent == [exists |-> FALSE, dying |-> FALSE, ready |-> FALSE, controller |-> 0]

\* what the slot of an ObjectSet that is not in the API server holds
NoSet ==
    [exists |-> FALSE, deleting |-> FALSE, finalizer |-> FALSE,
     template |-> CHOOSE t \in Templates : TRUE,
     hash |-> CHOOSE h \in Hashes : TRUE,
     revision |-> 0, lifecycle |-> "Active",
     pausedFor |-> << >>, statusPausedFor |-> << >>,
     available |-> "False", archived |-> FALSE]

(* The API server drops an ObjectSet; owner references still hold its name. *)
Removed(s) == [NoSet EXCEPT !.hash = s.hash]

Steps == {"idle", "reconcile", "teardown", "report"}

WorkerRecord ==
    [step : Steps,
     uid : 0 .. MaxSets,   \* the ObjectSet being reconciled
     read : SetRecord,     \* the copy the reconcile works on
     phase : Nat,          \* the phase ...
     at : Nat,             \* ... and the position in Content it has come to
     ok : BOOLEAN]         \* probes passed, or objects gone, in this phase so far

Idle == [step |-> "idle", uid |-> 0, read |-> NoSet,
         phase |-> 0, at |-> 0, ok |-> TRUE]

DeploymentStatus ==
    [hash : Hashes \cup {"none"}, collisionCount : 0 .. MaxCollisions,
     available : BOOLEAN,
     \* observedGeneration of Progressing = False ("Update concluded."), or 0
     concluded : Nat]

TypeOK ==
    /\ sets \in [Sets -> SetRecord]
    /\ cache \in [Sets -> SetRecord]
    /\ created \in 0 .. MaxSets
    /\ objs \in [Objects -> ObjectRecord]
    /\ edits \in Histories
    /\ edit \in 1 .. Len(edits)
    /\ seen \in 1 .. edit
    /\ deployment \in DeploymentStatus
    /\ worker \in WorkerRecord
    /\ spent \in [errors : 0 .. MaxErrors, drift : 0 .. MaxDrift,
                  edits : 0 .. MaxUserEdits]

-----------------------------------------------------------------------------
\* Not the code: the conditions are reset on a spec change.
SpecChangedResets(s) ==
    [s EXCEPT !.available = IF @ = "True" THEN "Unknown" ELSE @]

(* A spec change makes a generation the conditions have not observed yet.  *)
SpecChanged(s) ==
    [s EXCEPT !.available = IF @ = "True" THEN "Stale" ELSE @]

\* Not the code: spec.pausedFor is overlooked.
IsWholeSetPaused(s, o) == s.lifecycle = "Paused"

(* IsObjectPaused: a paused ObjectSet pauses all its objects.              *)
IsObjectPaused(s, o) ==
    s.lifecycle = "Paused" \/ o \in Range(s.pausedFor)

(* Where a phase begins in Content.                                        *)
PhaseStart(t, p) == IF p = 1 THEN 1 ELSE PhaseEnds[t][p - 1] + 1

LastPhase(t) == Len(PhaseEnds[t])

DisturbancesLeft == spent.errors + spent.drift + spent.edits < MaxDisturbances
Spend(what) == spent' = [spent EXCEPT ![what] = @ + 1]
=============================================================================
