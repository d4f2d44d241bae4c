----------------------------- MODULE PackageUnpack -----------------------------
(***************************************************************************)
(* A Package: its controller keeps one unpack Job per Package, whose pod   *)
(* runs the package loader inside the package image and writes the         *)
(* ObjectDeployment that the image describes.                              *)
(*                                                                         *)
(* The controller and the loader pods run in different processes.  To      *)
(* delete a Job through batch/v1 leaves its pods running (the default      *)
(* there is to orphan dependents), so that the loader of an outdated image *)
(* may still be at work when the next one starts.                          *)
(***************************************************************************)
EXTENDS Integers, FiniteSets, Functions

CONSTANTS
    Images,      \* what spec.image can be
    First,       \* and at first is
    Bad,         \* the images the loader cannot load
    Hash,        \* ComputeHash of a source, by image
    Backoff,     \* how often the pod of a Job is restarted
    MaxPods,     \* bound: loader pods at a time
    MaxFaults,   \* bound: failed calls, crashes of the operator, lost pods
    MaxEdits     \* bound: changes of the image, the deletion included

ASSUME PackageAssumption ==
    /\ Images # {}
    /\ Bad \subseteq Images /\ First \subseteq Images
    /\ DOMAIN Hash = Images
    /\ \A i, j \in Images : i # j => Hash[i] # Hash[j]
    /\ {Backoff, MaxPods, MaxFaults, MaxEdits} \subseteq Nat
    /\ MaxPods > 1

VARIABLES
    pkg,       \* the Package
    job,       \* its unpack Job in the API server
    jobSeen,   \* and in the cache of the controller
    deploy,    \* the ObjectDeployment in the API server
    availSeen, \* and its Available condition in the cache
    pods,      \* the loader pods, by the uid of the Job they were started for
    queued,    \* a reconcile of the Package is pending
    worker,    \* the one that is running
    loaded,    \* the images a loader pod has finished with (history)
    spent      \* how much of the bounds is used up

vars == <<pkg, job, jobSeen, deploy, availSeen, pods, queued, worker, loaded, spent>>

-----------------------------------------------------------------------------
(* A condition is Stale when it speaks of an older generation.             *)
Conditions == {"None", "Stale", "False", "True"}
Uids == 1 .. MaxPods
Nobody == 0
NoImage == "none"
NoHash == "none"

Package ==
    [exists : BOOLEAN, deleting : BOOLEAN, finalizer : BOOLEAN,
     image : Images \union {NoImage}, sourceHash : Range(Hash) \union {NoHash},
     unpacked : Conditions, available : Conditions]

NoPackage ==
    [exists |-> FALSE, deleting |-> FALSE, finalizer |-> FALSE,
     image |-> NoImage, sourceHash |-> NoHash,
     unpacked |-> "None", available |-> "None"]

Job ==
    [exists : BOOLEAN, dying : BOOLEAN, uid : Uids \union {Nobody},
     image : Images \union {NoImage}, hash : Range(Hash) \union {NoHash},
     status : {"Running", "Complete", "Failed"}]

NoJob == [exists |-> FALSE, dying |-> FALSE, uid |-> Nobody,
          image |-> NoImage, hash |-> NoHash, status |-> "Running"]

(* late: its last writer was a pod that had outlived its Job (history).    *)
Deployment ==
    [exists : BOOLEAN, content : Images \union {NoImage},
     available : Conditions, late : BOOLEAN]

NoDeployment ==
    [exists |-> FALSE, content |-> NoImage, available |-> "None", late |-> FALSE]

(* get and put: the calls with which reconcileDeployment begins and ends.  *)
(* fresh: the ObjectDeployment, or its absence, is as the first one saw it. *)
Pod ==
    [step : {"off", "start", "get", "put"}, image : Images \union {NoImage},
     found : BOOLEAN, fresh : BOOLEAN, tries : 0 .. Backoff]

NoPod == [step |-> "off", image |-> NoImage, found |-> FALSE, fresh |-> TRUE, tries |-> 0]

(* fresh: the Package is as the reconcile has read it.                     *)
Worker ==
    [step : {"idle", "job", "create", "status", "cleanup", "remove"},
     image : Images \union {NoImage}, fresh : BOOLEAN,
     unpacked : {"False", "True"}]

Idle == [step |-> "idle", image |-> NoImage, fresh |-> TRUE, unpacked |-> "False"]

SpecChanged(cond) == IF cond = "None" THEN "None" ELSE "Stale"

(* The pod u belongs to the Job of the Package, which still waits for it.  *)
Awaited(u) == job.exists /\ ~job.dying /\ job.uid = u

FreeUids == {u \in Uids : pods[u] = NoPod /\ u \notin {job.uid, jobSeen.uid}}

(* Whoever has read the old state will find that it has changed.           *)
Outdate(ps) == [u \in Uids |-> [ps[u] EXCEPT !.fresh = ps[u].step # "put"]]
OutdateWorker == [worker EXCEPT !.fresh = worker.step = "idle"]

Spend(what) == spent' = [spent EXCEPT ![what] = @ + 1]

(* A call fails: the reconcile ends with an error and is tried again.      *)
Retry == worker' = Idle /\ queued' = TRUE

-----------------------------------------------------------------------------
(* GenericPackageController.Reconcile up to its reconcilers.               *)
Begin ==
    LET Go(step) == worker' = [Idle EXCEPT !.step = step, !.image = pkg.image]
    IN  /\ queued
        /\ worker.step = "idle"
        /\ \/ /\ ~pkg.exists
              /\ queued' = FALSE
              /\ UNCHANGED <<pkg, worker>>
           \/ /\ pkg.exists /\ pkg.deleting
              /\ queued' = FALSE
              /\ Go("cleanup")
              /\ UNCHANGED pkg
           \/ /\ pkg.exists /\ ~pkg.deleting
              /\ pkg' = [pkg EXCEPT !.finalizer = TRUE]
              /\ queued' = ~pkg.finalizer
              /\ Go("job")
    /\ UNCHANGED <<job, jobSeen, deploy, availSeen, pods, loaded, spent>>

\* Not the code: a Job that is there is good enough.
OutdatedNever(seen, image) == FALSE

(* The hash of the source, kept in an annotation, tells whether the Job    *)
(* unpacks what the Package asks for.                                      *)
Outdated(seen, image) == seen.hash # Hash[image]

(* The Job goes once its pods are orphaned; until then its name is taken.  *)
DeleteJob == job' = [job EXCEPT !.dying = TRUE]

(* ensureUnpackJob up to the creation of a Job, and what ensureUnpack      *)
(* makes of the conditions of the one that is there.                       *)
EnsureJob ==
    LET Go(step, unpacked) ==
            worker' = [worker EXCEPT !.step = step, !.unpacked = unpacked]
        outdated == Outdated(jobSeen, worker.image)
    IN  /\ worker.step = "job"
        /\ \/ /\ ~jobSeen.exists
              /\ Go("create", "False")
              /\ UNCHANGED <<job, queued>>
           \/ /\ jobSeen.exists
              /\ outdated \/ jobSeen.status = "Failed"
              /\ job.exists
              /\ DeleteJob
              /\ Go(IF outdated THEN "create" ELSE "status", "False")
              /\ UNCHANGED queued
           \/ /\ jobSeen.exists                              \* not found
              /\ outdated \/ jobSeen.status = "Failed"
              /\ ~job.exists
              /\ Retry
              /\ UNCHANGED job
           \/ /\ jobSeen.exists
              /\ ~outdated /\ jobSeen.status # "Failed"
              /\ Go("status", IF jobSeen.status = "Complete" THEN "True" ELSE "False")
              /\ UNCHANGED <<job, queued>>
        /\ UNCHANGED <<pkg, jobSeen, deploy, availSeen, pods, loaded, spent>>

NewJob(u, image) ==
    [NoJob EXCEPT !.exists = TRUE, !.uid = u, !.image = image, !.hash = Hash[image]]

CreateJob ==
    /\ worker.step = "create"
    /\ \/ /\ ~job.exists
          /\ FreeUids # {}
          /\ job' = NewJob(CHOOSE u \in FreeUids : TRUE, worker.image)
          /\ worker' = [worker EXCEPT !.step = "status"]
          /\ UNCHANGED queued
       \/ /\ job.exists                                      \* already exists
          /\ Retry
          /\ UNCHANGED job
    /\ UNCHANGED <<pkg, jobSeen, deploy, availSeen, pods, loaded, spent>>

\* Not the code: what the ObjectDeployment reports is never passed on.
PassedOnNever(s, seen) == s.available

(* objectDeploymentReconciler: Available is copied while it speaks of the  *)
(* ObjectDeployment that the cache shows.  Progressing is looked up under  *)
(* the name of Available, so it never is.                                  *)
PassedOn(s, seen) == IF seen \in {"False", "True"} THEN seen ELSE s.available

(* The status update at the end of a reconcile.                            *)
UpdateStatus ==
    LET reported == [pkg EXCEPT !.sourceHash = Hash[worker.image],
                                !.unpacked = worker.unpacked,
                                !.available = PassedOn(pkg, availSeen)]
    IN  /\ worker.step = "status"
        /\ pkg' = IF worker.fresh THEN reported ELSE pkg
        /\ queued' = (queued \/ ~worker.fresh \/ reported # pkg)
        /\ worker' = Idle
        /\ UNCHANGED <<job, jobSeen, deploy, availSeen, pods, loaded, spent>>

\* Not the code: the Job of a deleted Package is left to the garbage collector.
CleanUpNothing ==
    /\ worker.step = "cleanup"
    /\ worker' = [worker EXCEPT !.step = "remove"]
    /\ UNCHANGED <<pkg, job, jobSeen, deploy, availSeen, pods, queued, loaded, spent>>

(* handleDeletion: the Job first, then the finalizer.                      *)
CleanUp ==
    /\ worker.step = "cleanup"
    /\ IF job.exists THEN DeleteJob ELSE UNCHANGED job
    /\ worker' = [worker EXCEPT !.step = "remove"]
    /\ UNCHANGED <<pkg, jobSeen, deploy, availSeen, pods, queued, loaded, spent>>

RemoveFinalizer ==
    /\ worker.step = "remove"
    /\ worker' = Idle
    /\ pkg' = IF worker.fresh THEN NoPackage ELSE pkg
    /\ queued' = (queued \/ ~worker.fresh)
    /\ UNCHANGED <<job, jobSeen, deploy, availSeen, pods, loaded, spent>>

-----------------------------------------------------------------------------
\* Not the code: the Job never gives up.
RunFailsForever(u, ps) ==
    /\ pods' = [ps EXCEPT ![u].step = "start", ![u].tries = @ + 1]
    /\ UNCHANGED job

(* The container of pod u ends with an error.  The kubelet restarts it; the *)
(* Job gives up after Backoff restarts, and nobody gives up a pod that has *)
(* outlived its Job (one that cannot load its image writes nothing and is  *)
(* left out from there on).  Of the pods, ps are the others' states.       *)
RunFails(u, ps) ==
    LET again == [NoPod EXCEPT !.step = "start", !.image = pods[u].image]
    IN  \/ /\ Awaited(u)
           /\ pods[u].tries < Backoff
           /\ pods' = [ps EXCEPT ![u] = [again EXCEPT !.tries = pods[u].tries + 1]]
           /\ UNCHANGED job
        \/ /\ Awaited(u)
           /\ pods[u].tries = Backoff
           /\ pods' = [ps EXCEPT ![u] = NoPod]
           /\ job' = [job EXCEPT !.status = "Failed"]
        \/ /\ ~Awaited(u)
           /\ pods' = [ps EXCEPT ![u] = IF pods[u].image \in Bad THEN NoPod ELSE again]
           /\ UNCHANGED job

RunSucceeds(u, ps) ==
    /\ pods' = [ps EXCEPT ![u] = NoPod]
    /\ job' = IF Awaited(u) THEN [job EXCEPT !.status = "Complete"] ELSE job

(* UnpackController.Reconcile, called once by cmd/package-loader: nothing  *)
(* to do for a Package that is gone; otherwise load the image.             *)
LoadImage(u) ==
    /\ pods[u].step = "start"
    /\ \/ /\ ~pkg.exists
          /\ RunSucceeds(u, pods)
       \/ /\ pkg.exists
          /\ pods[u].image \in Bad
          /\ RunFails(u, pods)
       \/ /\ pkg.exists
          /\ pods[u].image \notin Bad
          /\ pods' = [pods EXCEPT ![u].step = "get"]
          /\ UNCHANGED job
    /\ UNCHANGED <<pkg, jobSeen, deploy, availSeen, queued, worker, loaded, spent>>

GetDeployment(u) ==
    /\ pods[u].step = "get"
    /\ pods' = [pods EXCEPT ![u].step = "put", ![u].found = deploy.exists]
    /\ UNCHANGED <<pkg, job, jobSeen, deploy, availSeen, queued, worker, loaded, spent>>

\* Not the code: an ObjectDeployment that is there keeps its spec.
WrittenOnce(u) ==
    IF deploy.exists THEN [deploy EXCEPT !.late = ~Awaited(u)]
    ELSE [exists |-> TRUE, content |-> pods[u].image, available |-> "None",
          late |-> ~Awaited(u)]

Written(u) ==
    [exists |-> TRUE,
     content |-> pods[u].image,
     available |-> IF deploy.content = pods[u].image THEN deploy.available
                                                     ELSE SpecChanged(deploy.available),
     late |-> ~Awaited(u)]

(* reconcileDeployment: after it has created the ObjectDeployment the      *)
(* loader goes on to update it with the empty metadata of the one it did   *)
(* not find, which fails; the next run updates what the first one created. *)
(* The event wakes the controller; one that changes the condition does so  *)
(* when it gets to the cache (SyncDeployment).                             *)
PutDeployment(u) ==
    /\ pods[u].step = "put"
    /\ \/ /\ pods[u].found /\ pods[u].fresh
          /\ deploy' = Written(u)
          /\ loaded' = loaded \union {pods[u].image}
          /\ RunSucceeds(u, IF deploy' = deploy THEN pods ELSE Outdate(pods))
       \/ /\ ~pods[u].found /\ pods[u].fresh
          /\ deploy' = Written(u)
          /\ RunFails(u, Outdate(pods))
          /\ UNCHANGED loaded
       \/ /\ ~pods[u].fresh                                  \* conflict
          /\ RunFails(u, pods)
          /\ UNCHANGED <<deploy, loaded>>
    /\ queued' = (queued \/ (deploy' # deploy /\ deploy'.available = availSeen))
    /\ UNCHANGED <<pkg, jobSeen, availSeen, worker, spent>>

-----------------------------------------------------------------------------
(* The Job controller, the garbage collector and the informers.            *)
StartPod ==
    /\ Awaited(job.uid)
    /\ job.status = "Running"
    /\ pods[job.uid] = NoPod
    /\ pods' = [pods EXCEPT ![job.uid] = [NoPod EXCEPT !.step = "start", !.image = job.image]]
    /\ UNCHANGED <<pkg, job, jobSeen, deploy, availSeen, queued, worker, loaded, spent>>

OrphanPods ==
    /\ job.dying
    /\ job' = NoJob
    /\ UNCHANGED <<pkg, jobSeen, deploy, availSeen, pods, queued, worker, loaded, spent>>

Collect ==
    /\ ~pkg.exists
    /\ deploy.exists
    /\ deploy' = NoDeployment
    /\ pods' = Outdate(pods)
    /\ UNCHANGED <<pkg, job, jobSeen, availSeen, queued, worker, loaded, spent>>

SyncJob ==
    /\ jobSeen # job
    /\ jobSeen' = job
    /\ queued' = TRUE
    /\ UNCHANGED <<pkg, job, deploy, availSeen, pods, worker, loaded, spent>>

SyncDeployment ==
    /\ availSeen # deploy.available
    /\ availSeen' = deploy.available
    /\ queued' = TRUE
    /\ UNCHANGED <<pkg, job, jobSeen, deploy, pods, worker, loaded, spent>>

(* The ObjectDeployment controller reports that the content is available.  *)
Probe ==
    /\ deploy.exists
    /\ deploy.available \in {"None", "Stale"}
    /\ deploy' = [deploy EXCEPT !.available = "True"]
    /\ pods' = Outdate(pods)
    /\ UNCHANGED <<pkg, job, jobSeen, availSeen, queued, worker, loaded, spent>>

(* Failed calls, crashes of the operator, nodes that fail.                 *)
Fault ==
    /\ spent.faults < MaxFaults
    /\ \/ /\ worker.step # "idle"
          /\ Retry
          /\ UNCHANGED <<pods, job>>
       \/ /\ UNCHANGED <<worker, queued>>
          /\ \E u \in Uids :
               /\ pods[u] # NoPod
               /\ \/ RunFails(u, pods)
                  \/ pods' = [pods EXCEPT ![u] = NoPod] /\ UNCHANGED job
    /\ Spend("faults")
    /\ UNCHANGED <<pkg, jobSeen, deploy, availSeen, loaded>>

EditImage ==
    /\ spent.edits < MaxEdits
    /\ pkg.exists /\ ~pkg.deleting
    /\ \E image \in Images \ {pkg.image} :
         pkg' = [pkg EXCEPT !.image = image,
                            !.unpacked = SpecChanged(@), !.available = SpecChanged(@)]
    /\ worker' = OutdateWorker
    /\ queued' = TRUE
    /\ Spend("edits")
    /\ UNCHANGED <<job, jobSeen, deploy, availSeen, pods, loaded>>

DeletePackage ==
    /\ spent.edits < MaxEdits
    /\ pkg.exists /\ ~pkg.deleting
    /\ pkg' = IF pkg.finalizer
                THEN [pkg EXCEPT !.deleting = TRUE,
                                 !.unpacked = SpecChanged(@), !.available = SpecChanged(@)]
                ELSE NoPackage
    /\ worker' = OutdateWorker
    /\ queued' = TRUE
    /\ Spend("edits")
    /\ UNCHANGED <<job, jobSeen, deploy, availSeen, pods, loaded>>

-----------------------------------------------------------------------------
Init ==
    /\ \E image \in First :
         pkg = [NoPackage EXCEPT !.exists = TRUE, !.image = image]
    /\ job = NoJob
    /\ jobSeen = NoJob
    /\ deploy = NoDeployment
    /\ availSeen = "None"
    /\ pods = [u \in Uids |-> NoPod]
    /\ queued = TRUE
    /\ worker = Idle
    /\ loaded = {}
    /\ spent = [faults |-> 0, edits |-> 0]

ControllerStep ==
    Begin \/ EnsureJob \/ CreateJob \/ UpdateStatus \/ CleanUp \/ RemoveFinalizer

LoaderStep(u) == LoadImage(u) \/ GetDeployment(u) \/ PutDeployment(u)

ClusterStep == StartPod \/ OrphanPods \/ Collect \/ SyncJob \/ SyncDeployment \/ Probe

Next ==
    \/ ControllerStep
    \/ \E u \in Uids : LoaderStep(u)
    \/ ClusterStep
    \/ Fault
    \/ EditImage
    \/ DeletePackage

Spec == Init /\ [][Next]_vars

(* The controller works off its queue, pods run, and so do the controllers *)
(* of the cluster; nothing is assumed of users and faults.                 *)
Fairness ==
    /\ WF_vars(ControllerStep)
    /\ \A u \in Uids : WF_vars(LoaderStep(u))
    /\ WF_vars(StartPod)
    /\ WF_vars(OrphanPods)
    /\ WF_vars(Collect)
    /\ WF_vars(SyncJob)
    /\ WF_vars(SyncDeployment)
    /\ WF_vars(Probe)

FairSpec == Spec /\ Fairness

-----------------------------------------------------------------------------
TypeOK ==
    /\ pkg \in Package
    /\ job \in Job /\ jobSeen \in Job
    /\ job.exists \/ job = NoJob
    /\ deploy \in Deployment
    /\ availSeen \in Conditions
    /\ pods \in [Uids -> Pod]
    /\ queued \in BOOLEAN
    /\ worker \in Worker
    /\ loaded \subseteq Images
    /\ spent \in [{"faults", "edits"} -> Nat]

(* Unpacked is True for the generation it speaks of only when a loader has *)
(* written what the image of that generation holds.                        *)
UnpackedMeansLoaded == pkg.unpacked = "True" => pkg.image \in loaded

(* Once the controller has nothing left to do, a Package that is Unpacked  *)
(* has the ObjectDeployment of its image, unless the loader of an outdated *)
(* one has outlived its Job and written last.                              *)
Settled == ~queued /\ worker.step = "idle" /\ jobSeen = job

UnpackedMeansDeployed ==
    Settled /\ pkg.exists /\ pkg.unpacked = "True" =>
      deploy.exists /\ (deploy.content = pkg.image \/ deploy.late)

(* A Package is unpacked in the end, and reports what its ObjectDeployment *)
(* does.                                                                   *)
Concluded ==
    /\ pkg.unpacked = "True"
    /\ pkg.sourceHash = Hash[pkg.image]
    /\ deploy.exists
    /\ pkg.available = deploy.available

UnpackConcludes == <>[](pkg.exists /\ ~pkg.deleting /\ pkg.image \notin Bad => Concluded)

(* A deleted Package leaves neither Job nor ObjectDeployment behind, even  *)
(* if a loader is still at work.                                           *)
RemovalConcludes ==
    <>[](\/ pkg.exists /\ ~pkg.deleting
         \/ ~pkg.exists /\ ~job.exists /\ ~deploy.exists)
=============================================================================
