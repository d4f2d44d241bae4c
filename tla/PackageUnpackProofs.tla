-------------------------- MODULE PackageUnpackProofs --------------------------
(***************************************************************************)
(* For any images, backoff and number of pods, faults and edits: Unpacked  *)
(* is reported only of an image a loader has finished with, and once the   *)
(* controller has settled its ObjectDeployment is there.  The condition    *)
(* travels from the pod through the Job, the cache and the worker to the   *)
(* Package, and at each station it belongs to the image the station names. *)
(***************************************************************************)
EXTENDS PackageUnpack, TLAPS

(* What a station says of an image: the Job, its cached copy, the worker.  *)
Vouches(j) == j.status = "Complete" /\ pkg.exists => j.image \in loaded

JobsVouch ==
    /\ Vouches(job) /\ Vouches(jobSeen)
    /\ job.exists => job.image \in Images /\ job.hash = Hash[job.image]
    /\ jobSeen.exists => jobSeen.image \in Images /\ jobSeen.hash = Hash[jobSeen.image]

(* A pod runs an image, and that of the Job that awaits it.                *)
PodsBelong ==
    \A u \in Uids : pods[u] # NoPod =>
      pods[u].image \in Images /\ (Awaited(u) => pods[u].image = job.image)

(* A running reconcile has put, or found, the finalizer; it is of the      *)
(* image it has read, and when it is about to say so that one is loaded.   *)
WorkerVouches ==
    /\ worker.step # "idle" => pkg.exists /\ pkg.finalizer
    /\ worker.step \in {"job", "create", "status"} => worker.image \in Images
    /\ worker.step \in {"job", "create", "status"} /\ worker.fresh => worker.image = pkg.image
    /\ worker.step \in {"create", "status"} /\ worker.unpacked = "True" =>
         worker.image \in loaded

PackageHeld ==
    /\ pkg.exists => pkg.image \in Images
    /\ ~pkg.exists => pkg = NoPackage
    /\ pkg.deleting => pkg.finalizer

(* A Job is complete only once its own pod has written.                    *)
JobDelivered ==
    pkg.exists /\ job.exists /\ job.status = "Complete" =>
      deploy.exists /\ (deploy.content = job.image \/ deploy.late)

(* What the worker is about to report, and what the Package says once the  *)
(* worker is done, is what the cache shows: if not, a reconcile is pending. *)
SeenComplete(image) ==
    jobSeen.exists /\ jobSeen.status = "Complete" /\ jobSeen.hash = Hash[image]

WhatIsSeen ==
    ~queued =>
      /\ worker.step \in {"create", "status"} /\ worker.unpacked = "True" =>
           SeenComplete(worker.image)
      /\ worker.step = "idle" /\ pkg.exists /\ pkg.unpacked = "True" =>
           SeenComplete(pkg.image)

(* The inductive invariant, together with TypeOK.                          *)
Beliefs == JobsVouch /\ PodsBelong /\ WorkerVouches /\ PackageHeld /\ UnpackedMeansLoaded

-----------------------------------------------------------------------------
(* Types.                                                                  *)
LEMMA HashTyped == \A i \in Images : Hash[i] \in Range(Hash)
BY PackageAssumption DEF Range

LEMMA BoundsTyped == Backoff \in Nat /\ MaxPods \in Nat /\ 0 \in 0 .. Backoff
BY PackageAssumption

LEMMA RecordsTyped ==
    /\ NoPackage \in Package
    /\ NoJob \in Job
    /\ NoDeployment \in Deployment
    /\ NoPod \in Pod
    /\ Idle \in Worker
BY BoundsTyped
DEF NoPackage, Package, NoJob, Job, NoDeployment, Deployment, NoPod, Pod, Idle, Worker,
    Conditions

LEMMA InitTyped == Init => TypeOK
<1> SUFFICES ASSUME Init PROVE TypeOK
  OBVIOUS
<1>1. pkg \in Package
  BY RecordsTyped, PackageAssumption DEF Init, Package
<1>2. pods \in [Uids -> Pod]
  BY RecordsTyped DEF Init
<1>3. spent \in [{"faults", "edits"} -> Nat]
  BY DEF Init
<1>4. availSeen \in Conditions
  BY DEF Init, NoDeployment, Conditions
<1> QED BY <1>1, <1>2, <1>3, <1>4, RecordsTyped DEF Init, TypeOK

LEMMA SpendTyped ==
    ASSUME TypeOK, NEW what \in {"faults", "edits"}, Spend(what)
    PROVE  spent' \in [{"faults", "edits"} -> Nat]
BY DEF TypeOK, Spend

LEMMA OutdateTyped ==
    ASSUME NEW ps \in [Uids -> Pod]
    PROVE  Outdate(ps) \in [Uids -> Pod]
BY DEF Outdate, Pod

LEMMA DyingTyped ==
    ASSUME TypeOK, job.exists, DeleteJob
    PROVE  job' \in Job /\ job'.exists
BY DEF TypeOK, DeleteJob, Job

LEMMA RunFailsTyped ==
    ASSUME TypeOK, NEW u \in Uids, NEW ps \in [Uids -> Pod], RunFails(u, ps)
    PROVE  /\ pods' \in [Uids -> Pod]
           /\ job' \in Job
           /\ job'.exists \/ job' = NoJob
<1> DEFINE again == [NoPod EXCEPT !.step = "start", !.image = pods[u].image]
<1>1. pods[u].image \in Images \union {NoImage} /\ pods[u].tries \in 0 .. Backoff
  BY DEF TypeOK, Pod
<1>2. again \in Pod
  BY <1>1, BoundsTyped DEF NoPod, Pod
<1>3. pods[u].tries < Backoff => [again EXCEPT !.tries = pods[u].tries + 1] \in Pod
  <2>1. pods[u].tries < Backoff => pods[u].tries + 1 \in 0 .. Backoff
    BY <1>1, BoundsTyped
  <2> HIDE DEF again
  <2> QED BY <1>2, <2>1 DEF Pod
<1>4. pods' \in [Uids -> Pod]
  BY <1>2, <1>3, RecordsTyped DEF RunFails
<1>5. job' = job \/ (job.exists /\ job' = [job EXCEPT !.status = "Failed"])
  BY DEF RunFails, Awaited
<1>6. job' \in Job /\ (job'.exists \/ job' = NoJob)
  BY <1>5 DEF TypeOK, Job
<1> QED BY <1>4, <1>6

LEMMA RunSucceedsTyped ==
    ASSUME TypeOK, NEW u \in Uids, NEW ps \in [Uids -> Pod], RunSucceeds(u, ps)
    PROVE  /\ pods' \in [Uids -> Pod]
           /\ job' \in Job
           /\ job'.exists \/ job' = NoJob
<1>1. pods' \in [Uids -> Pod]
  BY RecordsTyped DEF RunSucceeds
<1>2. job' = job \/ (job.exists /\ job' = [job EXCEPT !.status = "Complete"])
  BY DEF RunSucceeds, Awaited
<1> QED BY <1>1, <1>2 DEF TypeOK, Job

LEMMA BeginTyped == TypeOK /\ Begin => TypeOK'
<1> SUFFICES ASSUME TypeOK, Begin PROVE TypeOK'
  OBVIOUS
<1>1. pkg' \in Package
  BY DEF Begin, TypeOK, Package
<1>2. worker' \in Worker
  BY DEF Begin, TypeOK, Package, Worker, Idle
<1>3. queued' \in BOOLEAN
  BY DEF Begin, TypeOK, Package
<1> QED BY <1>1, <1>2, <1>3 DEF Begin, TypeOK

LEMMA EnsureJobTyped == TypeOK /\ EnsureJob => TypeOK'
<1> SUFFICES ASSUME TypeOK, EnsureJob PROVE TypeOK'
  OBVIOUS
<1>1. job' \in Job /\ (job'.exists \/ job' = NoJob)
  BY DyingTyped DEF EnsureJob, TypeOK
<1>2. worker' \in Worker
  BY RecordsTyped DEF EnsureJob, Retry, TypeOK, Worker
<1>3. queued' \in BOOLEAN
  BY DEF EnsureJob, Retry, TypeOK
<1> QED BY <1>1, <1>2, <1>3 DEF EnsureJob, TypeOK

LEMMA NewJobTyped ==
    ASSUME NEW u \in Uids, NEW i \in Images
    PROVE  NewJob(u, i) \in Job /\ NewJob(u, i).exists
BY HashTyped DEF NewJob, NoJob, Job

(* The image of a reconcile past its first step is one.                    *)
LEMMA CreateJobTyped == TypeOK /\ WorkerVouches /\ CreateJob => TypeOK'
<1> SUFFICES ASSUME TypeOK, WorkerVouches, CreateJob PROVE TypeOK'
  OBVIOUS
<1>1. worker.image \in Images
  BY DEF CreateJob, WorkerVouches
<1>2. job' = job \/ \E u \in Uids : job' = NewJob(u, worker.image)
  BY DEF CreateJob, FreeUids
<1>3. job' \in Job /\ (job'.exists \/ job' = NoJob)
  BY <1>1, <1>2, NewJobTyped DEF TypeOK
<1>4. worker' \in Worker
  BY RecordsTyped DEF CreateJob, Retry, TypeOK, Worker
<1>5. queued' \in BOOLEAN
  BY DEF CreateJob, Retry, TypeOK
<1> QED BY <1>3, <1>4, <1>5 DEF CreateJob, TypeOK

LEMMA UpdateStatusTyped == TypeOK /\ WorkerVouches /\ UpdateStatus => TypeOK'
<1> SUFFICES ASSUME TypeOK, WorkerVouches, UpdateStatus PROVE TypeOK'
  OBVIOUS
<1>1. Hash[worker.image] \in Range(Hash)
  BY HashTyped DEF UpdateStatus, WorkerVouches
<1>2. PassedOn(pkg, availSeen) \in Conditions /\ worker.unpacked \in Conditions
  BY DEF PassedOn, TypeOK, Package, Deployment, Conditions, Worker
<1>3. pkg' \in Package
  BY <1>1, <1>2 DEF UpdateStatus, TypeOK, Package
<1>4. queued' \in BOOLEAN
  BY DEF UpdateStatus, TypeOK
<1> QED BY <1>3, <1>4, RecordsTyped DEF UpdateStatus, TypeOK

LEMMA DeletionTyped == TypeOK /\ (CleanUp \/ RemoveFinalizer) => TypeOK'
<1> SUFFICES ASSUME TypeOK, CleanUp \/ RemoveFinalizer PROVE TypeOK'
  OBVIOUS
<1>1. CASE CleanUp
  <2>1. job' \in Job /\ (job'.exists \/ job' = NoJob)
    BY <1>1, DyingTyped DEF CleanUp, TypeOK
  <2>2. worker' \in Worker
    BY <1>1 DEF CleanUp, TypeOK, Worker
  <2> QED BY <1>1, <2>1, <2>2 DEF CleanUp, TypeOK
<1>2. CASE RemoveFinalizer
  BY <1>2, RecordsTyped DEF RemoveFinalizer, TypeOK
<1> QED BY <1>1, <1>2

LEMMA WrittenTyped ==
    ASSUME TypeOK, NEW u \in Uids
    PROVE  Written(u) \in Deployment
<1>1. (~Awaited(u)) \in BOOLEAN
  BY DEF Awaited
<1>2. SpecChanged(deploy.available) \in Conditions
  BY DEF SpecChanged, Conditions
<1>3. pods[u].image \in Images \union {NoImage} /\ deploy.available \in Conditions
  BY DEF TypeOK, Pod, Deployment
<1>4. ASSUME NEW i \in Images \union {NoImage}, NEW a \in Conditions, NEW l \in BOOLEAN
      PROVE  [exists |-> TRUE, content |-> i, available |-> a, late |-> l] \in Deployment
  BY DEF Deployment
<1> QED BY <1>1, <1>2, <1>3, <1>4, Zenon DEF Written

LEMMA LoaderTyped ==
    ASSUME TypeOK, NEW u \in Uids, LoaderStep(u), loaded' \subseteq Images
    PROVE  TypeOK'
<1>1. CASE GetDeployment(u)
  <2>1. pods' \in [Uids -> Pod]
    <3>1. deploy.exists \in BOOLEAN
      BY DEF TypeOK, Deployment
    <3>2. [pods[u] EXCEPT !.step = "put", !.found = deploy.exists] \in Pod
      BY <3>1 DEF TypeOK, Pod
    <3>3. pods' = [pods EXCEPT ![u] = [pods[u] EXCEPT !.step = "put", !.found = deploy.exists]]
      BY <1>1 DEF GetDeployment, TypeOK, Pod
    <3> QED BY <3>2, <3>3 DEF TypeOK
  <2> QED BY <1>1, <2>1 DEF GetDeployment, TypeOK
<1>2. CASE LoadImage(u)
  <2>1. CASE RunSucceeds(u, pods)
    BY <1>2, <2>1, RunSucceedsTyped DEF LoadImage, TypeOK
  <2>2. CASE RunFails(u, pods)
    BY <1>2, <2>2, RunFailsTyped DEF LoadImage, TypeOK
  <2>3. CASE pods' = [pods EXCEPT ![u].step = "get"] /\ UNCHANGED job
    <3>1. pods' \in [Uids -> Pod]
      BY <2>3 DEF TypeOK, Pod
    <3> QED BY <1>2, <2>3, <3>1 DEF LoadImage, TypeOK
  <2> QED BY <1>2, <2>1, <2>2, <2>3 DEF LoadImage
<1>3. CASE PutDeployment(u)
  <2>1. deploy' \in Deployment
    BY <1>3, WrittenTyped DEF PutDeployment, TypeOK
  <2>2. queued' \in BOOLEAN
    BY <1>3 DEF PutDeployment, TypeOK
  <2>3. /\ pods' \in [Uids -> Pod]
        /\ job' \in Job
        /\ job'.exists \/ job' = NoJob
    BY <1>3, RunSucceedsTyped, RunFailsTyped, OutdateTyped DEF PutDeployment, TypeOK
  <2> QED BY <1>3, <2>1, <2>2, <2>3 DEF PutDeployment, TypeOK
<1> QED BY <1>1, <1>2, <1>3 DEF LoaderStep

LEMMA ClusterTyped == TypeOK /\ ClusterStep => TypeOK'
<1> SUFFICES ASSUME TypeOK, ClusterStep PROVE TypeOK'
  OBVIOUS
<1>1. CASE StartPod
  <2>1. [NoPod EXCEPT !.step = "start", !.image = job.image] \in Pod
    BY BoundsTyped DEF TypeOK, Job, NoPod, Pod
  <2> QED BY <1>1, <2>1 DEF StartPod, TypeOK
<1>2. CASE OrphanPods
  BY <1>2, RecordsTyped DEF OrphanPods, TypeOK
<1>3. CASE Collect
  BY <1>3, RecordsTyped, OutdateTyped DEF Collect, TypeOK
<1>4. CASE SyncJob
  BY <1>4 DEF SyncJob, TypeOK
<1>5. CASE Probe
  <2>1. deploy' \in Deployment
    BY <1>5 DEF Probe, TypeOK, Deployment, Conditions
  <2> QED BY <1>5, <2>1, OutdateTyped DEF Probe, TypeOK
<1>6. CASE SyncDeployment
  BY <1>6 DEF SyncDeployment, TypeOK, Deployment
<1> QED BY <1>1, <1>2, <1>3, <1>4, <1>5, <1>6 DEF ClusterStep

LEMMA DisturbanceTyped ==
    TypeOK /\ (Fault \/ EditImage \/ DeletePackage \/ UNCHANGED vars) => TypeOK'
<1> SUFFICES ASSUME TypeOK, Fault \/ EditImage \/ DeletePackage \/ UNCHANGED vars PROVE TypeOK'
  OBVIOUS
<1>1. CASE Fault
  <2>1. /\ pods' \in [Uids -> Pod]
        /\ job' \in Job
        /\ job'.exists \/ job' = NoJob
    BY <1>1, RunFailsTyped, RecordsTyped DEF Fault, TypeOK
  <2>2. worker' \in Worker /\ queued' \in BOOLEAN
    BY <1>1, RecordsTyped DEF Fault, Retry, TypeOK
  <2>3. spent' \in [{"faults", "edits"} -> Nat]
    BY <1>1, SpendTyped DEF Fault
  <2> QED BY <1>1, <2>1, <2>2, <2>3 DEF Fault, TypeOK
<1>2. CASE EditImage \/ DeletePackage
  <2>1. pkg' \in Package
    BY <1>2, RecordsTyped DEF EditImage, DeletePackage, TypeOK, Package, SpecChanged, Conditions
  <2>2. worker' \in Worker
    BY <1>2 DEF EditImage, DeletePackage, OutdateWorker, TypeOK, Worker
  <2>3. spent' \in [{"faults", "edits"} -> Nat]
    BY <1>2, SpendTyped DEF EditImage, DeletePackage
  <2> QED BY <1>2, <2>1, <2>2, <2>3 DEF EditImage, DeletePackage, TypeOK
<1>3. CASE UNCHANGED vars
  BY <1>3 DEF vars, TypeOK
<1> QED BY <1>1, <1>2, <1>3

-----------------------------------------------------------------------------
(* The controller's steps.                                                 *)
LEMMA InitBelieves == Init => Beliefs
BY PackageAssumption
DEF Init, Beliefs, JobsVouch, Vouches, PodsBelong, WorkerVouches, PackageHeld,
    UnpackedMeansLoaded, NoPackage, NoJob, NoPod, Idle

LEMMA BeginBelieves == TypeOK /\ Beliefs /\ Begin => Beliefs'
<1> SUFFICES ASSUME TypeOK, Beliefs, Begin PROVE Beliefs'
  OBVIOUS
<1> USE DEF Begin, Beliefs
<1>1. /\ pkg'.exists = pkg.exists /\ pkg'.image = pkg.image /\ pkg'.unpacked = pkg.unpacked
      /\ pkg'.deleting = pkg.deleting
      /\ pkg.finalizer => pkg'.finalizer
      /\ ~pkg.exists => pkg' = pkg
  BY DEF TypeOK, Package
<1>2. WorkerVouches'
  BY <1>1 DEF WorkerVouches, PackageHeld, Idle, TypeOK, Package
<1> QED BY <1>1, <1>2 DEF JobsVouch, Vouches, PodsBelong, Awaited, PackageHeld, UnpackedMeansLoaded

(* A Job that is deleted stays what it was.                                *)
LEMMA DeleteJobBelieves ==
    ASSUME TypeOK, Beliefs, DeleteJob \/ UNCHANGED job, UNCHANGED <<pkg, jobSeen, pods, loaded>>
    PROVE  JobsVouch' /\ PodsBelong'
<1>1. /\ job'.status = job.status /\ job'.image = job.image /\ job'.exists = job.exists
      /\ job'.hash = job.hash /\ job'.uid = job.uid
      /\ job.dying => job'.dying
  BY DEF DeleteJob, TypeOK, Job
<1> QED BY <1>1 DEF Beliefs, JobsVouch, Vouches, PodsBelong, Awaited

LEMMA EnsureJobBelieves == TypeOK /\ Beliefs /\ EnsureJob => Beliefs'
<1> SUFFICES ASSUME TypeOK, Beliefs, EnsureJob PROVE Beliefs'
  OBVIOUS
<1> USE DEF EnsureJob, Beliefs
<1>1. JobsVouch' /\ PodsBelong'
  BY DeleteJobBelieves
<1>2. worker.image \in Images /\ pkg.exists
  BY DEF WorkerVouches
<1>3. jobSeen.exists /\ ~Outdated(jobSeen, worker.image) => jobSeen.image = worker.image
  BY <1>2, PackageAssumption DEF Outdated, JobsVouch
<1>4. worker' = Idle \/ \E step \in {"create", "status"}, unpacked \in {"False", "True"} :
        /\ worker' = [worker EXCEPT !.step = step, !.unpacked = unpacked]
        /\ unpacked = "True" => worker.image \in loaded
  BY <1>2, <1>3 DEF Retry, JobsVouch, Vouches
<1>5. WorkerVouches'
  <2>1. CASE worker' = Idle
    BY <2>1 DEF WorkerVouches, Idle
  <2>2. ASSUME NEW step \in {"create", "status"}, NEW unpacked \in {"False", "True"},
               worker' = [worker EXCEPT !.step = step, !.unpacked = unpacked],
               unpacked = "True" => worker.image \in loaded
        PROVE  WorkerVouches'
    <3>1. /\ worker'.step = step /\ worker'.unpacked = unpacked
          /\ worker'.image = worker.image /\ worker'.fresh = worker.fresh
      BY <2>2 DEF TypeOK, Worker
    <3> QED BY <1>2, <2>2, <3>1 DEF WorkerVouches
  <2> QED BY <1>4, <2>1, <2>2
<1> QED BY <1>1, <1>5 DEF PackageHeld, UnpackedMeansLoaded

LEMMA CreateJobBelieves == TypeOK /\ Beliefs /\ CreateJob => Beliefs'
<1> SUFFICES ASSUME TypeOK, Beliefs, CreateJob PROVE Beliefs'
  OBVIOUS
<1> USE DEF CreateJob, Beliefs
<1>1. CASE UNCHANGED job /\ Retry
  BY <1>1 DEF Retry, Idle, JobsVouch, Vouches, PodsBelong, Awaited, WorkerVouches, PackageHeld,
     UnpackedMeansLoaded
<1>2. CASE \E u \in FreeUids : job' = NewJob(u, worker.image)
  <2>1. PICK u \in FreeUids : job' = NewJob(u, worker.image)
    BY <1>2
  <2>2. worker.image \in Images
    BY DEF WorkerVouches
  <2>3. /\ job'.uid = u /\ job'.image = worker.image /\ job'.hash = Hash[worker.image]
        /\ job'.status = "Running"
    BY <2>1 DEF NewJob, NoJob
  <2>4. JobsVouch'
    BY <2>2, <2>3 DEF JobsVouch, Vouches
  <2>5. PodsBelong'
    BY <2>3 DEF PodsBelong, Awaited, FreeUids
  <2>6. worker' = [worker EXCEPT !.step = "status"] \/ worker' = Idle
    BY DEF Retry
  <2>7. WorkerVouches'
    BY <2>6 DEF WorkerVouches, TypeOK, Worker, Idle
  <2> QED BY <2>4, <2>5, <2>7 DEF PackageHeld, UnpackedMeansLoaded
<1>3. CASE FreeUids # {} /\ job' = NewJob(CHOOSE u \in FreeUids : TRUE, worker.image)
  <2>1. (CHOOSE u \in FreeUids : TRUE) \in FreeUids
    BY <1>3
  <2> QED BY <1>2, <1>3, <2>1
<1> QED BY <1>1, <1>3

LEMMA UpdateStatusBelieves == TypeOK /\ Beliefs /\ UpdateStatus => Beliefs'
<1> SUFFICES ASSUME TypeOK, Beliefs, UpdateStatus PROVE Beliefs'
  OBVIOUS
<1> USE DEF UpdateStatus, Beliefs
<1>1. CASE worker.fresh
  <2>1. /\ pkg'.exists = pkg.exists /\ pkg'.image = pkg.image
        /\ pkg'.deleting = pkg.deleting /\ pkg'.finalizer = pkg.finalizer
        /\ pkg'.unpacked = worker.unpacked /\ pkg.exists
    BY <1>1 DEF TypeOK, Package, WorkerVouches
  <2>2. UnpackedMeansLoaded'
    BY <1>1, <2>1 DEF UnpackedMeansLoaded, WorkerVouches
  <2> QED BY <2>1, <2>2 DEF JobsVouch, Vouches, PodsBelong, Awaited, WorkerVouches, PackageHeld, Idle
<1>2. CASE ~worker.fresh
  BY <1>2 DEF JobsVouch, Vouches, PodsBelong, Awaited, WorkerVouches, PackageHeld,
     UnpackedMeansLoaded, Idle
<1> QED BY <1>1, <1>2

(* A Package that is gone claims nothing.                                  *)
LEMMA GoneBelieves ==
    ASSUME Beliefs, pkg' = NoPackage, UNCHANGED <<job, jobSeen, pods, loaded>>,
           worker'.step = "idle"
    PROVE  Beliefs'
BY DEF Beliefs, NoPackage, JobsVouch, Vouches, PodsBelong, Awaited, WorkerVouches,
   PackageHeld, UnpackedMeansLoaded

LEMMA DeletionBelieves == TypeOK /\ Beliefs /\ (CleanUp \/ RemoveFinalizer) => Beliefs'
<1> SUFFICES ASSUME TypeOK, Beliefs, CleanUp \/ RemoveFinalizer PROVE Beliefs'
  OBVIOUS
<1>1. CASE CleanUp
  <2>1. JobsVouch' /\ PodsBelong'
    BY <1>1, DeleteJobBelieves DEF CleanUp
  <2>2. worker' = [worker EXCEPT !.step = "remove"] /\ worker.step = "cleanup"
    BY <1>1 DEF CleanUp
  <2>3. WorkerVouches'
    BY <1>1, <2>2 DEF CleanUp, Beliefs, WorkerVouches, TypeOK, Worker
  <2> QED BY <1>1, <2>1, <2>3 DEF CleanUp, Beliefs, PackageHeld, UnpackedMeansLoaded
<1>2. CASE RemoveFinalizer /\ worker.fresh
  BY <1>2, GoneBelieves DEF RemoveFinalizer, Idle
<1>3. CASE RemoveFinalizer /\ ~worker.fresh
  BY <1>3 DEF RemoveFinalizer, Beliefs, JobsVouch, Vouches, PodsBelong, Awaited, WorkerVouches,
     PackageHeld, UnpackedMeansLoaded, Idle
<1> QED BY <1>1, <1>2, <1>3

-----------------------------------------------------------------------------
(* The loader's steps and the cluster's.                                   *)
(* What a change of pods and of the verdict on the Job must respect.       *)
LEMMA PodsBelieve ==
    ASSUME TypeOK, Beliefs, UNCHANGED <<pkg, jobSeen, worker>>, loaded \subseteq loaded',
           pods' \in [Uids -> Pod],
           \A v \in Uids : pods'[v] # NoPod => pods[v] # NoPod /\ pods'[v].image = pods[v].image,
           \/ job' = job
           \/ /\ job' = [job EXCEPT !.status = "Failed"]
              /\ job.exists
           \/ /\ job' = [job EXCEPT !.status = "Complete"]
              /\ job.exists
              /\ pkg.exists => job.image \in loaded'
    PROVE  Beliefs'
<1>1. /\ job'.image = job.image /\ job'.exists = job.exists /\ job'.dying = job.dying
      /\ job'.hash = job.hash /\ job'.uid = job.uid
  BY DEF TypeOK, Job
<1>2. Vouches(job)'
  BY <1>1 DEF Beliefs, JobsVouch, Vouches, TypeOK, Job
<1>3. JobsVouch'
  BY <1>1, <1>2 DEF Beliefs, JobsVouch, Vouches
<1>4. PodsBelong'
  BY <1>1 DEF Beliefs, PodsBelong, Awaited
<1>5. WorkerVouches' /\ PackageHeld' /\ UnpackedMeansLoaded'
  BY DEF Beliefs, WorkerVouches, PackageHeld, UnpackedMeansLoaded
<1> QED BY <1>3, <1>4, <1>5 DEF Beliefs

LEMMA OutdateKeeps ==
    ASSUME TypeOK, NEW v \in Uids
    PROVE  /\ Outdate(pods)[v].image = pods[v].image
           /\ pods[v] = NoPod => Outdate(pods)[v] = NoPod
<1>1. Outdate(pods)[v] = [pods[v] EXCEPT !.fresh = pods[v].step # "put"]
  BY DEF Outdate
<1>2. Outdate(pods)[v].image = pods[v].image
  BY <1>1 DEF TypeOK, Pod
<1>3. ASSUME pods[v] = NoPod
      PROVE  Outdate(pods)[v] = NoPod
  <2>1. (pods[v].step # "put") = TRUE
    BY <1>3 DEF NoPod
  <2>2. Outdate(pods)[v] = [NoPod EXCEPT !.fresh = TRUE]
    BY <1>1, <1>3, <2>1
  <2> QED BY <2>2 DEF NoPod
<1> QED BY <1>2, <1>3

(* The others' states, as the loader's steps leave them.                   *)
Others(ps) ==
    /\ ps \in [Uids -> Pod]
    /\ \A v \in Uids : ps[v] # NoPod => pods[v] # NoPod /\ ps[v].image = pods[v].image

LEMMA OthersAre == TypeOK => Others(pods) /\ Others(Outdate(pods))
BY OutdateKeeps, OutdateTyped DEF Others, TypeOK

LEMMA FailureBelieves ==
    ASSUME TypeOK, Beliefs, NEW u \in Uids, pods[u] # NoPod, NEW ps, Others(ps),
           RunFails(u, ps), UNCHANGED <<pkg, jobSeen, worker>>, loaded' = loaded
    PROVE  Beliefs'
<1> DEFINE again == [NoPod EXCEPT !.step = "start", !.image = pods[u].image]
<1>1. again.image = pods[u].image /\ [again EXCEPT !.tries = pods[u].tries + 1].image = pods[u].image
  BY DEF NoPod
<1>2. pods' \in [Uids -> Pod]
  BY RunFailsTyped DEF Others
<1>3. \A v \in Uids \ {u} : pods'[v] = ps[v]
  BY DEF RunFails, Others
<1>4. pods'[u] \in {NoPod, again, [again EXCEPT !.tries = pods[u].tries + 1]}
  BY DEF RunFails, Others
<1>5. \A v \in Uids : pods'[v] # NoPod => pods[v] # NoPod /\ pods'[v].image = pods[v].image
  BY <1>1, <1>3, <1>4 DEF Others
<1>6. job' = job \/ (job.exists /\ job' = [job EXCEPT !.status = "Failed"])
  BY DEF RunFails, Awaited
<1> QED BY <1>2, <1>5, <1>6, PodsBelieve

LEMMA SuccessBelieves ==
    ASSUME TypeOK, Beliefs, NEW u \in Uids, pods[u] # NoPod, NEW ps, Others(ps),
           RunSucceeds(u, ps), UNCHANGED <<pkg, jobSeen, worker>>, loaded \subseteq loaded',
           pkg.exists => pods[u].image \in loaded'
    PROVE  Beliefs'
<1>1. pods' \in [Uids -> Pod]
  BY RunSucceedsTyped DEF Others
<1>2. \A v \in Uids : pods'[v] # NoPod => pods[v] # NoPod /\ pods'[v].image = pods[v].image
  BY DEF RunSucceeds, Others
<1>3. CASE Awaited(u)
  <2>1. pods[u].image = job.image
    BY <1>3 DEF Beliefs, PodsBelong
  <2>2. job' = [job EXCEPT !.status = "Complete"] /\ job.exists
    BY <1>3 DEF RunSucceeds, Awaited
  <2> QED BY <1>1, <1>2, <2>1, <2>2, PodsBelieve
<1>4. CASE ~Awaited(u)
  <2>1. job' = job
    BY <1>4 DEF RunSucceeds
  <2> QED BY <1>1, <1>2, <2>1, PodsBelieve
<1> QED BY <1>3, <1>4

LEMMA LoaderBelieves ==
    ASSUME TypeOK, Beliefs, NEW u \in Uids, LoaderStep(u)
    PROVE  Beliefs' /\ loaded' \subseteq Images
<1>0. Others(pods) /\ Others(Outdate(pods))
  BY OthersAre
<1>1. ASSUME NEW step, step # "off", pods[u].step = step
      PROVE  pods[u] # NoPod
  BY <1>1 DEF NoPod
<1>2. CASE LoadImage(u)
  <2>1. CASE RunSucceeds(u, pods) /\ ~pkg.exists
    BY <1>0, <1>1, <1>2, <2>1, SuccessBelieves DEF LoadImage, TypeOK
  <2>2. CASE RunFails(u, pods)
    BY <1>0, <1>1, <1>2, <2>2, FailureBelieves DEF LoadImage, TypeOK
  <2>3. CASE pods' = [pods EXCEPT ![u].step = "get"] /\ UNCHANGED job
    <3>1. pods[u] # NoPod
      BY <1>1, <1>2 DEF LoadImage
    <3>2. pods' \in [Uids -> Pod] /\ \A v \in Uids : pods'[v].image = pods[v].image
      BY <2>3 DEF TypeOK, Pod
    <3>3. \A v \in Uids \ {u} : pods'[v] = pods[v]
      BY <2>3 DEF TypeOK
    <3> QED BY <1>2, <2>3, <3>1, <3>2, <3>3, PodsBelieve DEF LoadImage, TypeOK
  <2> QED BY <1>2, <2>1, <2>2, <2>3 DEF LoadImage
<1>3. CASE GetDeployment(u)
  <2>1. pods[u] # NoPod
    BY <1>1, <1>3 DEF GetDeployment
  <2>2. pods' \in [Uids -> Pod]
    <3>1. loaded' \subseteq Images
      BY <1>3 DEF GetDeployment, TypeOK
    <3> QED BY <1>3, <3>1, LoaderTyped DEF LoaderStep, TypeOK
  <2>3. \A v \in Uids \ {u} : pods'[v] = pods[v]
    BY <1>3 DEF GetDeployment, TypeOK
  <2>4. pods'[u].image = pods[u].image
    BY <1>3 DEF GetDeployment, TypeOK, Pod
  <2> QED BY <1>3, <2>1, <2>2, <2>3, <2>4, PodsBelieve DEF GetDeployment, TypeOK
<1>4. CASE PutDeployment(u)
  <2>1. pods[u] # NoPod
    BY <1>1, <1>4 DEF PutDeployment
  <2>2. CASE \E ps : Others(ps) /\ RunFails(u, ps) /\ loaded' = loaded
    BY <1>4, <2>1, <2>2, FailureBelieves DEF PutDeployment, TypeOK
  <2>3. CASE /\ loaded' = loaded \union {pods[u].image}
             /\ \E ps : Others(ps) /\ RunSucceeds(u, ps)
    <3>1. Beliefs'
      BY <1>4, <2>1, <2>3, SuccessBelieves DEF PutDeployment
    <3> QED BY <2>1, <2>3, <3>1 DEF Beliefs, PodsBelong, TypeOK
  <2> QED BY <1>0, <1>4, <2>2, <2>3 DEF PutDeployment
<1> QED BY <1>2, <1>3, <1>4 DEF LoaderStep

LEMMA ClusterBelieves == TypeOK /\ Beliefs /\ ClusterStep => Beliefs'
<1> SUFFICES ASSUME TypeOK, Beliefs, ClusterStep PROVE Beliefs'
  OBVIOUS
<1>1. CASE StartPod
  <2> DEFINE pod == [NoPod EXCEPT !.step = "start", !.image = job.image]
  <2>1. pod.image = job.image /\ job.image \in Images
    BY <1>1 DEF NoPod, StartPod, Awaited, Beliefs, JobsVouch
  <2>2. \A v \in Uids : pods'[v] = pods[v] \/ (v = job.uid /\ pods'[v] = pod)
    BY <1>1 DEF StartPod, TypeOK
  <2>3. PodsBelong'
    BY <1>1, <2>1, <2>2 DEF StartPod, Beliefs, PodsBelong, Awaited
  <2>4. JobsVouch' /\ WorkerVouches' /\ PackageHeld' /\ UnpackedMeansLoaded'
    BY <1>1 DEF StartPod, Beliefs, JobsVouch, Vouches, WorkerVouches, PackageHeld,
       UnpackedMeansLoaded
  <2> QED BY <2>3, <2>4 DEF Beliefs
<1>2. CASE OrphanPods
  BY <1>2 DEF OrphanPods, NoJob, Beliefs, JobsVouch, Vouches, PodsBelong, Awaited,
     WorkerVouches, PackageHeld, UnpackedMeansLoaded
<1>3. CASE Collect \/ Probe
  <2>1. Others(pods')
    BY <1>3, OthersAre DEF Collect, Probe
  <2> QED BY <1>3, <2>1, PodsBelieve DEF Collect, Probe, Others
<1>4. CASE SyncJob
  BY <1>4 DEF SyncJob, Beliefs, JobsVouch, Vouches, PodsBelong, Awaited, WorkerVouches,
     PackageHeld, UnpackedMeansLoaded
<1>5. CASE SyncDeployment
  BY <1>5 DEF SyncDeployment, Beliefs, JobsVouch, Vouches, PodsBelong, Awaited,
     WorkerVouches, PackageHeld, UnpackedMeansLoaded
<1> QED BY <1>1, <1>2, <1>3, <1>4, <1>5 DEF ClusterStep

LEMMA FaultBelieves == TypeOK /\ Beliefs /\ Fault => Beliefs'
<1> SUFFICES ASSUME TypeOK, Beliefs, Fault PROVE Beliefs'
  OBVIOUS
<1>1. CASE Retry /\ UNCHANGED <<pods, job>>
  BY <1>1 DEF Fault, Retry, Idle, Beliefs, JobsVouch, Vouches, PodsBelong, Awaited,
     WorkerVouches, PackageHeld, UnpackedMeansLoaded
<1>2. ASSUME NEW u \in Uids, pods[u] # NoPod, RunFails(u, pods), UNCHANGED worker
      PROVE  Beliefs'
  <2>1. Others(pods)
    BY OthersAre
  <2> QED BY <1>2, <2>1, FailureBelieves DEF Fault
<1>3. ASSUME NEW u \in Uids, pods' = [pods EXCEPT ![u] = NoPod], UNCHANGED <<job, worker>>
      PROVE  Beliefs'
  <2>1. pods' \in [Uids -> Pod]
    BY <1>3, RecordsTyped DEF TypeOK
  <2>2. \A v \in Uids : pods'[v] # NoPod => pods'[v] = pods[v]
    BY <1>3 DEF TypeOK
  <2> QED BY <1>3, <2>1, <2>2, PodsBelieve DEF Fault
<1> QED BY <1>1, <1>2, <1>3 DEF Fault

LEMMA EditBelieves == TypeOK /\ Beliefs /\ (EditImage \/ DeletePackage) => Beliefs'
<1> SUFFICES ASSUME TypeOK, Beliefs, EditImage \/ DeletePackage PROVE Beliefs'
  OBVIOUS
<1>1. /\ worker'.step = worker.step /\ worker'.image = worker.image
      /\ worker'.unpacked = worker.unpacked
      /\ worker'.fresh => worker'.step = "idle"
  BY DEF EditImage, DeletePackage, OutdateWorker, TypeOK, Worker
<1>2. CASE pkg' = NoPackage /\ ~pkg.finalizer
  <2>1. worker'.step = "idle"
    BY <1>1, <1>2 DEF Beliefs, WorkerVouches, TypeOK, Worker
  <2> QED BY <1>2, <2>1, GoneBelieves DEF EditImage, DeletePackage
<1>3. CASE /\ pkg'.exists = pkg.exists /\ pkg'.finalizer = pkg.finalizer /\ pkg.exists
           /\ pkg'.image \in Images
           /\ pkg'.deleting => pkg'.finalizer
           /\ pkg'.unpacked # "True"
  <2>1. WorkerVouches'
    BY <1>1, <1>3 DEF EditImage, DeletePackage, Beliefs, WorkerVouches
  <2> QED BY <1>3, <2>1 DEF EditImage, DeletePackage, Beliefs, JobsVouch, Vouches, PodsBelong,
          Awaited, PackageHeld, UnpackedMeansLoaded
<1>4. CASE EditImage
  <2>1. PICK image \in Images :
          pkg' = [pkg EXCEPT !.image = image, !.unpacked = SpecChanged(@),
                             !.available = SpecChanged(@)]
    BY <1>4 DEF EditImage
  <2> QED BY <1>3, <1>4, <2>1 DEF EditImage, SpecChanged, TypeOK, Package
<1>5. CASE DeletePackage /\ pkg.finalizer
  BY <1>3, <1>5 DEF DeletePackage, SpecChanged, TypeOK, Package, Beliefs, PackageHeld
<1>6. CASE DeletePackage /\ ~pkg.finalizer
  BY <1>2, <1>6 DEF DeletePackage
<1> QED BY <1>4, <1>5, <1>6

-----------------------------------------------------------------------------
(* What the loader has written.                                            *)
LEMMA NothingDelivered ==
    ASSUME JobDelivered, deploy' = deploy, pkg'.exists => pkg.exists,
           job'.exists /\ job'.status = "Complete" =>
             job.exists /\ job.status = "Complete" /\ job'.image = job.image
    PROVE  JobDelivered'
BY DEF JobDelivered

LEMMA ControllerDelivers == TypeOK /\ JobDelivered /\ ControllerStep => JobDelivered'
<1> SUFFICES ASSUME TypeOK, JobDelivered, ControllerStep PROVE JobDelivered'
  OBVIOUS
<1>1. deploy' = deploy
  BY DEF ControllerStep, Begin, EnsureJob, CreateJob, UpdateStatus, CleanUp, RemoveFinalizer
<1>2. pkg'.exists => pkg.exists
  <2>1. CASE Begin
    BY <2>1 DEF Begin
  <2>2. CASE EnsureJob \/ CreateJob \/ CleanUp \/ RemoveFinalizer
    BY <2>2 DEF EnsureJob, CreateJob, CleanUp, RemoveFinalizer, NoPackage
  <2>3. CASE UpdateStatus
    BY <2>3 DEF UpdateStatus, TypeOK, Package
  <2> QED BY <2>1, <2>2, <2>3 DEF ControllerStep
<1>3. \/ job' = job
      \/ DeleteJob
      \/ \E u : job' = NewJob(u, worker.image)
  BY DEF ControllerStep, Begin, EnsureJob, CreateJob, UpdateStatus, CleanUp, RemoveFinalizer
<1>4. job'.exists /\ job'.status = "Complete" =>
        job.exists /\ job.status = "Complete" /\ job'.image = job.image
  BY <1>3 DEF DeleteJob, NewJob, NoJob, TypeOK, Job
<1> QED BY <1>1, <1>2, <1>4, NothingDelivered

(* A pod that fails completes no Job.                                      *)
LEMMA FailureCompletesNot ==
    ASSUME TypeOK, NEW u \in Uids, NEW ps, RunFails(u, ps)
    PROVE  job'.exists /\ job'.status = "Complete" =>
             job.exists /\ job.status = "Complete" /\ job'.image = job.image
BY DEF RunFails, TypeOK, Job

LEMMA WriterDelivers ==
    ASSUME TypeOK, PodsBelong, NEW u \in Uids, pods[u] # NoPod, deploy' = Written(u),
           job'.exists => job'.image = job.image,
           pkg' = pkg
    PROVE  JobDelivered'
<1>1. deploy'.exists /\ deploy'.content = pods[u].image /\ deploy'.late = ~Awaited(u)
  BY DEF Written
<1>2. Awaited(u) => pods[u].image = job.image
  BY DEF PodsBelong
<1> QED BY <1>1, <1>2 DEF JobDelivered

LEMMA LoaderDelivers ==
    ASSUME TypeOK, PodsBelong, JobDelivered, NEW u \in Uids, LoaderStep(u)
    PROVE  JobDelivered'
<1>1. CASE LoadImage(u)
  <2>1. CASE RunFails(u, pods)
    BY <1>1, <2>1, FailureCompletesNot, NothingDelivered DEF LoadImage
  <2>2. CASE ~pkg.exists \/ job' = job
    BY <1>1, <2>2 DEF LoadImage, JobDelivered
  <2> QED BY <1>1, <2>1, <2>2 DEF LoadImage
<1>2. CASE GetDeployment(u)
  BY <1>2 DEF GetDeployment, JobDelivered
<1>3. CASE PutDeployment(u)
  <2>1. pods[u] # NoPod
    BY <1>3 DEF PutDeployment, NoPod
  <2>2. job'.exists => job'.image = job.image
    BY <1>3 DEF PutDeployment, RunFails, RunSucceeds, TypeOK, Job
  <2>3. CASE deploy' = Written(u)
    BY <1>3, <2>1, <2>2, <2>3, WriterDelivers DEF PutDeployment
  <2>4. CASE deploy' = deploy /\ \E ps : RunFails(u, ps)
    BY <1>3, <2>4, FailureCompletesNot, NothingDelivered DEF PutDeployment
  <2> QED BY <1>3, <2>3, <2>4 DEF PutDeployment
<1> QED BY <1>1, <1>2, <1>3 DEF LoaderStep

LEMMA ClusterDelivers ==
    TypeOK /\ JobDelivered /\ (ClusterStep \/ Fault \/ EditImage \/ DeletePackage) => JobDelivered'
<1> SUFFICES ASSUME TypeOK, JobDelivered, ClusterStep \/ Fault \/ EditImage \/ DeletePackage
             PROVE  JobDelivered'
  OBVIOUS
<1>1. CASE StartPod \/ SyncJob \/ SyncDeployment \/ OrphanPods
  BY <1>1, NothingDelivered DEF StartPod, SyncJob, SyncDeployment, OrphanPods, NoJob
<1>2. CASE Collect
  BY <1>2 DEF Collect, JobDelivered
<1>3. CASE Probe
  BY <1>3 DEF Probe, JobDelivered, TypeOK, Deployment
<1>4. CASE Fault
  BY <1>4, FailureCompletesNot, NothingDelivered DEF Fault
<1>5. CASE EditImage \/ DeletePackage
  BY <1>5, NothingDelivered DEF EditImage, DeletePackage, TypeOK, Package, NoPackage
<1> QED BY <1>1, <1>2, <1>3, <1>4, <1>5 DEF ClusterStep

-----------------------------------------------------------------------------
(* What the controller has seen.                                           *)
LEMMA ControllerSees == TypeOK /\ Beliefs /\ WhatIsSeen /\ ControllerStep => WhatIsSeen'
<1> SUFFICES ASSUME TypeOK, Beliefs, WhatIsSeen, ControllerStep PROVE WhatIsSeen'
  OBVIOUS
<1>1. jobSeen' = jobSeen
  BY DEF ControllerStep, Begin, EnsureJob, CreateJob, UpdateStatus, CleanUp, RemoveFinalizer
<1>2. ASSUME queued' PROVE WhatIsSeen'
  BY <1>2 DEF WhatIsSeen
<1>3. CASE Begin
  BY <1>3 DEF Begin, WhatIsSeen, Idle
<1>4. CASE EnsureJob
  <2>1. CASE Retry
    BY <1>2, <2>1 DEF Retry
  <2>2. ASSUME NEW step \in {"create", "status"}, NEW unpacked \in {"False", "True"},
               worker' = [worker EXCEPT !.step = step, !.unpacked = unpacked],
               unpacked = "True" => SeenComplete(worker.image)
        PROVE  WhatIsSeen'
    <3>1. worker'.step = step /\ worker'.unpacked = unpacked /\ worker'.image = worker.image
      BY <2>2 DEF TypeOK, Worker
    <3> QED BY <1>1, <2>2, <3>1 DEF WhatIsSeen, SeenComplete
  <2> QED BY <1>4, <2>1, <2>2 DEF EnsureJob, Outdated, SeenComplete
<1>5. CASE CreateJob
  <2>1. CASE Retry
    BY <1>2, <2>1 DEF Retry
  <2>2. CASE worker' = [worker EXCEPT !.step = "status"] /\ queued' = queued
    BY <1>1, <1>5, <2>2 DEF CreateJob, WhatIsSeen, SeenComplete, TypeOK, Worker
  <2> QED BY <1>5, <2>1, <2>2 DEF CreateJob
<1>6. CASE UpdateStatus
  <2>1. CASE worker.fresh /\ ~queued'
    <3>1. worker.image = pkg.image /\ worker'.step = "idle" /\ ~queued
      BY <1>6, <2>1 DEF UpdateStatus, Beliefs, WorkerVouches, Idle
    <3>2. pkg'.image = pkg.image /\ pkg'.unpacked = worker.unpacked
      BY <1>6, <2>1 DEF UpdateStatus, TypeOK, Package
    <3> QED BY <1>1, <1>6, <3>1, <3>2 DEF UpdateStatus, WhatIsSeen, SeenComplete
  <2>2. CASE ~worker.fresh \/ queued'
    BY <1>2, <1>6, <2>2 DEF UpdateStatus
  <2> QED BY <2>1, <2>2
<1>7. CASE CleanUp
  BY <1>7 DEF CleanUp, WhatIsSeen, TypeOK, Worker
<1>8. CASE RemoveFinalizer
  <2>1. CASE worker.fresh
    BY <1>8, <2>1 DEF RemoveFinalizer, WhatIsSeen, NoPackage, Idle
  <2>2. CASE ~worker.fresh
    BY <1>2, <1>8, <2>2 DEF RemoveFinalizer
  <2> QED BY <2>1, <2>2
<1> QED BY <1>3, <1>4, <1>5, <1>6, <1>7, <1>8 DEF ControllerStep

LEMMA OthersSee ==
    WhatIsSeen /\ ((\E u \in Uids : LoaderStep(u)) \/ ClusterStep \/ Fault \/ EditImage
                    \/ DeletePackage \/ UNCHANGED vars)
      => WhatIsSeen'
<1> SUFFICES ASSUME WhatIsSeen,
                    \/ \E u \in Uids : LoaderStep(u)
                    \/ ClusterStep \/ Fault \/ EditImage \/ DeletePackage \/ UNCHANGED vars
             PROVE  WhatIsSeen'
  OBVIOUS
<1>1. \/ queued'
      \/ ~queued /\ UNCHANGED <<jobSeen, pkg, worker>>
  BY DEF LoaderStep, LoadImage, GetDeployment, PutDeployment, ClusterStep, StartPod, OrphanPods,
         Collect, SyncJob, SyncDeployment, Probe, Fault, Retry, EditImage, DeletePackage, vars
<1> QED BY <1>1 DEF WhatIsSeen, SeenComplete

-----------------------------------------------------------------------------
LEMMA NextBelieves == TypeOK /\ Beliefs /\ [Next]_vars => (TypeOK /\ Beliefs)'
<1> SUFFICES ASSUME TypeOK, Beliefs, [Next]_vars PROVE (TypeOK /\ Beliefs)'
  OBVIOUS
<1>1. CASE ControllerStep
  <2>1. TypeOK'
    BY <1>1, BeginTyped, EnsureJobTyped, CreateJobTyped, UpdateStatusTyped, DeletionTyped
    DEF ControllerStep, Beliefs
  <2>2. Beliefs'
    BY <1>1, BeginBelieves, EnsureJobBelieves, CreateJobBelieves, UpdateStatusBelieves,
       DeletionBelieves DEF ControllerStep
  <2> QED BY <2>1, <2>2
<1>2. ASSUME NEW u \in Uids, LoaderStep(u)
      PROVE  (TypeOK /\ Beliefs)'
  BY <1>2, LoaderBelieves, LoaderTyped
<1>3. CASE ClusterStep
  BY <1>3, ClusterTyped, ClusterBelieves
<1>4. CASE Fault \/ EditImage \/ DeletePackage
  BY <1>4, DisturbanceTyped, FaultBelieves, EditBelieves
<1>5. CASE UNCHANGED vars
  <2>1. Beliefs'
    BY <1>5 DEF vars, Beliefs, JobsVouch, Vouches, PodsBelong, Awaited, WorkerVouches,
       PackageHeld, UnpackedMeansLoaded
  <2> QED BY <1>5, <2>1, DisturbanceTyped
<1> QED BY <1>1, <1>2, <1>3, <1>4, <1>5 DEF Next

LEMMA NextDelivers ==
    TypeOK /\ Beliefs /\ JobDelivered /\ WhatIsSeen /\ [Next]_vars => JobDelivered' /\ WhatIsSeen'
<1> SUFFICES ASSUME TypeOK, Beliefs, JobDelivered, WhatIsSeen, [Next]_vars
             PROVE  JobDelivered' /\ WhatIsSeen'
  OBVIOUS
<1>1. ASSUME NEW u \in Uids, LoaderStep(u)
      PROVE  JobDelivered'
  BY <1>1, LoaderDelivers DEF Beliefs
<1>2. CASE UNCHANGED vars
  BY <1>2, OthersSee DEF vars, JobDelivered
<1> QED BY <1>1, <1>2, ControllerDelivers, ClusterDelivers, ControllerSees, OthersSee DEF Next

LEMMA InvHolds == Spec => [](TypeOK /\ Beliefs /\ JobDelivered /\ WhatIsSeen)
<1>1. Init => TypeOK /\ Beliefs /\ JobDelivered /\ WhatIsSeen
  <2>1. Init => JobDelivered /\ WhatIsSeen
    BY DEF Init, JobDelivered, WhatIsSeen, NoJob
  <2> QED BY <2>1, InitTyped, InitBelieves
<1>2. TypeOK /\ Beliefs /\ JobDelivered /\ WhatIsSeen /\ [Next]_vars
        => (TypeOK /\ Beliefs /\ JobDelivered /\ WhatIsSeen)'
  BY NextBelieves, NextDelivers
<1> QED BY <1>1, <1>2, PTL DEF Spec

(* Every reachable state is well typed: no pod is restarted more often     *)
(* than the Job allows.                                                    *)
THEOREM PackageTypeCorrect == Spec => []TypeOK
BY InvHolds, PTL

(* Unpacked is True only of an image that was loaded, whatever the cache   *)
(* shows of the Job, however many edits, crashes and pods there are.       *)
THEOREM UnpackedIsLoaded == Spec => []UnpackedMeansLoaded
<1>1. Beliefs => UnpackedMeansLoaded
  BY DEF Beliefs
<1> QED BY <1>1, InvHolds, PTL

(* Once the controller has nothing left to do, Unpacked means that the     *)
(* ObjectDeployment of the image is there, or that of an outdated loader   *)
(* that wrote last: what is seen complete is the Job, the Job is that of   *)
(* the image, as the hashes tell, and its pod has written.                 *)
THEOREM UnpackedIsDeployed == Spec => []UnpackedMeansDeployed
<1>1. TypeOK /\ Beliefs /\ JobDelivered /\ WhatIsSeen => UnpackedMeansDeployed
  <2> SUFFICES ASSUME TypeOK, Beliefs, JobDelivered, WhatIsSeen,
                      Settled, pkg.exists, pkg.unpacked = "True"
               PROVE  deploy.exists /\ (deploy.content = pkg.image \/ deploy.late)
    BY DEF UnpackedMeansDeployed
  <2>1. job.exists /\ job.status = "Complete" /\ job.hash = Hash[pkg.image]
    BY DEF Settled, WhatIsSeen, SeenComplete
  <2>2. job.image \in Images /\ job.hash = Hash[job.image] /\ pkg.image \in Images
    BY <2>1 DEF Beliefs, JobsVouch, PackageHeld
  <2>3. job.image = pkg.image
    BY <2>1, <2>2, PackageAssumption
  <2> QED BY <2>1, <2>3 DEF JobDelivered
<1> QED BY <1>1, InvHolds, PTL
=============================================================================
