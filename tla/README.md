# package-operator in TLA+

A TLA+ model of package-operator, a Kubernetes operator that installs and updates
collections of objects. A **Package** names an image; a loader unpacks it into an
**ObjectDeployment**, a template of objects grouped in phases; for every template that
creates an **ObjectSet**, a revision, and retires the older ones; an ObjectSet builds its
objects up phase by phase and tears them down again, some phases through an
**ObjectSetPhase** that another process reconciles. A **Handover** moves the objects of
one kind from an old operator to a new one, a few at a time; an **Adoption** labels
objects that no operator has yet. TLC checks the models on small instances, TLAPS proves
twenty-nine theorems for every value of the constants.

    tlc -workers 2 -config MCShared.cfg MCRollout    # one run
    tlapm RolloutProofs.tla                          # one module of proofs

## The system

Component | State | Operations | Talks to
--- | --- | --- | ---
ObjectDeployment controller (`objectdeployments/`) | status: template hash, collision count, conditions | hash the template, pause outdated ObjectSets, create the next revision, archive or delete old ones | ObjectSets (writes spec, reads status)
ObjectSet controller (`objectsets/`, `phase_reconciler.go`, `phase_teardown.go`) | ObjectSet: finalizer, `status.pausedFor`, conditions | reconcile phases, archive, tear down on deletion | managed objects, ObjectSetPhases, dynamic watcher
ObjectSetPhase controller (`objectsetphases/`) | ObjectSetPhase: finalizer, status | the same for one remote phase | managed objects, another cluster
Owner handling (`internal/ownerhandling/`) | owner references, or an annotation | is owner, release, take control | called per object
Dynamic watcher (`internal/dynamicwatcher/`) | informers and who wants them | `Watch`, `Free` | enqueues owners of changed objects
Probes (`internal/probe/`) | none | verdict on one object | called per object
Package controller and unpacking (`packages/`) | Package status, unpack job | hash, create or re-create the job, load files, write the ObjectDeployment | jobs, ObjectDeployment
Handover controller (`coordination/handover/`) | queue of objects in transition | relabel objects one after the other | objects of one kind
Adoption controller (`coordination/adoption/`) | round-robin position | label objects that have no label yet | objects of one kind
Commands, manifests, build | none | wiring | -

The controllers share nothing but the API server. Each runs one worker, reads typed
objects from an informer cache that lags behind, and writes with optimistic concurrency.
An event, an error and the resync put a key back on its queue. So what is hard here is:

* **stale reads** - pauses, acknowledgements, lists of revisions and conditions are read
  from the cache and acted on;
* **two controllers, one object** - two revisions name the same object; the *pause
  handshake* (`spec.pausedFor`, acknowledged in `status.pausedFor`) is there so that only
  one of them writes it, and a teardown deletes by name without looking at the owner;
* **partial work** - errors, conflicts and crashes between any two writes;
* **protocols over several reconciles** - teardown needs several passes, and finalizer,
  `Archived` and the garbage collector must agree on when it is done;
* **waiting without a requeue** - a controller returns and relies on an event to go on.

PROJECT.json lists each hazard at its line with the properties that watch it.

What makes each component correct: *ObjectDeployment* - never without an available
revision it had, never fewer revisions kept than the history limit, ascending revision numbers, a concluded update is
rolled out. *ObjectSet* - phases in order up and down, paused objects untouched, nothing
left behind. *ObjectSetPhase* - the same, and the handshake passed on before teardown.
*Dynamic watcher* - an informer
runs exactly while somebody watches, and whoever watches hears of every change. *Package* - the
ObjectDeployment comes from the newest image. *Handover* - at most `maxUnavailable`
objects in transition, none lost across a crash, completion means all relabelled.
*Adoption* - each object labelled once, options in turn.

## Modules

Module | Models
--- | ---
`RolloutState` | constants and their assumptions, variables, `TypeOK`, and what both controllers use (`IsObjectPaused`, phases, generations)
`ObjectSetController` | the ObjectSet controller's worker: begin, one object at a time, finish, abort
`ObjectDeploymentController` | one reconcile of the ObjectDeployment controller per action
`Rollout` | both together with the API server, the informers, the garbage collector and users; fairness; the properties
`RolloutInvariant` | the inductive invariants
`RolloutProofs`, `TeardownProofs`, `OrderProofs` | its theorems: types and pauses; teardown and revision numbers; the order of phases, the conclusion of an update and what the deprecation retires
`RemotePhases`, `RemoteProofs` | one ObjectSet with delegated phases: the ObjectSet controller, the ObjectSetPhase controllers, their work queues, watches and caches
`WatchRegistry` | what the dynamic watcher promises: a key is listened to from the first `Watch` to the last `Free`
`DynamicWatcher`, `DynamicWatcherProofs` | the watcher's two maps, its informers, the handlers they feed and the controllers that call it; `Registry`, the refinement mapping to `WatchRegistry`
`PackageUnpack`, `PackageUnpackProofs` | a Package, its controller, the unpack Job, the loader pods and the ObjectDeployment they write
`BoundedHandover` | what a Handover promises: announce at most `Limit` objects before moving them
`Handover` | the Handover controller with its queue, the objects, their operators and users; `Promise`, the refinement mapping to `BoundedHandover`
`HandoverInvariant`, `HandoverProofs` | its inductive invariants and theorems
`Adoption`, `AdoptionProofs` | the Adoption controller with both strategies, the objects and users
`MCRollout`, `MCRemote`, `MCWatcher`, `MCPackage`, `MCHandover`, `MCAdoption` and their `.cfg` files | instances for TLC

There are six models: `Rollout`, `RemotePhases`, `DynamicWatcher`, `PackageUnpack`,
`Handover` and `Adoption`. They share no state, as what joins them in the program is the
API server alone, and each sees of its neighbours what they leave there: `PackageUnpack`
sees an ObjectDeployment that becomes available, `Rollout` templates that change, and
`RemotePhases` an ObjectSet that is paused, archived and deleted, which `Rollout` and the
users do. Two halves of one program are in two modules: the ObjectSet controller is in
`ObjectSetController` with several ObjectSets and any moment a good one for a reconcile,
and in `RemotePhases` with one ObjectSet and nothing but its work queue to wake it.
`Watch` and `Free` are steps of `DynamicWatcher`, where what they do to each other is the
question; in `RemotePhases` and `Adoption` they only say who is woken.

### State

`Rollout`:

* `sets`, `cache`: the ObjectSets in the API server and in the informer cache. An
  ObjectSet is a number, its UID, in the order of creation; its name is its hash. The
  record has the spec (`template`, `lifecycle`, `pausedFor`), the annotations (`hash`,
  `revision`), the metadata that matters (`deleting`, `finalizer`) and the status
  (`statusPausedFor`, `available`, `archived`).
* `objs`: the managed objects, with the UID in the controlling owner reference. A
  `dying` object is deleted and waits for its finalizers.
* `edits`, `edit`, `seen`: the templates the user applies, how far the user is, and what
  the cache shows of it; the index is the deployment's generation.
* `deployment`: the deployment's status. `worker`: the ObjectSet reconcile in progress.
* `spent`: counts errors, drift and user edits against their bounds.

`RemotePhases`:

* `class`: the class of each phase, `Local` for those the ObjectSet's controller does.
* `set`, `phases`, `phasesSeen`: the ObjectSet, and the ObjectSetPhases in the API server
  and in the caches. `pauses` is history: what `spec.pausedFor` has been since the teardown
  was asked for. `objs`: as above, the controller being the UID of the ObjectSet, of
  an ObjectSetPhase, or a stranger.
* `queue`: the keys with a request pending; `watching`: whom a change of which object
  wakes. `setWorker`, `phaseWorker`: the reconciles in progress, one per controller, with
  the copy they work on and the phase and object they have come to; `overlooked`, history,
  are the phases that this teardown has taken for gone while they were only not in the cache.

`DynamicWatcher`: `informers` and `references` are the maps `informers` and
`informerReferences` of the code; `sinks` the handlers added so far and `feeds`, of an
informer, those it had when it was made; `notices` what the informers have yet to hand on;
`queue` the requests. `watching` and `unheard` are history: who was told that it watches,
and who has missed a change. `sharing` are the controllers of this watcher:
`package-operator` gives one to those of ObjectSets, ClusterObjectSets and their phases,
while each Handover and Adoption controller has its own.

`PackageUnpack`: `pkg`, `job` and `jobSeen` (the cache), `deploy` and `availSeen` (its
Available condition in the cache, all the controller reads of it), and `pods`, the loader
pods by the UID of the Job they were started for, which they may outlive; `worker` and
`queued` as above. `loaded` is history: the images some pod has written.

`Handover`:

* `objs`: the objects, with their `label` (the old value, the new one, another, or no
  labels at all), the operator their `status` names, whether they are `ready`, and whether
  the Handover has set the label (`handed`).
* `handover`, `cache`: the Handover in the API server and in the informer cache:
  finalizer, deletion, the `processing` queue and the `Completed` condition.
* `worker`: the reconcile in progress: the copy it read, the entry it is at, the queue and
  verdict it is going to report.

`Adoption`: `adoption`, `adoptionSeen`, `objs` with the options whose key they carry,
`worker` with what it listed and has yet to write, `watching`, and `given`, a count of how
often each option was handed out.

### Actions

Code | Actions
--- | ---
`GenericObjectSetController.Reconcile`, up to the phases | `BeginReconcile`; `BeginSet`
`PhaseReconciler.reconcileObject` and its probe | `ReconcileObject`; `ReconcileLocal`, `ReconcilePhaseObject`
`TeardownPhase`, per object, in archival and deletion | `TeardownObject`; `TeardownLocal`, `TeardownPhaseObject`
`reconcileRemotePhase`, `teardownRemotePhase` | `ReconcileRemote`, `TeardownRemote`
status update; removal of the finalizer | `FinishReconcile`; `FinishSet`
`GenericObjectSetPhaseController.Reconcile`, up to the objects; its end | `BeginPhase`; `FinishPhase`
an error of any call, or a crash | `AbortReconcile`; `Fail`, `Restart`
`EnsurePauseReconciler` that waits or meets a conflict | `WaitForPause`
an error in it | `FailToPause`
pause passed, current ObjectSet there; `DeprecationReconciler` | `KeepRevision`
pause passed, ObjectSet created; `DeprecationReconciler` | `CreateRevision`
pause passed, name held by a stranger | `CountCollision`
`DynamicWatcher.Watch`, `Free`, `Start` | `WatchKind`, `Release`, `AddSink`
`EnqueueWatchingObjects`, `EnqueueRequestForOwner` | `Deliver`
`GenericPackageController.Reconcile`, its reconcilers, its status update | `Begin`, `EnsureJob`, `CreateJob`, `UpdateStatus`
`handleDeletion` of a Package | `CleanUp`, `RemoveFinalizer`
`UnpackController.Reconcile` in a loader pod | `LoadImage`, `GetDeployment`, `PutDeployment`
relabel `handleSingleProcessing` on an object, one that is gone, one without labels | `ProcessObject`, `DropObject`, `PanicOnNilLabels`
relabel: list, `groupByLabelValues`, admission to the queue, `Completed` | `ListObjects`
relabel: status update | `Report`
`GenericHandoverController.Reconcile`: finalizer; deletion | `BeginReconcile`, `RemoveFinalizer`
`GenericAdoptionController.Reconcile`, `List`, the loops, the status update | `Begin`, `List`, `Write`, `Finish`
`HandleCommonDeletion` of an Adoption: finalizer, `dw.Free` | `Begin`, `Free`

An ObjectSet reconcile is split per object because its writes are seen by others one by
one. An ObjectDeployment reconcile is one action: it reads only the cache, and every
write carries the resourceVersion it read (or is a Create, or a Delete by name, which only
fails when the ObjectSet is gone), so whatever happens between its writes could as well
have happened before the first one without reaching the cache. It may still stop after any
of its writes. Another process may react to one of its writes before the next, as when an
ObjectSet acknowledges the pause before the archive update; the conflict this leads to is
one of the errors bounded by `MaxErrors`. `Watch` and `Free` hold the watcher's lock from
end to end and are one step each.

### Abstractions

* A template is a sequence of objects cut into phases; an object's content is left out.
* A conflict is "the copy read differs from what is stored". A record that has changed
  and changed back between is not told apart from an unchanged one.
* The deployment's status is read as stored. The controller is its only writer; a stale
  copy of its own last status could only make the next status update conflict. In the same
  way `RemotePhases` starts a reconcile with the ObjectSet as it is; what changes while it
  runs makes its update conflict.
* `available` tells apart False, True, and True of an older generation, as the
  deployment controller does.
* `DeepDerivative(pausedObjects, status.pausedFor)` on lists is "is a prefix of": it
  compares the expected entries in order and ignores further ones. Its treatment of empty
  strings inside an entry (the core API group) is not modelled.
* `ReleaseController` changes copies of the owner references, so `SetControllerReference`
  on an object another ObjectSet controls is an error; the native strategy compares owner
  references by name, the annotation strategy by UID.
* `isOwnerOf` compares an API version with a group and so is never true for the types at
  hand; an ObjectSet of the deployment that holds the name is caught by the check of its
  hash annotation before.
* `KeepRevision` also stands for the case that the current ObjectSet exists and is not in the
  cache yet. There the code most often returns an error or nothing
  (`newrevision_reconciler.go:60-75`); the model may go on with the deprecation, as when the
  cache has caught up.
* An archival is never taken back. Pauses of an ObjectSet may change at any time, also while
  it is archived or deleted, which users and `pause_reconciler.go:82` do.
* `RemotePhases` has one cache of ObjectSetPhases for both processes. An ObjectSetPhase that
  is left when the ObjectSet is gone goes to the garbage collector (`CollectPhase`), which
  passes no pauses on. The removal of an ObjectSet's finalizer and `Free` are one step there
  (`FinishSet`); no property is about what a request for an ObjectSet that is gone does. In
  `Adoption` they are two.
* `Rollout` has local phases only, and any reconcile may happen at any time; delegated
  phases and missing wake-ups are the subject of `RemotePhases`. A phase without objects
  passes and is left out. In `RemotePhases` no two phases name the same object, and
  `spec.paused` of an ObjectSetPhase, which nothing sets, is left out.
* A `RESTMapper` that does not know a kind makes a `Watch` fail (`FailLookup`); which kinds
  it may not know is a constant (`Reliable`). `WatchedAs` and `FreedAs` are the references
  that `Watch` and `Free` compute for an owner.
* Of a Package image the model knows whether it can be loaded and its hash. A pod that
  outlived its Job and can not load its image writes nothing and is dropped. The pods of a
  deleted Job are orphaned, which is the default of `batch/v1` for the call the code makes.
* A Handover's objects, and an Adoption's, are read from the API server, since
  unstructured objects are not cached; the Handover itself is read from the cache. The
  list order in which objects are admitted or labelled is left open. The spec of a
  Handover does not change. The second status update of a reconcile sets `status.phase`
  only and is left out, like the counts in `status.stats`.
* Labels of an Adoption are told apart by key, and every option has a key of its own.
* The `Succeeded` and `Paused` conditions and `status.phase` are read by no controller.

## What the runs check

Run | Instance | Shows
--- | --- | ---
`shared` | three revisions that share an object, drop one and add one; one error or drift | `KeptHasSoleWriter`: once a newer revision exists, no reconcile of an older one has an unpaused object left to write that every template names. `TeardownSparesOthers`: no teardown comes to an unpaused object another ObjectSet controls. `RevisionsAscend`: a new ObjectSet is numbered above all that the cache shows. `TypeOK`
`disjoint` | three revisions without common objects, a foreign name, history limit 1, one error; fair | `PhasesInOrder`, `ConcludedMeansRolledOut`, `KeepsAvailable`, `HistoryKept`. `RolloutConcludes`: from some point on the last template is available and all else is archived or gone
`disturbed` | users pause, resume and delete ObjectSets, errors, drift, two of these in all; an object exists beforehand | `PauseInvariant` is an invariant; `RemovalLeavesOnlyPaused`
`remote` | a delegated phase before or after a local one; two edits, or an edit and a fault, pauses that change during the teardown too; an object a stranger controls | `TeardownInOrder`: across processes, no phase is torn down before the later ones are. `RemovalLeavesNothing`: the finalizer goes last. `PausedAreSpared`: an object that `spec.pausedFor` has named all through the teardown is never deleted, however late the ObjectSetPhase hears of it. `TypeOK`
`remote_live` | a local phase, then a delegated one; caches that miss what was just created; two edits, or an edit and a fault; fair, but for the resync | `RolloutConcludes` and `DeletionConcludes` need no resync; `TeardownConcludes`, after a restart or for an archival, does
`watcher` | an ObjectSet with a phase object, an ObjectSet with a cluster-scoped one, two Handovers, a ClusterHandover; failing lookups, restarts; fair informers | `RegistryAgrees`, `ServesItsCallers`: the registry names just those that watch. `KeepsRegistry`: the watcher implements `WatchRegistry`. `ChangesAreHeard`: a watcher is enqueued after every change. `TypeOK`
`package` | two images that load, one that does not; a fault, an edit, pods that outlive their Job; fair | `UnpackedMeansLoaded`, `UnpackedMeansDeployed`: what `Unpacked` says of the present image. `UnpackConcludes`, `RemovalConcludes`: a Package is unpacked in the end; a deleted one leaves neither Job nor ObjectDeployment. `TypeOK`
`handover_edits` | users relabel, strip and add objects twice; one error, one drift; fresh reads | `HandoverBounded`: at most `maxUnavailable` objects are relabelled and wait for the new operator. `HandoverInvariant`, `TypeOK`
`handover_live` | outdated reads, one error, two drifts, no user; fair | `KeepsPromise`: the controller implements `BoundedHandover`. `CompletedMeansDone`. `HandoverCompletes`: unless it is deleted, a Handover completes, with every object handed over
`adoption` | three objects, two options; two faults, two edits; fair | `OneOptionOnly`: nobody gets two options. `Balanced`: the options are given out evenly, but for what faults lose. `EveryoneIsLabelled`, `TypeOK`

Each property has a mutant, a plausible mistake in the code under which TLC finds it
violated (`mutants` in PROJECT.json; the definitions marked *Not the code*).

Two more runs show where the program does not do what it says:

Run | Property | What happens
--- | --- | ---
`takeover` | `RolloutConcludes` | no revision can take over an object, so a rollout that keeps one never ends
`remote_order` | `PhasesInOrder` | a phase that has just been delegated fails no probe, so the next one is begun before any object of it exists

More counterexamples are one or two constants away from a configuration:

* `MCShared` with `ArchivedMeansGone`: `Archived` is reported after the first teardown
  pass.
* `MCShared` with `SeesOwnCreates = FALSE`: an ObjectSet the cache does not show yet is
  not paused (`SoleWriter`). `RevisionsAscend` holds there too: it only promises a number
  above those the list shows, and one that the list misses may come up again.
* `MCShared` with `Content <- Reuse`, `PhaseEnds <- OnePhase`: an archived ObjectSet
  deletes an object a later revision brought back (`TeardownSparesOthers`).
* `MCShared` with `Content <- DropShared`, `PhaseEnds <- OneBigPhase`: the pause for the
  second template is replaced by the one for the third, and two old revisions write one
  object again (`SoleWriter`).
* `MCDisjoint` with `Hash <- SameHash`: a template with the hash of the last one is taken
  for it and never rolled out (`ConcludedMeansRolledOut`).
* `MCDisjoint` with `Histories <- Rollback`: a template whose ObjectSet is archived can not
  be rolled out again (`RolloutConcludes`).
* `MCWatcher` with `StartTogether = FALSE`: an informer that one controller made before
  another added its handler never tells the other, which shares it (`ChangesAreHeard`).
* `MCWatcher` with `FreedAs <- ClearedRef`: a Free that computes another reference than the
  Watch leaves the watch behind (`ServesItsCallers`).
* `HandoverEdits` with `FreshReads = FALSE`: an outdated queue relabels an object that has
  left it, beyond `maxUnavailable` (`HandoverBounded`, as the only property).
* `HandoverLive` with `EditedLabels = {"none"}`, `MaxUserEdits = 1`: a queued object
  without any label makes every reconcile panic (`HandoverCompletes`).

All these explain the shape of the passing instances. `SoleWriter` is what the pause is
for; `KeptHasSoleWriter` is the part of it that holds, for the objects no template drops.
`disjoint` uses templates without common objects because of `takeover`, and never returns
to an earlier template. `TeardownSparesOthers` also fails when a user deletes the newest
ObjectSet, whose teardown deletes an object an older one still controls; it is checked
without such edits. `handover_edits` reads the Handover fresh, and `handover_live` strips
no labels.

Some properties name the exception they need, which is then a statement about the code.
`TeardownInOrder` and `RemovalLeavesNothing` except phases that the worker has `overlooked`:
an ObjectSetPhase the cache does not show counts as gone. They, and `PausedAreSpared`, go by
`pauses`, since an object that is named at last may have gone when it was not, and one that
was spared may be named no longer. `KeepsAvailable` is about ObjectSets that the cache shows
as they are; a delete decided on an older copy does not conflict.
`UnpackedMeansDeployed` excepts an ObjectDeployment last written by a loader that outlived
its Job (`late`): the controller deletes the outdated Job and creates the next without
waiting for the pod. `DeletionConcludes` excepts restarts, after which nobody watches
what is being torn down, and archivals, whose first pass frees the watches. No object of
`remote_live` is claimed by a stranger: teardown deletes it all the same, and nobody watches
what the ObjectSet never controlled. `Balanced`
allows for an index that a fault has lost.

### Bounds

`MaxSets`: three revisions are needed for a clean-up with a history limit and for a pause
to be replaced; more behave like the oldest. `MaxCollisions` 1: a second collision repeats
the first. `MaxErrors` and `MaxFaults`: one error at any point (two in `adoption`, where
the second may lose what the first one saved), after which everything is recomputed.
`MaxDrift`, `MaxUserEdits`, `MaxEdits` at most 2: an object deleted and deleted again, an
ObjectSet paused and resumed, or paused and archived. `MaxDisturbances` bounds all of
these together. All templates are among the values of `Histories`. `MaxUids` 2 leaves
room to create the ObjectSetPhase a second time, which never happens, so the bound cuts
nothing off. `MaxPods` 2: the pod of an outdated Job beside
that of the next one. `Backoff` 1: a pod that is tried again, and a Job that gives up.

Three objects and room for two make the queue of a Handover fill up, shrink and be
refilled while one object waits. Two options for three objects make the round robin start
again. The watcher's kinds are one that is always known and one that may not be; its
namespaces, one that is watched and one that only a cluster-scoped owner sees.

Deadlock is checked in `Rollout`, `RemotePhases` and `DynamicWatcher`, where a controller
can always be woken. The others switch it off: once a Handover, a Package or an Adoption is
gone and its objects are at rest, all is done.

### Fairness

`Rollout` asks for: weak fairness of the deployment controller, whose key comes back
with every event and resync; strong fairness of `BeginReconcile(u)` for each ObjectSet,
because one worker serves a fair queue; weak fairness of the worker's own steps, since a
reconcile that has begun goes on; weak fairness of the informers; and that objects become
ready, disappear when deleted, and are garbage collected. Nothing is asked of errors,
drift, template changes and user edits, all of which are bounded.

`RemotePhases` asks for less, as the wake-ups are its subject: each controller works off
its queue, the caches catch up, the objects make progress. The resync is left out, so a
request that is never enqueued is never served; only `TeardownConcludes` assumes strong
fairness of `Resync`, in its statement, because the informers resync every ten hours.

`DynamicWatcher` asks that a running informer hands on what it has seen. `PackageUnpack`
asks for weak fairness of the controller, of each loader pod, and of the Job controller,
the kubelet, the garbage collector and the informers of Jobs and of ObjectDeployments, none of which users or faults
can stop for ever. `Adoption` asks it of the controller and the informer.

`Handover` asks for weak fairness of the worker, of the informer, and of the operators
that report and make objects ready. With an object that stays unready for ever a Handover
may well stop: that is what `maxUnavailable` is for.

## What is proved

Type correctness of every model, from the assumptions on the constants: `TypeCorrect`,
`RemoteTypeCorrect`, `HandoverTypeCorrect`, `WatcherTypeCorrect`, `AdoptionTypeCorrect`,
`PackageTypeCorrect`. That of `RemotePhases` needs `Positions`: a worker that is not about
to report is at an object of its phase.

`KeptObjectsHaveSoleWriter` (`Spec => []KeptHasSoleWriter`, for `SeesOwnCreates`), for
any templates, phases, hashes, histories and bounds, from `PauseInvariantHolds`.
`KeptHasSoleWriter` alone is not inductive: it speaks of the copy in the worker's hands,
which depends on what was in the cache, which depends on what the API server had.
`PauseInvariant` adds the missing links:

* `Known`, `Held`: the cache misses no ObjectSet, and one that is reconciled or cached
  with its finalizer is still there, so no copy outlives its record;
* `QuietSpreads`: once an ObjectSet is paused for the kept objects (`Quiet`), later copies
  are too - API server after cache after worker - and archived ones are quiet;
* `ToldIsQuiet`: an acknowledgement in the cache or the API server means that both the
  cached copy and a reconcile in progress are quiet. This is the heart of it: the
  acknowledgement is written at the end of a reconcile that read the pause, and by the one
  worker, so no older copy is left;
* `OlderQuiet`: every ObjectSet but the newest is quiet, because `CreateRevision` waits
  for the acknowledgement of all of them.

The proof has one lemma per action for the parts that the action disturbs.

`RevisionsAlwaysAscend` (`Spec => RevisionsAscend`), for any constants and a cache of any age:
whatever the cache shows, the last of the sorted list of outdated ObjectSets has the greatest
number in it (`NumbersShown`), and no other step gives or changes a number (`NumbersNext`). It
rests on `TeardownInvariant`, by which the cache shows only ObjectSets that were created.

`RemovalSparesPaused` (`Spec => RemovalLeavesOnlyPaused`), for any constants and a cache of any
age, from `TeardownInvariant`. The finalizer goes at the end of a reconcile that has passed all
objects, so the invariant follows them through it:

* `Positioned`: a worker that is at an object is at one of its phase;
* `CopyAgrees`: the copy in its hands has the template and, once it is retired, the pauses
  that the API server has, so what it spares is what the property spares;
* `TornDown`: what a teardown has passed, in the phases after its own and in its own, is gone
  or paused, and stays so, as only a reconcile of the same ObjectSet takes control of it.

`TeardownsSpareOthers` (`Spec => []TeardownSparesOthers`), from `SharingInvariant`:
`Identified` says that an ObjectSet has the hash of its template and that an object that not
all templates keep is controlled by an ObjectSet whose template names it; `QuietRetired`, that
what is torn down has been told to spare the kept ones. So what a teardown may delete is named
by one template only, its own. The theorem needs `SeesOwnCreates` and, each for a
counterexample TLC finds: no user edits (a user deletes the newest ObjectSet, which was never
told), no `Foreign` hashes (a hash with a collision count may be that of another template), and
`KeptOrOwn`, that an object in two templates is in all (`Reuse`, `DropShared`).

`PhasesStayInOrder` (`Spec => []PhasesInOrder`), for any phases, hashes, collisions, errors and
crashes, from `OrderInvariant`:

* `Built`, `InOrder`: what a reconcile has passed it owns; what a later phase has is not
  without what the phases before it name;
* `ObjectsHeld`, `DyingIsPast`: an object is controlled by an ObjectSet that is there, and is
  deleted only for a template of the past, with all copies of its ObjectSet retired;
* `RetirementSpreads`: an ObjectSet that was retired stays so in later copies, so nobody
  reconciles what is being torn down;
* `CopiesBelong`, `OnePerTemplate`: all copies of an ObjectSet are of one template that was
  applied, each template has one ObjectSet, and that of the present one is current.

Its hypotheses are those without which the property is false or means little:
`Undisturbed` (nobody deletes an object or an ObjectSet by hand, and `SeesOwnCreates`),
`NamedOnce` (what two templates share, the pause keeps from both) and `NeverRepeats` (a
template that comes back while its ObjectSet is torn down finds its later phases alive and the
earlier ones dying). The run `disjoint` is an instance of all three.

`ConclusionsHold` (`Spec => []ConcludedMeansRolledOut`), under the same hypotheses and
`HashesTell`, that the hashes of templates differ (`SameHash` above shows why). The verdict is
drawn from a lagging cache: `AvailableIsComplete` says that any copy that is available and not
retired, however old, is of an ObjectSet that has all its objects; `Concluded`, that a
deployment that says so has such an ObjectSet and no other in service.

`HistoryAlwaysKept` (`Spec => HistoryKept`) and `ServiceAlwaysKept` (`Spec => KeepsAvailable`)
are about the deprecation, which decides on a cached list. Both rest on `Lineage`, the part of
`OrderInvariant` that relates the copies of an ObjectSet, so drift, errors, collisions and
shared objects are allowed; both need `SeesOwnCreates`, no user edits (a user may delete what
he likes), `NeverRepeats` and `HashesTell`.

* `HistoryInvariant` adds `History`. The list may hold ObjectSets that are being deleted or
  gone already, which count towards the limit; but each of those has `RevisionLimit` later
  live ones of earlier templates behind it already, so the oldest of the live ones beyond the
  limit has too. `NewerWere` carries this from UIDs to revision numbers and hashes, in which
  `HistoryKept` speaks.
* `ServiceInvariant` adds `Acknowledged`: who reports to be available has acknowledged all
  that it was asked to pause, which is nothing or the objects of a template of the past. So an
  available ObjectSet that passes the pause was not told to pause by this very reconcile, its
  copy in hand still shows it available, and it is retired for the current one alone, which
  `CopyIsCurrent` says is there and stays. `NeverShortened`, that no edit merely drops the
  last objects of an earlier template, is needed because the code compares the lists of
  objects for equality when it pauses but by prefix when it waits: an ObjectSet that paused
  `<<a, b>>` counts as having acknowledged `<<a>>`, is updated all the same, and its condition,
  at an outdated generation, then counts as unavailable. `SetWrites` lists all that a step may
  do to an ObjectSet.

The run `disjoint` is an instance of all these hypotheses.

`PausedAlwaysSpared` (`Spec => PausedAreSpared`), for any phases, layouts, classes and
bounds, caches of any age and pauses that change whenever they like, from `PauseKnown`, which
follows the pauses to whoever deletes:

* `SetWorkerKnows`: a teardown begins only once the ObjectSet is archived or deleted, so the
  copy in its worker's hands has pauses of that time (`Heeds`), be they outdated by now;
* `PhaseKnows`: an ObjectSetPhase has no pauses before the teardown passes them on (`Untold`),
  and an answer, however old the copy that shows it, means that it has been told, so one that
  is deleted has pauses of the teardown;
* `PhaseWorkerKnows`: the worker of a phase tears down only what the cache shows as deleted.

`TornDownInOrder` (`Spec => []TeardownInOrder`) and `RemovalAlwaysClean` (`Spec =>
RemovalLeavesNothing`), in the same generality, from `Held`, an account of what each process
knows to be gone. `CopyHolds` and `RemoteHolds` relate an ObjectSetPhase to its copy in the
cache and to its objects: without a finalizer it has none yet, and one that is gone has left
none but those some pauses of the teardown name. `PhaseWorkerHolds` says what a worker has
cleaned so far, `SetWorkerHolds` the same of the ObjectSet's: every phase it has passed is gone
(`Gone`), which for a delegated one means that its ObjectSetPhase is, or was overlooked.
`SetHolds`: an ObjectSet has its finalizer before it has anything else.

`HandoverInvariantHolds`, `HandoverStaysBounded`, `HandoverRefines` and
`CompletedHandoverIsDone` (`Spec => []HandoverInvariant`, `Spec => []HandoverBounded`, `Spec
=> KeepsPromise`, `Spec => []CompletedMeansDone`), for any finite set of objects, any
`maxUnavailable` and any bounds, if `FreshReads` or no user edits. That at most
`maxUnavailable` objects are in transition follows from a queue that is short and names them
all; for this to be inductive `HandoverInvariant` must say what an outdated queue may hold,
since the worker relabels whatever it reads:

* `TransitionAnnounced`, `QueuesFit`: the stored queue names every object in transition,
  and no queue, stored, cached or in the worker's hands, is too long;
* `HeldQueue`: an entry of an outdated queue that is no longer stored needs no relabelling
  (with fresh reads the worker's queue is the stored one);
* `LeftBehindIsDone`: an entry the reconcile has passed and not kept has arrived, so the
  report may drop it;
* `Guarded`: a reconcile runs only while the finalizer holds the Handover, so nothing is
  relabelled on behalf of one that is gone; `HandedIsTo`.

`CompletionInvariant` adds that a verdict about to be reported is still true.

`SeesOwnCreates` says that the cache shows a created ObjectSet before the next reconcile
of the deployment; without it `SoleWriter` is lost. Nothing in the code provides it, so the
theorems that need it say so; those about types, revision numbers, what a removed ObjectSet
leaves behind and `RemotePhases` do not.

`RegistryAlwaysAgrees`, `WatcherRefines` and `CallersAreServed` (`Spec =>
[]RegistryAgrees`, `Spec => KeepsRegistry`, `Spec => []ServesItsCallers`), for any
controllers, owners, namespaces and kinds. The refinement maps `references` to `watchers`
and "has a running informer" to `listening`. It rests on `RegistryAgrees`: without it a
`Free` could leave an informer behind, or a `Watch` find one that nobody refers to, and
neither is a step of `WatchRegistry`. `CallersAreServed` assumes that `Free` computes the
reference `Watch` has registered.

`OneOptionAtMost` (`Spec => []OneOptionOnly`): what was listed and has not changed since
carries no option (the worker's `todo` less its `stale`), so the write that goes through
adds the first. `OptionsStayBalanced` (`Spec => []Balanced`): `IndexCounts` relates what was
given out to the index in the status, the one in the cache and the one in the worker's hands,
each of which may lack what was given since a fault.

`UnpackedIsLoaded` (`Spec => []UnpackedMeansLoaded`), from `Beliefs`, which follows the
word that an image was loaded from the pod (`PodsBelong`) to the Job and the cache's copy of
it (`JobsVouch`), to the verdict in the worker's hands (`WorkerVouches`) and to the
condition; `PackageHeld` says that the finalizer keeps the Package for the worker. A Job is
matched with an image by its hash, so that distinct images must have distinct ones.
`UnpackedIsDeployed` (`Spec => []UnpackedMeansDeployed`) adds `JobDelivered` and `WhatIsSeen`: a
Job that is complete has a pod that wrote its image to the ObjectDeployment, and whoever wrote
later was that pod's successor or is the exception the property names.

TLC has checked the inductive invariants on the runs' instances before they were proved.

Only model-checked: liveness (`RolloutConcludes`, `HandoverCompletes`, `DeletionConcludes`,
`TeardownConcludes`, `UnpackConcludes`, `RemovalConcludes`, `EveryoneIsLabelled`,
`ChangesAreHeard`), which is out of the prover's reach with all that is ENABLED. Every
invariant and every action property of a passing run is stated by a theorem.

## Not modelled

* Probes beyond their verdict, their parsing, and what the loader reads from the file
  system: pure functions of one input.
* Commands but for their wiring (who shares a watcher, the wrapper of the phase manager,
  the single run of the loader); manifests, build scripts, generated code, test helpers.
* ObjectSetSlices and PackageDeployments: types that no code uses.
* The cluster-scoped twins of the controllers run the same code and are told apart only in
  `DynamicWatcher`; a ClusterHandover, which queues namespaced objects without their
  namespace, is a hazard that no property covers.
* `spec.pausedFor` is passed on to an ObjectSetPhase only when that is torn down. The model
  does so too, but the repository promises nothing for delegated phases that a property
  could state.

What is left to do: an abstract specification of a rollout that `Rollout` implements, and
weaker hypotheses, for shared objects in `PhasesStayInOrder` and for templates that come back.
