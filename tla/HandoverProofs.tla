--------------------------- MODULE HandoverProofs ---------------------------
(***************************************************************************)
(* The Handover controller keeps the promise of BoundedHandover for any    *)
(* number of objects, any maxUnavailable and any number of crashes, and a  *)
(* Handover that reports Completed is done.                                *)
(***************************************************************************)
EXTENDS HandoverInvariant, FiniteSetTheorems, TLAPS

(* An order of admitted objects is a sequence of just these.               *)
LEMMA OrderFacts ==
    ASSUME NEW S \in SUBSET Objects, NEW order \in SetToSeqs(S)
    PROVE  /\ IsFiniteSet(S)
           /\ Cardinality(S) \in Nat
           /\ order \in Seq(Objects)
           /\ Len(order) = Cardinality(S)
<1>1. IsFiniteSet(S) /\ Cardinality(S) \in Nat
  BY HandoverAssumption, FS_Subset, FS_CardinalityType
<1>2. order \in [1 .. Cardinality(S) -> S]
  BY DEF SetToSeqs
<1>3. order \in [1 .. Cardinality(S) -> Objects]
  BY <1>2
<1>4. order \in Seq(Objects) /\ Len(order) = Cardinality(S)
  BY <1>1, <1>3
<1> QED
  BY <1>1, <1>4

(* A queue names no more objects than it has entries.                      *)
LEMMA RangeIsSmall ==
    ASSUME NEW q \in Seq(Objects)
    PROVE  /\ Range(q) \in SUBSET Objects
           /\ IsFiniteSet(Range(q))
           /\ Cardinality(Range(q)) <= Len(q)
<1> DEFINE D == 1 .. Len(q)
<1>1. DOMAIN q = D /\ Len(q) \in Nat /\ q \in [D -> Objects]
  OBVIOUS
<1>2. Range(q) \in SUBSET Objects /\ IsFiniteSet(Range(q))
  BY <1>1, HandoverAssumption, FS_Subset DEF Range
<1>3. IsFiniteSet(D) /\ Cardinality(D) = Len(q)
  BY <1>1, FS_Interval
<1>4. q \in Surjection(D, Range(q))
  BY <1>1 DEF Range, Surjection
<1>5. Cardinality(Range(q)) <= Cardinality(D)
  BY <1>3, <1>4, FS_Surjection
<1> QED
  BY <1>2, <1>3, <1>5

(* A queue that grows still names what it named.                           *)
LEMMA QueueGrows ==
    ASSUME NEW q \in Seq(Objects), NEW r \in Seq(Objects), NEW o \in Objects
    PROVE  /\ Range(q) \subseteq Range(Append(q, o))
           /\ o \in Range(Append(q, o))
           /\ Range(q) \subseteq Range(q \o r)
<1>1. Len(q) \in Nat /\ Len(r) \in Nat /\ DOMAIN q = 1 .. Len(q)
  OBVIOUS
<1>2. /\ DOMAIN Append(q, o) = 1 .. Len(q) + 1
      /\ Append(q, o)[Len(q) + 1] = o
      /\ \A i \in 1 .. Len(q) : Append(q, o)[i] = q[i]
  BY <1>1
<1>3. /\ DOMAIN (q \o r) = 1 .. Len(q) + Len(r)
      /\ \A i \in 1 .. Len(q) : (q \o r)[i] = q[i]
  BY <1>1
<1>4. \A i \in 1 .. Len(q) : i \in 1 .. Len(q) + 1 /\ i \in 1 .. Len(q) + Len(r)
  BY <1>1
<1>5. Len(q) + 1 \in 1 .. Len(q) + 1
  BY <1>1
<1> QED
  BY <1>1, <1>2, <1>3, <1>4, <1>5 DEF Range

(* The next step of a reconcile, after an entry of the queue.              *)
LEMMA AtEntryFacts ==
    ASSUME NEW w \in WorkerRecord
    PROVE  /\ AtEntry(w) = [w EXCEPT !.step = AtEntry(w).step]
           /\ AtEntry(w) \in WorkerRecord
           /\ AtEntry(w).step \in {"process", "list"}
           /\ AtEntry(w).step = "process" <=> w.at <= Len(w.read.processing)
           /\ AtEntry(w).read = w.read
           /\ AtEntry(w).at = w.at
           /\ AtEntry(w).queue = w.queue
           /\ AtEntry(w).completed = w.completed
BY DEF AtEntry, WorkerRecord

(* What the cluster may do to an object.                                   *)
LEMMA ObjectUpdates ==
    ASSUME NEW r \in ObjectRecord
    PROVE  /\ r.label \in {"from", "to"} => [r EXCEPT !.status = r.label] \in ObjectRecord
           /\ \A b \in BOOLEAN : [r EXCEPT !.ready = b] \in ObjectRecord
           /\ \A l \in Labels :
                /\ [r EXCEPT !.label = l, !.handed = FALSE] \in ObjectRecord
                /\ [Absent EXCEPT !.exists = TRUE, !.label = l] \in ObjectRecord
BY DEF ObjectRecord, Absent, Labels

-----------------------------------------------------------------------------
LEMMA TypeInit == Init => TypeOK
<1> SUFFICES ASSUME Init PROVE TypeOK
  OBVIOUS
<1>1. Absent \in ObjectRecord /\ NewHandover \in HandoverRecord /\ Idle \in WorkerRecord
  BY DEF Absent, ObjectRecord, Labels, NewHandover, HandoverRecord, Idle, WorkerRecord
<1>2. \A l \in {"from", "to"}, r \in BOOLEAN : Settled(l, r) \in ObjectRecord
  BY DEF Settled, ObjectRecord, Labels
<1> QED
  BY <1>1, <1>2 DEF Init, TypeOK, Idle

LEMMA TypeStep == TypeOK /\ [Next]_vars => TypeOK'
<1> SUFFICES ASSUME TypeOK, [Next]_vars PROVE TypeOK'
  OBVIOUS
<1> USE DEF TypeOK
<1>0. /\ Absent \in ObjectRecord
      /\ Idle \in WorkerRecord
      /\ Idle.step = "idle"
  BY DEF Absent, ObjectRecord, Labels, NewHandover, HandoverRecord, Idle, WorkerRecord
<1>1. CASE RemoveFinalizer
  BY <1>1 DEF RemoveFinalizer, HandoverRecord
<1>2. CASE BeginReconcile
  <2> DEFINE w == [Idle EXCEPT !.read = WithFinalizer(cache)]
  <2>1. w \in WorkerRecord /\ w.at = 1
    BY <1>0 DEF WithFinalizer, WorkerRecord, HandoverRecord, Idle
  <2>2. worker' = AtEntry(w) /\ UNCHANGED <<objs, cache, spent>> /\ handover' \in HandoverRecord
    BY <1>2 DEF WithFinalizer, BeginReconcile, HandoverRecord
  <2> HIDE DEF w
  <2>4. worker' \in WorkerRecord
        /\ (worker'.step = "process" => worker'.at <= Len(worker'.read.processing))
    BY <2>1, <2>2, AtEntryFacts
  <2> QED
    BY <2>2, <2>4 DEF WorkerRecord, HandoverRecord
<1>3. CASE ProcessObject
  <2> DEFINE w == [worker EXCEPT
                     !.at = @ + 1,
                     !.queue = IF Finished(objs[Entry]) THEN @ ELSE Append(@, Entry)]
  <2>1. Entry \in Objects
    BY <1>3 DEF ProcessObject, Entry, WorkerRecord, HandoverRecord
  <2>2. w \in WorkerRecord
    <3>1. worker.at + 1 \in Nat \ {0} /\ worker.queue \in Seq(Objects)
      BY DEF WorkerRecord
    <3>2. Append(worker.queue, Entry) \in Seq(Objects)
      BY <2>1, <3>1
    <3> QED
      BY <3>1, <3>2 DEF WorkerRecord
  <2>3. objs' \in [Objects -> ObjectRecord]
    BY <1>3, <2>1 DEF ProcessObject, Relabelled, ObjectRecord, Labels
  <2>4. worker' = AtEntry(w) /\ UNCHANGED <<handover, cache, spent>>
    BY <1>3 DEF ProcessObject
  <2> HIDE DEF w
  <2>6. worker' \in WorkerRecord
        /\ (worker'.step = "process" => worker'.at <= Len(worker'.read.processing))
    BY <2>2, <2>4, AtEntryFacts
  <2> QED
    BY <2>3, <2>4, <2>6 DEF WorkerRecord, HandoverRecord
<1>4. CASE DropObject
  <2> DEFINE w == [worker EXCEPT !.at = @ + 1]
  <2>1. w \in WorkerRecord
    <3>1. worker.at + 1 \in Nat \ {0}
      BY DEF WorkerRecord
    <3> QED
      BY <3>1 DEF WorkerRecord
  <2>2. worker' = AtEntry(w) /\ UNCHANGED <<objs, handover, cache, spent>>
    BY <1>4 DEF DropObject
  <2> HIDE DEF w
  <2>3. worker' \in WorkerRecord
        /\ (worker'.step = "process" => worker'.at <= Len(worker'.read.processing))
    BY <2>1, <2>2, AtEntryFacts
  <2> QED
    BY <2>2, <2>3 DEF WorkerRecord, HandoverRecord
<1>5. CASE PanicOnNilLabels
  BY <1>0, <1>5 DEF PanicOnNilLabels
<1>6. CASE ListObjects
  <2>0. PICK admitted \in SUBSET Labelled("from") :
          \E order \in SetToSeqs(admitted) :
            worker' = [worker EXCEPT
                         !.step = "report",
                         !.queue = @ \o order,
                         !.completed = Complete]
    BY <1>6 DEF ListObjects
  <2>1. PICK order \in SetToSeqs(admitted) :
          worker' = [worker EXCEPT
                       !.step = "report",
                       !.queue = @ \o order,
                       !.completed = Complete]
    BY <2>0
  <2>2. order \in Seq(Objects)
    BY OrderFacts DEF Labelled
  <2>3. worker.queue \o order \in Seq(Objects)
    BY <2>2 DEF WorkerRecord
  <2>4. worker' \in WorkerRecord /\ worker'.step = "report"
    BY <2>1, <2>3 DEF Complete, WorkerRecord
  <2> QED
    BY <1>6, <2>4 DEF ListObjects
<1>7. CASE Report
  BY <1>0, <1>7 DEF Report, HandoverRecord, WorkerRecord
<1>8. CASE AbortReconcile
  BY <1>0, <1>8 DEF AbortReconcile, Spend
<1>9. CASE SyncHandover
  BY <1>9 DEF SyncHandover
<1>10. CASE DeleteHandover
  BY <1>10 DEF DeleteHandover, HandoverRecord
<1>11. ASSUME NEW o \in Objects, Post(o) \/ Disrupt(o) \/ BecomeReady(o)
       PROVE  TypeOK'
  <2>1. PICK r \in ObjectRecord : objs' = [objs EXCEPT ![o] = r]
    BY <1>11, ObjectUpdates DEF Post, Disrupt, BecomeReady
  <2>2. UNCHANGED <<handover, cache, worker, spent>>
    BY <1>11 DEF Post, Disrupt, BecomeReady
  <2> QED
    BY <2>1, <2>2
<1>12. ASSUME NEW o \in Objects, Drift(o) \/ EditObject(o)
       PROVE  TypeOK'
  <2>1. PICK r \in ObjectRecord : objs' = [objs EXCEPT ![o] = r]
    BY <1>0, <1>12, ObjectUpdates, HandoverAssumption DEF Drift, EditObject, Labels
  <2>2. UNCHANGED <<handover, cache, worker>> /\ (Spend("drift") \/ Spend("edits"))
    BY <1>12 DEF Drift, EditObject
  <2>3. spent' \in [{"errors", "drift", "edits"} -> Nat]
    BY <2>2 DEF Spend
  <2> QED
    BY <2>1, <2>2, <2>3
<1>13. CASE UNCHANGED vars
  BY <1>13 DEF vars
<1> QED
  BY <1>1, <1>2, <1>3, <1>4, <1>5, <1>6, <1>7, <1>8, <1>9, <1>10, <1>11, <1>12,
     <1>13 DEF Next, WorkerNext, Environment

-----------------------------------------------------------------------------
(* One lemma per group of actions.  Undisturbed: reads are fresh, or       *)
(* no user relabels or adds objects.                                       *)
Undisturbed == FreshReads \/ MaxUserEdits = 0

LEMMA HandoverInit == Init => HandoverInvariant
<1> SUFFICES ASSUME Init PROVE HandoverInvariant
  OBVIOUS
<1>1. /\ \A o \in Objects : ~objs[o].handed
      /\ handover = NewHandover /\ cache = NewHandover /\ worker = Idle
  BY DEF Init, Absent, Settled
<1>2. /\ NewHandover.processing = << >> /\ ~NewHandover.finalizer
      /\ Idle.step = "idle" /\ Idle.read = NewHandover
  BY DEF NewHandover, Idle
<1>3. HandedIsTo /\ InTransition = {}
  BY <1>1 DEF HandedIsTo, InTransition
<1>4. Range(<< >>) = {}
  BY DEF Range
<1> QED
  BY <1>1, <1>2, <1>3, <1>4, HandoverAssumption DEF HandoverInvariant, Guarded, QueuesFit,
     TransitionAnnounced, HeldQueue, OutdatedIsDone, LeftBehindIsDone

(* What the operators, drift and users do leaves the queues alone.         *)
Cluster(o) == Post(o) \/ Disrupt(o) \/ BecomeReady(o) \/ Drift(o) \/ EditObject(o)

LEMMA ClusterFacts ==
    ASSUME TypeOK, HandedIsTo, Undisturbed, NEW o \in Objects, Cluster(o)
    PROVE  /\ UNCHANGED <<handover, cache, worker>>
           /\ \A p \in Objects : objs'[p].handed =>
                /\ objs[p].handed /\ objs'[p].exists /\ objs'[p].label = "to"
                /\ objs[p].status = "to" => objs'[p].status = "to"
           /\ ~FreshReads => \A p \in Objects : objs'[p].exists =>
                objs[p].exists /\ objs'[p].label = objs[p].label
<1>1. UNCHANGED <<handover, cache, worker>>
  BY DEF Cluster, Post, Disrupt, BecomeReady, Drift, EditObject
<1>2. objs \in [Objects -> ObjectRecord]
  BY DEF TypeOK
<1>3. objs[o].handed => objs[o].exists /\ objs[o].label = "to"
  BY DEF HandedIsTo
<1>4. ~EditObject(o) \/ FreshReads
  BY DEF EditObject, Undisturbed, TypeOK
<1>5. \A p \in Objects \ {o} : objs'[p] = objs[p]
  BY <1>2 DEF Cluster, Post, Disrupt, BecomeReady, Drift, EditObject
<1>6. /\ objs'[o].handed =>
           /\ objs[o].handed /\ objs'[o].exists /\ objs'[o].label = "to"
           /\ objs[o].status = "to" => objs'[o].status = "to"
      /\ ~FreshReads /\ objs'[o].exists => objs[o].exists /\ objs'[o].label = objs[o].label
  <2>1. CASE Post(o)
    BY <1>2, <1>3, <2>1 DEF Post, ObjectRecord
  <2>2. CASE Disrupt(o)
    BY <1>2, <1>3, <2>2 DEF Disrupt, ObjectRecord
  <2>3. CASE BecomeReady(o)
    BY <1>2, <1>3, <2>3 DEF BecomeReady, ObjectRecord
  <2>4. CASE Drift(o)
    BY <1>2, <1>3, <2>4 DEF Drift, ObjectRecord, Absent
  <2>5. CASE EditObject(o)
    BY <1>2, <1>4, <2>5 DEF EditObject, ObjectRecord, Absent
  <2> QED
    BY <2>1, <2>2, <2>3, <2>4, <2>5 DEF Cluster
<1>7. ASSUME NEW p \in Objects
      PROVE  /\ objs'[p].handed =>
                  /\ objs[p].handed /\ objs'[p].exists /\ objs'[p].label = "to"
                  /\ objs[p].status = "to" => objs'[p].status = "to"
             /\ ~FreshReads /\ objs'[p].exists =>
                  objs[p].exists /\ objs'[p].label = objs[p].label
  <2>1. CASE p = o
    BY <1>6, <2>1
  <2>2. CASE p # o
    <3>1. objs'[p] = objs[p]
      BY <1>5, <2>2
    <3> QED
      BY <3>1 DEF HandedIsTo
  <2> QED
    BY <2>1, <2>2
<1> QED
  BY <1>1, <1>7

LEMMA ClusterStep ==
    ASSUME TypeOK, HandoverInvariant, Undisturbed, NEW o \in Objects, Cluster(o)
    PROVE  HandoverInvariant' /\ InTransition' \subseteq InTransition
<1>1. HandedIsTo
  BY DEF HandoverInvariant
<1>2. UNCHANGED <<handover, cache, worker>>
  BY <1>1, ClusterFacts
<1>3. HandedIsTo' /\ InTransition' \subseteq InTransition
  BY <1>1, ClusterFacts DEF HandedIsTo, InTransition
<1>4. Guarded' /\ QueuesFit' /\ TransitionAnnounced'
  BY <1>2, <1>3 DEF HandoverInvariant, Guarded, QueuesFit, TransitionAnnounced
<1>5. ASSUME NEW q \in Seq(Objects), OutdatedIsDone(q), ~FreshReads
      PROVE  OutdatedIsDone(q)'
  BY <1>1, <1>2, <1>5, ClusterFacts, RangeIsSmall DEF OutdatedIsDone
<1>6. HeldQueue'
  <2>1. cache.processing \in Seq(Objects) /\ worker.read.processing \in Seq(Objects)
    BY DEF TypeOK, HandoverRecord, WorkerRecord
  <2> QED
    BY <1>2, <1>5, <2>1 DEF HandoverInvariant, HeldQueue, OutdatedIsDone
<1>7. LeftBehindIsDone'
  <2>1. \A i \in 1 .. Len(worker.read.processing) : worker.read.processing[i] \in Objects
    BY DEF TypeOK, HandoverRecord, WorkerRecord
  <2> QED
    BY <1>1, <1>2, <2>1, ClusterFacts DEF HandoverInvariant, LeftBehindIsDone
<1> QED
  BY <1>3, <1>4, <1>6, <1>7 DEF HandoverInvariant

(* A reconcile that ends without a report leaves the records alone.        *)
LEMMA EndStep ==
    ASSUME TypeOK, HandoverInvariant, worker' = Idle, UNCHANGED <<objs, handover, cache>>
    PROVE  HandoverInvariant' /\ InTransition' = InTransition
<1>1. Idle.step = "idle" /\ Idle.read.processing = << >> /\ Len(<< >>) = 0 /\ Range(<< >>) = {}
  BY DEF Idle, NewHandover, Range
<1>2. InTransition' = InTransition
  BY DEF InTransition
<1> QED
  BY <1>1, <1>2, HandoverAssumption DEF HandoverInvariant, HandedIsTo, Guarded, QueuesFit,
     TransitionAnnounced, HeldQueue, OutdatedIsDone, LeftBehindIsDone

(* Steps that change the record of the Handover but not its queue.         *)
LEMMA RecordStep ==
    ASSUME TypeOK, HandoverInvariant,
           RemoveFinalizer \/ SyncHandover \/ DeleteHandover
    PROVE  /\ HandoverInvariant'
           /\ InTransition' = InTransition
           /\ handover'.processing = handover.processing
           /\ handover'.exists => handover.exists
<1>1. UNCHANGED <<objs, worker>>
  BY DEF RemoveFinalizer, SyncHandover, DeleteHandover
<1>2. /\ handover'.processing = handover.processing
      /\ handover'.exists => handover.exists
      /\ cache' = cache \/ cache' = handover
  BY DEF RemoveFinalizer, SyncHandover, DeleteHandover, TypeOK, HandoverRecord
<1>3. Guarded'
  <2>1. Guarded
    BY DEF HandoverInvariant
  <2>2. CASE RemoveFinalizer
    BY <2>1, <2>2 DEF RemoveFinalizer, Guarded, TypeOK, HandoverRecord
  <2>3. CASE SyncHandover
    BY <2>1, <2>3 DEF SyncHandover, Guarded
  <2>4. CASE DeleteHandover
    BY <2>1, <2>4 DEF DeleteHandover, Guarded, TypeOK, HandoverRecord
  <2> QED
    BY <2>2, <2>3, <2>4
<1>4. HandedIsTo' /\ InTransition' = InTransition /\ LeftBehindIsDone'
  BY <1>1 DEF HandoverInvariant, HandedIsTo, InTransition, LeftBehindIsDone
<1>5. QueuesFit' /\ TransitionAnnounced' /\ HeldQueue'
  BY <1>1, <1>2, <1>4 DEF HandoverInvariant, QueuesFit, TransitionAnnounced, HeldQueue,
     OutdatedIsDone
<1> QED
  BY <1>2, <1>3, <1>4, <1>5 DEF HandoverInvariant

LEMMA BeginStep ==
    ASSUME TypeOK, HandoverInvariant, BeginReconcile
    PROVE  /\ HandoverInvariant'
           /\ InTransition' = InTransition
           /\ handover'.processing = handover.processing
           /\ handover'.exists = handover.exists
<1> DEFINE w == [Idle EXCEPT !.read = WithFinalizer(cache)]
<1>1. UNCHANGED <<objs, cache>> /\ worker' = AtEntry(w)
  BY DEF BeginReconcile
<1>2. /\ handover'.processing = handover.processing
      /\ handover'.exists = handover.exists
      /\ handover'.finalizer
      /\ handover.exists
      /\ FreshReads => cache.processing = handover.processing
  BY DEF WithFinalizer, BeginReconcile, TypeOK, HandoverRecord, HandoverInvariant, Guarded
<1>3. /\ w \in WorkerRecord
      /\ w.at = 1 /\ w.queue = << >>
      /\ w.read.processing = cache.processing
  <2>1. Idle \in WorkerRecord /\ Idle.at = 1 /\ Idle.queue = << >>
    BY DEF Idle, WorkerRecord, NewHandover, HandoverRecord
  <2>2. WithFinalizer(cache) \in HandoverRecord
    BY DEF WithFinalizer, TypeOK, HandoverRecord
  <2>3. WithFinalizer(cache).processing = cache.processing
    BY DEF WithFinalizer, TypeOK, HandoverRecord
  <2> QED
    BY <2>1, <2>2, <2>3 DEF WorkerRecord
<1> HIDE DEF w
<1>4. /\ worker'.at = 1 /\ worker'.queue = << >>
      /\ worker'.read.processing = cache.processing
      /\ worker'.step = "process" \/ (worker'.step = "list" /\ 1 > Len(cache.processing))
  <2>1. Len(cache.processing) \in Nat
    BY DEF TypeOK, HandoverRecord
  <2> QED
    BY <1>1, <1>3, <2>1, AtEntryFacts
<1>5. HandedIsTo' /\ InTransition' = InTransition /\ Guarded'
  BY <1>1, <1>2 DEF HandoverInvariant, HandedIsTo, InTransition, Guarded
<1>6. QueuesFit'
  BY <1>1, <1>2, <1>4, HandoverAssumption DEF HandoverInvariant, QueuesFit
<1>7. TransitionAnnounced' /\ HeldQueue'
  BY <1>1, <1>2, <1>4, <1>5 DEF HandoverInvariant, TransitionAnnounced, HeldQueue,
     OutdatedIsDone
<1>8. LeftBehindIsDone'
  BY <1>4 DEF LeftBehindIsDone
<1> QED
  BY <1>2, <1>5, <1>6, <1>7, <1>8 DEF HandoverInvariant

(* The worker passes an entry: what becomes of its own state.              *)
LEMMA PassFacts ==
    ASSUME TypeOK, HandoverInvariant, ProcessObject \/ DropObject
    PROVE  /\ UNCHANGED <<handover, cache>>
           /\ Entry \in Objects
           /\ worker.at \in 1 .. Len(worker.read.processing)
           /\ worker'.read = worker.read
           /\ worker'.at = worker.at + 1
           /\ worker'.step \in {"process", "list"}
           /\ worker'.step = "list" => worker'.at > Len(worker.read.processing)
           /\ worker'.queue \in {worker.queue, Append(worker.queue, Entry)}
           /\ \/ worker'.queue = Append(worker.queue, Entry)
              \/ ~objs[Entry].exists
              \/ objs[Entry].exists /\ Finished(objs[Entry]) /\ ProcessObject
<1>1. worker.step = "process"
  BY DEF ProcessObject, DropObject
<1>2. worker.at \in 1 .. Len(worker.read.processing) /\ Entry \in Objects
  BY <1>1 DEF Entry, TypeOK, WorkerRecord, HandoverRecord
<1>3. worker.at + 1 \in Nat \ {0} /\ worker.queue \in Seq(Objects)
  BY DEF TypeOK, WorkerRecord
<1>4. Append(worker.queue, Entry) \in Seq(Objects)
  BY <1>2, <1>3
<1>5. PICK w \in WorkerRecord :
        /\ worker' = AtEntry(w)
        /\ w.read = worker.read
        /\ w.at = worker.at + 1
        /\ w.queue \in {worker.queue, Append(worker.queue, Entry)}
        /\ \/ w.queue = Append(worker.queue, Entry)
           \/ ~objs[Entry].exists
           \/ objs[Entry].exists /\ Finished(objs[Entry]) /\ ProcessObject
  <2>1. CASE ProcessObject
    <3> DEFINE w == [worker EXCEPT
                       !.at = @ + 1,
                       !.queue = IF Finished(objs[Entry]) THEN @ ELSE Append(@, Entry)]
    <3>1. w \in WorkerRecord /\ w.read = worker.read /\ w.at = worker.at + 1
          /\ w.queue = IF Finished(objs[Entry]) THEN worker.queue ELSE Append(worker.queue, Entry)
      BY <1>3, <1>4 DEF TypeOK, WorkerRecord
    <3>2. worker' = AtEntry(w) /\ objs[Entry].exists
      BY <2>1 DEF ProcessObject
    <3> HIDE DEF w
    <3> QED
      BY <2>1, <3>1, <3>2
  <2>2. CASE DropObject
    <3> DEFINE w == [worker EXCEPT !.at = @ + 1]
    <3>1. w \in WorkerRecord /\ w.read = worker.read /\ w.at = worker.at + 1
          /\ w.queue = worker.queue
      BY <1>3 DEF TypeOK, WorkerRecord
    <3>2. worker' = AtEntry(w) /\ ~objs[Entry].exists
      BY <2>2 DEF DropObject
    <3> HIDE DEF w
    <3> QED
      BY <3>1, <3>2
  <2> QED
    BY <2>1, <2>2
<1>6. /\ worker'.read = w.read /\ worker'.at = w.at /\ worker'.queue = w.queue
      /\ worker'.step \in {"process", "list"}
      /\ worker'.step = "process" <=> w.at <= Len(w.read.processing)
  BY <1>5, AtEntryFacts
<1>7. worker'.step = "list" => worker'.at > Len(worker.read.processing)
  <2>1. Len(worker.read.processing) \in Nat
    BY DEF TypeOK, WorkerRecord, HandoverRecord
  <2> QED
    BY <1>2, <1>5, <1>6, <2>1
<1>8. UNCHANGED <<handover, cache>>
  BY DEF ProcessObject, DropObject
<1> QED
  BY <1>2, <1>5, <1>6, <1>7, <1>8

(* ... and what becomes of the object: only an announced one is relabelled. *)
LEMMA PassObject ==
    ASSUME TypeOK, HandoverInvariant, ProcessObject \/ DropObject
    PROVE  /\ \A p \in Objects :
                /\ objs'[p].exists = objs[p].exists
                /\ objs'[p].status = objs[p].status
                /\ p # Entry => objs'[p] = objs[p]
           /\ ProcessObject => objs'[Entry].label = "to"
           /\ objs'[Entry].handed =>
                \/ objs[Entry].handed
                \/ objs[Entry].exists /\ objs[Entry].label # "to" /\ objs'[Entry].label = "to"
           /\ objs[Entry].label = "to" => objs'[Entry].label = "to"
           /\ objs[Entry].exists /\ objs[Entry].label # "to" =>
                Entry \in Range(handover.processing)
<1>1. Entry \in Objects /\ worker.at \in 1 .. Len(worker.read.processing)
  BY PassFacts
<1>2. objs \in [Objects -> ObjectRecord]
  BY DEF TypeOK
<1>3. Entry \in Range(worker.read.processing)
  <2>1. worker.read.processing \in Seq(Objects)
    BY DEF TypeOK, WorkerRecord, HandoverRecord
  <2> QED
    BY <1>1, <2>1 DEF Entry, Range
<1>4. objs[Entry].exists /\ objs[Entry].label # "to" => Entry \in Range(handover.processing)
  <2>1. worker.step # "idle"
    BY DEF ProcessObject, DropObject
  <2> QED
    BY <1>1, <1>3, <2>1 DEF HandoverInvariant, HeldQueue, OutdatedIsDone
<1>5. CASE DropObject
  <2>1. objs' = objs /\ ~ProcessObject
    BY <1>5 DEF DropObject, ProcessObject
  <2> QED
    BY <1>4, <2>1
<1>6. CASE ProcessObject
  <2>1. objs' = [objs EXCEPT ![Entry] = Relabelled(objs[Entry])] /\ objs[Entry].exists
    BY <1>6 DEF ProcessObject
  <2>2. /\ Relabelled(objs[Entry]).exists = objs[Entry].exists
        /\ Relabelled(objs[Entry]).status = objs[Entry].status
        /\ Relabelled(objs[Entry]).label = "to"
        /\ Relabelled(objs[Entry]).handed => objs[Entry].handed \/ objs[Entry].label # "to"
    BY <1>1, <1>2 DEF Relabelled, ObjectRecord
  <2> HIDE DEF Entry
  <2> QED
    BY <1>1, <1>2, <1>4, <2>1, <2>2
<1> QED
  BY <1>5, <1>6

LEMMA PassStep ==
    ASSUME TypeOK, HandoverInvariant, ProcessObject \/ DropObject
    PROVE  /\ HandoverInvariant'
           /\ UNCHANGED handover
           /\ \/ InTransition' = InTransition
              \/ /\ InTransition' = InTransition \union {Entry}
                 /\ Entry \in Range(handover.processing)
                 /\ handover.exists
<1>1. worker.step = "process" /\ handover.exists
  BY DEF ProcessObject, DropObject, HandoverInvariant, Guarded
<1>2. Entry \in Objects
  BY PassFacts
<1>3. HandedIsTo'
  BY <1>2, PassObject DEF HandoverInvariant, HandedIsTo
<1>4. \A p \in Objects \ {Entry} : p \in InTransition' <=> p \in InTransition
  BY PassObject DEF InTransition
<1>5. Entry \in InTransition' => Entry \in InTransition \/ Entry \in Range(handover.processing)
  BY <1>2, PassObject DEF InTransition
<1>6. Entry \in InTransition => Entry \in InTransition'
  <2>1. Entry \in InTransition => objs[Entry].handed /\ objs[Entry].label = "to"
    BY DEF InTransition, HandoverInvariant, HandedIsTo
  <2>2. objs[Entry].label = "to" => objs' = objs
    BY <1>2 DEF ProcessObject, DropObject, Relabelled, TypeOK
  <2> QED
    BY <2>1, <2>2 DEF InTransition
<1>7. InTransition' \subseteq Objects /\ InTransition \subseteq Objects
  BY DEF InTransition
<1>8. \/ InTransition' = InTransition
      \/ /\ InTransition' = InTransition \union {Entry}
         /\ Entry \in Range(handover.processing)
  BY <1>2, <1>4, <1>5, <1>6, <1>7
<1>9. Guarded' /\ TransitionAnnounced'
  BY <1>1, <1>8, PassFacts DEF HandoverInvariant, Guarded, TransitionAnnounced
<1>10. QueuesFit'
  <2>1. /\ worker.at \in Nat /\ Len(worker.queue) \in Nat
        /\ Len(worker.read.processing) \in Nat
        /\ Len(worker'.queue) <= Len(worker.queue) + 1
        /\ Len(worker'.queue) \in Nat
    BY PassFacts DEF TypeOK, WorkerRecord, HandoverRecord
  <2>2. worker.at <= Len(worker.read.processing) /\ Len(worker.queue) < worker.at
    BY <1>1, PassFacts DEF HandoverInvariant, QueuesFit
  <2> QED
    BY <2>1, <2>2, PassFacts, HandoverAssumption DEF HandoverInvariant, QueuesFit
<1>11. HeldQueue'
  <2>1. ASSUME NEW q \in Seq(Objects), OutdatedIsDone(q)
        PROVE  OutdatedIsDone(q)'
    BY <2>1, RangeIsSmall, PassObject, PassFacts DEF OutdatedIsDone
  <2>2. cache.processing \in Seq(Objects) /\ worker.read.processing \in Seq(Objects)
    BY DEF TypeOK, WorkerRecord, HandoverRecord
  <2> QED
    BY <1>1, <2>1, <2>2, PassFacts DEF HandoverInvariant, HeldQueue, OutdatedIsDone
<1>12. LeftBehindIsDone'
  <2> SUFFICES ASSUME NEW i \in 1 .. Len(worker.read.processing),
                      i < worker.at + 1,
                      worker.read.processing[i] \notin Range(worker'.queue)
               PROVE  LET o == worker.read.processing[i] IN
                      /\ objs'[o].handed => objs'[o].status = "to"
                      /\ ~FreshReads /\ objs'[o].exists => objs'[o].label = "to"
    BY PassFacts DEF LeftBehindIsDone
  <2> DEFINE o == worker.read.processing[i]
  <2>1. o \in Objects
    BY DEF TypeOK, WorkerRecord, HandoverRecord
  <2>2. Range(worker.queue) \subseteq Range(worker'.queue)
        /\ (worker'.queue = Append(worker.queue, Entry) => Entry \in Range(worker'.queue))
    <3>1. worker.queue \in Seq(Objects)
      BY DEF TypeOK, WorkerRecord
    <3> QED
      BY <1>2, <3>1, PassFacts, QueueGrows
  <2>3. CASE o = Entry
    <3>1. \/ ~objs[Entry].exists
          \/ objs[Entry].exists /\ Finished(objs[Entry]) /\ ProcessObject
      BY <2>2, <2>3, PassFacts
    <3>2. ~objs[Entry].exists => ~objs'[Entry].exists /\ ~objs'[Entry].handed
      BY <1>2, <1>3, PassObject DEF HandedIsTo
    <3> QED
      BY <1>2, <2>3, <3>1, <3>2, PassObject DEF Finished
  <2>4. CASE o # Entry
    <3>1. i # worker.at
      BY <2>4 DEF Entry
    <3>2. i < worker.at
      BY <3>1 DEF TypeOK, WorkerRecord
    <3>3. objs'[o] = objs[o]
      BY <2>1, <2>4, PassObject
    <3> QED
      BY <1>1, <2>2, <3>2, <3>3 DEF HandoverInvariant, LeftBehindIsDone
  <2> QED
    BY <2>3, <2>4
<1> QED
  BY <1>1, <1>3, <1>8, <1>9, <1>10, <1>11, <1>12, PassFacts DEF HandoverInvariant

LEMMA ListStep ==
    ASSUME TypeOK, HandoverInvariant, ListObjects
    PROVE  HandoverInvariant' /\ InTransition' = InTransition
<1>0. PICK admitted \in SUBSET Labelled("from") :
        /\ admitted # {} => Cardinality(admitted) <= Room
        /\ \E order \in SetToSeqs(admitted) :
             worker' = [worker EXCEPT
                          !.step = "report",
                          !.queue = @ \o order,
                          !.completed = Complete]
  BY DEF ListObjects
<1>1. PICK order \in SetToSeqs(admitted) :
        worker' = [worker EXCEPT
                     !.step = "report",
                     !.queue = @ \o order,
                     !.completed = Complete]
  BY <1>0
<1>2. admitted \in SUBSET Objects
  BY DEF Labelled
<1>3. /\ order \in Seq(Objects)
      /\ Len(order) = Cardinality(admitted)
      /\ Cardinality(admitted) \in Nat
      /\ admitted = {} => Cardinality(admitted) = 0
  BY <1>2, OrderFacts, FS_EmptySet
<1>4. /\ worker.step = "list"
      /\ UNCHANGED <<objs, handover, cache>>
      /\ worker'.step = "report"
      /\ worker'.queue = worker.queue \o order
      /\ worker'.read = worker.read
      /\ worker'.at = worker.at
  BY <1>1 DEF ListObjects, TypeOK, WorkerRecord
<1>5. worker.queue \in Seq(Objects) /\ Len(worker.queue) \in Nat
  BY DEF TypeOK, WorkerRecord
<1>6. Len(worker'.queue) <= MaxUnavailable
  <2>1. Cardinality(Unavailable) \in Nat
    <3>1. Unavailable \in SUBSET Objects
      BY DEF Unavailable, Labelled
    <3> QED
      BY <3>1, HandoverAssumption, FS_Subset, FS_CardinalityType
  <2>2. Len(worker'.queue) = Len(worker.queue) + Cardinality(admitted)
    <3>1. Len(worker.queue \o order) = Len(worker.queue) + Len(order)
      BY <1>3, <1>5
    <3> QED
      BY <1>3, <1>4, <3>1
  <2>3. Len(worker.queue) <= MaxUnavailable
    BY <1>4 DEF HandoverInvariant, QueuesFit
  <2> QED
    BY <1>0, <1>3, <1>5, <2>1, <2>2, <2>3, HandoverAssumption DEF Room
<1>7. Range(worker.queue) \subseteq Range(worker'.queue)
  <2>1. CASE Objects = {}
    BY <1>5, <2>1 DEF Range
  <2>2. CASE Objects # {}
    BY <1>3, <1>4, <1>5, <2>2, QueueGrows
  <2> QED
    BY <2>1, <2>2
<1>8. HandedIsTo' /\ InTransition' = InTransition
  BY <1>4 DEF HandoverInvariant, HandedIsTo, InTransition
<1>9. Guarded' /\ QueuesFit' /\ TransitionAnnounced' /\ HeldQueue'
  BY <1>4, <1>6, <1>8 DEF HandoverInvariant, Guarded, QueuesFit, TransitionAnnounced, HeldQueue,
     OutdatedIsDone
<1>10. LeftBehindIsDone'
  BY <1>4, <1>7 DEF HandoverInvariant, LeftBehindIsDone
<1> QED
  BY <1>8, <1>9, <1>10 DEF HandoverInvariant

(* What the report leaves out of the queue needs no relabelling any more.  *)
LEMMA ReportStep ==
    ASSUME TypeOK, HandoverInvariant, Report
    PROVE  /\ HandoverInvariant'
           /\ InTransition' = InTransition
           /\ handover'.exists = handover.exists
           /\ handover'.processing = handover.processing \/ handover.exists
<1>1. worker' = Idle /\ UNCHANGED <<objs, cache>> /\ worker.step = "report"
  BY DEF Report
<1>2. CASE handover' = handover
  BY <1>1, <1>2, EndStep
<1>3. CASE worker.read = handover /\ handover' = [handover EXCEPT !.processing = worker.queue,
                                                              !.completed = worker.completed]
  <2>1. /\ handover'.exists = handover.exists
        /\ handover'.finalizer = handover.finalizer
        /\ handover'.processing = worker.queue
        /\ handover.exists
    BY <1>1, <1>3 DEF TypeOK, HandoverRecord, HandoverInvariant, Guarded
  <2>2. Idle.step = "idle" /\ Idle.read.processing = << >> /\ Len(<< >>) = 0 /\ Range(<< >>) = {}
    BY DEF Idle, NewHandover, Range
  <2>3. HandedIsTo' /\ InTransition' = InTransition
    BY <1>1 DEF HandoverInvariant, HandedIsTo, InTransition
  <2>4. Guarded' /\ QueuesFit'
    BY <1>1, <2>1, <2>2, HandoverAssumption DEF HandoverInvariant, Guarded, QueuesFit
  <2>5. ASSUME NEW o \in Range(handover.processing) \ Range(worker.queue)
        PROVE  /\ objs[o].handed => objs[o].status = "to"
               /\ ~FreshReads /\ objs[o].exists => objs[o].label = "to"
    <3>1. handover.processing \in Seq(Objects) /\ worker.at \in Nat
      BY DEF TypeOK, HandoverRecord, WorkerRecord
    <3>2. PICK i \in 1 .. Len(handover.processing) : o = handover.processing[i]
      BY <3>1 DEF Range
    <3>3. i < worker.at
      BY <1>1, <1>3, <3>1 DEF HandoverInvariant, QueuesFit
    <3> QED
      BY <1>1, <1>3, <3>2, <3>3 DEF HandoverInvariant, LeftBehindIsDone
  <2>6. TransitionAnnounced'
    BY <2>1, <2>3, <2>5 DEF HandoverInvariant, TransitionAnnounced, InTransition
  <2>7. ASSUME NEW q \in Seq(Objects), OutdatedIsDone(q), ~FreshReads
        PROVE  OutdatedIsDone(q)'
    BY <1>1, <2>1, <2>5, <2>7 DEF OutdatedIsDone
  <2>8. HeldQueue'
    <3>1. cache.processing \in Seq(Objects)
      BY DEF TypeOK, HandoverRecord
    <3> QED
      BY <1>1, <2>2, <2>7, <3>1 DEF HandoverInvariant, HeldQueue, OutdatedIsDone
  <2>9. LeftBehindIsDone'
    BY <1>1, <2>2 DEF LeftBehindIsDone
  <2> QED
    BY <2>1, <2>3, <2>4, <2>6, <2>8, <2>9 DEF HandoverInvariant
<1> QED
  BY <1>2, <1>3 DEF Report

LEMMA HandoverNext ==
    ASSUME TypeOK, HandoverInvariant, Undisturbed, [Next]_vars
    PROVE  HandoverInvariant'
<1>1. CASE RemoveFinalizer \/ SyncHandover \/ DeleteHandover
  BY <1>1, RecordStep
<1>2. CASE BeginReconcile
  BY <1>2, BeginStep
<1>3. CASE ProcessObject \/ DropObject
  BY <1>3, PassStep
<1>4. CASE PanicOnNilLabels \/ AbortReconcile
  BY <1>4, EndStep DEF PanicOnNilLabels, AbortReconcile
<1>5. CASE ListObjects
  BY <1>5, ListStep
<1>6. CASE Report
  BY <1>6, ReportStep
<1>7. ASSUME NEW o \in Objects, Cluster(o) PROVE HandoverInvariant'
  BY <1>7, ClusterStep
<1>8. CASE UNCHANGED vars
  BY <1>8 DEF vars, HandoverInvariant, HandedIsTo, Guarded, QueuesFit, TransitionAnnounced,
     InTransition, HeldQueue, OutdatedIsDone, LeftBehindIsDone
<1> QED
  BY <1>1, <1>2, <1>3, <1>4, <1>5, <1>6, <1>7, <1>8 DEF Next, WorkerNext, Environment, Cluster

(* Every reachable state is well typed, with or without users: in          *)
(* particular the worker is always at an entry of the queue it read.       *)
THEOREM HandoverTypeCorrect == Spec => []TypeOK
<1>1. Init => TypeOK
  BY TypeInit
<1>2. TypeOK /\ [Next]_vars => TypeOK'
  BY TypeStep
<1> QED
  BY <1>1, <1>2, PTL DEF Spec

(* The invariant that the promise rests on holds for any number of         *)
(* objects, and any maxUnavailable.                                        *)
THEOREM HandoverInvariantHolds ==
    ASSUME Undisturbed
    PROVE  Spec => []HandoverInvariant
<1>1. Init => TypeOK /\ HandoverInvariant
  BY TypeInit, HandoverInit
<1>2. TypeOK /\ HandoverInvariant /\ [Next]_vars => (TypeOK /\ HandoverInvariant)'
  BY TypeStep, HandoverNext
<1> QED
  BY <1>1, <1>2, PTL DEF Spec

LEMMA BoundFollows == TypeOK /\ HandoverInvariant => HandoverBounded
<1> SUFFICES ASSUME TypeOK, HandoverInvariant PROVE HandoverBounded
  OBVIOUS
<1>1. handover.processing \in Seq(Objects) /\ Len(handover.processing) \in Nat
  BY DEF TypeOK, HandoverRecord
<1>2. /\ IsFiniteSet(Range(handover.processing))
      /\ Cardinality(Range(handover.processing)) <= Len(handover.processing)
  BY <1>1, RangeIsSmall
<1>3. InTransition \in SUBSET Range(handover.processing)
  BY DEF HandoverInvariant, TransitionAnnounced
<1>4. /\ Cardinality(InTransition) <= Cardinality(Range(handover.processing))
      /\ Cardinality(InTransition) \in Nat
      /\ Cardinality(Range(handover.processing)) \in Nat
  BY <1>2, <1>3, FS_Subset, FS_CardinalityType
<1>5. Len(handover.processing) <= MaxUnavailable
  BY DEF HandoverInvariant, QueuesFit
<1> QED
  BY <1>1, <1>2, <1>4, <1>5, HandoverAssumption DEF HandoverBounded

(* maxUnavailable is kept for any number of objects, crashes, failed calls *)
(* and removed or unready objects - and, if every reconcile reads the      *)
(* Handover as it is, of relabelled and added ones.                        *)
THEOREM HandoverStaysBounded ==
    ASSUME Undisturbed
    PROVE  Spec => []HandoverBounded
<1>1. Init => TypeOK /\ HandoverInvariant
  BY TypeInit, HandoverInit
<1>2. TypeOK /\ HandoverInvariant /\ [Next]_vars => (TypeOK /\ HandoverInvariant)'
  BY TypeStep, HandoverNext
<1>3. TypeOK /\ HandoverInvariant => HandoverBounded
  BY BoundFollows
<1> QED
  BY <1>1, <1>2, <1>3, PTL DEF Spec

-----------------------------------------------------------------------------
(* Handover implements BoundedHandover.                                    *)
LEMMA PromiseInit == Init => Promise!Init
<1> SUFFICES ASSUME Init PROVE Promise!Init
  OBVIOUS
<1>1. handover.exists = TRUE /\ handover.processing = << >>
  BY DEF Init, NewHandover
<1>2. \A o \in Objects : ~objs[o].handed
  BY DEF Init, Absent, Settled
<1> QED
  BY <1>1, <1>2 DEF Promise!Init, Range, InTransition

(* A report announces, and what it announces is within the limit.          *)
LEMMA ReportAnnounces ==
    ASSUME TypeOK, TypeOK', HandoverInvariant, Report
    PROVE  Promise!Announce \/ UNCHANGED Promise!vars
<1>1. /\ HandoverInvariant'
      /\ InTransition' = InTransition
      /\ handover'.exists = handover.exists
      /\ handover'.processing = handover.processing \/ handover.exists
  BY ReportStep
<1>2. /\ handover'.processing \in Seq(Objects)
      /\ Len(handover'.processing) \in Nat
      /\ Len(handover'.processing) <= MaxUnavailable
      /\ InTransition' \subseteq Range(handover'.processing)
  BY <1>1 DEF TypeOK, HandoverRecord, HandoverInvariant, QueuesFit, TransitionAnnounced
<1>3. /\ Range(handover'.processing) \in SUBSET Objects
      /\ Cardinality(Range(handover'.processing)) \in Nat
      /\ Cardinality(Range(handover'.processing)) <= Len(handover'.processing)
  BY <1>2, RangeIsSmall, FS_CardinalityType
<1>4. Cardinality(Range(handover'.processing)) <= MaxUnavailable
  BY <1>2, <1>3, HandoverAssumption
<1>5. CASE handover.exists
  <2>1. Promise!Cardinality(Range(handover'.processing)) <= MaxUnavailable
    BY <1>4 DEF Promise!Cardinality, Cardinality
  <2>2. InTransition \subseteq Range(handover'.processing)
    BY <1>1, <1>2
  <2> QED
    BY <1>1, <1>3, <1>4, <1>5, <2>1, <2>2 DEF Promise!Announce
<1>6. CASE handover'.processing = handover.processing
  BY <1>1, <1>6 DEF Promise!vars
<1> QED
  BY <1>1, <1>5, <1>6

LEMMA PromiseStep ==
    ASSUME TypeOK, TypeOK', HandoverInvariant, Undisturbed, [Next]_vars
    PROVE  [Promise!Next]_(Promise!vars)
<1>1. CASE RemoveFinalizer \/ SyncHandover \/ DeleteHandover
  <2>1. /\ InTransition' = InTransition
        /\ handover'.processing = handover.processing
        /\ handover'.exists => handover.exists
    BY <1>1, RecordStep
  <2>2. handover.exists \in BOOLEAN /\ handover'.exists \in BOOLEAN
    BY DEF TypeOK, HandoverRecord
  <2> QED
    BY <2>1, <2>2 DEF Promise!Next, Promise!Stop, Promise!vars
<1>2. CASE BeginReconcile
  BY <1>2, BeginStep DEF Promise!vars
<1>3. CASE ProcessObject \/ DropObject
  <2>1. Entry \in Objects
    BY <1>3, PassFacts
  <2>2. UNCHANGED handover
    BY <1>3, PassStep
  <2>3. \/ InTransition' = InTransition
        \/ Promise!Depart(Entry)
    BY <1>3, <2>2, PassStep DEF Promise!Depart
  <2> QED
    BY <2>1, <2>2, <2>3 DEF Promise!Next, Promise!vars
<1>4. CASE PanicOnNilLabels \/ AbortReconcile
  <2>1. worker' = Idle /\ UNCHANGED <<objs, handover, cache>>
    BY <1>4 DEF PanicOnNilLabels, AbortReconcile
  <2> QED
    BY <2>1, EndStep DEF Promise!vars
<1>5. CASE ListObjects
  BY <1>5, ListStep DEF ListObjects, Promise!vars
<1>6. CASE Report
  BY <1>6, ReportAnnounces DEF Promise!Next
<1>7. ASSUME NEW o \in Objects, Cluster(o) PROVE [Promise!Next]_(Promise!vars)
  <2>1. InTransition' \subseteq InTransition /\ UNCHANGED <<handover, cache, worker>>
    BY <1>7, ClusterStep, ClusterFacts DEF HandoverInvariant
  <2>2. \A p \in Objects \ {o} : objs'[p] = objs[p]
    BY <1>7 DEF TypeOK, Cluster, Post, Disrupt, BecomeReady, Drift, EditObject
  <2>3. InTransition' = InTransition \/ InTransition' = InTransition \ {o}
    BY <2>1, <2>2 DEF InTransition
  <2>4. Promise!Arrive(o) \/ UNCHANGED Promise!vars
    BY <2>1, <2>3 DEF Promise!Arrive, Promise!vars
  <2> QED
    BY <2>4 DEF Promise!Next
<1>8. CASE UNCHANGED vars
  BY <1>8 DEF vars, Promise!vars, InTransition
<1> QED
  BY <1>1, <1>2, <1>3, <1>4, <1>5, <1>6, <1>7, <1>8 DEF Next, WorkerNext, Environment, Cluster

(* The Handover controller implements BoundedHandover: no object departs   *)
(* before the record in the API server announces it, an announcement is    *)
(* withdrawn only for objects that have arrived, and nothing departs once  *)
(* the Handover is gone.                                                   *)
THEOREM HandoverRefines ==
    ASSUME Undisturbed
    PROVE  Spec => KeepsPromise
<1>1. Init => TypeOK /\ HandoverInvariant /\ Promise!Init
  BY TypeInit, HandoverInit, PromiseInit
<1>2. TypeOK /\ HandoverInvariant /\ [Next]_vars => (TypeOK /\ HandoverInvariant)'
  BY TypeStep, HandoverNext
<1>3. TypeOK /\ TypeOK' /\ HandoverInvariant /\ [Next]_vars => [Promise!Next]_(Promise!vars)
  BY PromiseStep
<1> QED
  BY <1>1, <1>2, <1>3, PTL DEF Spec, KeepsPromise, Promise!Spec

-----------------------------------------------------------------------------
(* Completion.                                                             *)
LEMMA CompletionInit == Init => CompletionInvariant
BY DEF Init, CompletionInvariant, CompletedMeansDone, Absent, Settled, NewHandover, Idle

LEMMA CompletionNext ==
    ASSUME TypeOK, HandoverInvariant, Undisturbed, CompletionInvariant, [Next]_vars
    PROVE  CompletionInvariant'
<1> DEFINE TwoLabels == \A o \in Objects : objs[o].exists => objs[o].label \in {"from", "to"}
           Verdict == worker.step = "report" /\ worker.completed =>
                        Labelled("from") = {} /\ worker.queue = << >>
           Done == handover.completed => AllHandedOver
<1> SUFFICES ASSUME spent'.edits = 0
             PROVE  TwoLabels' /\ Verdict' /\ Done'
  BY DEF CompletionInvariant, CompletedMeansDone
<1>0. spent.edits = 0 /\ TwoLabels /\ Verdict /\ Done
  <2>0. UNCHANGED spent \/ Spend("errors") \/ Spend("drift") \/ Spend("edits")
    BY DEF Next, WorkerNext, Environment, vars, RemoveFinalizer, BeginReconcile,
       ProcessObject, DropObject, PanicOnNilLabels, ListObjects, Report, AbortReconcile,
       SyncHandover, DeleteHandover, Post, Disrupt, BecomeReady, Drift, EditObject
  <2>1. spent.edits = 0
    BY <2>0 DEF Spend, TypeOK
  <2> QED
    BY <2>1 DEF CompletionInvariant, CompletedMeansDone
<1>00. Idle.step = "idle" /\ HandedIsTo
  BY DEF Idle, HandoverInvariant
<1> HIDE DEF TwoLabels, Verdict, Done
<1>1. ASSUME UNCHANGED <<objs, worker>>, handover'.completed = handover.completed
      PROVE  TwoLabels' /\ Verdict' /\ Done'
  BY <1>0, <1>1 DEF TwoLabels, Verdict, Done, AllHandedOver, InTransition, Labelled
<1>2. ASSUME UNCHANGED objs, handover'.completed = handover.completed, worker'.step # "report"
      PROVE  TwoLabels' /\ Verdict' /\ Done'
  BY <1>0, <1>2 DEF TwoLabels, Verdict, Done, AllHandedOver, InTransition, Labelled
<1>3. CASE RemoveFinalizer \/ SyncHandover \/ DeleteHandover \/ UNCHANGED vars
  BY <1>1, <1>3 DEF RemoveFinalizer, SyncHandover, DeleteHandover, vars, TypeOK, HandoverRecord
<1>4. CASE BeginReconcile
  <2>1. UNCHANGED objs /\ handover'.completed = handover.completed
    BY <1>4 DEF WithFinalizer, BeginReconcile, TypeOK, HandoverRecord
  <2>2. worker'.step # "report"
    BY <1>4 DEF BeginReconcile, AtEntry, Idle
  <2> QED
    BY <1>2, <2>1, <2>2
<1>5. CASE PanicOnNilLabels \/ AbortReconcile
  BY <1>2, <1>5, <1>00 DEF PanicOnNilLabels, AbortReconcile
<1>6. CASE ProcessObject \/ DropObject
  <2>1. worker'.step # "report" /\ handover' = handover /\ Entry \in Objects
    BY <1>6, PassFacts
  <2>2. TwoLabels' /\ Verdict'
    BY <1>0, <1>6, <2>1, PassObject DEF TwoLabels, Verdict, DropObject, ProcessObject
  <2>3. Done'
    <3> SUFFICES ASSUME handover.completed PROVE AllHandedOver'
      BY <2>1 DEF Done
    <3>1. objs[Entry].exists => objs[Entry].label = "to"
      BY <1>0, <2>1 DEF TwoLabels, Done, AllHandedOver, Labelled
    <3>2. objs' = objs
      BY <1>6, <2>1, <3>1 DEF ProcessObject, DropObject, Relabelled, TypeOK
    <3> QED
      BY <1>0, <3>2 DEF Done, AllHandedOver, InTransition, Labelled
  <2> QED
    BY <2>2, <2>3
<1>7. CASE ListObjects
  <2>1. PICK admitted \in SUBSET Labelled("from") :
          \E order \in SetToSeqs(admitted) :
            worker' = [worker EXCEPT
                         !.step = "report",
                         !.queue = @ \o order,
                         !.completed = Complete]
    BY <1>7 DEF ListObjects
  <2>2. PICK order \in SetToSeqs(admitted) :
          worker' = [worker EXCEPT
                       !.step = "report",
                       !.queue = @ \o order,
                       !.completed = Complete]
    BY <2>1
  <2>3. UNCHANGED <<objs, handover>>
    BY <1>7 DEF ListObjects
  <2>4. ASSUME worker'.completed
        PROVE  Labelled("from") = {} /\ worker'.queue = << >>
    <3>1. Labelled("from") = {} /\ worker.queue = << >>
      BY <2>2, <2>4 DEF Complete, TypeOK, WorkerRecord
    <3>2. order = << >>
      <4>1. admitted \in SUBSET Objects /\ admitted = {}
        BY <3>1
      <4> QED
        BY <4>1, OrderFacts, FS_EmptySet
    <3> QED
      BY <2>2, <3>1, <3>2 DEF TypeOK, WorkerRecord
  <2> QED
    BY <1>0, <2>3, <2>4 DEF TwoLabels, Verdict, Done, AllHandedOver, InTransition, Labelled
<1>8. CASE Report
  <2>1. worker' = Idle /\ UNCHANGED objs /\ worker.step = "report"
    BY <1>8 DEF Report
  <2>2. TwoLabels' /\ Verdict'
    BY <1>0, <1>00, <2>1 DEF TwoLabels, Verdict
  <2>3. CASE handover' = handover
    BY <1>0, <2>1, <2>3 DEF Done, AllHandedOver, InTransition, Labelled, TwoLabels, Verdict, Idle
  <2>4. CASE worker.read = handover /\ handover' = [handover EXCEPT !.processing = worker.queue,
                                                                !.completed = worker.completed]
    <3> SUFFICES ASSUME worker.completed PROVE AllHandedOver'
      BY <2>2, <2>4 DEF Done, TypeOK, HandoverRecord
    <3>1. Labelled("from") = {} /\ worker.queue = << >>
      BY <1>0, <2>1 DEF Verdict
    <3>2. InTransition' = {}
      <4>1. HandoverInvariant' /\ handover'.processing = << >>
        BY <1>8, <2>4, <3>1, ReportStep DEF TypeOK, HandoverRecord
      <4> QED
        BY <4>1 DEF HandoverInvariant, TransitionAnnounced, Range
    <3> QED
      BY <2>1, <3>1, <3>2 DEF AllHandedOver, Labelled
  <2> QED
    BY <1>8, <2>2, <2>3, <2>4 DEF Report
<1>9. ASSUME NEW o \in Objects, Cluster(o) PROVE TwoLabels' /\ Verdict' /\ Done'
  <2>1. ~EditObject(o)
    BY <1>0 DEF EditObject, Spend, TypeOK
  <2>2. UNCHANGED <<handover, cache, worker>> /\ InTransition' \subseteq InTransition
    BY <1>9, ClusterFacts, ClusterStep, <1>00
  <2>3. \A p \in Objects : objs'[p].exists => objs[p].exists /\ objs'[p].label = objs[p].label
    BY <1>9, <2>1 DEF TypeOK, ObjectRecord, Cluster, Post, Disrupt, BecomeReady, Drift, Absent
  <2> QED
    BY <1>0, <2>2, <2>3 DEF TwoLabels, Verdict, Done, AllHandedOver, Labelled
<1> QED
  BY <1>3, <1>4, <1>5, <1>6, <1>7, <1>8, <1>9 DEF Next, WorkerNext, Environment, Cluster

(* As long as no user relabels or adds objects, Completed means done, for  *)
(* any number of objects, crashes and outdated reads of the Handover.      *)
THEOREM CompletedHandoverIsDone ==
    ASSUME Undisturbed
    PROVE  Spec => []CompletedMeansDone
<1>1. Init => TypeOK /\ HandoverInvariant /\ CompletionInvariant
  BY TypeInit, HandoverInit, CompletionInit
<1>2. TypeOK /\ HandoverInvariant /\ CompletionInvariant /\ [Next]_vars
        => (TypeOK /\ HandoverInvariant /\ CompletionInvariant)'
  BY TypeStep, HandoverNext, CompletionNext
<1>3. CompletionInvariant => CompletedMeansDone
  BY DEF CompletionInvariant
<1> QED
  BY <1>1, <1>2, <1>3, PTL DEF Spec
=============================================================================
