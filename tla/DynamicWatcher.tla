---------------------------- MODULE DynamicWatcher ----------------------------
(***************************************************************************)
(* internal/dynamicwatcher: a registry of informers that controllers of    *)
(* one process share, or that one controller has for itself.  Watch and    *)
(* Free hold one lock from end to end, so each is one step; the informers, *)
(* the handlers they feed and the controllers run concurrently.            *)
(***************************************************************************)
EXTENDS FiniteSets

CONSTANTS Controllers,   \* controllers that take a watcher as a source
          Sharings,      \* the sets of controllers that one watcher serves
          Owners,        \* what they reconcile
          ControllerOf,  \* [Owners -> Controllers]
          Namespaces,    \* the namespaces of objects
          ClusterWide,   \* the empty namespace, of cluster scoped owners
          NamespaceOf,   \* [Owners -> Namespaces \union {ClusterWide}]
          Kinds,
          Wants,         \* [Owners -> SUBSET Kinds], the kinds a reconcile watches
          Reliable,      \* kinds whose resource the RESTMapper always knows
          Matching,      \* controllers whose handler enqueues whoever watches
          Belongs,       \* [Owners -> SUBSET Objects], by owner reference
          Refs,          \* what an OwnerRef can be
          WatchedAs,     \* [Owners -> Refs], the OwnerRef that Watch computes
          FreedAs,       \* [Owners -> Refs], the one that Free computes
          StartTogether  \* no worker starts before every sink is added

Keys == (Namespaces \union {ClusterWide}) \X Kinds

Objects == Namespaces \X Kinds

ASSUME WatcherAssumption ==
    /\ Sharings \subseteq SUBSET Controllers
    /\ ControllerOf \in [Owners -> Controllers]
    /\ ClusterWide \notin Namespaces
    /\ NamespaceOf \in [Owners -> Namespaces \union {ClusterWide}]
    /\ Wants \in [Owners -> SUBSET Kinds]
    /\ Reliable \subseteq Kinds
    /\ Matching \subseteq Controllers
    /\ Belongs \in [Owners -> SUBSET Objects]
    /\ WatchedAs \in [Owners -> Refs]
    /\ FreedAs \in [Owners -> Refs]
    /\ \A o, p \in Owners : o # p => WatchedAs[o] # WatchedAs[p]
    /\ StartTogether \in BOOLEAN

VARIABLES sharing,     \* the controllers of this watcher
          sinks,       \* controllers whose handlers new informers feed
          informers,   \* [Keys -> InformerRecord]
          references,  \* [Keys -> SUBSET Refs]
          notices,     \* changes an informer has yet to hand to a sink
          queue,       \* owners with a reconcile request pending
          watching,    \* <<o, kind>>: a Watch of o has returned without error
          unheard      \* <<o, x>>: x changed and its watcher o was not told

registryVars == <<sinks, informers, references>>
watcherVars ==
    <<sharing, sinks, informers, references, notices, queue, watching, unheard>>

InformerRecord == [registered : BOOLEAN, runs : BOOLEAN, feeds : SUBSET Controllers]

NoInformer == [registered |-> FALSE, runs |-> FALSE, feeds |-> {}]

(* registered before its resource is looked up, and never run              *)
DeadInformer == [registered |-> TRUE, runs |-> FALSE, feeds |-> {}]

RunningInformer == [registered |-> TRUE, runs |-> TRUE, feeds |-> sinks]

Key(o, kind) == <<NamespaceOf[o], kind>>

InScope(x, key) == key[1] \in {x[1], ClusterWide} /\ key[2] = x[2]

-----------------------------------------------------------------------------
(* The event handlers.  A sink enqueues the owners an object belongs to, or *)
(* those that watch its kind at this moment, of its own type either way.   *)
\* Not the code: every watcher is looked up in the object's namespace.
ScopeOfObject(c, x) == x

Scope(c, x) ==
    IF \E o \in Owners : ControllerOf[o] = c /\ NamespaceOf[o] = ClusterWide
    THEN <<ClusterWide, x[2]>>
    ELSE x

Enqueued(c, x) ==
    {o \in Owners :
       /\ ControllerOf[o] = c
       /\ IF c \in Matching THEN WatchedAs[o] \in references[Scope(c, x)]
                            ELSE x \in Belongs[o]}

Enqueue(os) ==
    /\ queue' = queue \union os
    /\ unheard' = {u \in unheard : u[1] \notin os}

(* The owners that count on hearing of a change of x.                      *)
Concerned(x) ==
    {o \in Owners :
       /\ <<o, x[2]>> \in watching
       /\ InScope(x, Key(o, x[2]))
       /\ ControllerOf[o] \in Matching \/ x \in Belongs[o]}

-----------------------------------------------------------------------------
(* The calls.  Start adds the sink of a controller, before its own workers *)
(* start.                                                                  *)
Start(c) ==
    /\ c \in sharing \ sinks
    /\ sinks' = sinks \union {c}
    /\ UNCHANGED <<informers, references>>

Working(o) ==
    /\ ControllerOf[o] \in sinks
    /\ StartTogether => sinks = sharing

AddReference(o, kind) ==
    references' = [references EXCEPT ![Key(o, kind)] =
      (IF informers[Key(o, kind)].registered THEN @ ELSE {}) \union {WatchedAs[o]}]

ReuseInformer(o, kind) ==
    /\ informers[Key(o, kind)].registered
    /\ AddReference(o, kind)
    /\ UNCHANGED <<sinks, informers>>

AddInformer(o, kind) ==
    /\ ~informers[Key(o, kind)].registered
    /\ AddReference(o, kind)
    /\ informers' = [informers EXCEPT ![Key(o, kind)] = RunningInformer]
    /\ UNCHANGED sinks

FailLookup(o, kind) ==
    /\ kind \notin Reliable
    /\ ~informers[Key(o, kind)].registered
    /\ AddReference(o, kind)
    /\ informers' = [informers EXCEPT ![Key(o, kind)] = DeadInformer]
    /\ UNCHANGED sinks

\* Not the code: the entry of a key that nobody watches any more is dropped.
FreeDeletesEntry(o) ==
    LET left == [k \in Keys |-> references[k] \ {FreedAs[o]}] IN
    /\ references' = [k \in {k \in Keys : left[k] # {}} |-> left[k]]
    /\ informers' = [k \in Keys |-> IF left[k] = {} THEN NoInformer ELSE informers[k]]
    /\ UNCHANGED sinks

\* Not the code: the first that leaves stops the informer for all.
FreeStopsForAll(o) ==
    /\ references' = [k \in Keys |-> references[k] \ {FreedAs[o]}]
    /\ informers' = [k \in Keys |-> IF FreedAs[o] \in references[k] THEN NoInformer
                                                                   ELSE informers[k]]
    /\ UNCHANGED sinks

\* Not the code: an informer is never stopped.
FreeNeverStops(o) ==
    /\ references' = [k \in Keys |-> references[k] \ {FreedAs[o]}]
    /\ UNCHANGED <<sinks, informers>>

\* Not the code: only one of the keys an owner watches is freed.
FreeOneKey(o) ==
    LET held == {k \in Keys : FreedAs[o] \in references[k]}
        freed == IF held = {} THEN {} ELSE {CHOOSE k \in held : TRUE}
    IN  /\ references' = [k \in Keys |-> IF k \in freed THEN references[k] \ {FreedAs[o]}
                                                        ELSE references[k]]
        /\ informers' = [k \in Keys |-> IF k \in freed /\ references[k] = {FreedAs[o]}
                                         THEN NoInformer ELSE informers[k]]
        /\ UNCHANGED sinks

Free(o) ==
    LET r == FreedAs[o] IN
    /\ references' = [k \in Keys |-> references[k] \ {r}]
    /\ informers' = [k \in Keys |-> IF references[k] = {r} THEN NoInformer
                                                           ELSE informers[k]]
    /\ UNCHANGED sinks

(* What pends at an informer once the calls are done: a new one lists all  *)
(* objects in scope, a stopped one forgets what it had to tell.            *)
Notices ==
    LET new == {k \in Keys : informers'[k].runs /\ ~informers[k].runs}
    IN  {n \in notices : informers'[n[1]].runs} \union
        UNION {{k} \X {x \in Objects : InScope(x, k)} \X informers'[k].feeds : k \in new}

-----------------------------------------------------------------------------
Init ==
    /\ sharing \in Sharings
    /\ sinks = {}
    /\ informers = [k \in Keys |-> NoInformer]
    /\ references = [k \in Keys |-> {}]
    /\ notices = {}
    /\ queue = {}
    /\ watching = {}
    /\ unheard = {}

AddSink(c) ==
    /\ Start(c)
    /\ UNCHANGED <<sharing, notices, queue, watching, unheard>>

(* A reconcile of o watches a kind; a failed lookup puts o back.           *)
WatchKind(o, kind) ==
    /\ Working(o)
    /\ \/ /\ ReuseInformer(o, kind) \/ AddInformer(o, kind)
          /\ watching' = watching \union {<<o, kind>>}
          /\ UNCHANGED <<queue, unheard>>
       \/ /\ FailLookup(o, kind)
          /\ Enqueue({o})
          /\ UNCHANGED watching
    /\ notices' = Notices
    /\ UNCHANGED sharing

Release(o) ==
    /\ Working(o)
    /\ Free(o)
    /\ notices' = Notices
    /\ watching' = {w \in watching : w[1] # o}
    /\ unheard' = {u \in unheard : u[1] # o}
    /\ UNCHANGED <<sharing, queue>>

(* A worker takes o from the queue.                                        *)
Take(o) ==
    /\ Working(o)
    /\ o \in queue
    /\ queue' = queue \ {o}
    /\ UNCHANGED <<sharing, sinks, informers, references, notices, watching, unheard>>

(* An object is created, changed or deleted in the cluster.                *)
Change(x) ==
    /\ notices' = notices \union
         UNION {{k} \X {x} \X informers[k].feeds : k \in {k \in Keys : InScope(x, k)}}
    /\ unheard' = unheard \union ((Concerned(x) \ queue) \X {x})
    /\ UNCHANGED <<sharing, sinks, informers, references, queue, watching>>

Deliver(n) ==
    /\ notices' = notices \ {n}
    /\ Enqueue(Enqueued(n[3], n[2]))
    /\ UNCHANGED <<sharing, sinks, informers, references, watching>>

(* The process stops; the next one reconciles everything once its          *)
(* controllers start.                                                      *)
Restart ==
    /\ sinks' = {}
    /\ informers' = [k \in Keys |-> NoInformer]
    /\ references' = [k \in Keys |-> {}]
    /\ notices' = {}
    /\ queue' = {o \in Owners : ControllerOf[o] \in sharing}
    /\ watching' = {}
    /\ unheard' = {}
    /\ UNCHANGED sharing

Next ==
    \/ \E c \in Controllers : AddSink(c)
    \/ \E o \in Owners : Release(o) \/ Take(o) \/ \E kind \in Wants[o] : WatchKind(o, kind)
    \/ \E x \in Objects : Change(x)
    \/ \E n \in notices : Deliver(n)
    \/ Restart

Spec == Init /\ [][Next]_watcherVars

(* A running informer hands on, in the end, what it has seen.              *)
Fairness == \A n \in Keys \X Objects \X Controllers : WF_watcherVars(n \in notices /\ Deliver(n))

FairSpec == Spec /\ Fairness

-----------------------------------------------------------------------------
TypeOK ==
    /\ sharing \subseteq Controllers
    /\ sinks \subseteq Controllers
    /\ informers \in [Keys -> InformerRecord]
    /\ references \in [Keys -> SUBSET Refs]
    /\ notices \subseteq Keys \X Objects \X Controllers
    /\ queue \subseteq Owners
    /\ watching \subseteq Owners \X Kinds
    /\ unheard \subseteq Owners \X Objects

(* An informer is registered exactly while somebody refers to its key, so  *)
(* that Free never closes the channel of an informer that is not there,    *)
(* and no informer runs, or fails to, for nobody.                          *)
RegistryAgrees ==
    \A k \in Keys :
      /\ informers[k].registered <=> references[k] # {}
      /\ informers[k].runs => informers[k].registered
      /\ informers[k].registered /\ k[2] \in Reliable => informers[k].runs

(* The watcher keeps its promise to its callers.                           *)
Registry == INSTANCE WatchRegistry WITH
    ReliableKeys <- {k \in Keys : k[2] \in Reliable},
    watchers <- references,
    listening <- [k \in Keys |-> informers[k].runs]

KeepsRegistry == Registry!Spec

(* The registry names those, and only those, that were told they watch and *)
(* have not called Free since: none keeps an informer alive for an owner   *)
(* that is gone, none loses its watch to the Free of another.              *)
ServesItsCallers ==
    \A k \in Keys : k[2] \in Reliable =>
      references[k] =
        {WatchedAs[o] : o \in {o \in Owners : Key(o, k[2]) = k /\ <<o, k[2]>> \in watching}}

(* An owner hears of every change of what it watches, unless it stops      *)
(* watching: a request is enqueued after the change, whichever informer    *)
(* and handler it comes through, and whoever shares the informer.          *)
ChangesAreHeard ==
    \A o \in Owners, x \in Objects :
      x[2] \in Reliable => (<<o, x>> \in unheard ~> <<o, x>> \notin unheard)
=============================================================================
