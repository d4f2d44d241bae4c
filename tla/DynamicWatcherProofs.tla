------------------------- MODULE DynamicWatcherProofs -------------------------
(***************************************************************************)
(* For any number of controllers, owners, namespaces and kinds: the        *)
(* bookkeeping of the dynamic watcher agrees with itself and implements    *)
(* WatchRegistry.  The first is an inductive invariant, and what the       *)
(* second rests on: an informer that is registered has watchers, so a      *)
(* Watch that finds none is the first.                                     *)
(***************************************************************************)
EXTENDS DynamicWatcher, TLAPS

Inv == TypeOK /\ RegistryAgrees

LEMMA KeyInKeys ==
    ASSUME NEW o \in Owners, NEW kind \in Kinds
    PROVE  Key(o, kind) \in Keys /\ Key(o, kind)[2] = kind
BY WatcherAssumption DEF Key, Keys

LEMMA InformersTyped ==
    ASSUME TypeOK
    PROVE  /\ NoInformer \in InformerRecord
           /\ DeadInformer \in InformerRecord
           /\ RunningInformer \in InformerRecord
BY DEF TypeOK, InformerRecord, NoInformer, DeadInformer, RunningInformer

LEMMA WatchesTyped ==
    ASSUME TypeOK, NEW o \in Owners, NEW kind \in Kinds, AddReference(o, kind)
    PROVE  references' \in [Keys -> SUBSET Refs]
<1>1. WatchedAs[o] \in Refs
  BY WatcherAssumption
<1> QED BY <1>1, KeyInKeys DEF TypeOK, AddReference

(* The informers only ever have notices for sinks there are.               *)
LEMMA NoticesTyped ==
    ASSUME TypeOK, informers' \in [Keys -> InformerRecord]
    PROVE  Notices \subseteq Keys \X Objects \X Controllers
<1> DEFINE New == {k \in Keys : informers'[k].runs /\ ~informers[k].runs}
<1>1. \A k \in New : informers'[k].feeds \subseteq Controllers
  BY DEF InformerRecord
<1>2. ASSUME NEW k \in New
      PROVE  {k} \X {x \in Objects : InScope(x, k)} \X informers'[k].feeds
               \subseteq Keys \X Objects \X Controllers
  BY <1>1, <1>2
<1> QED BY <1>2 DEF Notices, TypeOK

LEMMA InitInv == Init => Inv
BY WatcherAssumption DEF Init, Inv, TypeOK, RegistryAgrees, InformerRecord, NoInformer, Objects

LEMMA WatchTyped ==
    ASSUME TypeOK, NEW o \in Owners, NEW kind \in Kinds, WatchKind(o, kind)
    PROVE  TypeOK'
<1>1. references' \in [Keys -> SUBSET Refs] /\ sinks' \subseteq Controllers
  BY WatchesTyped DEF WatchKind, ReuseInformer, AddInformer, FailLookup, TypeOK
<1>2. informers' \in [Keys -> InformerRecord]
  BY InformersTyped, KeyInKeys
  DEF WatchKind, ReuseInformer, AddInformer, FailLookup, TypeOK
<1>3. notices' \subseteq Keys \X Objects \X Controllers
  BY <1>2, NoticesTyped DEF WatchKind
<1>4. queue' \subseteq Owners /\ watching' \subseteq Owners \X Kinds
      /\ unheard' \subseteq Owners \X Objects
  BY DEF WatchKind, Enqueue, TypeOK
<1>5. sharing' \subseteq Controllers
  BY DEF WatchKind, TypeOK
<1> QED BY <1>1, <1>2, <1>3, <1>4, <1>5 DEF TypeOK

LEMMA ReleaseTyped ==
    ASSUME TypeOK, NEW o \in Owners, Release(o)
    PROVE  TypeOK'
<1>1. references' \in [Keys -> SUBSET Refs] /\ sinks' \subseteq Controllers
  BY DEF Release, Free, TypeOK
<1>2. informers' \in [Keys -> InformerRecord]
  BY InformersTyped DEF Release, Free, TypeOK
<1>3. notices' \subseteq Keys \X Objects \X Controllers
  BY <1>2, NoticesTyped DEF Release
<1>4. queue' \subseteq Owners /\ watching' \subseteq Owners \X Kinds
      /\ unheard' \subseteq Owners \X Objects
  BY DEF Release, TypeOK
<1>5. sharing' \subseteq Controllers
  BY DEF Release, TypeOK
<1> QED BY <1>1, <1>2, <1>3, <1>4, <1>5 DEF TypeOK

LEMMA ChangeTyped ==
    ASSUME TypeOK, NEW x \in Objects, Change(x)
    PROVE  TypeOK'
<1>1. ASSUME NEW k \in Keys
      PROVE  {k} \X {x} \X informers[k].feeds \subseteq Keys \X Objects \X Controllers
  BY DEF TypeOK, InformerRecord
<1>2. notices' \subseteq Keys \X Objects \X Controllers
  BY <1>1 DEF Change, TypeOK
<1>3. Concerned(x) \subseteq Owners
  BY DEF Concerned
<1>4. unheard' \subseteq Owners \X Objects
  BY <1>3 DEF Change, TypeOK
<1> QED BY <1>2, <1>4 DEF Change, TypeOK

LEMMA DeliverTyped ==
    ASSUME TypeOK, NEW n \in notices, Deliver(n)
    PROVE  TypeOK'
<1>1. Enqueued(n[3], n[2]) \subseteq Owners
  BY DEF Enqueued
<1> QED BY <1>1 DEF Deliver, Enqueue, TypeOK

(* A step that is none of Watch, Free and Restart leaves the registry as   *)
(* it is.                                                                  *)
LEMMA OthersLeaveRegistry ==
    ASSUME \/ \E c \in Controllers : AddSink(c)
           \/ \E o \in Owners : Take(o)
           \/ \E x \in Objects : Change(x)
           \/ \E n \in notices : Deliver(n)
           \/ UNCHANGED watcherVars
    PROVE  UNCHANGED <<informers, references>>
BY DEF AddSink, Start, Take, Change, Deliver, watcherVars

LEMMA WatchAgrees ==
    ASSUME Inv, NEW o \in Owners, NEW kind \in Kinds, WatchKind(o, kind)
    PROVE  RegistryAgrees'
<1> DEFINE key == Key(o, kind)
<1> USE KeyInKeys DEF Inv, TypeOK, RegistryAgrees
<1>1. \A k \in Keys \ {key} : informers'[k] = informers[k] /\ references'[k] = references[k]
  <2>1. AddReference(o, kind)
    BY DEF WatchKind, ReuseInformer, AddInformer, FailLookup
  <2>2. \A k \in Keys \ {key} : references'[k] = references[k]
    BY <2>1 DEF AddReference
  <2>3. \A k \in Keys \ {key} : informers'[k] = informers[k]
    BY DEF WatchKind, ReuseInformer, AddInformer, FailLookup
  <2> QED BY <2>2, <2>3
<1>2. references'[key] # {}
  <2>1. AddReference(o, kind)
    BY DEF WatchKind, ReuseInformer, AddInformer, FailLookup
  <2> QED BY <2>1 DEF AddReference
<1>3. CASE ReuseInformer(o, kind)
  BY <1>1, <1>2, <1>3 DEF ReuseInformer
<1>4. CASE AddInformer(o, kind)
  <2>1. informers'[key].registered /\ informers'[key].runs
    BY <1>4 DEF AddInformer, RunningInformer
  <2> QED BY <1>1, <1>2, <2>1
<1>5. CASE FailLookup(o, kind)
  <2>1. informers'[key].registered /\ ~informers'[key].runs /\ key[2] \notin Reliable
    BY <1>5 DEF FailLookup, DeadInformer
  <2> QED BY <1>1, <1>2, <2>1
<1> QED BY <1>3, <1>4, <1>5 DEF WatchKind

LEMMA FreeAgrees ==
    ASSUME Inv, NEW o \in Owners, Release(o)
    PROVE  RegistryAgrees'
<1> SUFFICES ASSUME NEW k \in Keys
             PROVE  /\ informers'[k].registered <=> references'[k] # {}
                    /\ informers'[k].runs => informers'[k].registered
                    /\ informers'[k].registered /\ k[2] \in Reliable => informers'[k].runs
  BY DEF RegistryAgrees
<1> USE DEF Inv, TypeOK, RegistryAgrees, Release, Free
<1>1. CASE references[k] = {FreedAs[o]}
  BY <1>1 DEF NoInformer
<1>2. CASE references[k] # {FreedAs[o]}
  <2>1. informers'[k] = informers[k]
    BY <1>2
  <2>2. references'[k] # {} <=> references[k] # {}
    BY <1>2
  <2> QED BY <2>1, <2>2
<1> QED BY <1>1, <1>2

LEMMA NextInv == Inv /\ [Next]_watcherVars => Inv'
<1> SUFFICES ASSUME Inv, [Next]_watcherVars
             PROVE  Inv'
  OBVIOUS
<1>1. ASSUME NEW c \in Controllers, AddSink(c)
      PROVE  Inv'
  <2>1. TypeOK'
    BY <1>1 DEF AddSink, Start, Inv, TypeOK
  <2>2. RegistryAgrees'
    BY <1>1, OthersLeaveRegistry DEF Inv, RegistryAgrees
  <2> QED BY <2>1, <2>2 DEF Inv
<1>2. ASSUME NEW o \in Owners, Release(o)
      PROVE  Inv'
  BY <1>2, ReleaseTyped, FreeAgrees DEF Inv
<1>3. ASSUME NEW o \in Owners, Take(o)
      PROVE  Inv'
  <2>1. TypeOK'
    BY <1>3 DEF Take, Inv, TypeOK
  <2>2. RegistryAgrees'
    BY <1>3, OthersLeaveRegistry DEF Inv, RegistryAgrees
  <2> QED BY <2>1, <2>2 DEF Inv
<1>4. ASSUME NEW o \in Owners, NEW kind \in Wants[o], WatchKind(o, kind)
      PROVE  Inv'
  <2>1. kind \in Kinds
    BY WatcherAssumption
  <2> QED BY <1>4, <2>1, WatchTyped, WatchAgrees DEF Inv
<1>5. ASSUME NEW x \in Objects, Change(x)
      PROVE  Inv'
  <2>1. RegistryAgrees'
    BY <1>5, OthersLeaveRegistry DEF Inv, RegistryAgrees
  <2> QED BY <1>5, <2>1, ChangeTyped DEF Inv
<1>6. ASSUME NEW n \in notices, Deliver(n)
      PROVE  Inv'
  <2>1. RegistryAgrees'
    BY <1>6, OthersLeaveRegistry DEF Inv, RegistryAgrees
  <2> QED BY <1>6, <2>1, DeliverTyped DEF Inv
<1>7. CASE Restart
  BY <1>7 DEF Restart, Inv, TypeOK, RegistryAgrees, InformerRecord, NoInformer
<1>8. CASE UNCHANGED watcherVars
  BY <1>8 DEF watcherVars, Inv, TypeOK, RegistryAgrees
<1> QED BY <1>1, <1>2, <1>3, <1>4, <1>5, <1>6, <1>7, <1>8 DEF Next

LEMMA InvHolds == Spec => []Inv
<1>1. Init => Inv
  BY InitInv
<1>2. Inv /\ [Next]_watcherVars => Inv'
  BY NextInv
<1> QED BY <1>1, <1>2, PTL DEF Spec

(* Every reachable state is well typed, for any owners, kinds and          *)
(* namespaces.                                                             *)
THEOREM WatcherTypeCorrect == Spec => []TypeOK
<1>1. Inv => TypeOK
  BY DEF Inv
<1> QED BY <1>1, InvHolds, PTL

(* The watcher's maps of informers and of references never come apart,    *)
(* whatever calls of several controllers come in which order, and          *)
(* whichever lookups fail.                                                 *)
THEOREM RegistryAlwaysAgrees == Spec => []RegistryAgrees
<1>1. Inv => RegistryAgrees
  BY DEF Inv
<1> QED BY <1>1, InvHolds, PTL

-----------------------------------------------------------------------------
(* The refinement.                                                         *)
Reliably == {k \in Keys : k[2] \in Reliable}

Listening == [k \in Keys |-> informers[k].runs]

LEMMA InitRefines == Init => Registry!Init
BY DEF Init, Registry!Init, NoInformer

LEMMA WatchRefines ==
    ASSUME Inv, NEW o \in Owners, NEW kind \in Kinds, WatchKind(o, kind)
    PROVE  Registry!Watch(WatchedAs[o], Key(o, kind))
<1> DEFINE key == Key(o, kind)
<1> USE KeyInKeys DEF Inv, TypeOK, RegistryAgrees
<1>1. AddReference(o, kind)
  BY DEF WatchKind, ReuseInformer, AddInformer, FailLookup
<1>2. ~informers[key].registered => references[key] = {}
  OBVIOUS
<1>3. references' = [references EXCEPT ![key] = @ \union {WatchedAs[o]}]
  BY <1>1, <1>2 DEF AddReference
<1>4. ASSUME NEW hears \in BOOLEAN, NEW informer \in InformerRecord,
             informers' = [informers EXCEPT ![key] = informer], informer.runs = hears
      PROVE  Listening' = [Listening EXCEPT ![key] = hears]
  BY <1>4 DEF Listening
<1>5. CASE ReuseInformer(o, kind)
  <2>1. Listening' = [Listening EXCEPT ![key] = informers[key].runs]
    BY <1>5 DEF ReuseInformer, Listening
  <2>2. references[key] # {} /\ informers[key].runs \in BOOLEAN
    BY <1>5 DEF ReuseInformer, InformerRecord
  <2> QED BY <1>3, <2>1, <2>2 DEF Registry!Watch, Listening
<1>6. CASE AddInformer(o, kind)
  <2>1. Listening' = [Listening EXCEPT ![key] = TRUE]
    BY <1>4, <1>6, InformersTyped DEF AddInformer, RunningInformer
  <2>2. references[key] = {}
    BY <1>6 DEF AddInformer
  <2> QED BY <1>3, <2>1, <2>2 DEF Registry!Watch, Listening
<1>7. CASE FailLookup(o, kind)
  <2>1. Listening' = [Listening EXCEPT ![key] = FALSE]
    BY <1>4, <1>7, InformersTyped DEF FailLookup, DeadInformer
  <2>2. references[key] = {} /\ key \notin Reliably
    BY <1>7 DEF FailLookup, Reliably
  <2> QED BY <1>3, <2>1, <2>2 DEF Registry!Watch, Listening, Reliably
<1> QED BY <1>5, <1>6, <1>7 DEF WatchKind

LEMMA FreeRefines ==
    ASSUME Inv, NEW o \in Owners, Release(o)
    PROVE  Registry!Free(FreedAs[o])
<1> USE DEF Inv, TypeOK, RegistryAgrees
<1>1. Listening' = [k \in Keys |-> Listening[k] /\ references[k] \ {FreedAs[o]} # {}]
  <2>1. ASSUME NEW k \in Keys
        PROVE  informers'[k].runs = (informers[k].runs /\ references[k] \ {FreedAs[o]} # {})
    <3>1. CASE references[k] = {FreedAs[o]}
      BY <3>1 DEF Release, Free, NoInformer
    <3>2. CASE references[k] # {FreedAs[o]}
      <4>1. informers'[k] = informers[k]
        BY <3>2 DEF Release, Free
      <4>2. informers[k].runs => references[k] \ {FreedAs[o]} # {}
        BY <3>2
      <4>3. informers[k].runs \in BOOLEAN
        BY DEF InformerRecord
      <4> QED BY <4>1, <4>2, <4>3
    <3> QED BY <3>1, <3>2
  <2> QED BY <2>1 DEF Listening
<1>2. references' = [k \in Keys |-> references[k] \ {FreedAs[o]}]
  BY DEF Release, Free
<1> QED BY <1>1, <1>2 DEF Registry!Free, Listening

LEMMA StepRefines ==
    Inv /\ [Next]_watcherVars => [Registry!Next]_Registry!registryVars
<1> SUFFICES ASSUME Inv, [Next]_watcherVars
             PROVE  [Registry!Next]_Registry!registryVars
  OBVIOUS
<1>1. ASSUME NEW o \in Owners, Release(o)
      PROVE  Registry!Next
  BY <1>1, FreeRefines, WatcherAssumption DEF Registry!Next
<1>2. ASSUME NEW o \in Owners, NEW kind \in Wants[o], WatchKind(o, kind)
      PROVE  Registry!Next
  <2>1. kind \in Kinds /\ WatchedAs[o] \in Refs
    BY WatcherAssumption
  <2> QED BY <1>2, <2>1, WatchRefines, KeyInKeys DEF Registry!Next
<1>3. CASE Restart
  BY <1>3 DEF Restart, NoInformer, Registry!Next, Registry!Restart
<1>4. CASE UNCHANGED <<informers, references>>
  BY <1>4 DEF Registry!registryVars
<1> QED BY <1>1, <1>2, <1>3, <1>4, OthersLeaveRegistry DEF Next

(* The dynamic watcher implements the registry it promises: whoever shares *)
(* a key, it is listened to from the first Watch to the last Free.         *)
THEOREM WatcherRefines == Spec => KeepsRegistry
<1>1. Init => Registry!Init
  BY InitRefines
<1>2. Inv /\ [Next]_watcherVars => [Registry!Next]_Registry!registryVars
  BY StepRefines
<1> QED BY <1>1, <1>2, InvHolds, PTL DEF Spec, KeepsRegistry, Registry!Spec

-----------------------------------------------------------------------------
(* The callers.  A key belongs to one kind and, for an owner, to one       *)
(* namespace; WatchedAs tells owners apart.                                *)
Callers(k) == {o \in Owners : Key(o, k[2]) = k /\ <<o, k[2]>> \in watching}

LEMMA WatchServes ==
    ASSUME Inv, ServesItsCallers, NEW o \in Owners, NEW kind \in Kinds, WatchKind(o, kind)
    PROVE  ServesItsCallers'
<1> SUFFICES ASSUME NEW k \in Keys, k[2] \in Reliable
             PROVE  references'[k] = {WatchedAs[p] : p \in Callers(k)'}
  BY DEF ServesItsCallers, Callers
<1> USE KeyInKeys DEF Inv, TypeOK, RegistryAgrees
<1>1. AddReference(o, kind)
  BY DEF WatchKind, ReuseInformer, AddInformer, FailLookup
<1>2. references' = [references EXCEPT ![Key(o, kind)] = @ \union {WatchedAs[o]}]
  BY <1>1 DEF AddReference
<1>3. references[k] = {WatchedAs[p] : p \in Callers(k)}
  BY DEF ServesItsCallers, Callers
<1>4. CASE k = Key(o, kind)
  <2>1. k[2] = kind
    BY <1>4
  <2>2. watching' = watching \union {<<o, kind>>}
    BY <2>1 DEF WatchKind, FailLookup
  <2>3. Callers(k)' = Callers(k) \union {o}
    BY <1>4, <2>1, <2>2 DEF Callers, Key
  <2> QED BY <1>2, <1>3, <1>4, <2>3
<1>5. CASE k # Key(o, kind)
  <2>1. watching' = watching \/ watching' = watching \union {<<o, kind>>}
    BY DEF WatchKind
  <2>2. Callers(k)' = Callers(k)
    BY <1>5, <2>1 DEF Callers, Key
  <2> QED BY <1>2, <1>3, <1>5, <2>2
<1> QED BY <1>4, <1>5

LEMMA FreeServes ==
    ASSUME Inv, ServesItsCallers, NEW o \in Owners, Release(o), FreedAs[o] = WatchedAs[o]
    PROVE  ServesItsCallers'
<1> SUFFICES ASSUME NEW k \in Keys, k[2] \in Reliable
             PROVE  references'[k] = {WatchedAs[p] : p \in Callers(k)'}
  BY DEF ServesItsCallers, Callers
<1>1. references'[k] = references[k] \ {WatchedAs[o]}
  BY DEF Release, Free
<1>2. Callers(k)' = Callers(k) \ {o}
  BY DEF Release, Callers, Key
<1>3. references[k] = {WatchedAs[p] : p \in Callers(k)}
  BY DEF ServesItsCallers, Callers
<1>4. \A p \in Callers(k) : WatchedAs[p] = WatchedAs[o] <=> p = o
  BY WatcherAssumption DEF Callers
<1> QED BY <1>1, <1>2, <1>3, <1>4

(* If Free computes the reference that Watch has registered, as the two    *)
(* managers must see to, the registry always serves exactly its callers.   *)
THEOREM CallersAreServed ==
    ASSUME \A o \in Owners : FreedAs[o] = WatchedAs[o]
    PROVE  Spec => []ServesItsCallers
<1>1. Init => ServesItsCallers
  BY DEF Init, ServesItsCallers
<1>2. Inv /\ ServesItsCallers /\ [Next]_watcherVars => ServesItsCallers'
  <2> SUFFICES ASSUME Inv, ServesItsCallers, [Next]_watcherVars
               PROVE  ServesItsCallers'
    OBVIOUS
  <2>1. ASSUME NEW o \in Owners, NEW kind \in Wants[o], WatchKind(o, kind)
        PROVE  ServesItsCallers'
    <3>1. kind \in Kinds
      BY WatcherAssumption
    <3> QED BY <2>1, <3>1, WatchServes
  <2>2. ASSUME NEW o \in Owners, Release(o)
        PROVE  ServesItsCallers'
    BY <2>2, FreeServes
  <2>3. CASE Restart
    BY <2>3 DEF Restart, ServesItsCallers
  <2>4. CASE UNCHANGED <<references, watching>>
    BY <2>4 DEF ServesItsCallers, Key
  <2>5. ASSUME \/ \E c \in Controllers : AddSink(c)
               \/ \E o \in Owners : Take(o)
               \/ \E x \in Objects : Change(x)
               \/ \E n \in notices : Deliver(n)
               \/ UNCHANGED watcherVars
        PROVE  UNCHANGED <<references, watching>>
    BY <2>5 DEF AddSink, Start, Take, Change, Deliver, watcherVars
  <2> QED BY <2>1, <2>2, <2>3, <2>4, <2>5 DEF Next
<1> QED BY <1>1, <1>2, InvHolds, PTL DEF Spec
=============================================================================
