-------------------------- MODULE RolloutInvariant --------------------------
(***************************************************************************)
(* The inductive invariant behind KeptHasSoleWriter: what the API server,  *)
(* the cache and the copy in the worker's hands say about one ObjectSet    *)
(* fits together, so an acknowledged pause binds whoever still acts on it. *)
(* It relies on the cache showing every ObjectSet the deployment created.  *)
(***************************************************************************)
EXTENDS Rollout

Quiet(s) == Kept \subseteq Range(s.pausedFor)

(* What lets EnsurePauseReconciler pass an ObjectSet, on any template.     *)
Told(s) == s.archived \/ Kept \subseteq Range(s.statusPausedFor)

WorksOn(u) == worker.step # "idle" /\ worker.uid = u
Reconciles(u) == worker.step = "reconcile" /\ worker.uid = u

(* Nobody holds an ObjectSet that was not created, and the cache misses    *)
(* none that is there.                                                     *)
Known ==
    /\ worker.step # "idle" => worker.uid \in Sets
    /\ \A u \in Sets :
         /\ sets[u].exists => cache[u].exists
         /\ u > created => ~sets[u].exists /\ ~cache[u].exists /\ worker.uid # u

(* An ObjectSet that is being reconciled is kept by its finalizer.         *)
Held ==
    \A u \in Sets :
      /\ cache[u].exists /\ cache[u].finalizer /\ ~cache[u].deleting =>
           sets[u].exists /\ sets[u].finalizer
      /\ Reconciles(u) => sets[u].exists /\ sets[u].finalizer
      /\ WorksOn(u) /\ worker.read.deleting =>
           cache[u].deleting \/ ~cache[u].exists
      /\ cache[u].exists /\ cache[u].deleting /\ sets[u].exists => sets[u].deleting

(* Later copies of an ObjectSet stay quiet, and archived ones are quiet.   *)
QuietSpreads ==
    \A u \in Sets :
      /\ cache[u].exists /\ sets[u].exists /\ Quiet(cache[u]) => Quiet(sets[u])
      /\ WorksOn(u) /\ cache[u].exists /\ Quiet(worker.read) => Quiet(cache[u])
      /\ sets[u].exists /\ sets[u].lifecycle = "Archived" => Quiet(sets[u])
      /\ cache[u].exists /\ cache[u].lifecycle = "Archived" => Quiet(cache[u])

(* Once an ObjectSet has acknowledged, no copy that is not quiet is left.  *)
ToldIsQuiet ==
    \A u \in Sets :
      \/ sets[u].exists /\ Told(sets[u])
      \/ cache[u].exists /\ Told(cache[u])
      => /\ Quiet(cache[u])
         /\ Reconciles(u) => Quiet(worker.read)

(* Every ObjectSet but the newest is quiet.                                *)
OlderQuiet ==
    \A u \in Sets : u < created =>
      /\ cache[u].exists => Quiet(cache[u])
      /\ Reconciles(u) => Quiet(worker.read)

(* Whatever the controllers and the cache are doing, an acknowledgement    *)
(* outlives every stale copy: KeptHasSoleWriter follows from this.         *)
PauseInvariant == Known /\ Held /\ QuietSpreads /\ ToldIsQuiet /\ OlderQuiet

(* The numbers of the ObjectSets the cache holds ascend, and are those the *)
(* API server has, if the list never misses one.                           *)
RevisionInvariant ==
    /\ Known
    /\ \A u \in Sets :
         cache[u].exists /\ sets[u].exists => cache[u].revision = sets[u].revision
    /\ \A u, v \in Sets :
         u < v /\ cache[u].exists /\ cache[v].exists =>
           cache[u].revision < cache[v].revision
=============================================================================
