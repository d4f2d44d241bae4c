---------------------------- MODULE WatchRegistry ----------------------------
(***************************************************************************)
(* What the dynamic watcher promises its callers: a key, a kind of object  *)
(* within a namespace or within the whole cluster, is listened to from the *)
(* first Watch to the Free of the last watcher.  Only a key whose resource *)
(* may be unknown to the API server can be watched without being heard.    *)
(***************************************************************************)
CONSTANTS Refs,          \* references to the owners of watches
          Keys,
          ReliableKeys   \* keys whose resource is never looked up in vain

VARIABLES watchers,      \* [Keys -> SUBSET Refs]
          listening      \* [Keys -> BOOLEAN]

registryVars == <<watchers, listening>>

Init ==
    /\ watchers = [k \in Keys |-> {}]
    /\ listening = [k \in Keys |-> FALSE]

Watch(r, k) ==
    /\ watchers' = [watchers EXCEPT ![k] = @ \union {r}]
    /\ \E hears \in BOOLEAN :
         /\ watchers[k] # {} => hears = listening[k]
         /\ watchers[k] = {} /\ k \in ReliableKeys => hears
         /\ listening' = [listening EXCEPT ![k] = hears]

Free(r) ==
    /\ watchers' = [k \in Keys |-> watchers[k] \ {r}]
    /\ listening' = [k \in Keys |-> listening[k] /\ watchers[k] \ {r} # {}]

(* The process is replaced by a new one, which watches nothing yet.        *)
Restart ==
    /\ watchers' = [k \in Keys |-> {}]
    /\ listening' = [k \in Keys |-> FALSE]

Next ==
    \/ \E r \in Refs : Free(r) \/ \E k \in Keys : Watch(r, k)
    \/ Restart

Spec == Init /\ [][Next]_registryVars
=============================================================================
