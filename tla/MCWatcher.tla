------------------------------ MODULE MCWatcher ------------------------------
(***************************************************************************)
(* Small instances of DynamicWatcher for TLC: the watcher of the package   *)
(* operator, shared by the controllers that own what they watch, or that   *)
(* of one handover controller.                                             *)
(***************************************************************************)
EXTENDS DynamicWatcher, TLC

CONSTANTS sets, setPhases, clusterSets, handovers, clusterHandovers,   \* controllers
          s, p, c,                             \* a set, a set phase, a cluster set
          h, i, g,                             \* handovers, a cluster handover
          n, m, all,                           \* namespaces, the cluster
          j, k,                                \* kinds
          sAll                                 \* s with its namespace cleared

MCControllerOf ==
    s :> sets @@ p :> setPhases @@ c :> clusterSets @@ h :> handovers @@ i :> handovers @@
    g :> clusterHandovers
MCNamespaceOf == s :> n @@ p :> n @@ c :> all @@ h :> n @@ i :> n @@ g :> all
MCBelongs ==
    s :> {<<n, j>>, <<n, k>>} @@ p :> {<<n, k>>} @@ c :> {<<m, k>>} @@ h :> {} @@ i :> {} @@ g :> {}
MCWants == s :> {j, k} @@ p :> {k} @@ c :> {k} @@ h :> {k} @@ i :> {k} @@ g :> {k}
OwnRef == [o \in {s, p, c, h, i, g} |-> o]
ClearedRef == [o \in {s, p, c, h, i, g} |-> IF o = s THEN sAll ELSE o]
=============================================================================
