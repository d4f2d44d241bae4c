SPECIFICATION FairSpec
CONSTANTS
  sets = sets  setPhases = setPhases  clusterSets = clusterSets
  handovers = handovers  clusterHandovers = clusterHandovers
  s = s  p = p  c = c  h = h  i = i  g = g
  n = n  m = m  all = all  j = j  k = k  sAll = sAll
  Controllers = {sets, setPhases, clusterSets, handovers, clusterHandovers}
  Sharings = {{sets, setPhases}, {sets, clusterSets}, {handovers}, {clusterHandovers}}
  Owners = {s, p, c, h, i, g}
  ControllerOf <- MCControllerOf
  Namespaces = {n, m}
  ClusterWide = all
  NamespaceOf <- MCNamespaceOf
  Kinds = {j, k}
  Wants <- MCWants
  Reliable = {k}
  Matching = {handovers, clusterHandovers}
  Belongs <- MCBelongs
  Refs = {s, p, c, h, i, g, sAll}
  WatchedAs <- OwnRef
  FreedAs <- OwnRef
  StartTogether = TRUE
INVARIANTS TypeOK RegistryAgrees ServesItsCallers
PROPERTIES KeepsRegistry ChangesAreHeard
