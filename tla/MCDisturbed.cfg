SPECIFICATION Spec
CONSTANTS
  a = a  b = b  c = c
  t1 = t1  t2 = t2  t3 = t3
  h1 = h1  h2 = h2  h3 = h3  h4 = h4
  Objects <- MCObjects
  Probed <- MCObjects
  Templates <- MCTemplates
  Content <- KeepShared
  PhaseEnds <- KeepSharedPhases
  Hashes <- MCHashes
  Hash <- OwnHash
  Foreign = {}
  Preexisting = {b}
  Histories <- TwoRevisions
  RevisionLimit = 1
  SeesOwnCreates = TRUE
  MaxSets = 3
  MaxCollisions = 1
  MaxErrors = 1
  MaxDrift = 1
  MaxUserEdits = 2
  MaxDisturbances = 2
INVARIANTS PauseInvariant
PROPERTIES RemovalLeavesOnlyPaused
