SPECIFICATION FairSpec
CONSTANTS
  a = a  b = b  c = c
  t1 = t1  t2 = t2  t3 = t3
  h1 = h1  h2 = h2  h3 = h3  h4 = h4
  Objects <- MCObjects
  Probed <- MCObjects
  Templates <- MCTemplates
  Content <- KeepShared
  PhaseEnds <- KeepSharedPhases
  Hashes <- MCHashes
  Hash <- OwnHash
  Foreign = {}
  Preexisting = {}
  Histories <- TwoRevisions
  RevisionLimit = 1
  SeesOwnCreates = TRUE
  MaxSets = 3
  MaxCollisions = 1
  MaxErrors = 0
  MaxDrift = 0
  MaxUserEdits = 0
  MaxDisturbances = 0
PROPERTIES RolloutConcludes
