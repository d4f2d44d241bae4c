SPECIFICATION FairSpec
CONSTANTS
  Images <- MCImages
  First = {"v1"}
  Bad = {"broken"}
  Hash <- MCHash
  Backoff = 1
  MaxPods = 2
  MaxFaults = 1
  MaxEdits = 1
INVARIANTS TypeOK UnpackedMeansLoaded UnpackedMeansDeployed
PROPERTIES UnpackConcludes RemovalConcludes
CHECK_DEADLOCK FALSE
