SPECIFICATION FairSpec
CONSTANTS
  a = a
  b = b
  Objects <- MCObjects
  Content <- TwoPhases
  Layouts <- LocalThenRemote
  Classes = {"hosted"}
  Annotated = {"hosted"}
  Pausable = {b}
  Claimed = {}
  MaxUids = 2
  MaxFaults = 1
  MaxEdits = 2
  MaxDisturbances = 2
PROPERTIES RolloutConcludes DeletionConcludes TeardownConcludes
