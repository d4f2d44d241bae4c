SPECIFICATION FairSpec
CONSTANTS
  a = a
  b = b
  Objects <- MCObjects
  Content <- TwoPhases
  Layouts <- RemoteThenLocal
  Classes = {"hosted"}
  Annotated = {"hosted"}
  Pausable = {a}
  Claimed = {}
  MaxUids = 2
  MaxFaults = 0
  MaxEdits = 0
  MaxDisturbances = 0
PROPERTIES PhasesInOrder
