SPECIFICATION Spec
CONSTANTS
  a = a
  b = b
  Objects <- MCObjects
  Content <- TwoPhases
  Layouts <- Both
  Classes = {"hosted"}
  Annotated = {"hosted"}
  Pausable = {a}
  Claimed = {b}
  MaxUids = 2
  MaxFaults = 1
  MaxEdits = 2
  MaxDisturbances = 2
INVARIANTS TypeOK TeardownInOrder
PROPERTIES RemovalLeavesNothing PausedAreSpared
