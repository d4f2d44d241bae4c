SPECIFICATION FairSpec
CONSTANTS
  a = a
  b = b
  c = c
  Objects <- MCObjects
  NumOptions = 2
  MaxFaults = 2
  MaxEdits = 2
INVARIANTS TypeOK OneOptionOnly Balanced
PROPERTIES EveryoneIsLabelled
CHECK_DEADLOCK FALSE
