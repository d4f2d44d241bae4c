SPECIFICATION FairSpec
CONSTANTS
  a = a  b = b  c = c
  Objects <- Three
  MaxUnavailable = 2
  EditedLabels = {}
  FreshReads = FALSE
  MaxErrors = 1
  MaxDrift = 2
  MaxUserEdits = 0
INVARIANT CompletedMeansDone
PROPERTIES KeepsPromise HandoverCompletes
CHECK_DEADLOCK FALSE
