SPECIFICATION Spec
CONSTANTS
  a = a  b = b  c = c
  Objects <- Three
  MaxUnavailable = 2
  EditedLabels = {"from", "to", "none"}
  FreshReads = TRUE
  MaxErrors = 1
  MaxDrift = 1
  MaxUserEdits = 2
INVARIANTS TypeOK HandoverBounded HandoverInvariant
SYMMETRY Interchangeable
CHECK_DEADLOCK FALSE
