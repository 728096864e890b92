SPECIFICATION SpecSpec
CONSTANTS
  Edits = {"e1"}
  FirstPools = {"pool"}
  Changes <- MCChanges
INVARIANT
  AnnotationsAreRemoved
CHECK_DEADLOCK FALSE
