SPECIFICATION FairSpec
CONSTANTS
  Requests <- MCRequests
  WireCap = 1
  HealedItems <- MCItems
  MaxBatch = 2
  MaxPolls = 2
INVARIANTS
  FramesConsistent
  FinishedIsReported
  HealClosesTruthfully
PROPERTY
  HealEnds
\* the session ends
CHECK_DEADLOCK FALSE
