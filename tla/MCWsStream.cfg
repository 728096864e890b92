SPECIFICATION FairSpec
CONSTANTS
  Requests <- MCRequests
  WireCap = 2
  MaxItems = 3
  MaxBatch = 2
INVARIANTS
  ForwardedInOrder
  ClosesTruthfully
PROPERTIES
  ContractSpec
  NobodyLeftBehind
  CloseFrameSent
\* the session ends
CHECK_DEADLOCK FALSE
