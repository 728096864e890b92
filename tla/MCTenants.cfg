SPECIFICATION TenantsSpec
CONSTANTS
  Tenants = {"t", "u"}
  r1 = r1
  r2 = r2
  r3 = r3
  Requests = {r1, r2, r3}
  Scenarios <- MCScenarios
  Updates = {"u1", "u2"}
  Shapes <- MCShapes
  Edits = {"e1", "e2", "e3"}
  FirstPools = {"pool"}
  Changes <- MCChanges
INVARIANTS
  OneCreator
  LossIsReported
  KesAgrees
  WrittenIsMounted
  ImageAndRegistryAgree
PROPERTIES
  CleanupIsOwn
  PoolsGoOnRequest
SYMMETRY Symmetry
\* the requests are answered
CHECK_DEADLOCK FALSE
