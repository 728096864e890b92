SPECIFICATION BatchSpec
CONSTANTS
  b1 = b1
  b2 = b2
  o1 = o1
  d1 = d1
  NumRelations = 2
  Deleters = {d1}
  Buckets = {b1, b2}
  OldIds = {o1}
  MaxOldPrio = 2
  Keys = {"a", "b", "c"}
  Folders = {"dir"}
  Below <- MCBelow
  Versions = {"v1", "v2"}
  NoVersion = ""
  Capacity = 1
  Requests <- MCRequests
INVARIANTS
  OwnRuleStored
  OldRulesKept
  StoredWellFormed
  SuccessDeletes
PROPERTIES
  RemovesOnlyAsked
  BatchesAnswered
\* the requests are answered
CHECK_DEADLOCK FALSE
