SPECIFICATION DeletionSpec
CONSTANTS
  Keys = {"a", "b", "c"}
  Folders = {"dir"}
  Below <- MCBelow
  Versions = {"v1", "v2"}
  NoVersion = ""
  Capacity = 1
  Requests <- MCRequests
INVARIANT
  DeletesMultipleObjects
CHECK_DEADLOCK FALSE
