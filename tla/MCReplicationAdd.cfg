SPECIFICATION Spec
CONSTANTS
  b1 = b1
  o1 = o1
  NumRelations = 1
  Deleters = {}
  Buckets = {b1}
  OldIds = {o1}
  MaxOldPrio = 1
PROPERTIES
  AddingOnlyAdds
CHECK_DEADLOCK FALSE
