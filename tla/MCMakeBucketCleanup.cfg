SPECIFICATION BucketSpec
CONSTANTS
  m1 = m1
  Makers = {m1}
  Deleters = {}
  MaxInc = 1
PROPERTY
  FailedMakeTriesRemoval
CHECK_DEADLOCK FALSE
