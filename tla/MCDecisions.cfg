SPECIFICATION Spec
CONSTANTS
  MaxDrives = 16
  MaxSets = 2
  Words = {"bucket", "object"}
  Methods = {"GET", "PUT"}
  Codes = {200, 404}
  ann = ann
  bob = bob
  dev = dev
  ops = ops
  p = p
  q = q
  Accounts = {ann, bob}
  Teams = {dev, ops}
  PolicyNames = {p, q}
  Documents <- MCDocuments
  MemorySizes = {1, 2, 3}
  MaxNodes = 6
  MaxServers = 33
  MaxServerDrives = 12
SYMMETRY Symmetry
INVARIANTS
  ColorTruthful
  NothingMissing
  ListedByWhatWasFetched
  MemoryIsWhatFits
  ParitiesAreSound
\* a decision is made once
CHECK_DEADLOCK FALSE
