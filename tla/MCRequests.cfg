SPECIFICATION Spec
CONSTANTS
  m1 = m1
  m2 = m2
  Makers = {m1, m2}
  d1 = d1
  Deleters = {d1}
  MaxInc = 2
  Users = {"ann", "bob"}
  Groups = {"dev", "ops"}
  Policies = {"read"}
  r1 = r1
  r2 = r2
  Requests = {r1, r2}
  Jobs <- MCJobs
  Self = "bob"
SYMMETRY Symmetry
INVARIANTS
  TypeOK
  SuccessIsComplete
  RemovesItsOwn
  SuccessIsApplied
  AgreedMembership
PROPERTY
  GroupsStay
\* the requests are answered
CHECK_DEADLOCK FALSE
