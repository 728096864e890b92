SPECIFICATION Spec
CONSTANTS
  GkeTenants = {"t", "t2"}
  PrefixOf <- PrefixNames
  Licensees = {"a", "b"}
  Configured = {"a"}
  Requests = {"r1", "r2"}
  MaxLicense = 2
  MaxEdits = 1
  Scenarios <- MCScenarios
  Labels = {"disk", "api"}
  Targets = {"used", "free"}
INVARIANTS
  IntegratedIsServed
  TenantsFollowCluster
  RefreshReachesTenants
  WidgetIsComplete
PROPERTIES
  EditsAreKept
  RequestsAnswered
  RefreshGoesOn
\* the requests are answered, or the process is gone
CHECK_DEADLOCK FALSE
