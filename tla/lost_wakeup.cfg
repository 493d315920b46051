SPECIFICATION SupSpec
CONSTANTS
  a = a
  b = b
  c = c
  d = d
  g1 = g1
  g2 = g2
  Task = {a, b, c, d}
  DependsOn <- PlanDependsOn
  Contributes <- PlanContributes
  Spawns <- PlanSpawns
  Initial = {a, b}
  Worker = {g1, g2}
  Console = {k}
  Client = {g1, g2, k}
  LeaseName <- OneName
  WorkerId = {"herosd"}
  Nobody = Nobody
  Gated = {c}
  Counted = {c}
  Threshold = 1
  Lease = 1
  MaxClock = 1
  MaxIterations = 4
  MaxTasks = 3
  MaxAttemptsPerTask = 2
  MaxClaims = 9
  MaxAborts = 0
PROPERTIES ApprovedTaskRuns
CHECK_DEADLOCK FALSE
