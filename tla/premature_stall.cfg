SPECIFICATION SupSpec
CONSTANTS
  a = a
  b = b
  c = c
  d = d
  g1 = g1
  g2 = g2
  Task = {a, b, c, d}
  DependsOn <- DoomedDependsOn
  Contributes <- DoomedContributes
  Spawns <- NothingSpawns
  Initial = {a, b, c, d}
  Worker = {g1, g2}
  Console = {k1, k2}
  Client = {g1, g2, k1, k2}
  LeaseName <- OneName
  WorkerId = {"herosd"}
  Nobody = Nobody
  Gated = {b}
  Counted = {d}
  Threshold = 1
  Lease = 1
  MaxClock = 2
  MaxIterations = 4
  MaxTasks = 4
  MaxAttemptsPerTask = 1
  MaxClaims = 9
  MaxAborts = 0
INVARIANTS StalledForGood
CHECK_DEADLOCK FALSE
