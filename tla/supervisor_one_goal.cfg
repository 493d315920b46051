SPECIFICATION SupSpec
CONSTANTS
  a = a
  b = b
  c = c
  d = d
  g1 = g1
  g2 = g2
  Task = {a, b, c, d}
  DependsOn <- PlanDependsOn
  Contributes <- PlanContributes
  Spawns <- PlanSpawns
  Initial = {a, b}
  Worker = {g1, g2}
  Console = {k1, k2}
  Client = {g1, g2, k1, k2}
  LeaseName <- OneName
  WorkerId = {"herosd"}
  Nobody = Nobody
  Gated = {c}
  Counted = {c}
  Threshold = 1
  Lease = 1
  MaxClock = 2
  MaxIterations = 4
  MaxTasks = 3
  MaxAttemptsPerTask = 2
  MaxClaims = 9
  MaxAborts = 2
INVARIANTS OneDriver LedgerCountsEveryCall CeilingHolds RetryLadderBounded CheckpointWithinLedger
PROPERTIES RunGoesOn
CHECK_DEADLOCK FALSE
