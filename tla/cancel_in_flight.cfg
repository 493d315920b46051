SPECIFICATION WorkerSpec
CONSTANTS
  a = a
  b = b
  c = c
  d = d
  e = e
  w1 = w1
  w2 = w2
  Task = {a, b, c, d, e}
  DependsOn <- PlanDependsOn
  Contributes <- PlanContributes
  Spawns <- PlanSpawns
  Initial = {a}
  Worker = {w1}
  Console = {k}
  Client = {w1, k}
  LeaseName <- OwnName
  WorkerId = {w1, w2}
  Nobody = Nobody
  Gated = {c}
  Counted = {c}
  Threshold = 1
  Lease = 1
  MaxClock = 1
  MaxIterations = 3
  MaxTasks = 4
  MaxAttemptsPerTask = 1
  MaxClaims = 9
  MaxAborts = 0
INVARIANTS CancelledRunSettles
