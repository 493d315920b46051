SPECIFICATION WorkerSpec
CONSTANTS
  a = a
  b = b
  c = c
  d = d
  e = e
  w1 = w1
  w2 = w2
  Task = {a, b, c, d, e}
  DependsOn <- PlanDependsOn
  Contributes <- PlanContributes
  Spawns <- PlanSpawns
  Initial = {a}
  Worker = {w1, w2}
  Console = {k}
  Client = {w1, w2, k}
  LeaseName <- OwnName
  WorkerId = {w1, w2}
  Nobody = Nobody
  Gated = {c}
  Counted = {b}
  Threshold = 1
  Lease = 1
  MaxClock = 2
  MaxIterations = 2
  MaxTasks = 4
  MaxAttemptsPerTask = 2
  MaxClaims = 9
  MaxAborts = 1
INVARIANTS LiveExecutorIsAlone NoEffectWithoutConsent SuccessMeansMet GivingUpIsRight FailureReachesDependents
PROPERTIES ResultFromHolder StoreSpec
SYMMETRY Alike
