SPECIFICATION MCSpec
CONSTANTS
  Document <- MCDocuments
  Capability = {"assess", "prompt"}
  AxisOfIntent <- MCAxisOfIntent
  AxisName = {"prompt", "tools"}
  MaxCalls = 4
  MaxCostMicroCents = 3
  CallCost = 1
  DeltaCap = 2
  MaxChunk = 3
  MaxThoughts = 1
  Watcher = {"w1", "w2"}
  ChannelCap = 3
  MaxEvents = 4
  Vocabulary <- MCVocabulary
  Name <- MCName
  Tenant = {"t1", "t2"}
  Repo = {"r1", "r2"}
  ToolKind <- MCToolKind
  Request = {"q1", "q2", "q3", "q4"}
  Writer = {"q1", "q2", "q3", "q4"}
  Conversation = {"c1", "c2"}
  Wishes <- MCWishes
  Choosable = {"improve", "author", "run_history"}
  MaxFaults = 1
  MaxRestarts = 1
  Process = {"p1", "p2"}
  Chain <- MCChain
  Environment <- MCEnvironment
  Installed <- MCInstalled
  MaxBoots = 3
  MaxDeaths = 1
  Narrator = {"n1", "n2"}
  Run = {"g1"}
  Reader = {"reader"}
  EpisodeKind = {"decision", "failure"}
  maxTimelineEntries = 2
  MaxEpisodes = 4
  MaxLost = 1
  Axis = {"prompt", "tools"}
  Weakness = {"w1", "w2"}
  Origin = {"llm", "schema", "traces"}
  Earlier <- MCEarlier
  Traces = "traces"
  Case = {"c1", "c2", "c3", "c4", "c5", "hi"}
  TooShort = {"hi"}
  Batches <- MCBatches
  MinCases = 4
  MinOrigins = 2
  Histories <- MCHistories
  MaxGoals = 3
  Lengths = {1, 2}
  Change = {"a", "b", "c"}
  Path = {"main.py"}
  PathOf <- MCPathOf
  Rivals <- MCRivals
  Sound = {"b", "c"}
  Asked = {"ask1"}
  Tasked = {"run1", "run2", "run3"}
  Published = {"set1", "set2"}
  ChangeOf <- MCChangeOf
  CasesOf <- MCCasesOf
  Crews <- MCCrews
  MaxAttempts = 2
  MaxFailures = 1
  MaxCrashes = 1
  MaxRefreshes = 1
  Task = {"a", "b", "c"}
  DependsOn <- PlanDependsOn
  Contributes <- PlanContributes
  Client = {"k1", "k2"}
  WorkerId = {"w1", "w2"}
  Nobody = ""
  Lease = 1
  MaxClock = 2
  MaxIterations = 1
  MaxClaims = 2
INVARIANTS
  ToolsActOnOwnRepository
VIEW Moving
CHECK_DEADLOCK FALSE
