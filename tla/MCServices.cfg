SPECIFICATION ServicesSpec
CONSTANTS
  BusEvents = {e1, e2}
  BusHandlers = {h1, h2}
  BusCapacity = 1
  IndexFiles = {x1, x2}
  IndexCallers = {y1, y2}
  MaxEdits = 1
  MaxEntries = 2
  MaxForgeCalls = 2
  ClashingPairs = {{1, 2}}
  MaxMeddling = 2
  SignalIds = {s1, s2}
  Receivers = {u, v}
  SignalPolls = {q1, q2}
  Scans = {tick, once}
  Ticker = tick
  MaxDebt = 3
  DebtThreshold = 1
  Clients = {c1, c2, c3}
  DailyLimit = 2
  MaxTokens = 1
  Concurrency = 1
  MaxRetries = 1
  MaxUsage = 3
  MaxJobs = 3
  Titles = {t1}
  ListLimit = 1
  MaxPages = 2
  SourceFiles = {a1, a2}
  MaxRuns = 2
  MaxFiles = 1
  MaxVersions = 2
  Timers = {w1, w2}
  Ingests = {g1, g2}
  MaxWrites = 3
  TreeWorkers = {n1, n2}
  Removals = {r1, r2}
  PreviewBranches = {1, 2}
  ConflictingPairs = {{1, 2}}
  PreviewCalls = {v1, v2}
  ToolNames = {bash, edit}
  MaxToolCalls = 4
  ToolCallCeiling = 4
  RepetitionBlock = 3
  TermConns = {k1, k2}
  TermIds = {i1}
  MaxShells = 3
  HubClients = {b1, b2}
  Broadcasters = {d1, d2}
  SendBuffer = 1
  Cycles = {z1, z2}
  Ideas = {o1, o2}
  FeatureIdeas = {o1}
  Openers = {serve, onboard}
  MetricDays = {monday}
  WikiPages = {p1}
  Pulls = {l1}
  MaxVaultEdits = 2
  MaxHeadings = 1
  Reviews = {j1, j2}
  NoStatus = NoStatus
  MaxCommits = 2
  MaxStarts = 2
  DocTexts = {1, 2}
  Indexers = {m1, m2}
  NoDoc = NoDoc
  MaxDocEdits = 2
  Pipelines = {f1, f2}
  NoPipeline = NoPipeline
INVARIANTS
  ServicesTypeOK
  IndexKeepsUp
  MergedIsIntegrated UndisturbedForge
  ReadMeansHandedOutOnce
  OvershootBounded
  OnboardingSound
  SkippedWasAnalysed
  TreesAccountedFor
  GuardrailsCount
  TerminalsKept
  EvolutionSettles
  ApprovedIsApplied
  KnowledgeKept
  UpgradeLosesInOnePlace
PROPERTIES
  BusImplementsDeliveries
  InboxKept
  GuardianKept
  PreviewOrReported
  VaultKeepsEdits
\* Every service may come to rest.
CHECK_DEADLOCK FALSE
