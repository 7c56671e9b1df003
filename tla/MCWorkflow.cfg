SPECIFICATION PartsSpec
CONSTANTS
  Workflows = {w1}
  Handlers = {h1}
  Goroutines = {g1}
  StartTypes = {"spec", "bug"}
  Agents = {a1}
  Sessions = {s1}
  Commits = {c1, c2}
  Accepts = {"Start", "Transition", "RecordDelegation", "SetChangeSummary", "SetDesignContent"}
  DbMayFail = FALSE
  MaxTasks = 0
  MaxDelegations = 1
  MaxLearnRuns = 2
  None = None
  t1 = t1
  t2 = t2
  t3 = t3
  n1 = n1
  n2 = n2
  Tickets = {t1, t2, t3}
  TicketRank <- ChainRank
  TicketDomain <- ChainDomain
  DependsOn <- ChainDependencies
  FilesOf <- ChainFiles
  Workers = {n1, n2}
  WorkerRank <- PairRank
  WorkerDomain <- PairDomain
  SwarmHandlers = {x1}
  SetTicketTo = {}
  SetWorkerTo = {"killed"}
  MaxTicketRevisions = 1
  MaxTicketRejections = 1
  NoRow = NoRow
  HookFlows = {f1, f2}
  GuardedTypes = {"bug"}
  GuardedAgents = {"backend"}
  NoFlow = NoFlow
INVARIANTS
  PartsTypeOK
  LearnAtMostOnce ComputedSummaryIsOfFinishedWork
  OverlappingTicketsTogether
  HooksDecide
PROPERTIES
  PhaseStepsValid BaseCommitKept
