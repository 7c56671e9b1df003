SPECIFICATION Spec
CONSTANTS
  Workflows = {w1}
  Handlers = {h1}
  Goroutines = {g1}
  StartTypes = {"bug"}
  Agents = {}
  Sessions = {}
  Commits = {c1}
  Accepts = {"Start", "Transition", "SetChangeSummary"}
  DbMayFail = FALSE
  MaxTasks = 0
  MaxDelegations = 0
  MaxLearnRuns = 1
  None = None
PROPERTIES AgentSummaryKept
