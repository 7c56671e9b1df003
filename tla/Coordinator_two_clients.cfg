SPECIFICATION Spec
CONSTANTS
  Workflows = {w1}
  Handlers = {h1, h2}
  Goroutines = {g1}
  StartTypes = {"bug"}
  Agents = {a1}
  Sessions = {}
  Commits = {}
  Accepts = {"Start", "Transition", "RecordDelegation"}
  DbMayFail = FALSE
  MaxTasks = 0
  MaxDelegations = 1
  MaxLearnRuns = 1
  None = None
PROPERTIES PhaseStepsValid
