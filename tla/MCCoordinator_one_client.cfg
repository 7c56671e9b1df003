SPECIFICATION OneClientSpec
CONSTANTS
  Workflows = {w1}
  Handlers = {h1, h2}
  Goroutines = {g1}
  StartTypes = {"spec", "bug"}
  Agents = {a1}
  Sessions = {s1}
  Commits = {}
  Accepts = {"Start", "Transition", "RecordDelegation", "SetTasks", "StartTask", "CompleteTask", "Abort", "UpdateSessionID", "SetChangeSummary", "Delete"}
  DbMayFail = FALSE
  MaxTasks = 1
  MaxDelegations = 1
  MaxLearnRuns = 1
  None = None
PROPERTIES ImplementsLifecycle
