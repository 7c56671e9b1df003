SPECIFICATION RequestsSpec
CONSTANTS
  w1 = w1
  w2 = w2
  m1 = m1
  m2 = m2
  c1 = c1
  c2 = c2
  b1 = b1
  b2 = b2
  Reservers = {b1, b2}
  Workers = {w1, w2}
  Missions = {m1, m2}
  MissionOf <- TheMissions
  Patterns <- DirectoryPatterns
  Requests <- DirectoryRequests
  Files <- TheFiles
  MaxReservations = 3
  Workflows = {wf}
  Handlers = {c1, c2}
  Goroutines = {g1}
  StartTypes = {"spec", "bug", "e2e"}
  Agents = {agent}
  Sessions = {}
  Commits = {}
  Accepts = {"Start", "Transition", "RecordDelegation", "Delete"}
  DbMayFail = TRUE
  MaxTasks = 0
  MaxDelegations = 1
  MaxLearnRuns = 1
  None = None
SYMMETRY RequestSymmetry
INVARIANTS
  RequestsTypeOK
  HoldersExist NoSharedFile
  PhaseOfItsType DelegationsOnPath
PROPERTIES
  ImplementsBook
