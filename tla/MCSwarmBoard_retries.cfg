SPECIFICATION BoardSpec
CONSTANTS
  t1 = t1
  t2 = t2
  w1 = w1
  NoRow = NoRow
  Tickets = {t1}
  TicketRank <- OneTicketRank
  TicketDomain <- OneTicketDomain
  DependsOn <- OneDependencies
  FilesOf <- OneFiles
  Workers = {w1}
  WorkerRank <- OneRank
  WorkerDomain <- OneDomain
  SwarmHandlers = {h1, h2}
  SetTicketTo = {"in_progress", "done"}
  SetWorkerTo = {}
  MaxTicketRevisions = 5
  MaxTicketRejections = 1
INVARIANTS RetriesBounded
