SPECIFICATION BoardSpec
CONSTANTS
  t1 = t1
  t2 = t2
  w1 = w1
  NoRow = NoRow
  Tickets = {t1, t2}
  TicketRank <- PairRank
  TicketDomain <- PairDomain
  DependsOn <- PairDependencies
  FilesOf <- PairFiles
  Workers = {w1}
  WorkerRank <- OneRank
  WorkerDomain <- OneDomain
  SwarmHandlers = {h1}
  SetTicketTo = {"in_progress", "done"}
  SetWorkerTo = {}
  MaxTicketRevisions = 1
  MaxTicketRejections = 1
INVARIANTS BoardTypeOK DependenciesDoneFirst
PROPERTIES OverdueTicketsEnd
