SPECIFICATION BoardSpec
CONSTANTS
  t1 = t1
  t2 = t2
  w1 = w1
  NoRow = NoRow
  Tickets = {t1}
  TicketRank <- OneTicketRank
  TicketDomain <- OneTicketDomain
  DependsOn <- OneDependencies
  FilesOf <- OneFiles
  Workers = {w1}
  WorkerRank <- OneRank
  WorkerDomain <- OneDomain
  SwarmHandlers = {h1}
  SetTicketTo = {}
  SetWorkerTo = {"killed"}
  MaxTicketRevisions = 1
  MaxTicketRejections = 1
PROPERTIES TerminalWorkersStay
