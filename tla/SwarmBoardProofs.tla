--------------------------- MODULE SwarmBoardProofs ----------------------------
(* Proofs about Dispatch and SwarmBoard, for every number of tickets,         *)
(* workers, dependencies, patterns and concurrent requests: a dispatch always *)
(* finds a usable worker, tickets that overlap get the same one, no ticket is *)
(* given out before what it depends on was done, and one dispatch never       *)
(* splits tickets that overlap. The argument: rows stay and what was done     *)
(* stays recorded, so what a request listed still exists, and was             *)
(* dispatchable, when it acts on it, however many statements of others came   *)
(* in between.                                                                *)
EXTENDS MCWorkflow, WorkflowProofs, FiniteSetTheorems

-----------------------------------------------------------------------------
(* Dispatch: one round of assignments.                                      *)

\* The first ticket of a group is one of the group.
LEMMA FirstOfGroup ==
  ASSUME NEW G, G \subseteq Tickets, G # {}
  PROVE  First(G) \in G
<1> DEFINE Ranks == {TicketRank[t] : t \in G}
<1>1. Ranks \subseteq Nat /\ Ranks # {}
  BY DispatchAssumption
<1>2. PICK x \in Ranks : \A y \in Ranks : x <= y
  BY <1>1, LeastNatural
<1>3. \E t \in G : \A u \in G : TicketRank[t] <= TicketRank[u]
  BY <1>2
<1> QED
  BY <1>3 DEF First

\* A list of workers has a worker at each place.
LEMMA NthOfList ==
  ASSUME NEW ws, ws \subseteq Workers, NEW n \in Nat, n < Cardinality(ws)
  PROVE  Nth(ws, n) \in ws
<1> DEFINE Before(w) == {v \in ws : WorkerRank[v] < WorkerRank[w]}
           N == Cardinality(ws)
           f == [w \in ws |-> Cardinality(Before(w))]
<1>1. IsFiniteSet(ws) /\ N \in Nat
  BY DispatchAssumption, FS_Subset, FS_CardinalityType
<1>2. ASSUME NEW w \in ws
      PROVE  /\ IsFiniteSet(Before(w))
             /\ Cardinality(Before(w)) \in 0..(N - 1)
  <2>1. WorkerRank[w] \in Nat
    BY DispatchAssumption
  <2>2. w \notin Before(w) /\ Before(w) \in SUBSET ws
    BY <2>1
  <2>3. /\ IsFiniteSet(Before(w)) /\ Cardinality(Before(w)) <= N
        /\ Cardinality(Before(w)) # N
    BY <1>1, <2>2, FS_Subset
  <2>4. Cardinality(Before(w)) \in Nat
    BY <2>3, FS_CardinalityType
  <2> QED
    BY <1>1, <2>3, <2>4
<1>3. ASSUME NEW v \in ws, NEW w \in ws, WorkerRank[v] < WorkerRank[w]
      PROVE  f[v] # f[w]
  <2>1. WorkerRank[v] \in Nat /\ WorkerRank[w] \in Nat
    BY DispatchAssumption
  <2>2. /\ v \in Before(w) /\ v \notin Before(v)
        /\ Before(v) \in SUBSET Before(w)
    BY <1>3, <2>1, DispatchAssumption
  <2>3. IsFiniteSet(Before(w))
    BY <1>2
  <2> QED
    BY <2>2, <2>3, FS_Subset
<1>4. ASSUME NEW v \in ws, NEW w \in ws, f[v] = f[w]
      PROVE  v = w
  <2>1. /\ WorkerRank[v] \in Nat /\ WorkerRank[w] \in Nat
        /\ WorkerRank[v] = WorkerRank[w] => v = w
    BY DispatchAssumption
  <2> QED
    BY <1>3, <1>4, <2>1
<1>5. f \in Injection(ws, 0..(N - 1))
  <2>1. f \in [ws -> 0..(N - 1)]
    BY <1>2
  <2> HIDE DEF f
  <2> QED
    BY <1>4, <2>1 DEF Injection, IsInjective
<1>6. IsFiniteSet(0..(N - 1)) /\ Cardinality(0..(N - 1)) = N
  <2>1. 0 \in Int /\ N - 1 \in Int /\ ~(0 > N - 1 /\ N # 0)
    BY <1>1
  <2> HIDE DEF N
  <2> QED
    BY <1>1, <2>1, FS_Interval
<1>7. f \in Surjection(ws, 0..(N - 1))
  BY <1>5, <1>6, FS_Injection
<1>8. PICK w \in ws : f[w] = n
  <2>1. n \in 0..(N - 1)
    BY <1>1
  <2> QED
    BY <1>7, <2>1 DEF Surjection
<1>9. Cardinality({v \in ws : WorkerRank[v] < WorkerRank[w]}) = n
  BY <1>8
<1> QED
  BY <1>9 DEF Nth

\* A ticket belongs to its group, and a group holds listed tickets only.
LEMMA GroupOfTicket ==
  ASSUME NEW S, NEW t \in S
  PROVE  t \in Group(S, t) /\ Group(S, t) \subseteq S
BY DEF Group

LEMMA OverlapSymmetric ==
  ASSUME NEW t, NEW u, fileListsOverlap(t, u)
  PROVE  fileListsOverlap(u, t)
BY DEF fileListsOverlap, hasPathOverlap

\* Tickets that overlap are in one group.
LEMMA OverlappingGroups ==
  ASSUME NEW S, NEW t \in S, NEW u \in S, fileListsOverlap(t, u)
  PROVE  Group(S, t) = Group(S, u)
<1>1. ASSUME NEW C \in SUBSET S, ClosedUnderOverlap(S, C)
      PROVE  t \in C <=> u \in C
  BY <1>1, OverlapSymmetric DEF ClosedUnderOverlap
<1> QED
  BY <1>1 DEF Group

\* The worker of a dependency is usable.
LEMMA DependencyWorkerUsable ==
  ASSUME NEW t \in Tickets, NEW usable, NEW doneBy,
         PreferredAt(t, usable, doneBy) # {}
  PROVE  DependencyWorker(t, usable, doneBy) \in usable
<1> DEFINE Places == PreferredAt(t, usable, doneBy)
<1>1. Places \subseteq Nat
  BY DispatchAssumption DEF PreferredAt
<1>2. \E i \in Places : \A j \in Places : i <= j
  BY <1>1, LeastNatural
<1>3. (CHOOSE i \in Places : \A j \in Places : i <= j) \in Places
  BY <1>2
<1> QED
  BY <1>3 DEF DependencyWorker, PreferredAt

\* A dispatch with a usable worker finds one for every ticket it listed.
THEOREM DispatchFindsWorker ==
  ASSUME NEW S, S \subseteq Tickets, NEW t \in S,
         NEW usable, usable \subseteq Workers, usable # {}, NEW doneBy
  PROVE  WorkerFor(S, t, usable, doneBy) \in usable
<1> DEFINE f == First(Group(S, t))
           C == Candidates(f, usable)
           n == Turn(S, f, usable, doneBy)
<1>1. f \in S
  BY GroupOfTicket, FirstOfGroup
<1>2. CASE PreferredAt(f, usable, doneBy) # {}
  BY <1>1, <1>2, DependencyWorkerUsable DEF WorkerFor
<1>3. CASE PreferredAt(f, usable, doneBy) = {}
  <2>1. C # {} /\ C \subseteq usable
    BY DEF Candidates
  <2>2. /\ IsFiniteSet(C)
        /\ Cardinality(C) \in Nat /\ Cardinality(C) # 0
    BY <2>1, DispatchAssumption, FS_Subset, FS_CardinalityType, FS_EmptySet
  <2>3. n \in Nat
    <3> DEFINE B == {u \in S : /\ TicketRank[u] < TicketRank[f]
                               /\ TicketDomain[u] = TicketDomain[f]
                               /\ u = First(Group(S, u))
                               /\ PreferredAt(u, usable, doneBy) = {}}
    <3>1. B \in SUBSET Tickets
      OBVIOUS
    <3> HIDE DEF B
    <3>2. Cardinality(B) \in Nat
      BY <3>1, DispatchAssumption, FS_Subset, FS_CardinalityType
    <3> QED
      BY <3>2 DEF Turn, B
  <2>4. n % Cardinality(C) \in Nat /\ n % Cardinality(C) < Cardinality(C)
    BY <2>2, <2>3
  <2>5. Nth(C, n % Cardinality(C)) \in C
    BY <2>1, <2>4, NthOfList
  <2> QED
    BY <1>3, <2>1, <2>5 DEF WorkerFor
<1> QED
  BY <1>2, <1>3

\* Tickets that overlap are planned for one worker.
THEOREM PlanKeepsOverlapsTogether ==
  ASSUME NEW S, NEW t \in S, NEW u \in S, NEW usable, NEW doneBy,
         fileListsOverlap(t, u)
  PROVE  Plan(S, usable, doneBy)[t] = Plan(S, usable, doneBy)[u]
BY OverlappingGroups DEF Plan, WorkerFor

-----------------------------------------------------------------------------
(* The inductive invariant.                                                 *)

\* A ticket that was dispatchable at some time.
WasDispatchable(t) == tickets[t] # NoRow /\ Dependencies(t) \subseteq wasDone

BoardCallOK(h) ==
  /\ calls[h].pc = "write" => tickets[calls[h].update.ticket] # NoRow
  /\ calls[h].pc \in {"workers", "plan"} =>
       calls[h].list # {} /\ \A t \in calls[h].list : WasDispatchable(t)
  /\ calls[h].pc = "plan" => calls[h].usable # {}
  /\ calls[h].pc = "assign" =>
       /\ calls[h].left # {} /\ calls[h].left \subseteq DOMAIN calls[h].plan
       /\ \A t \in calls[h].left : WasDispatchable(t)
       /\ \A t, u \in DOMAIN calls[h].plan :
            fileListsOverlap(t, u) => calls[h].plan[t] = calls[h].plan[u]

CallsOK == \A h \in SwarmHandlers : BoardCallOK(h)

GuardianOK ==
  /\ guardian.pc = "stale" => \A w \in guardian.left : workers[w] # NoRow
  /\ guardian.pc \in {"overdue", "fail"} =>
       \A t \in guardian.left : tickets[t] # NoRow
  /\ guardian.pc = "fail" => tickets[guardian.update.ticket] # NoRow

DoneIsRecorded == \A t \in Tickets : StatusOf[t] = "done" => t \in wasDone

BoardInv ==
  /\ BoardTypeOK
  /\ CallsOK
  /\ GuardianOK
  /\ DoneIsRecorded
  /\ DependenciesDoneFirst

-----------------------------------------------------------------------------
(* The shape of calls, and the frame that most steps keep.                  *)

LEMMA CallCases ==
  ASSUME BoardTypeOK, NEW h \in SwarmHandlers
  PROVE  /\ calls[h].pc = "write" =>
              calls[h] \in [pc : {"write"}, update : TicketUpdate]
         /\ calls[h].pc = "workers" =>
              calls[h] \in [pc : {"workers"}, list : SUBSET Tickets]
         /\ calls[h].pc = "plan" =>
              calls[h] \in [pc : {"plan"}, list : SUBSET Tickets,
                            usable : SUBSET Workers]
         /\ calls[h].pc = "assign" =>
              /\ calls[h] \in [pc : {"assign"}, left : SUBSET Tickets,
                               plan : UNION {[S -> Workers] : S \in SUBSET Tickets}]
BY DEF BoardTypeOK, BoardCall, Idle

LEMMA GuardianCases ==
  ASSUME BoardTypeOK
  PROVE  /\ guardian.pc = "stale" =>
              guardian \in [pc : {"stale"}, left : SUBSET Workers]
         /\ guardian.pc = "overdue" =>
              guardian \in [pc : {"overdue"}, left : SUBSET Tickets]
         /\ guardian.pc = "fail" =>
              guardian \in [pc : {"fail"}, left : SUBSET Tickets,
                            update : TicketUpdate]
BY DEF BoardTypeOK, GuardianState, Idle

\* No row disappears and what was done stays recorded.
Grows ==
  /\ \A t \in Tickets : tickets[t] # NoRow => tickets'[t] # NoRow
  /\ \A w \in Workers : workers[w] # NoRow => workers'[w] # NoRow
  /\ wasDone \subseteq wasDone'

LEMMA CallKept ==
  ASSUME BoardInv, Grows, NEW h \in SwarmHandlers, calls'[h] = calls[h]
  PROVE  BoardCallOK(h)'
<1>1. ASSUME NEW t \in Tickets, WasDispatchable(t)
      PROVE  WasDispatchable(t)'
  BY <1>1 DEF WasDispatchable, Grows
<1>2. BoardCallOK(h)
  BY DEF BoardInv, CallsOK
<1>3. CASE calls[h].pc = "write"
  <2>1. calls[h].update.ticket \in Tickets
    BY <1>3, CallCases DEF BoardInv, TicketUpdate
  <2> QED
    BY <1>2, <1>3, <2>1 DEF BoardCallOK, Grows
<1>4. CASE calls[h].pc \in {"workers", "plan"}
  <2>1. calls[h].list \in SUBSET Tickets
    BY <1>4, CallCases DEF BoardInv
  <2> QED
    BY <1>1, <1>2, <1>4, <2>1 DEF BoardCallOK
<1>5. CASE calls[h].pc = "assign"
  <2>1. calls[h].left \in SUBSET Tickets
    BY <1>5, CallCases DEF BoardInv
  <2> QED
    BY <1>1, <1>2, <1>5, <2>1 DEF BoardCallOK
<1> QED
  BY <1>3, <1>4, <1>5 DEF BoardCallOK

LEMMA GuardianKept ==
  ASSUME BoardInv, Grows, guardian' = guardian
  PROVE  GuardianOK'
<1>1. CASE guardian.pc = "stale"
  BY <1>1, GuardianCases DEF BoardInv, GuardianOK, Grows
<1>2. CASE guardian.pc = "overdue"
  BY <1>2, GuardianCases DEF BoardInv, GuardianOK, Grows
<1>3. CASE guardian.pc = "fail"
  BY <1>3, GuardianCases DEF BoardInv, GuardianOK, Grows, TicketUpdate
<1> QED
  BY <1>1, <1>2, <1>3 DEF GuardianOK

\* Steps that leave the tickets alone.
LEMMA TicketsKept ==
  ASSUME BoardInv, UNCHANGED <<tickets, wasDone>>
  PROVE  DoneIsRecorded' /\ DependenciesDoneFirst'
BY DEF BoardInv, DoneIsRecorded, DependenciesDoneFirst, StatusOf

\* What an update computed from a row may be written.
LEMMA UpdateType ==
  ASSUME BoardTypeOK, NEW t \in Tickets, NEW status \in TicketStatus,
         tickets[t] # NoRow,
         WithinLimits(Update(t, status).rev, Update(t, status).rej)
  PROVE  Update(t, status) \in TicketUpdate /\ Update(t, status).ticket = t
<1>1. tickets[t] \in Ticket
  BY DEF BoardTypeOK
<1>2. /\ MaxTicketRevisions \in Nat /\ MaxTicketRejections \in Nat
      /\ tickets[t].revision_count \in Nat /\ tickets[t].rejection_count \in Nat
  BY <1>1, BoardAssumption DEF Ticket
<1> QED
  BY <1>2 DEF Update, TicketUpdate, WithinLimits

\* Writing keeps everything that is about tickets.
LEMMA WriteInv ==
  ASSUME BoardInv, NEW u \in TicketUpdate, tickets[u.ticket] # NoRow, Write(u),
         UNCHANGED workers
  PROVE  /\ Grows
         /\ tickets' \in [Tickets -> Ticket \cup {NoRow}]
         /\ wasDone' \subseteq Tickets
         /\ rejections' \in [Tickets -> Nat]
         /\ DoneIsRecorded'
         /\ DependenciesDoneFirst'
<1> DEFINE t == u.ticket
<1>1. /\ t \in Tickets /\ u.status \in TicketStatus
      /\ tickets[t] \in Ticket /\ tickets[t].worker \in Workers \cup {NoRow}
      /\ tickets \in [Tickets -> Ticket \cup {NoRow}]
  BY DEF BoardInv, BoardTypeOK, TicketUpdate, Ticket
<1> DEFINE row == [status |-> u.status, worker |-> tickets[t].worker,
                   revision_count |-> u.rev, rejection_count |-> u.rej,
                   late |-> FALSE]
<1>2. row \in Ticket /\ row # NoRow
  <2>1. row \in Ticket
    BY <1>1 DEF TicketUpdate, Ticket
  <2> QED
    BY <2>1, RowAssumption
<1>3. tickets' = [tickets EXCEPT ![t] = row]
  BY <1>1 DEF Write
<1>4. /\ wasDone' = IF u.status = "done" THEN wasDone \cup {t} ELSE wasDone
      /\ wasDone \subseteq Tickets /\ rejections \in [Tickets -> Nat]
  BY DEF Write, BoardInv, BoardTypeOK
<1>5. rejections' \in [Tickets -> Nat]
  BY <1>1, <1>4 DEF Write
<1>6. row.status = u.status /\ row.worker = tickets[t].worker
  OBVIOUS
<1> HIDE DEF row
<1>7. Grows
  BY <1>1, <1>2, <1>3, <1>4 DEF Grows
<1>8. DoneIsRecorded'
  BY <1>1, <1>2, <1>3, <1>4, <1>6 DEF BoardInv, DoneIsRecorded, StatusOf
<1>9. DependenciesDoneFirst'
  BY <1>1, <1>2, <1>3, <1>4, <1>6 DEF BoardInv, DependenciesDoneFirst
<1> QED
  BY <1>1, <1>2, <1>3, <1>4, <1>5, <1>7, <1>8, <1>9

-----------------------------------------------------------------------------
(* Steps of clients, one lemma per statement that changes something.        *)

\* Where only the tables change.
LEMMA TableStep ==
  ASSUME BoardInv, Grows, UNCHANGED <<calls, guardian>>,
         tickets' \in [Tickets -> Ticket \cup {NoRow}],
         workers' \in [Workers -> Worker \cup {NoRow}],
         UNCHANGED history, DoneIsRecorded', DependenciesDoneFirst'
  PROVE  BoardInv'
<1>1. CallsOK'
  BY CallKept DEF CallsOK
<1>2. GuardianOK'
  BY GuardianKept
<1> QED
  BY <1>1, <1>2 DEF BoardInv, BoardTypeOK, history

LEMMA OneStatementInv ==
  ASSUME BoardInv, OneStatement
  PROVE  BoardInv'
<1>1. ASSUME NEW t \in Tickets, CreateTicket(t)
      PROVE  BoardInv'
  <2>1. NewTicket \in Ticket /\ NewTicket # NoRow
    <3>1. NewTicket \in Ticket
      BY BoardAssumption DEF NewTicket, Ticket, TicketStatus
    <3> QED
      BY <3>1, RowAssumption
  <2>2. NewTicket.status # "done" /\ NewTicket.worker = NoRow
    BY DEF NewTicket
  <2>3. DoneIsRecorded' /\ DependenciesDoneFirst'
    BY <1>1, <2>2 DEF CreateTicket, history, BoardInv, BoardTypeOK, DoneIsRecorded,
                      DependenciesDoneFirst, StatusOf
  <2>4. Grows /\ tickets' \in [Tickets -> Ticket \cup {NoRow}]
    BY <1>1, <2>1 DEF CreateTicket, history, Grows, BoardInv, BoardTypeOK
  <2> QED
    BY <1>1, <2>3, <2>4, TableStep DEF CreateTicket, BoardInv, BoardTypeOK
<1>2. ASSUME NEW w \in Workers, NEW row \in Worker,
             workers' = [workers EXCEPT ![w] = row],
             UNCHANGED <<tickets, calls, guardian, history>>
      PROVE  BoardInv'
  <2>1. row # NoRow
    BY RowAssumption
  <2>2. Grows /\ workers' \in [Workers -> Worker \cup {NoRow}]
    BY <1>2, <2>1 DEF Grows, BoardInv, BoardTypeOK, history
  <2>3. DoneIsRecorded' /\ DependenciesDoneFirst'
    BY <1>2, TicketsKept DEF history
  <2> QED
    BY <1>2, <2>2, <2>3, TableStep DEF BoardInv, BoardTypeOK
<1>3. ASSUME NEW w \in Workers, SpawnWorker(w)
      PROVE  BoardInv'
  <2>1. NewWorker \in Worker
    BY DEF NewWorker, Worker, WorkerStatus
  <2> QED
    BY <1>2, <1>3, <2>1 DEF SpawnWorker
<1>4. ASSUME NEW w \in Workers, WorkerHeartbeat(w)
      PROVE  BoardInv'
  <2>1. [status |-> "active", silent |-> FALSE] \in Worker
    BY DEF Worker, WorkerStatus
  <2> QED
    BY <1>2, <1>4, <2>1 DEF WorkerHeartbeat
<1>5. ASSUME NEW w \in Workers, NEW status \in SetWorkerTo,
             UpdateWorkerStatus(w, status)
      PROVE  BoardInv'
  <2>1. workers[w] \in Worker /\ status \in WorkerStatus
    BY <1>5, BoardAssumption DEF UpdateWorkerStatus, BoardInv, BoardTypeOK
  <2>2. [workers[w] EXCEPT !.status = status] \in Worker
    BY <2>1 DEF Worker
  <2> QED
    BY <1>2, <1>5, <2>2 DEF UpdateWorkerStatus
<1> QED
  BY <1>1, <1>3, <1>4, <1>5 DEF OneStatement

\* A request that moves on: what it holds next is right, others keep theirs.
LEMMA CallStep ==
  ASSUME BoardInv, Grows, NEW h \in SwarmHandlers,
         NEW c \in BoardCall, calls' = [calls EXCEPT ![h] = c], BoardCallOK(h)',
         UNCHANGED <<workers, guardian>>,
         tickets' \in [Tickets -> Ticket \cup {NoRow}],
         wasDone' \subseteq Tickets, rejections' \in [Tickets -> Nat],
         DoneIsRecorded', DependenciesDoneFirst'
  PROVE  BoardInv'
<1>1. CallsOK'
  <2>1. ASSUME NEW g \in SwarmHandlers, g # h
        PROVE  BoardCallOK(g)'
    <3>1. calls'[g] = calls[g]
      BY <2>1 DEF BoardInv, BoardTypeOK
    <3> QED
      BY <3>1, CallKept
  <2> QED
    BY <2>1 DEF CallsOK
<1>2. GuardianOK'
  BY GuardianKept
<1> QED
  BY <1>1, <1>2 DEF BoardInv, BoardTypeOK

\* ... and where the tables stay.
LEMMA ReadingStep ==
  ASSUME BoardInv, NEW h \in SwarmHandlers,
         NEW c \in BoardCall, calls' = [calls EXCEPT ![h] = c], BoardCallOK(h)',
         UNCHANGED <<tickets, workers, guardian, history>>
  PROVE  BoardInv'
<1>1. Grows
  BY DEF Grows, history
<1>2. DoneIsRecorded' /\ DependenciesDoneFirst'
  BY TicketsKept DEF history
<1> QED
  BY <1>1, <1>2, CallStep DEF history, BoardInv, BoardTypeOK

LEMMA IdleIsOK ==
  Idle \in BoardCall /\ Idle.pc = "idle"
BY DEF Idle, BoardCall

LEMMA ReadTicketInv ==
  ASSUME BoardInv, NEW h \in SwarmHandlers, NEW t \in Tickets,
         NEW status \in SetTicketTo, ReadTicket(h, t, status)
  PROVE  BoardInv'
<1> DEFINE u == Update(t, status)
           c == [pc |-> "write", update |-> u]
<1>1. u \in TicketUpdate /\ u.ticket = t
  BY UpdateType, BoardAssumption DEF ReadTicket, BoardInv
<1>2. c \in BoardCall
  BY <1>1 DEF BoardCall
<1>3. /\ calls' = [calls EXCEPT ![h] = c] /\ calls'[h] = c
      /\ UNCHANGED <<tickets, workers, guardian, history>>
      /\ tickets[t] # NoRow
  BY DEF ReadTicket, BoardInv, BoardTypeOK
<1>4. BoardCallOK(h)'
  BY <1>1, <1>3 DEF BoardCallOK
<1> HIDE DEF c
<1> QED
  BY <1>2, <1>3, <1>4, ReadingStep

LEMMA WriteTicketInv ==
  ASSUME BoardInv, NEW h \in SwarmHandlers, WriteTicket(h)
  PROVE  BoardInv'
<1> DEFINE u == calls[h].update
<1>1. u \in TicketUpdate
  BY CallCases DEF WriteTicket, BoardInv
<1>2. tickets[u.ticket] # NoRow /\ Write(u) /\ UNCHANGED <<workers, guardian>>
  BY DEF WriteTicket, BoardInv, CallsOK, BoardCallOK
<1>3. calls' = [calls EXCEPT ![h] = Idle] /\ calls'[h] = Idle
  BY DEF WriteTicket, BoardInv, BoardTypeOK
<1>4. BoardCallOK(h)'
  BY <1>3, IdleIsOK DEF BoardCallOK
<1> HIDE DEF u
<1> QED
  BY <1>1, <1>2, <1>3, <1>4, IdleIsOK, WriteInv, CallStep

-----------------------------------------------------------------------------
(* The steps of a dispatch.                                                 *)

LEMMA DispatchTicketsInv ==
  ASSUME BoardInv, NEW h \in SwarmHandlers, DispatchTickets(h)
  PROVE  BoardInv'
<1> DEFINE S == Dispatchable(StatusOf)
           c == [pc |-> "workers", list |-> S]
<1>1. S \in SUBSET Tickets /\ S # {}
  BY DEF DispatchTickets, Dispatchable
<1>2. ASSUME NEW t \in S
      PROVE  WasDispatchable(t)
  <2>1. t \in Tickets /\ StatusOf[t] = "pending"
        /\ \A d \in Dependencies(t) : StatusOf[d] = "done"
    BY DEF Dispatchable
  <2>2. Dependencies(t) \subseteq Tickets
    BY <2>1, DispatchAssumption DEF Dependencies
  <2>3. tickets[t] # NoRow
    BY <2>1, RowAssumption DEF StatusOf, TicketStatus
  <2> QED
    BY <2>1, <2>2, <2>3 DEF WasDispatchable, BoardInv, DoneIsRecorded
<1>3. c \in BoardCall
  BY <1>1 DEF BoardCall
<1>4. /\ calls' = [calls EXCEPT ![h] = c] /\ calls'[h] = c
      /\ UNCHANGED <<tickets, workers, guardian, history>>
  BY DEF DispatchTickets, BoardInv, BoardTypeOK
<1> HIDE DEF S
<1>5. BoardCallOK(h)'
  BY <1>1, <1>2, <1>4 DEF BoardCallOK, WasDispatchable, history
<1> HIDE DEF c
<1> QED
  BY <1>3, <1>4, <1>5, ReadingStep

LEMMA DispatchWorkersInv ==
  ASSUME BoardInv, NEW h \in SwarmHandlers, DispatchWorkers(h)
  PROVE  BoardInv'
<1>1. calls[h] \in [pc : {"workers"}, list : SUBSET Tickets] /\ BoardCallOK(h)
      /\ calls[h].pc = "workers"
  BY CallCases DEF DispatchWorkers, BoardInv, CallsOK
<1>2. PICK usable \in SUBSET Workers :
        /\ calls' = [calls EXCEPT ![h] =
                       IF usable = {} THEN Idle
                       ELSE [pc |-> "plan", list |-> calls[h].list,
                             usable |-> usable]]
        /\ UNCHANGED <<tickets, workers, guardian, history>>
  BY DEF DispatchWorkers
<1>3. CASE usable = {}
  <2>1. calls' = [calls EXCEPT ![h] = Idle] /\ calls'[h] = Idle
    BY <1>2, <1>3 DEF BoardInv, BoardTypeOK
  <2>2. BoardCallOK(h)'
    BY <2>1, IdleIsOK DEF BoardCallOK
  <2> QED
    BY <1>2, <2>1, <2>2, IdleIsOK, ReadingStep
<1>4. CASE usable # {}
  <2> DEFINE c == [pc |-> "plan", list |-> calls[h].list, usable |-> usable]
  <2>1. c \in BoardCall
    BY <1>1 DEF BoardCall
  <2>2. calls' = [calls EXCEPT ![h] = c] /\ calls'[h] = c
    BY <1>2, <1>4 DEF BoardInv, BoardTypeOK
  <2>3. BoardCallOK(h)'
    BY <1>1, <1>2, <1>4, <2>2 DEF BoardCallOK, WasDispatchable, history
  <2> HIDE DEF c
  <2> QED
    BY <1>2, <2>1, <2>2, <2>3, ReadingStep
<1> QED
  BY <1>3, <1>4

LEMMA DispatchPlanInv ==
  ASSUME BoardInv, NEW h \in SwarmHandlers, DispatchPlan(h)
  PROVE  BoardInv'
<1> DEFINE S == calls[h].list
           usable == calls[h].usable
           plan == Plan(S, usable, CompletedBy)
           c == [pc |-> "assign", left |-> S, plan |-> plan]
<1>1. /\ S \in SUBSET Tickets /\ usable \in SUBSET Workers
      /\ S # {} /\ usable # {}
      /\ \A t \in S : WasDispatchable(t)
  BY CallCases DEF DispatchPlan, BoardInv, CallsOK, BoardCallOK
<1>2. plan \in [S -> Workers]
  <2>1. \A t \in S : WorkerFor(S, t, usable, CompletedBy) \in Workers
    BY <1>1, DispatchFindsWorker
  <2> QED
    BY <2>1 DEF Plan
<1>3. \A t, u \in S : fileListsOverlap(t, u) => plan[t] = plan[u]
  BY PlanKeepsOverlapsTogether
<1>4. /\ calls' = [calls EXCEPT ![h] = c] /\ calls'[h] = c
      /\ UNCHANGED <<tickets, workers, guardian, history>>
  BY DEF DispatchPlan, BoardInv, BoardTypeOK
<1> HIDE DEF plan
<1>5. c \in BoardCall
  BY <1>1, <1>2 DEF BoardCall
<1>6. BoardCallOK(h)'
  <2>1. DOMAIN plan = S
    BY <1>2
  <2> QED
    BY <1>1, <1>3, <1>4, <2>1 DEF BoardCallOK, WasDispatchable, history
<1> HIDE DEF c
<1> QED
  BY <1>4, <1>5, <1>6, ReadingStep

\* A call that has dealt with a ticket still holds what it needs of the rest.
LEMMA PastCall ==
  ASSUME BoardInv, NEW h \in SwarmHandlers, NEW t, calls[h].pc = "assign", Past(h, t),
         Grows
  PROVE  /\ BoardCallOK(h)'
         /\ \E c \in BoardCall : calls' = [calls EXCEPT ![h] = c]
<1> DEFINE c0 == calls[h]
<1>1. PICK S \in SUBSET Tickets :
        c0 \in [pc : {"assign"}, left : SUBSET Tickets, plan : [S -> Workers]]
  BY CallCases DEF BoardInv
<1>2. BoardCallOK(h)
  BY DEF BoardInv, CallsOK
<1>3. CASE c0.left \ {t} = {}
  <2>1. calls' = [calls EXCEPT ![h] = Idle] /\ calls'[h] = Idle
    BY <1>3 DEF Past, BoardInv, BoardTypeOK
  <2> QED
    BY <2>1, IdleIsOK DEF BoardCallOK
<1>4. CASE c0.left \ {t} # {}
  <2> DEFINE c == [pc |-> "assign", left |-> c0.left \ {t}, plan |-> c0.plan]
  <2>2. calls' = [calls EXCEPT ![h] = c] /\ calls'[h] = c
    BY <1>4 DEF Past, BoardInv, BoardTypeOK
  <2>3. c \in BoardCall
    BY <1>1 DEF BoardCall
  <2>4. c.left # {} /\ c.left \subseteq DOMAIN c.plan
    BY <1>2, <1>4 DEF BoardCallOK
  <2>5. \A u \in c.left : WasDispatchable(u)'
    BY <1>1, <1>2 DEF BoardCallOK, WasDispatchable, Grows
  <2>6. BoardCallOK(h)'
    BY <1>2, <2>2, <2>4, <2>5 DEF BoardCallOK
  <2> HIDE DEF c
  <2> QED
    BY <2>2, <2>3, <2>6
<1> QED
  BY <1>3, <1>4

LEMMA DispatchAssignInv ==
  ASSUME BoardInv, NEW h \in SwarmHandlers, DispatchAssign(h)
  PROVE  BoardInv'
<1> DEFINE t == First(calls[h].left)
           w == calls[h].plan[t]
<1>1. PICK S \in SUBSET Tickets :
        calls[h] \in [pc : {"assign"}, left : SUBSET Tickets,
                      plan : [S -> Workers]]
  BY CallCases DEF BoardInv, DispatchAssign
<1>2. /\ calls[h].left # {} /\ calls[h].left \subseteq DOMAIN calls[h].plan
      /\ \A u \in calls[h].left : WasDispatchable(u)
  BY DEF BoardInv, CallsOK, BoardCallOK, DispatchAssign
<1>3. t \in calls[h].left
  BY <1>1, <1>2, FirstOfGroup
<1>4. t \in Tickets /\ w \in Workers /\ WasDispatchable(t)
  BY <1>1, <1>2, <1>3
<1> HIDE DEF t, w
<1> DEFINE row == [tickets[t] EXCEPT !.worker = w, !.status = "assigned",
                                     !.late = FALSE]
<1>5. tickets[t] \in Ticket /\ tickets \in [Tickets -> Ticket \cup {NoRow}]
  BY <1>4 DEF WasDispatchable, BoardInv, BoardTypeOK
<1>6. row \in Ticket /\ row # NoRow /\ row.status # "done"
  <2>1. row \in Ticket /\ row.status # "done"
    BY <1>4, <1>5 DEF Ticket, TicketStatus
  <2> QED
    BY <2>1, RowAssumption
<1>7. /\ tickets' = [tickets EXCEPT ![t] = row]
      /\ Past(h, t) /\ calls[h].pc = "assign"
      /\ UNCHANGED <<workers, guardian, history>>
  BY <1>5 DEF DispatchAssign, t, w
<1> HIDE DEF row
<1>8. Grows /\ tickets' \in [Tickets -> Ticket \cup {NoRow}]
  BY <1>4, <1>5, <1>6, <1>7 DEF Grows, history
<1>9. DoneIsRecorded'
  BY <1>4, <1>5, <1>6, <1>7 DEF BoardInv, DoneIsRecorded, StatusOf, history
<1>10. DependenciesDoneFirst'
  BY <1>4, <1>5, <1>7 DEF BoardInv, DependenciesDoneFirst, WasDispatchable, history
<1> QED
  BY <1>7, <1>8, <1>9, <1>10, PastCall, CallStep DEF history, BoardInv, BoardTypeOK

LEMMA DispatchAssignFailsInv ==
  ASSUME BoardInv, NEW h \in SwarmHandlers, DispatchAssignFails(h)
  PROVE  BoardInv'
<1>1. Grows
  BY DEF DispatchAssignFails, Grows, history
<1> QED
  BY <1>1, PastCall, ReadingStep DEF DispatchAssignFails

LEMMA BoardRequestInv ==
  ASSUME BoardInv, NEW h \in SwarmHandlers, BoardRequest(h)
  PROVE  BoardInv'
BY ReadTicketInv, WriteTicketInv, DispatchTicketsInv, DispatchWorkersInv,
   DispatchPlanInv, DispatchAssignInv, DispatchAssignFailsInv DEF BoardRequest

-----------------------------------------------------------------------------
(* The guardian, and time.                                                  *)

\* A step of the guardian that leaves the tickets alone.
LEMMA GuardianStep ==
  ASSUME BoardInv, Grows, guardian' \in GuardianState, GuardianOK',
         workers' \in [Workers -> Worker \cup {NoRow}],
         UNCHANGED <<tickets, calls, history>>
  PROVE  BoardInv'
<1>1. CallsOK'
  BY CallKept DEF CallsOK
<1>2. DoneIsRecorded' /\ DependenciesDoneFirst'
  BY TicketsKept DEF history
<1> QED
  BY <1>1, <1>2 DEF BoardInv, BoardTypeOK, history

LEMMA TickInv ==
  ASSUME BoardInv, Tick
  PROVE  BoardInv'
<1>1. CASE ScanWorkers
  <2>1. guardian'.pc = "stale"
        /\ guardian'.left \in SUBSET {w \in Workers : workers[w] # NoRow}
        /\ guardian' \in GuardianState
        /\ UNCHANGED <<tickets, workers, calls, history>>
    BY <1>1 DEF ScanWorkers, Guardian, GuardianState, WorkerIn
  <2>2. GuardianOK' /\ Grows
    BY <2>1 DEF GuardianOK, Grows, history
  <2> QED
    BY <2>1, <2>2, GuardianStep DEF BoardInv, BoardTypeOK
<1>2. ASSUME NEW w \in Workers, MarkStale(w)
      PROVE  BoardInv'
  <2>1. guardian \in [pc : {"stale"}, left : SUBSET Workers] /\ workers[w] # NoRow
    BY <1>2, GuardianCases DEF MarkStale, BoardInv, GuardianOK
  <2> DEFINE row == [workers[w] EXCEPT !.status = "stale"]
  <2>2. row \in Worker /\ row # NoRow
    <3>1. row \in Worker
      BY <2>1 DEF BoardInv, BoardTypeOK, Worker, WorkerStatus
    <3> QED
      BY <3>1, RowAssumption
  <2>3. /\ workers' = [workers EXCEPT ![w] = row]
        /\ guardian' = [pc |-> "stale", left |-> guardian.left \ {w}]
        /\ UNCHANGED <<tickets, calls, history>>
    BY <1>2, <2>1 DEF MarkStale, Guardian
  <2> HIDE DEF row
  <2>4. Grows /\ workers' \in [Workers -> Worker \cup {NoRow}]
    BY <2>2, <2>3 DEF Grows, BoardInv, BoardTypeOK, history
  <2>5. guardian' \in GuardianState
    BY <2>1, <2>3 DEF GuardianState
  <2>6. GuardianOK'
    BY <2>1, <2>3, <2>4 DEF BoardInv, GuardianOK, Grows
  <2> QED
    BY <2>3, <2>4, <2>5, <2>6, GuardianStep
<1>3. CASE ScanTickets
  <2>1. guardian'.pc = "overdue"
        /\ guardian'.left \in SUBSET {t \in Tickets : tickets[t] # NoRow}
        /\ guardian' \in GuardianState
        /\ UNCHANGED <<tickets, workers, calls, history>>
    BY <1>3, RowAssumption
       DEF ScanTickets, Guardian, GuardianState, StatusOf, TicketStatus
  <2>2. GuardianOK' /\ Grows
    BY <2>1 DEF GuardianOK, Grows, history
  <2> QED
    BY <2>1, <2>2, GuardianStep DEF BoardInv, BoardTypeOK
<1>4. ASSUME NEW t \in Tickets, ReadOverdue(t)
      PROVE  BoardInv'
  <2> DEFINE u == Update(t, "failed")
  <2>1. guardian \in [pc : {"overdue"}, left : SUBSET Tickets]
        /\ tickets[t] # NoRow /\ \A s \in guardian.left : tickets[s] # NoRow
    BY <1>4, GuardianCases DEF ReadOverdue, BoardInv, GuardianOK
  <2>2. WithinLimits(u.rev, u.rej) => u \in TicketUpdate /\ u.ticket = t
    BY <2>1, UpdateType DEF BoardInv, TicketStatus
  <2> HIDE DEF u
  <2>3. /\ guardian' = IF WithinLimits(u.rev, u.rej)
                       THEN [pc |-> "fail", left |-> guardian.left \ {t},
                             update |-> u]
                       ELSE [pc |-> "overdue", left |-> guardian.left \ {t}]
        /\ UNCHANGED <<tickets, workers, calls, history>>
    BY <1>4, <2>1 DEF ReadOverdue, Guardian, u
  <2>4. guardian' \in GuardianState
    BY <2>1, <2>2, <2>3 DEF GuardianState
  <2>5. GuardianOK' /\ Grows
    BY <2>1, <2>2, <2>3 DEF GuardianOK, Grows, history
  <2> QED
    BY <2>3, <2>4, <2>5, GuardianStep DEF BoardInv, BoardTypeOK
<1>5. CASE FailOverdue
  <2>1. guardian \in [pc : {"fail"}, left : SUBSET Tickets, update : TicketUpdate]
        /\ tickets[guardian.update.ticket] # NoRow
        /\ \A t \in guardian.left : tickets[t] # NoRow
    BY <1>5, GuardianCases DEF FailOverdue, BoardInv, GuardianOK
  <2>2. Write(guardian.update) /\ UNCHANGED <<workers, calls>>
        /\ guardian' = [pc |-> "overdue", left |-> guardian.left]
    BY <1>5 DEF FailOverdue, Guardian
  <2>3. /\ Grows /\ tickets' \in [Tickets -> Ticket \cup {NoRow}]
        /\ wasDone' \subseteq Tickets /\ rejections' \in [Tickets -> Nat]
        /\ DoneIsRecorded' /\ DependenciesDoneFirst'
    BY <2>1, <2>2, WriteInv
  <2>4. guardian' \in GuardianState
    BY <2>1, <2>2 DEF GuardianState
  <2>5. GuardianOK'
    BY <2>1, <2>2, <2>3 DEF GuardianOK, Grows
  <2>6. CallsOK'
    BY <2>2, <2>3, CallKept DEF CallsOK
  <2> QED
    BY <2>2, <2>3, <2>4, <2>5, <2>6 DEF BoardInv, BoardTypeOK
<1>6. CASE TickEnds
  <2>1. guardian' = Idle /\ UNCHANGED <<tickets, workers, calls, history>>
    BY <1>6 DEF TickEnds, Guardian
  <2>2. GuardianOK' /\ Grows /\ guardian' \in GuardianState
    BY <2>1, IdleIsOK DEF GuardianOK, Grows, history, GuardianState
  <2> QED
    BY <2>1, <2>2, GuardianStep DEF BoardInv, BoardTypeOK
<1> QED
  BY <1>1, <1>2, <1>3, <1>4, <1>5, <1>6 DEF Tick

LEMMA TimeInv ==
  ASSUME BoardInv, Time
  PROVE  BoardInv'
<1>1. ASSUME NEW t \in Tickets, GetsLate(t)
      PROVE  BoardInv'
  <2> DEFINE row == [tickets[t] EXCEPT !.late = TRUE]
  <2>1. tickets[t] \in Ticket /\ tickets[t].status = "in_progress"
        /\ tickets[t] # NoRow
    BY <1>1, RowAssumption DEF GetsLate, StatusOf, TicketStatus, BoardInv, BoardTypeOK
  <2>2. row \in Ticket /\ row # NoRow /\ row.status # "done"
        /\ row.worker = tickets[t].worker
    <3>1. row \in Ticket /\ row.status # "done"
          /\ row.worker = tickets[t].worker
      BY <2>1 DEF Ticket
    <3> QED
      BY <3>1, RowAssumption
  <2>3. tickets' = [tickets EXCEPT ![t] = row]
        /\ UNCHANGED <<workers, calls, guardian, history>>
    BY <1>1 DEF GetsLate
  <2> HIDE DEF row
  <2>4. Grows /\ tickets' \in [Tickets -> Ticket \cup {NoRow}]
    BY <2>2, <2>3 DEF Grows, BoardInv, BoardTypeOK, history
  <2>5. DoneIsRecorded' /\ DependenciesDoneFirst'
    BY <2>1, <2>2, <2>3 DEF BoardInv, BoardTypeOK, DoneIsRecorded,
                            DependenciesDoneFirst, StatusOf, history
  <2> QED
    BY <2>3, <2>4, <2>5, TableStep DEF BoardInv, BoardTypeOK
<1>2. ASSUME NEW w \in Workers, GetsSilent(w)
      PROVE  BoardInv'
  <2> DEFINE row == [workers[w] EXCEPT !.silent = TRUE]
  <2>1. row \in Worker /\ row # NoRow
    <3>1. row \in Worker
      BY <1>2 DEF GetsSilent, BoardInv, BoardTypeOK, Worker
    <3> QED
      BY <3>1, RowAssumption
  <2>2. workers' = [workers EXCEPT ![w] = row]
        /\ UNCHANGED <<tickets, calls, guardian, history>>
    BY <1>2 DEF GetsSilent
  <2> HIDE DEF row
  <2>3. Grows /\ workers' \in [Workers -> Worker \cup {NoRow}]
    BY <2>1, <2>2 DEF Grows, BoardInv, BoardTypeOK, history
  <2>4. DoneIsRecorded' /\ DependenciesDoneFirst'
    BY <2>2, TicketsKept DEF history
  <2> QED
    BY <2>2, <2>3, <2>4, TableStep DEF BoardInv, BoardTypeOK
<1> QED
  BY <1>1, <1>2 DEF Time

-----------------------------------------------------------------------------
LEMMA BoardInitInv ==
  BoardInit => BoardInv
<1> SUFFICES ASSUME BoardInit
             PROVE  BoardInv
  OBVIOUS
<1>1. BoardTypeOK
  BY IdleIsOK DEF BoardInit, BoardTypeOK, GuardianState
<1>2. CallsOK /\ GuardianOK
  BY IdleIsOK DEF BoardInit, CallsOK, BoardCallOK, GuardianOK
<1>3. DoneIsRecorded /\ DependenciesDoneFirst
  BY RowAssumption DEF BoardInit, DoneIsRecorded, DependenciesDoneFirst, StatusOf,
                       TicketStatus
<1> QED
  BY <1>1, <1>2, <1>3 DEF BoardInv

LEMMA BoardNextInv ==
  BoardInv /\ [BoardNext]_boardVars => BoardInv'
<1> SUFFICES ASSUME BoardInv, [BoardNext]_boardVars
             PROVE  BoardInv'
  OBVIOUS
<1>1. CASE BoardNext
  BY <1>1, BoardRequestInv, OneStatementInv, TickInv, TimeInv DEF BoardNext
<1>2. CASE UNCHANGED boardVars
  <2>1. Grows /\ UNCHANGED <<calls, guardian, history, tickets, workers>>
    BY <1>2 DEF boardVars, Grows, history
  <2>2. DoneIsRecorded' /\ DependenciesDoneFirst'
    BY <2>1, TicketsKept DEF history
  <2> QED
    BY <2>1, <2>2, TableStep DEF BoardInv, BoardTypeOK
<1> QED
  BY <1>1, <1>2

LEMMA Invariant ==
  BoardSpec => []BoardInv
BY BoardInitInv, BoardNextInv, PTL DEF BoardSpec

\* Rows, requests in progress and the guardian's lists keep their shape, and
\* the counters their limits, whatever runs concurrently.
THEOREM BoardTypeCorrect ==
  BoardSpec => []BoardTypeOK
<1>1. BoardInv => BoardTypeOK
  BY DEF BoardInv
<1> QED
  BY <1>1, Invariant, PTL

\* A ticket is given to a worker only after everything it depends on has been
\* done, for any number of concurrent dispatches, updates and guardian ticks.
THEOREM DependenciesDoneFirstHolds ==
  BoardSpec => []DependenciesDoneFirst
<1>1. BoardInv => DependenciesDoneFirst
  BY DEF BoardInv
<1> QED
  BY <1>1, Invariant, PTL

\* One dispatch gives tickets that touch overlapping files to one worker, for
\* any set of tickets, file patterns, dependencies and workers.
THEOREM OverlappingTicketsTogetherHolds ==
  BoardSpec => []OverlappingTicketsTogether
<1>1. BoardInv => OverlappingTicketsTogether
  BY DEF BoardInv, CallsOK, BoardCallOK, OverlappingTicketsTogether
<1> QED
  BY <1>1, Invariant, PTL

-----------------------------------------------------------------------------
(* Beside the workflow and the hooks: while one part runs, the others rest.    *)

LEMMA PartsStep ==
  [PartsNext]_<<part, vars, boardVars, hookVars>>
    => [Next]_vars /\ [BoardNext]_boardVars /\ [HooksNext]_hookVars
BY DEF PartsNext

\* Workflows, the board and the hooks' calls keep their shape, for any number of requests,
\* tickets, workers and workflows.
THEOREM PartsTypeCorrect == PartsSpec => []PartsTypeOK
<1>1. PartsInit => IndInv /\ BoardInv /\ HooksInv
  BY InitInv, BoardInitInv, HooksInvInit DEF PartsInit
<1>2. /\ IndInv /\ BoardInv /\ HooksInv
      /\ [PartsNext]_<<part, vars, boardVars, hookVars>>
      => IndInv' /\ BoardInv' /\ HooksInv'
  BY PartsStep, NextInv, BoardNextInv, HooksInvStep
<1>3. IndInv => TypeOK
  BY DEF IndInv, RowsOK, ProcsOK, LearnOK, TypeOK
<1>4. IndInv /\ BoardInv /\ HooksInv => PartsTypeOK
  BY <1>3, HooksInvTypes DEF BoardInv, PartsTypeOK
<1> QED
  BY <1>1, <1>2, <1>4, PTL DEF PartsSpec
=============================================================================
