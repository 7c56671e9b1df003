----------------------------- MODULE SwarmBoard -----------------------------
(***************************************************************************)
(* Tickets and workers of one mission (db/swarm.go, swarm/store.go) as the *)
(* HTTP handlers (api/routes_swarm.go) and the guardian (guardian/         *)
(* checks.go) read and write them, each on a goroutine of its own.         *)
(*                                                                         *)
(* A step is one SQL statement. Dispatch makes three SELECTs, computes who *)
(* gets what and then writes one ticket after another; a change of a       *)
(* ticket's status is a SELECT and an UPDATE; the guardian lists, then     *)
(* acts on what it listed. Nothing spans two statements.                   *)
(*                                                                         *)
(* Time is a flag on the row: late and silent say that updated_at or       *)
(* last_heartbeat is older than the guardian's threshold. Left out are a   *)
(* ticket's result and description, and the signals that tell workers of   *)
(* an assignment or a timeout: no statement here reads a signal, and a     *)
(* failure to insert one is only logged or ignored.                        *)
(***************************************************************************)
EXTENDS Dispatch

CONSTANTS
  SwarmHandlers,            (* requests that may be in progress at the same time *)
  SetTicketTo,         (* the ticket statuses that clients set              *)
  SetWorkerTo,         (* the worker statuses that clients set              *)
  MaxTicketRevisions,  (* 5 in the code                                     *)
  MaxTicketRejections  (* 3 in the code                                     *)

TicketStatus ==
  {"pending", "assigned", "in_progress", "done", "failed", "blocked"}

WorkerStatus == {"pending", "active", "stale", "done", "failed", "killed"}

ASSUME BoardAssumption ==
  /\ SetTicketTo \subseteq TicketStatus
  /\ SetWorkerTo \subseteq WorkerStatus
  /\ MaxTicketRevisions \in Nat \ {0} /\ MaxTicketRejections \in Nat \ {0}

VARIABLES
  tickets,       (* rows of tickets                                         *)
  workers,       (* rows of workers                                         *)
  calls,         (* the request each handler is executing                   *)
  guardian,      (* where the guardian is in its checks                     *)
  wasDone,       (* history: tickets that have been done at some time       *)
  rejections     (* history: how often a done ticket went back to work      *)

boardVars == <<tickets, workers, calls, guardian, wasDone, rejections>>

history == <<wasDone, rejections>>

Ticket ==
  [status : TicketStatus, worker : Workers \cup {NoRow},
   revision_count : 0..MaxTicketRevisions,
   rejection_count : 0..MaxTicketRejections, late : BOOLEAN]

Worker == [status : WorkerStatus, silent : BOOLEAN]

NewTicket ==
  [status |-> "pending", worker |-> NoRow, revision_count |-> 0,
   rejection_count |-> 0, late |-> FALSE]

NewWorker == [status |-> "pending", silent |-> FALSE]

\* NoRow is no row and no status.
ASSUME RowAssumption == NoRow \notin Ticket \cup Worker \cup TicketStatus

Idle == [pc |-> "idle"]

BoardInit ==
  /\ tickets = [t \in Tickets |-> NoRow]
  /\ workers = [w \in Workers |-> NoRow]
  /\ calls = [h \in SwarmHandlers |-> Idle]
  /\ guardian = Idle
  /\ wasDone = {}
  /\ rejections = [t \in Tickets |-> 0]

StatusOf == [t \in Tickets |-> IF tickets[t] = NoRow THEN NoRow
                               ELSE tickets[t].status]

WorkerIn(w, S) == workers[w] # NoRow /\ workers[w].status \in S

-----------------------------------------------------------------------------
(* Requests of one statement.                                               *)

CreateTicket(t) ==
  /\ tickets[t] = NoRow
  /\ tickets' = [tickets EXCEPT ![t] = NewTicket]
  /\ UNCHANGED <<workers, calls, guardian, history>>

SpawnWorker(w) ==
  /\ workers[w] = NoRow
  /\ workers' = [workers EXCEPT ![w] = NewWorker]
  /\ UNCHANGED <<tickets, calls, guardian, history>>

WorkerHeartbeat(w) ==
  /\ WorkerIn(w, {"pending", "active", "stale"})
  /\ workers' = [workers EXCEPT ![w] = [status |-> "active", silent |-> FALSE]]
  /\ UNCHANGED <<tickets, calls, guardian, history>>

UpdateWorkerStatus(w, status) ==
  /\ workers[w] # NoRow
  /\ workers' = [workers EXCEPT ![w].status = status]
  /\ UNCHANGED <<tickets, calls, guardian, history>>

-----------------------------------------------------------------------------
(* PUT /api/swarm/tickets/{id}/status, and what the guardian calls:         *)
(* UpdateTicketStatus reads the ticket, counts, and writes.                 *)

\* Mutant of Revises: every change of status counts.
RevisesEveryChange(old, status) == old # status

Revises(old, status) ==
  status = "in_progress" /\ old \in {"done", "failed", "assigned"}

Rejects(old, status) == status = "in_progress" /\ old = "done"

\* Mutant of WithinLimits: only rejections are bounded.
WithinRejections(rev, rej) == rej <= MaxTicketRejections

WithinLimits(rev, rej) ==
  rev <= MaxTicketRevisions /\ rej <= MaxTicketRejections

\* What UpdateTicketStatus will write, as computed from the row it read.
Update(t, status) ==
  [ticket |-> t, status |-> status,
   rev |-> IF Revises(tickets[t].status, status)
           THEN tickets[t].revision_count + 1 ELSE tickets[t].revision_count,
   rej |-> IF Rejects(tickets[t].status, status)
           THEN tickets[t].rejection_count + 1 ELSE tickets[t].rejection_count]

ReadTicket(h, t, status) ==
  LET u == Update(t, status)
  IN  /\ calls[h] = Idle
      /\ tickets[t] # NoRow
      /\ WithinLimits(u.rev, u.rej)
      /\ calls' = [calls EXCEPT ![h] = [pc |-> "write", update |-> u]]
      /\ UNCHANGED <<tickets, workers, guardian, history>>

\* The UPDATE, whatever the row is by now. (History stops counting one past
\* the limit.)
Write(u) ==
  LET t == u.ticket
      n == rejections[t]
  IN  /\ tickets' = [tickets EXCEPT
                       ![t] = [status |-> u.status, worker |-> @.worker,
                               revision_count |-> u.rev,
                               rejection_count |-> u.rej, late |-> FALSE]]
      /\ wasDone' = IF u.status = "done" THEN wasDone \cup {t} ELSE wasDone
      /\ rejections' =
           IF Rejects(tickets[t].status, u.status) /\ n <= MaxTicketRejections
           THEN [rejections EXCEPT ![t] = n + 1] ELSE rejections

WriteTicket(h) ==
  /\ calls[h].pc = "write"
  /\ Write(calls[h].update)
  /\ calls' = [calls EXCEPT ![h] = Idle]
  /\ UNCHANGED <<workers, guardian>>

-----------------------------------------------------------------------------
(* POST /api/swarm/missions/{id}/dispatch.                                  *)

Unusable == {"failed", "killed", "stale"}

\* With nothing to dispatch the call only reads.
DispatchTickets(h) ==
  LET S == Dispatchable(StatusOf)
  IN  /\ calls[h] = Idle
      /\ S # {}
      /\ calls' = [calls EXCEPT ![h] = [pc |-> "workers", list |-> S]]
      /\ UNCHANGED <<tickets, workers, guardian, history>>

DispatchWorkers(h) ==
  LET usable == {w \in Workers : WorkerIn(w, WorkerStatus \ Unusable)}
  IN  /\ calls[h].pc = "workers"
      /\ calls' = [calls EXCEPT ![h] =
                     IF usable = {} THEN Idle
                     ELSE [pc |-> "plan", list |-> calls[h].list,
                           usable |-> usable]]
      /\ UNCHANGED <<tickets, workers, guardian, history>>

CompletedBy ==
  [t \in Tickets |-> IF StatusOf[t] = "done" THEN tickets[t].worker ELSE NoRow]

DispatchPlan(h) ==
  LET c == calls[h]
  IN  /\ c.pc = "plan"
      /\ calls' = [calls EXCEPT ![h] =
                     [pc |-> "assign", left |-> c.list,
                      plan |-> Plan(c.list, c.usable, CompletedBy)]]
      /\ UNCHANGED <<tickets, workers, guardian, history>>

\* The call is over with ticket t.
Past(h, t) ==
  LET left == calls[h].left \ {t}
  IN  calls' = [calls EXCEPT ![h] =
                  IF left = {} THEN Idle
                  ELSE [pc |-> "assign", left |-> left, plan |-> calls[h].plan]]

\* AssignTicket, whatever the ticket is by now.
DispatchAssign(h) ==
  /\ calls[h].pc = "assign"
  /\ LET t == First(calls[h].left)
     IN  /\ tickets' = [tickets EXCEPT ![t].worker = calls[h].plan[t],
                                       ![t].status = "assigned",
                                       ![t].late = FALSE]
         /\ Past(h, t)
  /\ UNCHANGED <<workers, guardian, history>>

\* The UPDATE fails, say because the database is busy: the ticket is skipped.
DispatchAssignFails(h) ==
  /\ calls[h].pc = "assign"
  /\ Past(h, First(calls[h].left))
  /\ UNCHANGED <<tickets, workers, guardian, history>>

-----------------------------------------------------------------------------
(* The guardian's tick: checkStaleWorkers, then checkOverdueTickets.        *)

Guardian(g) == guardian' = g

ScanWorkers ==
  /\ guardian = Idle
  /\ Guardian([pc |-> "stale",
               left |-> {w \in Workers : /\ WorkerIn(w, {"active"})
                                         /\ workers[w].silent}])
  /\ UNCHANGED <<tickets, workers, calls, history>>

\* UpdateWorkerStatus(w, "stale"), whatever the worker is by now.
MarkStale(w) ==
  /\ guardian.pc = "stale"
  /\ w \in guardian.left
  /\ workers' = [workers EXCEPT ![w].status = "stale"]
  /\ Guardian([guardian EXCEPT !.left = @ \ {w}])
  /\ UNCHANGED <<tickets, calls, history>>

ScanTickets ==
  /\ guardian.pc = "stale"
  /\ guardian.left = {}
  /\ Guardian([pc |-> "overdue",
               left |-> {t \in Tickets : /\ StatusOf[t] = "in_progress"
                                         /\ tickets[t].late}])
  /\ UNCHANGED <<tickets, workers, calls, history>>

\* UpdateTicketStatus(t, "failed") reads; beyond the limits it does nothing.
ReadOverdue(t) ==
  LET u == Update(t, "failed")
  IN  /\ guardian.pc = "overdue"
      /\ t \in guardian.left
      /\ Guardian(IF WithinLimits(u.rev, u.rej)
                  THEN [pc |-> "fail", left |-> guardian.left \ {t}, update |-> u]
                  ELSE [guardian EXCEPT !.left = @ \ {t}])
      /\ UNCHANGED <<tickets, workers, calls, history>>

\* ... and writes, whatever the ticket is by now.
FailOverdue ==
  /\ guardian.pc = "fail"
  /\ Write(guardian.update)
  /\ Guardian([pc |-> "overdue", left |-> guardian.left])
  /\ UNCHANGED <<workers, calls>>

TickEnds ==
  /\ guardian.pc = "overdue"
  /\ guardian.left = {}
  /\ Guardian(Idle)
  /\ UNCHANGED <<tickets, workers, calls, history>>

-----------------------------------------------------------------------------
(* Time passes.                                                             *)

GetsLate(t) ==
  /\ StatusOf[t] = "in_progress"
  /\ ~tickets[t].late
  /\ tickets' = [tickets EXCEPT ![t].late = TRUE]
  /\ UNCHANGED <<workers, calls, guardian, history>>

GetsSilent(w) ==
  /\ workers[w] # NoRow
  /\ ~workers[w].silent
  /\ workers' = [workers EXCEPT ![w].silent = TRUE]
  /\ UNCHANGED <<tickets, calls, guardian, history>>

-----------------------------------------------------------------------------
BoardRequest(h) ==
  \/ \E t \in Tickets, status \in SetTicketTo : ReadTicket(h, t, status)
  \/ WriteTicket(h)
  \/ DispatchTickets(h) \/ DispatchWorkers(h) \/ DispatchPlan(h)
  \/ DispatchAssign(h) \/ DispatchAssignFails(h)

OneStatement ==
  \/ \E t \in Tickets : CreateTicket(t)
  \/ \E w \in Workers :
       \/ SpawnWorker(w) \/ WorkerHeartbeat(w)
       \/ \E status \in SetWorkerTo : UpdateWorkerStatus(w, status)

Tick ==
  \/ ScanWorkers \/ ScanTickets \/ FailOverdue \/ TickEnds
  \/ \E w \in Workers : MarkStale(w)
  \/ \E t \in Tickets : ReadOverdue(t)

Time ==
  \/ \E t \in Tickets : GetsLate(t)
  \/ \E w \in Workers : GetsSilent(w)

BoardNext ==
  \/ \E h \in SwarmHandlers : BoardRequest(h)
  \/ OneStatement
  \/ Tick
  \/ Time

\* The scheduler keeps ticking and a tick's statements all return; requests
\* may never come.
Fairness == WF_boardVars(Tick)

BoardSpec == BoardInit /\ [][BoardNext]_boardVars /\ Fairness

-----------------------------------------------------------------------------
TicketUpdate ==
  [ticket : Tickets, status : TicketStatus, rev : 0..MaxTicketRevisions,
   rej : 0..MaxTicketRejections]

BoardCall ==
  {Idle} \cup [pc : {"write"}, update : TicketUpdate]
    \cup [pc : {"workers"}, list : SUBSET Tickets]
    \cup [pc : {"plan"}, list : SUBSET Tickets, usable : SUBSET Workers]
    \cup [pc : {"assign"}, left : SUBSET Tickets,
          plan : UNION {[S -> Workers] : S \in SUBSET Tickets}]

GuardianState ==
  {Idle} \cup [pc : {"stale"}, left : SUBSET Workers]
    \cup [pc : {"overdue"}, left : SUBSET Tickets]
    \cup [pc : {"fail"}, left : SUBSET Tickets, update : TicketUpdate]

BoardTypeOK ==
  /\ tickets \in [Tickets -> Ticket \cup {NoRow}]
  /\ workers \in [Workers -> Worker \cup {NoRow}]
  /\ calls \in [SwarmHandlers -> BoardCall]
  /\ guardian \in GuardianState
  /\ wasDone \subseteq Tickets
  /\ rejections \in [Tickets -> Nat]

\* A ticket is given to a worker only after everything it depends on has been
\* done, although dispatches run concurrently, tickets they listed change under
\* them, and finished tickets are reopened or failed by the guardian.
DependenciesDoneFirst ==
  \A t \in Tickets :
    tickets[t] # NoRow /\ tickets[t].worker # NoRow
      => Dependencies(t) \subseteq wasDone

\* swarm/store.go:208: tickets that touch overlapping files go to the same
\* worker, however long the chain of overlaps that connects them and whatever
\* their order: one dispatch never splits them.
OverlappingTicketsTogether ==
  \A h \in SwarmHandlers :
    calls[h].pc = "assign" =>
      \A t, u \in DOMAIN calls[h].plan :
        fileListsOverlap(t, u) => calls[h].plan[t] = calls[h].plan[u]

\* guardian/checks.go:200: an overdue ticket is failed, to unblock its worker,
\* or somebody touches it before: it does not stay in progress for ever, at
\* whatever revision it is.
OverdueTicketsEnd ==
  \A t \in Tickets :
    (StatusOf[t] = "in_progress" /\ tickets[t].late)
      ~> ~(StatusOf[t] = "in_progress" /\ tickets[t].late)

\* db/swarm.go:299: failed, done and killed workers are not resurrected: once a
\* worker is one of them it is never active again. (In the run that checks
\* this, clients set no worker active themselves.)
TerminalWorkersStay ==
  \A w \in Workers :
    [](WorkerIn(w, {"failed", "done", "killed"}) => []~WorkerIn(w, {"active"}))

\* db/swarm.go:426: UpdateTicketStatus bounds how often a ticket that was done
\* goes back to work.
RetriesBounded == \A t \in Tickets : rejections[t] <= MaxTicketRejections
=============================================================================
