------------------------------ MODULE Dispatch ------------------------------
(***************************************************************************)
(* How the hub of a mission decides who works on what (swarm/store.go,     *)
(* Dispatch): pure definitions over what its three SELECTs returned.       *)
(* Tickets are listed by priority and creation time, workers by creation   *)
(* time; both orders are ranks here, so lists are sets.                    *)
(***************************************************************************)
EXTENDS Naturals, FiniteSets, PathPatterns

CONSTANTS
  Tickets,        (* ticket ids                                             *)
  TicketRank,     (* the place of each ticket in the list of tickets        *)
  TicketDomain,   (* the domain each ticket names                           *)
  DependsOn,      (* the tickets each ticket depends on, as listed          *)
  FilesOf,        (* the file patterns each ticket is expected to modify    *)
  Workers,        (* worker ids                                             *)
  WorkerRank,     (* the place of each worker in the list of workers        *)
  WorkerDomain,   (* the domain of each worker's agent type                 *)
  NoRow            (* no row, no worker                                      *)

ASSUME DispatchAssumption ==
  /\ IsFiniteSet(Tickets) /\ IsFiniteSet(Workers)
  /\ TicketRank \in [Tickets -> Nat]
  /\ \A t, u \in Tickets : TicketRank[t] = TicketRank[u] => t = u
  /\ DependsOn \in [Tickets -> Seq(Tickets)]
  /\ WorkerRank \in [Workers -> Nat]
  /\ \A v, w \in Workers : WorkerRank[v] = WorkerRank[w] => v = w
  /\ NoRow \notin Tickets \cup Workers

Dependencies(t) == {DependsOn[t][i] : i \in DOMAIN DependsOn[t]}

\* Mutant of Dispatchable: a dependency that somebody works on is enough.
DispatchableEarly(statusOf) ==
  {t \in Tickets :
     /\ statusOf[t] = "pending"
     /\ \A d \in Dependencies(t) : statusOf[d] \in {"in_progress", "done"}}

\* GetDispatchableTickets.
Dispatchable(statusOf) ==
  {t \in Tickets :
     /\ statusOf[t] = "pending"
     /\ \A d \in Dependencies(t) : statusOf[d] = "done"}

-----------------------------------------------------------------------------
(* Tickets whose files overlap belong to one group: the classes of the      *)
(* union-find, that is, the smallest sets closed under overlap.             *)

fileListsOverlap(t, u) ==
  \E p \in FilesOf[t], q \in FilesOf[u] : hasPathOverlap(p, q)

ClosedUnderOverlap(S, C) ==
  \A t, u \in S : t \in C /\ fileListsOverlap(t, u) => u \in C

\* Mutant of Group: no transitive closure.
GroupOfNeighbours(S, t) == {u \in S : u = t \/ fileListsOverlap(t, u)}

Group(S, t) ==
  {u \in S : \A C \in SUBSET S : t \in C /\ ClosedUnderOverlap(S, C) => u \in C}

\* The first ticket of a group chooses the worker for all of it.
First(G) == CHOOSE t \in G : \A u \in G : TicketRank[t] <= TicketRank[u]

-----------------------------------------------------------------------------
(* Choosing a worker for the first ticket of a group. usable is the set of  *)
(* workers that are not failed, killed or stale; doneBy gives, for each     *)
(* ticket, the worker that completed it, or NoRow.                           *)

\* Positions of dependencies whose worker is usable; the first one is taken.
PreferredAt(t, usable, doneBy) ==
  {i \in DOMAIN DependsOn[t] : doneBy[DependsOn[t][i]] \in usable}

DependencyWorker(t, usable, doneBy) ==
  LET At == PreferredAt(t, usable, doneBy)
  IN  doneBy[DependsOn[t][CHOOSE i \in At : \A j \in At : i <= j]]

Candidates(t, usable) ==
  LET OfDomain == {w \in usable : WorkerDomain[w] = TicketDomain[t]}
  IN  IF OfDomain # {} THEN OfDomain ELSE usable

\* The (n+1)-th of a list of workers.
Nth(ws, n) ==
  CHOOSE w \in ws :
    Cardinality({v \in ws : WorkerRank[v] < WorkerRank[w]}) = n

\* How many tickets before t took a worker of its domain in turn: domainIdx.
Turn(S, t, usable, doneBy) ==
  Cardinality({u \in S : /\ TicketRank[u] < TicketRank[t]
                         /\ TicketDomain[u] = TicketDomain[t]
                         /\ u = First(Group(S, u))
                         /\ PreferredAt(u, usable, doneBy) = {}})

WorkerFor(S, t, usable, doneBy) ==
  LET f == First(Group(S, t))
      C == Candidates(f, usable)
  IN  IF PreferredAt(f, usable, doneBy) # {}
      THEN DependencyWorker(f, usable, doneBy)
      ELSE Nth(C, Turn(S, f, usable, doneBy) % Cardinality(C))

\* Who gets each of the tickets S; usable is not empty.
Plan(S, usable, doneBy) == [t \in S |-> WorkerFor(S, t, usable, doneBy)]
=============================================================================
