-------------------------- MODULE FileReservations --------------------------
(***************************************************************************)
(* File reservations of the swarm (db/swarm.go: ReserveFilesAtomic,        *)
(* ReleaseFiles; api/routes_swarm.go) on SQLite in WAL mode.               *)
(*                                                                         *)
(* Reserving is a transaction of three statements on a connection of the   *)
(* pool, so several can be open at once: the SELECT takes a snapshot, the  *)
(* INSERT asks for the one write lock of the database, the COMMIT makes    *)
(* the row visible. The transaction is deferred ("BEGIN"), so SQLite       *)
(* refuses to turn its snapshot into a write when anything was committed   *)
(* since (SQLITE_BUSY_SNAPSHOT) or when another transaction holds the      *)
(* lock; the handler then answers with an error. That refusal is external: *)
(* it is what makes the check and the insert one step.                     *)
(*                                                                         *)
(* Rows that differ in their random id alone are one row here: a release   *)
(* removes all rows of the worker.                                         *)
(***************************************************************************)
EXTENDS FiniteSets, PathPatterns

CONSTANTS
  Reservers,         (* reserve requests that may be open at the same time   *)
  Workers,          (* worker ids                                           *)
  Missions,         (* mission ids                                          *)
  MissionOf,        (* the mission each worker belongs to                   *)
  Patterns,         (* patterns that requests name                          *)
  Requests,         (* lists of patterns that requests carry, as sets       *)
  Files,            (* files of the project, as paths                       *)
  MaxReservations   (* bound: rows of file_reservations                     *)

ASSUME ReservationsAssumption ==
  /\ MissionOf \in [Workers -> Missions]
  /\ \A p \in Patterns : p.base \in Seq(STRING)
  /\ Requests \subseteq SUBSET Patterns
  /\ Files \subseteq Seq(STRING)
  /\ MaxReservations \in Nat

VARIABLES
  missions,         (* rows of missions                                     *)
  workers,          (* rows of workers                                      *)
  reservations,     (* committed rows of file_reservations                  *)
  tx                (* the reserving transaction of each handler            *)

reservationVars == <<missions, workers, reservations, tx>>

Reservation ==
  [mission : Missions, worker : Workers, patterns : SUBSET Patterns]

\* "read": the SELECT has returned the rows in seen, and fresh says that
\* nothing was committed to the database since. "inserted": the transaction
\* holds the write lock and its row is not yet visible to others.
NoTx == [pc |-> "idle"]

OpenTx ==
  [pc : {"read", "inserted"}, row : Reservation, seen : SUBSET Reservation,
   fresh : BOOLEAN]

ReservationsInit ==
  /\ missions = Missions
  /\ workers = {}
  /\ reservations = {}
  /\ tx = [h \in Reservers |-> NoTx]

LockFree == \A h \in Reservers : tx[h].pc # "inserted"

\* After a commit no open snapshot is the latest one.
Stale(t) == IF t.pc = "read" THEN [t EXCEPT !.fresh = FALSE] ELSE t

-----------------------------------------------------------------------------
(* POST /api/swarm/files/reserve. The mission is the one in the body, or    *)
(* the worker's when the body has none.                                     *)

\* Mutant of AcceptedPatterns: the handler does not look at the list.
AcceptedPatternsUnchecked == Requests

\* An empty list is refused.
AcceptedPatterns == Requests \ {{}}

\* BEGIN and SELECT: committed rows of the mission; never blocked in WAL.
BeginAndSelect(h, m, w, ps) ==
  /\ tx[h] = NoTx
  /\ tx' = [tx EXCEPT ![h] =
              [pc |-> "read", fresh |-> TRUE,
               row |-> [mission |-> m, worker |-> w, patterns |-> ps],
               seen |-> {r \in reservations : r.mission = m}]]
  /\ UNCHANGED <<missions, workers, reservations>>

Conflicts(t) ==
  {r \in t.seen : /\ r.worker # t.row.worker
                  /\ Conflicting(r.patterns, t.row.patterns)}

Rollback(h) ==
  /\ tx' = [tx EXCEPT ![h] = NoTx]
  /\ UNCHANGED <<missions, workers, reservations>>

\* The answer is {"reserved": false} with the conflicts.
Refuse(h) ==
  /\ tx[h].pc = "read"
  /\ Conflicts(tx[h]) # {}
  /\ Rollback(h)

\* Mutant of MayWrite: the rows were read outside the transaction.
MayWriteFromOldSnapshot(t) ==
  /\ LockFree
  /\ t.row.mission \in missions /\ t.row.worker \in workers

\* What the INSERT needs from SQLite: the latest snapshot, the write lock and
\* the two rows its foreign keys name.
MayWrite(t) ==
  /\ t.fresh
  /\ LockFree
  /\ t.row.mission \in missions /\ t.row.worker \in workers

Insert(h) ==
  /\ tx[h].pc = "read"
  /\ Conflicts(tx[h]) = {}
  /\ MayWrite(tx[h])
  /\ tx' = [tx EXCEPT ![h].pc = "inserted"]
  /\ UNCHANGED <<missions, workers, reservations>>

\* SQLITE_BUSY or a foreign key error: the answer is an error.
InsertFails(h) ==
  /\ tx[h].pc = "read"
  /\ Conflicts(tx[h]) = {}
  /\ ~MayWrite(tx[h])
  /\ Rollback(h)

Commit(h) ==
  /\ tx[h].pc = "inserted"
  /\ reservations' = reservations \cup {tx[h].row}
  /\ tx' = [g \in Reservers |-> IF g = h THEN NoTx ELSE Stale(tx[g])]
  /\ UNCHANGED <<missions, workers>>

CommitFails(h) ==
  /\ tx[h].pc = "inserted"
  /\ Rollback(h)

-----------------------------------------------------------------------------
(* Other writers of the database: single statements, which wait for the     *)
(* write lock (busy_timeout) and commit at once.                            *)

Write ==
  /\ LockFree
  /\ tx' = [h \in Reservers |-> Stale(tx[h])]

\* POST /api/swarm/files/release, for all missions of the worker.
ReleaseFiles(w) ==
  /\ Write
  /\ reservations' = {r \in reservations : r.worker # w}
  /\ UNCHANGED <<missions, workers>>

CreateWorker(w) ==
  /\ w \notin workers
  /\ MissionOf[w] \in missions
  /\ Write
  /\ workers' = workers \cup {w}
  /\ UNCHANGED <<missions, reservations>>

\* Mutant of DeleteMission: reservations cascade with their mission alone.
DeleteMissionKeepingReservations(m) ==
  /\ m \in missions
  /\ Write
  /\ missions' = missions \ {m}
  /\ workers' = {w \in workers : MissionOf[w] # m}
  /\ reservations' = {r \in reservations : r.mission # m}

\* ON DELETE CASCADE: the mission's workers, its reservations and theirs.
DeleteMission(m) ==
  /\ m \in missions
  /\ Write
  /\ missions' = missions \ {m}
  /\ workers' = {w \in workers : MissionOf[w] # m}
  /\ reservations' =
       {r \in reservations : r.mission # m /\ MissionOf[r.worker] # m}

\* Any write to another table: a heartbeat, a ticket, a metric.
OtherWrite ==
  /\ Write
  /\ UNCHANGED <<missions, workers, reservations>>

\* The server stops and starts again: open transactions are gone.
Restart ==
  /\ tx' = [h \in Reservers |-> NoTx]
  /\ UNCHANGED <<missions, workers, reservations>>

-----------------------------------------------------------------------------
Open == {h \in Reservers : tx[h] # NoTx}

Reserve(h) ==
  \/ /\ Cardinality(reservations) + Cardinality(Open) < MaxReservations
     /\ \E m \in Missions, w \in Workers, ps \in AcceptedPatterns :
          BeginAndSelect(h, m, w, ps)
  \/ Refuse(h) \/ Insert(h) \/ InsertFails(h) \/ Commit(h) \/ CommitFails(h)

ReservationsNext ==
  \/ \E h \in Reservers : Reserve(h)
  \/ \E w \in Workers : ReleaseFiles(w) \/ CreateWorker(w)
  \/ \E m \in Missions : DeleteMission(m)
  \/ OtherWrite
  \/ Restart

ReservationsSpec == ReservationsInit /\ [][ReservationsNext]_reservationVars

-----------------------------------------------------------------------------
ReservationsTypeOK ==
  /\ missions \subseteq Missions
  /\ workers \subseteq Workers
  /\ reservations \subseteq Reservation
  /\ tx \in [Reservers -> {NoTx} \cup OpenTx]
  /\ \A r \in reservations : r.patterns # {}

\* Every row belongs to a mission and a worker that exist, whatever was
\* deleted while its transaction was open.
HoldersExist ==
  \A r \in reservations : r.mission \in missions /\ r.worker \in workers

\* README.md:73 and README.md:554: reservations prevent edit conflicts. No file
\* is covered by reservations that two workers of one mission hold, however
\* their requests interleave. (True of patterns that name a directory; a bare
\* "**" covers every file and overlaps with nothing.)
NoSharedFile ==
  \A r1, r2 \in reservations :
    r1.mission = r2.mission /\ r1.worker # r2.worker
      => \A p \in r1.patterns, q \in r2.patterns, f \in Files :
           ~(Covers(p, f) /\ Covers(q, f))

\* The transactions implement the book in which a reservation is one step that
\* looks at what is held at that very moment.
Book == INSTANCE ReservationBook
ImplementsBook == Book!Spec
=============================================================================
