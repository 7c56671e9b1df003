------------------------------ MODULE RequestsProofs ------------------------------
(***************************************************************************)
(* Proofs about requests that overlap. Those of the coordinator are in     *)
(* WorkflowProofs; here is what is proved about FileReservations, for      *)
(* every number of requests, workers, missions, patterns and files: the    *)
(* transactions implement the book in which reserving is one step, and no  *)
(* file is ever reserved twice by patterns that name a directory.          *)
(*                                                                         *)
(* The argument: a snapshot that is fresh is what is stored now; a         *)
(* transaction that has inserted keeps every other writer out, so the      *)
(* snapshot it checked stays what is stored until it commits.              *)
(***************************************************************************)
EXTENDS MCRequests, WorkflowProofs

-----------------------------------------------------------------------------
(* Patterns.                                                                *)

\* Conflicts do not depend on who came first.
LEMMA ConflictingSymmetric ==
  ASSUME NEW ps, NEW qs
  PROVE  Conflicting(ps, qs) <=> Conflicting(qs, ps)
BY DEF Conflicting, hasPathOverlap

\* Two prefixes of one path: the shorter is a prefix of the longer.
LEMMA PrefixesOfOnePath ==
  ASSUME NEW f \in Seq(STRING), NEW a \in Seq(STRING), NEW b \in Seq(STRING),
         hasPathPrefix(f, a), hasPathPrefix(f, b)
  PROVE  hasPathPrefix(a, b) \/ hasPathPrefix(b, a)
<1>1. Len(a) \in Nat /\ Len(b) \in Nat
  OBVIOUS
<1>2. CASE Len(a) <= Len(b)
  BY <1>1, <1>2 DEF hasPathPrefix
<1>3. CASE Len(b) <= Len(a)
  BY <1>1, <1>3 DEF hasPathPrefix
<1> QED
  BY <1>1, <1>2, <1>3

\* Patterns with a base that share a file overlap.
LEMMA SharedFileOverlaps ==
  ASSUME NEW p \in Patterns, NEW q \in Patterns, NEW f \in Files,
         p.base # <<>>, q.base # <<>>, Covers(p, f), Covers(q, f)
  PROVE  hasPathOverlap(p, q)
<1>1. p.base \in Seq(STRING) /\ q.base \in Seq(STRING) /\ f \in Seq(STRING)
  BY ReservationsAssumption
<1>2. hasPathPrefix(p.base, q.base) \/ hasPathPrefix(q.base, p.base)
  BY <1>1, PrefixesOfOnePath DEF Covers
<1> QED
  BY <1>2 DEF hasPathOverlap, trimGlob

-----------------------------------------------------------------------------
(* The inductive invariant.                                                 *)

Rows(m) == {r \in reservations : r.mission = m}

OneWriter ==
  \A g, h \in Reservers :
    tx[g].pc = "inserted" /\ tx[h].pc = "inserted" => g = h

\* What an open transaction asked for and, while fresh, what it saw.
OpenTxOK ==
  \A h \in Reservers :
    tx[h] # NoTx =>
      /\ tx[h].row.patterns # {}
      /\ tx[h].fresh => tx[h].seen = Rows(tx[h].row.mission)

\* A transaction that holds the lock.
WriterOK ==
  \A h \in Reservers :
    tx[h].pc = "inserted" =>
      /\ tx[h].fresh
      /\ Conflicts(tx[h]) = {}
      /\ tx[h].row.mission \in missions /\ tx[h].row.worker \in workers

NoConflictsHeld ==
  \A r1, r2 \in reservations :
    r1.mission = r2.mission /\ r1.worker # r2.worker
      => ~Conflicting(r1.patterns, r2.patterns)

ReservationsInv ==
  /\ ReservationsTypeOK
  /\ HoldersExist
  /\ OneWriter
  /\ OpenTxOK
  /\ WriterOK
  /\ NoConflictsHeld

\* A transaction is open or it is not, and the two are told apart by pc.
LEMMA TxCases ==
  ASSUME ReservationsTypeOK, NEW h \in Reservers
  PROVE  \/ tx[h] = NoTx /\ tx[h].pc = "idle"
         \/ tx[h] \in OpenTx /\ tx[h] # NoTx /\ tx[h].pc \in {"read", "inserted"}
BY DEF ReservationsTypeOK, NoTx, OpenTx

-----------------------------------------------------------------------------
(* Steps of a reserving transaction.                                        *)

\* A transaction that is over, whatever ended it, takes nothing with it.
LEMMA RollbackInv ==
  ASSUME ReservationsInv, NEW h \in Reservers, Rollback(h)
  PROVE  ReservationsInv'
<1>1. ReservationsTypeOK' /\ HoldersExist' /\ NoConflictsHeld'
  BY DEF ReservationsInv, ReservationsTypeOK, HoldersExist, NoConflictsHeld, Rollback
<1>2. ASSUME NEW g \in Reservers
      PROVE  tx'[g] = NoTx \/ tx'[g] = tx[g]
  BY DEF ReservationsInv, ReservationsTypeOK, Rollback
<1>3. NoTx.pc = "idle"
  BY DEF NoTx
<1>4. OneWriter'
  BY <1>2, <1>3 DEF ReservationsInv, OneWriter
<1>5. OpenTxOK'
  BY <1>2 DEF ReservationsInv, OpenTxOK, Rows, Rollback
<1>6. WriterOK'
  BY <1>2, <1>3 DEF ReservationsInv, WriterOK, Conflicts, Rollback
<1> QED
  BY <1>1, <1>4, <1>5, <1>6 DEF ReservationsInv

\* The snapshot taken by SELECT is what is stored.
LEMMA BeginAndSelectInv ==
  ASSUME ReservationsInv, NEW h \in Reservers, NEW m \in Missions, NEW w \in Workers,
         NEW ps \in AcceptedPatterns, BeginAndSelect(h, m, w, ps)
  PROVE  ReservationsInv'
<1> DEFINE row == [mission |-> m, worker |-> w, patterns |-> ps]
           new == [pc |-> "read", fresh |-> TRUE, row |-> row, seen |-> Rows(m)]
<1>1. tx' = [tx EXCEPT ![h] = new]
      /\ UNCHANGED <<missions, workers, reservations>>
  BY DEF BeginAndSelect, Rows
<1>2. row \in Reservation /\ ps # {}
  BY ReservationsAssumption DEF Reservation, AcceptedPatterns
<1>3. Rows(m) \in SUBSET Reservation
  BY DEF ReservationsInv, ReservationsTypeOK, Rows
<1>4. new \in OpenTx
  BY <1>2, <1>3 DEF OpenTx
<1>5. ReservationsTypeOK' /\ HoldersExist' /\ NoConflictsHeld'
  BY <1>1, <1>4 DEF ReservationsInv, ReservationsTypeOK, HoldersExist, NoConflictsHeld
<1>6. ASSUME NEW g \in Reservers
      PROVE  tx'[g] = IF g = h THEN new ELSE tx[g]
  BY <1>1 DEF ReservationsInv, ReservationsTypeOK
<1>7. new.pc = "read"
  OBVIOUS
<1>8. OneWriter' /\ WriterOK'
  BY <1>1, <1>6, <1>7 DEF ReservationsInv, OneWriter, WriterOK, Conflicts
<1>9. OpenTxOK'
  BY <1>1, <1>2, <1>6 DEF ReservationsInv, OpenTxOK, Rows
<1> QED
  BY <1>5, <1>8, <1>9 DEF ReservationsInv

\* The insert takes the lock with the latest snapshot.
LEMMA InsertInv ==
  ASSUME ReservationsInv, NEW h \in Reservers, Insert(h)
  PROVE  ReservationsInv'
<1> DEFINE new == [tx[h] EXCEPT !.pc = "inserted"]
<1>1. tx[h] \in OpenTx /\ tx[h] # NoTx
  BY TxCases DEF ReservationsInv, Insert
<1>2. tx' = [tx EXCEPT ![h] = new] /\ UNCHANGED <<missions, workers, reservations>>
  BY DEF Insert
<1>3. /\ new \in OpenTx /\ new.pc = "inserted" /\ new.row = tx[h].row
      /\ new.seen = tx[h].seen /\ new.fresh = tx[h].fresh
  BY <1>1 DEF OpenTx
<1>4. ReservationsTypeOK' /\ HoldersExist' /\ NoConflictsHeld'
  BY <1>2, <1>3 DEF ReservationsInv, ReservationsTypeOK, HoldersExist, NoConflictsHeld
<1>5. ASSUME NEW g \in Reservers
      PROVE  tx'[g] = IF g = h THEN new ELSE tx[g]
  BY <1>2 DEF ReservationsInv, ReservationsTypeOK
<1>6. \A g \in Reservers : tx[g].pc # "inserted"
  BY DEF Insert, MayWrite, LockFree
<1>7. OneWriter'
  BY <1>5, <1>6 DEF OneWriter
<1>8. OpenTxOK'
  BY <1>1, <1>2, <1>3, <1>5 DEF ReservationsInv, OpenTxOK, Rows
<1>9. Conflicts(new) = {}
  BY <1>3 DEF Insert, Conflicts
<1>10. WriterOK'
  <2> SUFFICES ASSUME NEW g \in Reservers, tx'[g].pc = "inserted"
               PROVE  /\ tx'[g].fresh
                      /\ Conflicts(tx'[g]) = {}
                      /\ tx'[g].row.mission \in missions
                      /\ tx'[g].row.worker \in workers
    BY <1>2 DEF WriterOK, Conflicts
  <2>1. tx'[g] = new
    BY <1>5, <1>6
  <2> QED
    BY <2>1, <1>3, <1>9 DEF Insert, MayWrite
<1> QED
  BY <1>4, <1>7, <1>8, <1>10 DEF ReservationsInv

\* A commit elsewhere makes a reading transaction stale and leaves the rest of
\* it alone.
LEMMA StaleTx ==
  ASSUME ReservationsTypeOK, NEW h \in Reservers
  PROVE  /\ Stale(tx[h]) \in {NoTx} \cup OpenTx
         /\ Stale(tx[h]).pc = tx[h].pc
         /\ tx[h] = NoTx => Stale(tx[h]) = NoTx
         /\ tx[h] # NoTx => Stale(tx[h]).row = tx[h].row
         /\ tx[h].pc = "read" => ~Stale(tx[h]).fresh
<1>1. CASE tx[h] = NoTx /\ tx[h].pc = "idle"
  BY <1>1 DEF Stale, NoTx
<1>2. CASE tx[h] \in OpenTx /\ tx[h] # NoTx /\ tx[h].pc \in {"read", "inserted"}
  BY <1>2 DEF Stale, OpenTx
<1> QED
  BY <1>1, <1>2, TxCases

\* What the writer checked is what is stored when it commits: nobody holds an
\* entry that conflicts with its row.
LEMMA WriterSawAll ==
  ASSUME ReservationsInv, NEW h \in Reservers, tx[h].pc = "inserted"
  PROVE  /\ tx[h] \in OpenTx
         /\ tx[h].row \in Reservation /\ tx[h].row.patterns # {}
         /\ \A r \in reservations :
              r.mission = tx[h].row.mission /\ r.worker # tx[h].row.worker
                => ~Conflicting(r.patterns, tx[h].row.patterns)
<1>1. tx[h] \in OpenTx /\ tx[h] # NoTx
  BY TxCases DEF ReservationsInv
<1>2. tx[h].seen = Rows(tx[h].row.mission) /\ tx[h].row.patterns # {}
  BY <1>1 DEF ReservationsInv, OpenTxOK, WriterOK
<1>3. Conflicts(tx[h]) = {}
  BY DEF ReservationsInv, WriterOK
<1>4. tx[h].row \in Reservation
  BY <1>1 DEF OpenTx
<1> QED
  BY <1>1, <1>2, <1>3, <1>4 DEF Rows, Conflicts

LEMMA CommitInv ==
  ASSUME ReservationsInv, NEW h \in Reservers, Commit(h)
  PROVE  ReservationsInv'
<1> DEFINE row == tx[h].row
<1>1. /\ tx[h].pc = "inserted" /\ row \in Reservation /\ row.patterns # {}
      /\ reservations' = reservations \cup {row}
      /\ UNCHANGED <<missions, workers>>
  BY WriterSawAll DEF Commit
<1>2. ASSUME NEW g \in Reservers
      PROVE  /\ tx'[g] = IF g = h THEN NoTx ELSE Stale(tx[g])
             /\ tx'[g] \in {NoTx} \cup OpenTx
             /\ tx'[g].pc # "inserted"
             /\ tx'[g] # NoTx => tx'[g].row = tx[g].row /\ tx[g] # NoTx /\ ~tx'[g].fresh
  <2>1. tx'[g] = IF g = h THEN NoTx ELSE Stale(tx[g])
    BY DEF Commit
  <2>2. NoTx.pc = "idle"
    BY DEF NoTx
  <2>3. g # h => tx[g].pc # "inserted"
    BY <1>1 DEF ReservationsInv, OneWriter
  <2>4. tx[g] = NoTx \/ tx[g].pc \in {"read", "inserted"}
    BY TxCases DEF ReservationsInv
  <2> QED
    BY <2>1, <2>2, <2>3, <2>4, StaleTx DEF ReservationsInv
<1>3. tx' = [g \in Reservers |-> IF g = h THEN NoTx ELSE Stale(tx[g])]
  BY DEF Commit
<1>4. ReservationsTypeOK'
  BY <1>1, <1>2, <1>3 DEF ReservationsInv, ReservationsTypeOK
<1>5. HoldersExist'
  BY <1>1 DEF ReservationsInv, HoldersExist, WriterOK
<1>6. OneWriter' /\ WriterOK'
  BY <1>2 DEF OneWriter, WriterOK
<1>7. OpenTxOK'
  BY <1>2 DEF ReservationsInv, OpenTxOK
<1>8. NoConflictsHeld'
  <2> SUFFICES ASSUME NEW r1 \in reservations', NEW r2 \in reservations',
                      r1.mission = r2.mission, r1.worker # r2.worker
               PROVE  ~Conflicting(r1.patterns, r2.patterns)
    BY DEF NoConflictsHeld
  <2>1. CASE r1 \in reservations /\ r2 \in reservations
    BY <2>1 DEF ReservationsInv, NoConflictsHeld
  <2>2. CASE r1 \in reservations /\ r2 = row
    BY <1>1, <2>2, WriterSawAll
  <2>3. CASE r1 = row /\ r2 \in reservations
    BY <1>1, <2>3, WriterSawAll, ConflictingSymmetric
  <2>4. CASE r1 = row /\ r2 = row
    BY <2>4
  <2> QED
    BY <1>1, <2>1, <2>2, <2>3, <2>4
<1> QED
  BY <1>4, <1>5, <1>6, <1>7, <1>8 DEF ReservationsInv

-----------------------------------------------------------------------------
(* The other writers find no transaction that holds the lock, and leave     *)
(* only stale ones behind.                                                  *)

LEMMA WriteTx ==
  ASSUME ReservationsInv, Write
  PROVE  /\ tx' \in [Reservers -> {NoTx} \cup OpenTx]
         /\ OneWriter' /\ OpenTxOK' /\ WriterOK'
<1>1. ASSUME NEW g \in Reservers
      PROVE  /\ tx'[g] = Stale(tx[g])
             /\ tx'[g] \in {NoTx} \cup OpenTx
             /\ tx'[g].pc # "inserted"
             /\ tx'[g] # NoTx => tx'[g].row = tx[g].row /\ tx[g] # NoTx /\ ~tx'[g].fresh
  <2>1. tx'[g] = Stale(tx[g]) /\ tx[g].pc # "inserted"
    BY DEF Write, LockFree
  <2>2. tx[g] = NoTx \/ tx[g].pc \in {"read", "inserted"}
    BY TxCases DEF ReservationsInv
  <2> QED
    BY <2>1, <2>2, StaleTx DEF ReservationsInv
<1>2. tx' = [g \in Reservers |-> Stale(tx[g])]
  BY DEF Write
<1>3. tx' \in [Reservers -> {NoTx} \cup OpenTx]
  BY <1>1, <1>2
<1>4. OneWriter' /\ WriterOK'
  BY <1>1 DEF OneWriter, WriterOK
<1>5. OpenTxOK'
  BY <1>1 DEF ReservationsInv, OpenTxOK
<1> QED
  BY <1>3, <1>4, <1>5

LEMMA ReleaseFilesInv ==
  ASSUME ReservationsInv, NEW w \in Workers, ReleaseFiles(w)
  PROVE  ReservationsInv'
<1>1. ReservationsTypeOK' /\ HoldersExist' /\ NoConflictsHeld'
  BY WriteTx DEF ReservationsInv, ReservationsTypeOK, HoldersExist, NoConflictsHeld, ReleaseFiles
<1> QED
  BY <1>1, WriteTx DEF ReservationsInv, ReleaseFiles

LEMMA CreateWorkerInv ==
  ASSUME ReservationsInv, NEW w \in Workers, CreateWorker(w)
  PROVE  ReservationsInv'
<1>1. ReservationsTypeOK' /\ HoldersExist' /\ NoConflictsHeld'
  BY WriteTx DEF ReservationsInv, ReservationsTypeOK, HoldersExist, NoConflictsHeld, CreateWorker
<1> QED
  BY <1>1, WriteTx DEF ReservationsInv, CreateWorker

LEMMA DeleteMissionInv ==
  ASSUME ReservationsInv, NEW m \in Missions, DeleteMission(m)
  PROVE  ReservationsInv'
<1>1. ReservationsTypeOK' /\ HoldersExist' /\ NoConflictsHeld'
  BY WriteTx DEF ReservationsInv, ReservationsTypeOK, HoldersExist, NoConflictsHeld, DeleteMission
<1> QED
  BY <1>1, WriteTx DEF ReservationsInv, DeleteMission

LEMMA OtherWriteInv ==
  ASSUME ReservationsInv, OtherWrite
  PROVE  ReservationsInv'
<1>1. ReservationsTypeOK' /\ HoldersExist' /\ NoConflictsHeld'
  BY WriteTx DEF ReservationsInv, ReservationsTypeOK, HoldersExist, NoConflictsHeld, OtherWrite
<1> QED
  BY <1>1, WriteTx DEF ReservationsInv, OtherWrite

LEMMA RestartInv ==
  ASSUME ReservationsInv, Restart
  PROVE  ReservationsInv'
<1>1. NoTx.pc = "idle"
  BY DEF NoTx
<1>2. \A h \in Reservers : tx'[h] = NoTx
  BY DEF Restart
<1>3. ReservationsTypeOK' /\ HoldersExist' /\ NoConflictsHeld'
  BY DEF ReservationsInv, ReservationsTypeOK, HoldersExist, NoConflictsHeld, Restart
<1>4. OneWriter' /\ OpenTxOK' /\ WriterOK'
  BY <1>1, <1>2 DEF OneWriter, OpenTxOK, WriterOK
<1> QED
  BY <1>3, <1>4 DEF ReservationsInv

-----------------------------------------------------------------------------
(* The theorems.                                                            *)

LEMMA ReservationsInitInv == ReservationsInit => ReservationsInv
<1> SUFFICES ASSUME ReservationsInit PROVE ReservationsInv
  OBVIOUS
<1>1. NoTx.pc = "idle" /\ \A h \in Reservers : tx[h] = NoTx
  BY DEF ReservationsInit, NoTx
<1>2. ReservationsTypeOK /\ HoldersExist /\ NoConflictsHeld
  BY DEF ReservationsInit, ReservationsTypeOK, HoldersExist, NoConflictsHeld
<1>3. OneWriter /\ OpenTxOK /\ WriterOK
  BY <1>1 DEF OneWriter, OpenTxOK, WriterOK
<1> QED
  BY <1>2, <1>3 DEF ReservationsInv

LEMMA ReservationsNextInv ==
  ReservationsInv /\ [ReservationsNext]_reservationVars => ReservationsInv'
<1> SUFFICES ASSUME ReservationsInv, [ReservationsNext]_reservationVars PROVE ReservationsInv'
  OBVIOUS
<1>1. ASSUME NEW h \in Reservers, Reserve(h)
      PROVE  ReservationsInv'
  BY <1>1, BeginAndSelectInv, InsertInv, CommitInv, RollbackInv
     DEF Reserve, Refuse, InsertFails, CommitFails
<1>2. ASSUME NEW w \in Workers, ReleaseFiles(w) \/ CreateWorker(w)
      PROVE  ReservationsInv'
  BY <1>2, ReleaseFilesInv, CreateWorkerInv
<1>3. ASSUME NEW m \in Missions, DeleteMission(m)
      PROVE  ReservationsInv'
  BY <1>3, DeleteMissionInv
<1>4. CASE OtherWrite \/ Restart
  BY <1>4, OtherWriteInv, RestartInv
<1>5. CASE UNCHANGED reservationVars
  BY <1>5 DEF reservationVars, ReservationsInv, ReservationsTypeOK, HoldersExist, OneWriter, OpenTxOK, WriterOK,
              NoConflictsHeld, Rows, Conflicts
<1> QED
  BY <1>1, <1>2, <1>3, <1>4, <1>5 DEF ReservationsNext

LEMMA ReservationsInvHolds == ReservationsSpec => []ReservationsInv
BY ReservationsInitInv, ReservationsNextInv, PTL DEF ReservationsSpec

\* Type correctness: committed rows and open transactions are well formed, and
\* no stored reservation is empty.
THEOREM ReservationsTypeCorrect == ReservationsSpec => []ReservationsTypeOK
BY ReservationsInvHolds, PTL DEF ReservationsInv

\* Deleting missions and restarting the server around open transactions leaves
\* no reservation of a worker or a mission that is gone.
THEOREM HoldersExistHolds == ReservationsSpec => []HoldersExist
BY ReservationsInvHolds, PTL DEF ReservationsInv

\* With patterns that name a directory or a file, two workers of a mission
\* never hold the same file, however many requests run at the same time.
THEOREM NoSharedFileHolds ==
  ASSUME \A p \in Patterns : p.base # <<>>
  PROVE  ReservationsSpec => []NoSharedFile
<1>1. ASSUME ReservationsInv PROVE NoSharedFile
  <2> SUFFICES ASSUME NEW r1 \in reservations, NEW r2 \in reservations,
                      r1.mission = r2.mission, r1.worker # r2.worker,
                      NEW p \in r1.patterns, NEW q \in r2.patterns,
                      NEW f \in Files, Covers(p, f), Covers(q, f)
               PROVE  FALSE
    BY DEF NoSharedFile
  <2>1. p \in Patterns /\ q \in Patterns
    BY <1>1 DEF ReservationsInv, ReservationsTypeOK, Reservation
  <2>2. hasPathOverlap(p, q)
    BY <2>1, SharedFileOverlaps
  <2>3. Conflicting(r1.patterns, r2.patterns)
    BY <2>2 DEF Conflicting
  <2> QED
    BY <1>1, <2>3 DEF ReservationsInv, NoConflictsHeld
<1> QED
  BY <1>1, ReservationsInvHolds, PTL

\* The transactions implement the book: a commit is an entry added when nobody
\* holds a conflicting one, and every other step changes the book as the book
\* allows, or not at all.
THEOREM ImplementsBookHolds == ReservationsSpec => ImplementsBook
<1>1. ReservationsInit => Book!Init
  BY DEF ReservationsInit, Book!Init
<1>2. ReservationsInv /\ [ReservationsNext]_reservationVars => [Book!Next]_reservations
  <2> SUFFICES ASSUME ReservationsInv, [ReservationsNext]_reservationVars
               PROVE  Book!Next \/ UNCHANGED reservations
    OBVIOUS
  <2>1. ASSUME NEW h \in Reservers, Commit(h)
        PROVE  Book!Next
    <3> DEFINE row == tx[h].row
    <3>1. tx[h].pc = "inserted" /\ reservations' = reservations \cup {row}
      BY <2>1 DEF Commit
    <3>2. row \in Reservation
          /\ \A r \in reservations :
               r.mission = row.mission /\ r.worker # row.worker
                 => ~Conflicting(r.patterns, row.patterns)
      BY <3>1, WriterSawAll
    <3>3. /\ row.mission \in Missions /\ row.worker \in Workers
          /\ row.patterns \in SUBSET Patterns
          /\ row = [mission |-> row.mission, worker |-> row.worker,
                    patterns |-> row.patterns]
      BY <3>2 DEF Reservation
    <3>4. Book!Acquire(row.mission, row.worker, row.patterns)
      BY <3>1, <3>2, <3>3 DEF Book!Acquire, Conflicting, Book!Conflicting,
         hasPathOverlap, Book!hasPathOverlap, hasPathPrefix, Book!hasPathPrefix,
         trimGlob, Book!trimGlob
    <3> QED
      BY <3>3, <3>4 DEF Book!Next
  <2>2. ASSUME NEW w \in Workers, ReleaseFiles(w)
        PROVE  Book!Next
    BY <2>2 DEF ReleaseFiles, Book!Next, Book!Release
  <2>3. ASSUME NEW m \in Missions, DeleteMission(m)
        PROVE  Book!Next
    <3> DEFINE members == {w \in Workers : MissionOf[w] = m}
    <3>1. \A r \in reservations : r.worker \in members <=> MissionOf[r.worker] = m
      BY DEF ReservationsInv, ReservationsTypeOK, Reservation
    <3>2. reservations' =
            {r \in reservations : r.mission # m /\ r.worker \notin members}
      BY <2>3, <3>1 DEF DeleteMission
    <3>3. Book!Drop(m, members) /\ members \in SUBSET Workers
      BY <3>2 DEF Book!Drop
    <3> QED
      BY <3>3 DEF Book!Next
  <2>4. CASE \/ \E h \in Reservers : Reserve(h) /\ ~Commit(h)
             \/ \E w \in Workers : CreateWorker(w)
             \/ OtherWrite \/ Restart \/ UNCHANGED reservationVars
    BY <2>4 DEF Reserve, BeginAndSelect, Refuse, Insert, InsertFails, CommitFails,
       Rollback, CreateWorker, OtherWrite, Restart, reservationVars
  <2> QED
    BY <2>1, <2>2, <2>3, <2>4 DEF ReservationsNext
<1> QED
  BY <1>1, <1>2, ReservationsInvHolds, PTL DEF ReservationsSpec, ImplementsBook, Book!Spec

-----------------------------------------------------------------------------
(* Side by side: while one part runs, the other rests.                      *)

LEMMA RequestsStep ==
  [RequestsNext]_<<part, reservationVars, vars>>
    => [ReservationsNext]_reservationVars /\ [Next]_vars
BY DEF RequestsNext

\* Reservations, open transactions, workflows and requests keep their shape, and no
\* reservation is empty, for any number of requests of either kind.
THEOREM RequestsTypeCorrect == RequestsSpec => []RequestsTypeOK
<1>1. RequestsInit => ReservationsInv /\ IndInv
  BY ReservationsInitInv, InitInv DEF RequestsInit
<1>2. ReservationsInv /\ IndInv /\ [RequestsNext]_<<part, reservationVars, vars>>
        => ReservationsInv' /\ IndInv'
  BY RequestsStep, ReservationsNextInv, NextInv
<1>3. ReservationsInv /\ IndInv => RequestsTypeOK
  BY DEF ReservationsInv, IndInv, RowsOK, ProcsOK, LearnOK, TypeOK, RequestsTypeOK
<1> QED
  BY <1>1, <1>2, <1>3, PTL DEF RequestsSpec
=============================================================================
