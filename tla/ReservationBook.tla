-------------------------- MODULE ReservationBook --------------------------
(***************************************************************************)
(* What "atomic reservations" (README.md:554) promise a worker: one book   *)
(* per mission; an entry is added in one step, and only when no other      *)
(* worker of the mission holds a conflicting entry at that very moment;    *)
(* a worker's entries go away together.                                    *)
(***************************************************************************)
EXTENDS PathPatterns

CONSTANTS Workers, Missions, Patterns

VARIABLES reservations

Init == reservations = {}

Acquire(mission, worker, patterns) ==
  /\ \A r \in reservations :
       r.mission = mission /\ r.worker # worker
         => ~Conflicting(r.patterns, patterns)
  /\ reservations' = reservations \cup
       {[mission |-> mission, worker |-> worker, patterns |-> patterns]}

\* Every entry of the worker, in whatever mission.
Release(worker) ==
  reservations' = {r \in reservations : r.worker # worker}

\* A deleted mission takes its book with it, and the entries of its workers.
Drop(mission, members) ==
  reservations' =
    {r \in reservations : r.mission # mission /\ r.worker \notin members}

Next ==
  \/ \E m \in Missions, w \in Workers, ps \in SUBSET Patterns : Acquire(m, w, ps)
  \/ \E w \in Workers : Release(w)
  \/ \E m \in Missions, ws \in SUBSET Workers : Drop(m, ws)

Spec == Init /\ [][Next]_reservations
=============================================================================
