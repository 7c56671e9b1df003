----------------------------- MODULE MCCoordinator -----------------------------
(* Clients that wait for one another: while a request is served, on whichever    *)
(* connection, none is taken up on the others, not even one that is answered in   *)
(* one step. The goroutine that finishes a workflow runs beside them all the same. *)
EXTENDS Coordinator

Busy(p) == procs[p].pc # "idle"

InTurn ==
  (\E h \in Handlers : Busy(h)) =>
     \E p \in Processes : Busy(p) /\ procs'[p] # procs[p]

OneClientNext == Next /\ InTurn
OneClientSpec == Init /\ [][OneClientNext]_vars
=============================================================================
