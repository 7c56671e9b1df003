------------------------------- MODULE Worktrees -------------------------------
(* The git worktrees of the workers of one mission. Each is made before its row    *)
(* exists and removed by the goroutine that follows the end of the mission or by  *)
(* the deletion of the mission.                                                   *)
CONSTANTS TreeWorkers,   \* workers that are spawned, each once
          Removals       \* goroutines and requests that remove worktrees

VARIABLES mission,    \* "active", "ended" or "deleted"
          workerRows, \* workers with a row, which names their worktree
          trees,      \* worktrees that exist
          making,     \* how far the creation of each worktree is
          removals,   \* what each removal is and where
          spared      \* worktrees git left behind, in the making in a crash, or of workers
                      \* that came after the deletion of the mission had listed them

treeVars == <<mission, workerRows, trees, making, removals, spared>>

Removal(kind, at, listed, todo) == [kind |-> kind, at |-> at, listed |-> listed, todo |-> todo]
NoRemoval == Removal("none", "idle", {}, {})

TreesInit ==
  /\ mission = "active"
  /\ workerRows = {} /\ trees = {} /\ spared = {}
  /\ making = [t \in TreeWorkers |-> "no"]
  /\ removals = [r \in Removals |-> NoRemoval]

InTheMaking(t) == making[t] \in {"begun", "failing"}
RemovalRuns(r) == removals[r].at \notin {"idle", "done", "dead"}

-----------------------------------------------------------------------------
(* SpawnWorker asks git first and the database, with its foreign key, second. *)
SpawnAddsTree(w) ==
  /\ making[w] = "no"
  /\ trees' = trees \union {w}
  /\ making' = [making EXCEPT ![w] = "begun"]
  /\ UNCHANGED <<mission, workerRows, removals, spared>>

SpawnSavesRow(w) ==
  /\ making[w] = "begun" /\ mission # "deleted"
  /\ workerRows' = workerRows \union {w}
  /\ making' = [making EXCEPT ![w] = "done"]
  /\ UNCHANGED <<mission, trees, removals, spared>>

\* No mission, or the database is busy for too long.
SpawnFails(w) ==
  /\ making[w] = "begun"
  /\ making' = [making EXCEPT ![w] = "failing"]
  /\ UNCHANGED <<mission, workerRows, trees, removals, spared>>

\* What a command of git does not remove is left behind: errors are logged at most.
GitRemoves(w) ==
  \/ trees' = trees \ {w} /\ UNCHANGED spared
  \/ spared' = spared \union {w} /\ UNCHANGED trees

\* Mutant of UndoTree: the error of CreateWorker is just returned.
UndoTreeNot(w) == UNCHANGED <<trees, spared>>

UndoTree(w) == GitRemoves(w)

SpawnCleansUp(w) ==
  /\ making[w] = "failing"
  /\ UndoTree(w)
  /\ making' = [making EXCEPT ![w] = "done"]
  /\ UNCHANGED <<mission, workerRows, removals>>

-----------------------------------------------------------------------------
\* UpdateMissionStatus to complete, failed or aborted starts a goroutine.
EndMission(r) ==
  /\ mission # "deleted" /\ removals[r] = NoRemoval
  /\ mission' = "ended"
  /\ removals' = [removals EXCEPT ![r] = Removal("end", "list", {}, {})]
  /\ UNCHANGED <<workerRows, trees, making, spared>>

\* CleanupMission, of DELETE /api/swarm/missions/{id}.
CleanupMission(r) ==
  /\ removals[r] = NoRemoval
  /\ removals' = [removals EXCEPT ![r] = Removal("cleanup", "list", {}, {})]
  /\ UNCHANGED <<mission, workerRows, trees, making, spared>>

\* Where a removal stands when these of the listed workers are left to do.
Standing(kind, listed, todo) ==
  Removal(kind, IF todo # {} THEN "remove" ELSE IF kind = "cleanup" THEN "delete" ELSE "done",
          listed, todo)

ListWorkersOf(r) ==
  /\ removals[r].at = "list"
  /\ removals' = [removals EXCEPT ![r] = Standing(@.kind, workerRows, workerRows)]
  /\ UNCHANGED <<mission, workerRows, trees, making, spared>>

\* Mutant of LeftAfter: the loop ends with the first worktree.
LeftAfterFirst(r, w) == {}

LeftAfter(r, w) == removals[r].todo \ {w}

RemoveTree(r, w) ==
  /\ removals[r].at = "remove" /\ w \in removals[r].todo
  /\ GitRemoves(w)
  /\ removals' = [removals EXCEPT ![r] = Standing(@.kind, @.listed, LeftAfter(r, w))]
  /\ UNCHANGED <<mission, workerRows, making>>

\* The rows go with the mission, those that came after the listing too.
DeleteMission(r) ==
  /\ removals[r].at = "delete"
  /\ mission' = "deleted"
  /\ spared' = spared \union ((workerRows \intersect trees) \ removals[r].listed)
  /\ workerRows' = {}
  /\ removals' = [removals EXCEPT ![r] = Removal("cleanup", "done", @.listed, {})]
  /\ UNCHANGED <<trees, making>>

\* The workers cannot be listed, or the mission cannot be deleted: the removal ends.
RemovalFails(r) ==
  /\ removals[r].at \in {"list", "delete"}
  /\ removals' = [removals EXCEPT ![r] = Removal(@.kind, "dead", @.listed, @.todo)]
  /\ UNCHANGED <<mission, workerRows, trees, making, spared>>

\* The server stops; nothing looks for worktrees when it starts again.
CrashTrees ==
  /\ (\E t \in TreeWorkers : InTheMaking(t)) \/ (\E r \in Removals : RemovalRuns(r))
  /\ making' = [t \in TreeWorkers |-> IF InTheMaking(t) THEN "done" ELSE making[t]]
  /\ removals' = [r \in Removals |-> IF RemovalRuns(r) THEN [removals[r] EXCEPT !.at = "dead"]
                                     ELSE removals[r]]
  /\ spared' = spared \union {t \in trees : InTheMaking(t)}
  /\ UNCHANGED <<mission, workerRows, trees>>

RemovalStep(r) ==
  ListWorkersOf(r) \/ DeleteMission(r) \/ \E w \in TreeWorkers : RemoveTree(r, w)

TreesNext ==
  \/ CrashTrees
  \/ \E w \in TreeWorkers : \/ SpawnAddsTree(w) \/ SpawnSavesRow(w)
                            \/ SpawnFails(w) \/ SpawnCleansUp(w)
  \/ \E r \in Removals :
       \/ EndMission(r) \/ CleanupMission(r) \/ ListWorkersOf(r) \/ DeleteMission(r)
       \/ RemovalFails(r) \/ \E w \in TreeWorkers : RemoveTree(r, w)

\* A removal that began goes on.
TreesFairness == \A r \in Removals : WF_treeVars(RemovalStep(r))

TreesSpec == TreesInit /\ [][TreesNext]_treeVars /\ TreesFairness

-----------------------------------------------------------------------------
TreesTypeOK ==
  /\ mission \in {"active", "ended", "deleted"}
  /\ workerRows \subseteq TreeWorkers
  /\ trees \subseteq TreeWorkers /\ spared \subseteq TreeWorkers
  /\ making \in [TreeWorkers -> {"no", "begun", "failing", "done"}]
  /\ removals \in [Removals -> [kind : {"none", "end", "cleanup"},
                                at : {"idle", "list", "remove", "delete", "done", "dead"},
                                listed : SUBSET TreeWorkers, todo : SUBSET TreeWorkers]]

\* A worker's worktree that no row names is about to get one or to be removed, whatever
\* other removals and spawns do meanwhile. What remains for good is only what git failed
\* to remove, what was in the making in a crash, and the worktree of a worker that got
\* its row between the listing of the workers and the deletion of the mission; a worker
\* who had been listed leaves none (swarm/store.go:64-112: worktree first, row second).
TreesAccountedFor ==
  \A w \in trees : w \in workerRows \union spared \/ InTheMaking(w)

\* The worktrees of the workers that are there when their mission ends or is deleted
\* go, unless git or the database fails or the server crashes meanwhile
\* (swarm/store.go:64-93, 526-538).
ListedTreesGo ==
  \A r \in Removals, w \in TreeWorkers :
    removals[r].at = "list" /\ w \in workerRows
      ~> w \notin trees \/ w \in spared \/ removals[r].at = "dead"
=============================================================================
