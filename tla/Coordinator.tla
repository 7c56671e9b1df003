----------------------------- MODULE Coordinator -----------------------------
(***************************************************************************)
(* The workflow coordinator (orchestration/coordinator.go) behind its HTTP *)
(* routes (api/routes_orchestration.go, api/routes_summary.go).            *)
(*                                                                         *)
(* A workflow is one row of the "workflows" table. Every mutator of the    *)
(* coordinator reads the row (Get), changes its own copy and writes the    *)
(* whole copy back (save): two statements, no transaction and no lock, and *)
(* net/http runs each request on a goroutine of its own. So a call is two  *)
(* steps here, the step that reads and Save, and between the two anything  *)
(* may happen to the row. POST /api/workflows makes three such calls.      *)
(*                                                                         *)
(* Title, complexity and the timestamps are written and never read by the  *)
(* coordinator, and total_tasks is always the length of tasks: all are     *)
(* left out. Documents are present or absent. A call that only returns (an *)
(* error, nothing to change) leaves every variable alone and is no step.   *)
(***************************************************************************)
EXTENDS Naturals, Sequences, FiniteSets, WorkflowPhases

CONSTANTS
  Workflows,       (* workflow ids                                          *)
  Handlers,        (* requests that may be in progress at the same time     *)
  Goroutines,      (* change-summary goroutines that may be in progress     *)
  StartTypes,      (* workflow types that clients start                     *)
  Agents,          (* agent ids a delegation may name                       *)
  Sessions,        (* Claude Code session ids                               *)
  Commits,         (* what git rev-parse HEAD may print; {}: no repository  *)
  Accepts,         (* the operations that clients call                      *)
  DbMayFail,       (* may a statement of the database fail?                 *)
  MaxTasks,        (* bound: tasks in a task list                           *)
  MaxDelegations,  (* bound: delegations recorded in a workflow             *)
  MaxLearnRuns,    (* bound: learn pipelines started for a workflow         *)
  None             (* no row, no session, no commit, no current task        *)

ASSUME ConstantsAssumption ==
  /\ StartTypes \subseteq WorkflowTypes
  /\ Handlers \cap Goroutines = {}
  /\ DbMayFail \in BOOLEAN
  /\ MaxTasks \in Nat /\ MaxDelegations \in Nat /\ MaxLearnRuns \in Nat
  /\ None \notin Nat
  /\ None \notin Workflows \cup Sessions \cup Commits \cup Phases

VARIABLES
  rows,            (* the workflows table                                   *)
  procs,           (* the call each handler and goroutine is executing      *)
  learnStarted     (* learn pipelines started so far, per workflow          *)

vars == <<rows, procs, learnStarted>>

Processes == Handlers \cup Goroutines

TaskStatus   == {"pending", "in_progress", "done"}
SummaryParts == {"computed", "capabilities", "governance"}
Provider     == {"nobody", "server", "agent"}

\* WorkflowState. summary says who provided each part of change_summary last.
State ==
  [type : WorkflowTypes, phase : Phases,
   delegated : SUBSET (Phases \X Agents),
   tasks : Seq(TaskStatus), current : Nat \cup {None},
   aborted : BOOLEAN, session : Sessions \cup {None},
   docs : SUBSET {"plan", "design"}, base : Commits \cup {None},
   summary : [SummaryParts -> Provider]]

ASSUME NoneIsNoWorkflow == None \notin State

NewState(t) ==
  [type |-> t, phase |-> InitialPhase(t), delegated |-> {}, tasks |-> <<>>,
   current |-> None, aborted |-> FALSE, session |-> None, docs |-> {},
   base |-> None, summary |-> [p \in SummaryParts |-> "nobody"]]

Operations ==
  {"Start", "SetSessionID", "SetBaseCommit", "Transition", "RecordDelegation",
   "SetTasks", "StartTask", "CompleteTask", "Abort", "SetPlanContent",
   "SetDesignContent", "UpdateSessionID", "SetChangeSummary", "Delete"}

\* A process is idle, about to make a call ("session", "base", "summary"), or
\* between the Get and the save of one ("save"): then next is the copy it will
\* write, from the phase it read, and raw says that the request spelled the
\* phase exactly "complete".
Call ==
  [pc : {"idle", "session", "base", "summary", "save"},
   op : Operations \cup {None}, id : Workflows \cup {None},
   next : State \cup {None}, from : Phases \cup {None},
   sid : Sessions \cup {None}, raw : BOOLEAN]

NoCall ==
  [pc |-> "idle", op |-> None, id |-> None, next |-> None, from |-> None,
   sid |-> None, raw |-> FALSE]

At(pc, id, sid) == [NoCall EXCEPT !.pc = pc, !.id = id, !.sid = sid]

Saving(op, id, next) ==
  [NoCall EXCEPT !.pc = "save", !.op = op, !.id = id, !.next = next]

Accepting(h, op) == h \in Handlers /\ op \in Accepts /\ procs[h] = NoCall

Become(p, call) ==
  /\ procs' = [procs EXCEPT ![p] = call]
  /\ UNCHANGED <<rows, learnStarted>>

Init ==
  /\ rows = [id \in Workflows |-> None]
  /\ procs = [p \in Processes |-> NoCall]
  /\ learnStarted = [id \in Workflows |-> 0]

-----------------------------------------------------------------------------
(* POST /api/workflows: Start, then SetSessionID when the request names a   *)
(* session, then SetBaseCommit when git answers. Errors of the second and   *)
(* the third call are ignored.                                              *)

AfterStart(id, sid) == At(IF sid = None THEN "base" ELSE "session", id, sid)

\* Start returns the row it finds; on ANY error of Get it creates a new one.
Start(h, id, t, sid) ==
  /\ Accepting(h, "Start")
  /\ \/ rows[id] # None /\ Become(h, AfterStart(id, sid))
     \/ /\ rows[id] = None \/ DbMayFail
        /\ Become(h, [Saving("Start", id, NewState(t)) EXCEPT !.sid = sid])

\* First writer wins, as far as the copy read can tell.
SetSessionID(h) ==
  LET id == procs[h].id
      s  == rows[id]
  IN  /\ procs[h].pc = "session"
      /\ \/ /\ s = None \/ DbMayFail
            /\ Become(h, At("base", id, None))
         \/ /\ s # None
            /\ IF s.session # None
               THEN Become(h, At("base", id, None))
               ELSE Become(h, Saving("SetSessionID", id,
                                     [s EXCEPT !.session = procs[h].sid]))

\* Mutant of SetBaseCommit: a base commit already captured is replaced.
SetBaseCommitAgain(h) ==
  LET id == procs[h].id
  IN  /\ procs[h].pc = "base"
      /\ \/ Become(h, NoCall)
         \/ /\ rows[id] # None
            /\ \E c \in Commits :
                 Become(h, Saving("SetBaseCommit", id,
                             [rows[id] EXCEPT !.base = c]))

\* A base commit already captured stays.
SetBaseCommit(h) ==
  LET id == procs[h].id
      s  == rows[id]
  IN  /\ procs[h].pc = "base"
      /\ \/ Become(h, NoCall)                    \* git or Get failed
         \/ /\ s # None
            /\ s.base = None
            /\ \E c \in Commits :
                 Become(h, Saving("SetBaseCommit", id, [s EXCEPT !.base = c]))

-----------------------------------------------------------------------------
(* The other mutators: each action is the Get, the checks and the change of *)
(* the copy; Save writes it.                                                *)

\* validatePhaseReadiness only logs warnings. The request's phase is lowered
\* and trimmed before it is validated; raw is FALSE for "Complete".
Transition(h, id, to, raw) ==
  LET s == rows[id]
  IN  /\ Accepting(h, "Transition")
      /\ s # None
      /\ ValidateTransition(s.type, s.phase, to)
      /\ raw => to = "complete"
      /\ s.phase = "learn" => learnStarted[id] < MaxLearnRuns
      /\ Become(h, [Saving("Transition", id, [s EXCEPT !.phase = to])
                      EXCEPT !.from = s.phase, !.raw = raw])

RecordDelegation(h, id, a) ==
  LET s == rows[id]
  IN  /\ Accepting(h, "RecordDelegation")
      /\ s # None
      /\ <<s.phase, a>> \notin s.delegated
      /\ Cardinality(s.delegated) < MaxDelegations
      /\ Become(h, Saving("RecordDelegation", id,
                     [s EXCEPT !.delegated = @ \cup {<<s.phase, a>>}]))

\* The list is replaced; current_task is not reset.
SetTasks(h, id, n) ==
  LET s == rows[id]
  IN  /\ Accepting(h, "SetTasks")
      /\ s # None
      /\ Become(h, Saving("SetTasks", id,
                     [s EXCEPT !.tasks = [i \in 1..n |-> "pending"]]))

StartTask(h, id, index) ==
  LET s == rows[id]
  IN  /\ Accepting(h, "StartTask")
      /\ s # None
      /\ index < Len(s.tasks)
      /\ Become(h, Saving("StartTask", id,
                     [s EXCEPT !.tasks[index + 1] = "in_progress",
                               !.current = index]))

CompleteTask(h, id, index) ==
  LET s == rows[id]
  IN  /\ Accepting(h, "CompleteTask")
      /\ s # None
      /\ index < Len(s.tasks)
      /\ Become(h, Saving("CompleteTask", id,
                     [s EXCEPT !.tasks[index + 1] = "done",
                               !.current = None]))

Abort(h, id) ==
  LET s == rows[id]
  IN  /\ Accepting(h, "Abort")
      /\ s # None
      /\ Become(h, Saving("Abort", id, [s EXCEPT !.aborted = TRUE]))

\* The content may be empty, which removes the document.
SetPlanContent(h, id, present) ==
  LET s == rows[id]
  IN  /\ Accepting(h, "SetPlanContent")
      /\ s # None
      /\ Become(h, Saving("SetPlanContent", id,
                     [s EXCEPT !.docs = IF present THEN @ \cup {"plan"}
                                        ELSE @ \ {"plan"}]))

SetDesignContent(h, id, present) ==
  LET s == rows[id]
  IN  /\ Accepting(h, "SetDesignContent")
      /\ s # None
      /\ Become(h, Saving("SetDesignContent", id,
                     [s EXCEPT !.docs = IF present THEN @ \cup {"design"}
                                        ELSE @ \ {"design"}]))

UpdateSessionID(h, id, sid) ==
  LET s == rows[id]
  IN  /\ Accepting(h, "UpdateSessionID")
      /\ s # None
      /\ Become(h, Saving("UpdateSessionID", id, [s EXCEPT !.session = sid]))

\* A part the incoming summary leaves empty keeps its value.
Merge(summary, parts, who) ==
  [p \in SummaryParts |-> IF p \in parts THEN who ELSE summary[p]]

\* PUT /api/workflows/{id}/summary: an agent submits some of the parts.
SetChangeSummary(h, id, parts) ==
  LET s == rows[id]
  IN  /\ Accepting(h, "SetChangeSummary")
      /\ s # None
      /\ Become(h, Saving("SetChangeSummary", id,
                     [s EXCEPT !.summary = Merge(@, parts, "agent")]))

\* The goroutine computes diff statistics and, when governance documents match
\* the changed modules, a governance_compliance list.
GenerateChangeSummary(g) ==
  LET id == procs[g].id
      s  == rows[id]
  IN  /\ procs[g].pc = "summary"
      /\ \/ /\ s = None \/ DbMayFail
            /\ Become(g, NoCall)
         \/ /\ s # None
            /\ \E parts \in {{"computed"}, {"computed", "governance"}} :
                 Become(g, Saving("SetChangeSummary", id,
                             [s EXCEPT !.summary = Merge(@, parts, "server")]))

\* One statement.
Delete(h, id) ==
  /\ Accepting(h, "Delete")
  /\ rows[id] # None
  /\ rows' = [rows EXCEPT ![id] = None]
  /\ UNCHANGED <<procs, learnStarted>>

-----------------------------------------------------------------------------
(* save and what the handler does after it.                                 *)

AfterSave(c) ==
  IF c.op = "Start" THEN AfterStart(c.id, c.sid)
  ELSE IF c.op = "SetSessionID" THEN At("base", c.id, None) ELSE NoCall

\* Mutant of StartsLearn: the phase read before the transition is not looked at.
StartsLearnFromAnyPhase(c) ==
  c.op = "Transition" /\ c.next.phase = "complete"

StartsLearn(c) ==
  c.op = "Transition" /\ c.from = "learn" /\ c.next.phase = "complete"

\* Mutant of SpawnsSummary: the goroutine starts when the verification is over,
\* not when the workflow is.
SpawnsSummaryAfterVerify(c) ==
  c.op = "Transition" /\ c.from = "verify" /\ c.next.base # None

\* generateChangeSummary returns at once when no base commit was recorded.
SpawnsSummary(c) == c.op = "Transition" /\ c.raw /\ c.next.base # None

\* Mutants of Upsert: an "ON CONFLICT DO UPDATE" that leaves the type column
\* out, and one that adds the stored delegations to the written ones.
UpsertKeepingType(old, new) ==
  IF old = None THEN new ELSE [new EXCEPT !.type = old.type]

UpsertMergingDelegations(old, new) ==
  IF old = None THEN new ELSE [new EXCEPT !.delegated = @ \cup old.delegated]

\* INSERT ... ON CONFLICT DO UPDATE: whatever was there is replaced.
Upsert(old, new) == new

Save(p) ==
  LET c == procs[p]
  IN  /\ c.pc = "save"
      /\ rows' = [rows EXCEPT ![c.id] = Upsert(@, c.next)]
      /\ learnStarted' = IF StartsLearn(c)
                         THEN [learnStarted EXCEPT ![c.id] = @ + 1]
                         ELSE learnStarted
      /\ IF SpawnsSummary(c)
         THEN \E g \in Goroutines :
                /\ procs[g] = NoCall
                /\ procs' = [procs EXCEPT ![p] = AfterSave(c),
                                          ![g] = At("summary", c.id, None)]
         ELSE procs' = [procs EXCEPT ![p] = AfterSave(c)]

\* A failed save: POST /api/workflows goes on after a failed SetSessionID and
\* stops after a failed Start.
SaveFails(p) ==
  /\ DbMayFail
  /\ procs[p].pc = "save"
  /\ Become(p, IF procs[p].op = "SetSessionID"
               THEN At("base", procs[p].id, None) ELSE NoCall)

-----------------------------------------------------------------------------
Request(h) ==
  \E id \in Workflows :
    \/ \E t \in StartTypes, sid \in Sessions \cup {None} : Start(h, id, t, sid)
    \/ \E to \in Phases, raw \in BOOLEAN : Transition(h, id, to, raw)
    \/ \E a \in Agents : RecordDelegation(h, id, a)
    \/ \E n \in 0..MaxTasks : SetTasks(h, id, n)
    \/ \E i \in 0..MaxTasks : StartTask(h, id, i) \/ CompleteTask(h, id, i)
    \/ Abort(h, id)
    \/ \E b \in BOOLEAN : SetPlanContent(h, id, b) \/ SetDesignContent(h, id, b)
    \/ \E sid \in Sessions : UpdateSessionID(h, id, sid)
    \/ \E parts \in SUBSET SummaryParts : SetChangeSummary(h, id, parts)
    \/ Delete(h, id)

Continue(p) ==
  \/ SetSessionID(p) \/ SetBaseCommit(p) \/ GenerateChangeSummary(p)
  \/ Save(p) \/ SaveFails(p)

Next ==
  \/ \E h \in Handlers : Request(h)
  \/ \E p \in Processes : Continue(p)

Spec == Init /\ [][Next]_vars

-----------------------------------------------------------------------------
TypeOK ==
  /\ rows \in [Workflows -> State \cup {None}]
  /\ procs \in [Processes -> Call]
  /\ learnStarted \in [Workflows -> Nat]

\* Every copy of a workflow that exists anywhere: stored, or held by a call
\* that will write it.
Copies ==
  {rows[id] : id \in {i \in Workflows : rows[i] # None}} \cup
  {procs[p].next : p \in {q \in Processes : procs[q].pc = "save"}}

\* Concurrent calls may undo one another, but no interleaving of them, of
\* deletions and of two starts with different types leaves a workflow in a
\* phase that its type does not have (such a row could never advance again:
\* ValidateTransition would reject every request).
PhaseOfItsType == \A s \in Copies : s.phase \in PhasesOf(s.type)

\* A delegation is recorded under the phase it was made in, and whatever
\* interleaving follows, the workflow is never stored in a phase from which
\* that delegation's phase could not have been left behind: the two fields of
\* the row always tell one possible history of the workflow.
DelegationsOnPath ==
  \A s \in Copies : \A d \in s.delegated : CanReach(s.type, d[1], s.phase)

\* README.md:53 and README.md:493: phase transitions are validated before any
\* write. The stored phase of a workflow changes only along a transition of its
\* type. (Holds for one client at a time; concurrent requests break it.)
PhaseStepsValid ==
  [][\A id \in Workflows :
       rows[id] # None /\ rows'[id] # None /\ rows'[id].phase # rows[id].phase
         => ValidateTransition(rows[id].type, rows[id].phase,
                               rows'[id].phase)]_rows

\* What follows holds for one client at a time that deletes nothing, with the
\* goroutine of a finished workflow still running beside its requests.

\* A workflow is handed to the learn pipeline once: "complete" is final, so no
\* sequence of requests makes a second run over the same workflow.
LearnAtMostOnce == \A id \in Workflows : learnStarted[id] <= 1

\* A computed change summary describes finished work: whatever the client does
\* while the goroutine computes, its result is stored on a complete workflow
\* that has the base commit the difference was taken from.
ComputedSummaryIsOfFinishedWork ==
  \A id \in Workflows :
    rows[id] # None /\ rows[id].summary["computed"] = "server"
      => rows[id].phase = "complete" /\ rows[id].base # None

\* The base commit is recorded once: starting the workflow again at a later
\* HEAD, or a copy written back by the goroutine, neither moves nor loses it.
BaseCommitKept ==
  [][\A id \in Workflows :
       rows[id] # None /\ rows[id].base # None
         => rows'[id].base = rows[id].base]_rows

\* orchestration/coordinator.go:579: what an agent submitted in the change
\* summary is not replaced by the goroutine that computes one.
AgentSummaryKept ==
  [][\A id \in Workflows, p \in SummaryParts \ {"computed"} :
       rows[id] # None /\ rows'[id] # None /\ rows[id].summary[p] = "agent"
         => rows'[id].summary[p] = "agent"]_rows

\* A client that waits for each answer before its next request, in a directory
\* that is not a git repository, sees the lifecycle it was promised: the calls,
\* reads and writes of the handlers implement WorkflowLifecycle.
Lifecycle == INSTANCE WorkflowLifecycle
ImplementsLifecycle == Lifecycle!Spec
=============================================================================
