-------------------------- MODULE WorkflowLifecycle --------------------------
(***************************************************************************)
(* What a client of the workflow API is promised, with no requests, copies *)
(* or statements in sight: a workflow is created in the first phase of its *)
(* type, advances along the transitions of its type, is annotated in place *)
(* without losing what was recorded, and is removed. Entering "complete"   *)
(* from "learn" starts exactly one learn pipeline.                         *)
(***************************************************************************)
EXTENDS Naturals, WorkflowPhases

CONSTANTS Workflows, None

VARIABLES rows, learnStarted

vars == <<rows, learnStarted>>

Init ==
  /\ rows = [id \in Workflows |-> None]
  /\ learnStarted = [id \in Workflows |-> 0]

Create(id, s) ==
  /\ rows[id] = None
  /\ s.phase = InitialPhase(s.type)
  /\ s.delegated = {} /\ s.tasks = <<>> /\ s.current = None /\ ~s.aborted
  /\ s.session = None /\ s.base = None
  /\ UNCHANGED learnStarted

\* Only the phase changes.
Advance(id, s) ==
  /\ rows[id] # None
  /\ ValidateTransition(rows[id].type, rows[id].phase, s.phase)
  /\ s = [rows[id] EXCEPT !.phase = s.phase]
  /\ learnStarted' =
       IF rows[id].phase = "learn"
       THEN [learnStarted EXCEPT ![id] = @ + 1] ELSE learnStarted

\* Type and phase stay; a delegation is added under the current phase only;
\* an abort is final; a base commit is recorded once; a session and a part of
\* the summary, once present, stay present; the task being worked on is one
\* that was just started.
Annotate(id, s) ==
  LET old == rows[id]
  IN  /\ old # None
      /\ s.type = old.type /\ s.phase = old.phase
      /\ old.delegated \subseteq s.delegated
      /\ \A d \in s.delegated \ old.delegated : d[1] = old.phase
      /\ old.aborted => s.aborted
      /\ old.base # None => s.base = old.base
      /\ old.session # None => s.session # None
      /\ \A p \in DOMAIN old.summary :
           old.summary[p] # "nobody" => s.summary[p] # "nobody"
      /\ s.current # old.current /\ s.current # None
           => s.tasks[s.current + 1] = "in_progress"
      /\ UNCHANGED learnStarted

Remove(id) ==
  /\ rows[id] # None
  /\ UNCHANGED learnStarted

\* A step changes one workflow, into the row s or into no row.
Step(id) ==
  /\ rows' = [rows EXCEPT ![id] = rows'[id]]
  /\ IF rows'[id] = None THEN Remove(id)
     ELSE \/ Create(id, rows'[id])
          \/ Advance(id, rows'[id])
          \/ Annotate(id, rows'[id])

Next == \E id \in Workflows : Step(id)

Spec == Init /\ [][Next]_vars
=============================================================================
