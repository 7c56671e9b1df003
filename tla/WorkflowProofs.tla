-------------------------- MODULE WorkflowProofs --------------------------
(***************************************************************************)
(* Proofs about Coordinator, for every set of workflows, handlers, agents, *)
(* sessions and commits: type correctness, and that no interleaving of     *)
(* calls, deletions and failed statements leaves a workflow in a phase     *)
(* foreign to its type or with a delegation off its path.                  *)
(*                                                                         *)
(* The argument is about copies. A call never combines two copies of a     *)
(* workflow: it reads one, changes it, and writes it whole. So a property  *)
(* of one copy that NewState has and that every operation preserves        *)
(* (Good) holds of every copy, stored or in flight, in any interleaving.   *)
(*                                                                         *)
(* For one client at a time more holds, for another reason: whatever copy  *)
(* is held, the row it will replace has not changed in anything that the   *)
(* properties tell apart (UpToDate, OneStepFrom).                          *)
(*                                                                         *)
(* At the end, the guards of the hooks: what a call in progress has read,  *)
(* its witnesses have seen.                                                *)
(***************************************************************************)
EXTENDS Coordinator, HookGuards, SequenceTheorems, WellFoundedInduction, TLAPS

-----------------------------------------------------------------------------
(* Reachability in the phase machine.                                       *)

\* CanReach is membership in ReachableFrom: the table Reachable is only a way
\* to compute it once.
LEMMA CanReachDef ==
  ASSUME NEW t \in WorkflowTypes, NEW p \in PhasesOf(t), NEW q
  PROVE  CanReach(t, p, q) <=> q \in ReachableFrom(t, p)
<1>1. <<p, q>> \in ReachablePairs(t) <=> q \in ReachableFrom(t, p)
  BY DEF ReachablePairs, ReachableFrom
<1>2. <<t, <<p, q>>>> \in Reachable <=> <<p, q>> \in ReachablePairs(t)
  BY DEF Reachable
<1> QED
  BY <1>1, <1>2 DEF CanReach

\* Every phase of a type can reach itself.
LEMMA CanReachSelf ==
  ASSUME NEW t \in WorkflowTypes, NEW p \in PhasesOf(t)
  PROVE  CanReach(t, p, p)
<1>1. p \in ReachableFrom(t, p)
  BY DEF ReachableFrom
<1> QED
  BY <1>1, CanReachDef

\* ValidateTransition leads from a phase of the type to a phase of the type.
LEMMA TransitionStaysInType ==
  ASSUME NEW t \in WorkflowTypes, NEW p \in PhasesOf(t), NEW q,
         ValidateTransition(t, p, q)
  PROVE  q \in PhasesOf(t) /\ q \in Phases
<1>1. CASE t = "spec"
  BY <1>1 DEF ValidateTransition, validTransitions, WorkflowTypes, PhasesOf,
              SpecTransitions, Phases
<1>2. CASE t = "bug"
  BY <1>2 DEF ValidateTransition, validTransitions, WorkflowTypes, PhasesOf,
              BugTransitions, Phases
<1>3. CASE t = "e2e"
  BY <1>3 DEF ValidateTransition, validTransitions, WorkflowTypes, PhasesOf,
              E2ETransitions, Phases
<1> QED
  BY <1>1, <1>2, <1>3 DEF WorkflowTypes

\* What a phase can reach grows along transitions.
LEMMA CanReachStep ==
  ASSUME NEW t \in WorkflowTypes, NEW p \in PhasesOf(t), NEW q \in PhasesOf(t),
         NEW r, CanReach(t, p, q), ValidateTransition(t, q, r)
  PROVE  CanReach(t, p, r)
<1>1. q \in ReachableFrom(t, p)
  BY CanReachDef
<1>2. r \in PhasesOf(t)
  BY TransitionStaysInType
<1>3. ASSUME NEW S \in SUBSET PhasesOf(t), p \in S, Closed(t, S)
      PROVE  r \in S
  <2>1. q \in S
    BY <1>1, <1>3 DEF ReachableFrom
  <2> QED
    BY <2>1, <1>2, <1>3 DEF Closed
<1>4. r \in ReachableFrom(t, p)
  BY <1>2, <1>3 DEF ReachableFrom
<1> QED
  BY <1>4, CanReachDef

-----------------------------------------------------------------------------
(* The inductive invariant. TypeOK alone is not inductive: Save writes the  *)
(* copy a call holds, so the copies in flight must be as good as the rows.  *)

Good(s) ==
  /\ s \in State
  /\ s.phase \in PhasesOf(s.type)
  /\ \A d \in s.delegated : CanReach(s.type, d[1], s.phase)

CallOK(c) ==
  /\ c \in Call
  /\ c.pc # "idle" => c.id \in Workflows
  /\ c.pc = "save" => Good(c.next)

RowsOK == /\ rows \in [Workflows -> State \cup {None}]
          /\ \A id \in Workflows : rows[id] # None => Good(rows[id])

ProcsOK == /\ procs \in [Processes -> Call]
           /\ \A p \in Processes : CallOK(procs[p])

LearnOK == learnStarted \in [Workflows -> Nat]

IndInv == RowsOK /\ ProcsOK /\ LearnOK

-----------------------------------------------------------------------------
(* Every operation turns a good copy into a good copy.                      *)

\* A workflow is created in a phase of its type, with no delegation.
LEMMA NewStateGood ==
  ASSUME NEW t \in WorkflowTypes
  PROVE  Good(NewState(t))
<1>1. InitialPhase(t) \in PhasesOf(t) /\ InitialPhase(t) \in Phases
  BY DEF InitialPhase, PhasesOf, Phases, WorkflowTypes
<1>2. <<>> \in Seq(TaskStatus)
  OBVIOUS
<1>3. [p \in SummaryParts |-> "nobody"] \in [SummaryParts -> Provider]
  BY DEF Provider
<1>4. NewState(t) \in State
  BY <1>1, <1>2, <1>3 DEF NewState, State
<1> QED
  BY <1>1, <1>4 DEF Good, NewState

\* An operation that leaves the type, the phase and the delegations alone
\* keeps a copy good.
LEMMA AnnotationGood ==
  ASSUME NEW s, Good(s), NEW u \in State,
         u.type = s.type, u.phase = s.phase, u.delegated = s.delegated
  PROVE  Good(u)
BY DEF Good

\* A transition that ValidateTransition accepts keeps a copy good: whatever
\* the old phase was reached from reaches the new one.
LEMMA TransitionGood ==
  ASSUME NEW s, Good(s), NEW to, ValidateTransition(s.type, s.phase, to)
  PROVE  Good([s EXCEPT !.phase = to])
<1> DEFINE u == [s EXCEPT !.phase = to]
<1>1. s \in State /\ s.type \in WorkflowTypes /\ s.phase \in PhasesOf(s.type)
  BY DEF Good, State
<1>2. to \in PhasesOf(s.type) /\ to \in Phases
  BY <1>1, TransitionStaysInType
<1>3. u \in State /\ u.type = s.type /\ u.phase = to /\ u.delegated = s.delegated
  BY <1>1, <1>2 DEF State
<1>4. ASSUME NEW d \in s.delegated
      PROVE  CanReach(s.type, d[1], to)
  <2>1. CanReach(s.type, d[1], s.phase)
    BY <1>4 DEF Good
  <2>2. d[1] \in PhasesOf(s.type)
    BY <2>1, <1>1 DEF CanReach, Reachable, ReachablePairs
  <2> QED
    BY <2>1, <2>2, <1>1, CanReachStep
<1> QED
  BY <1>2, <1>3, <1>4 DEF Good

\* A delegation recorded under the phase of the copy keeps it good.
LEMMA DelegationGood ==
  ASSUME NEW s, Good(s), NEW a \in Agents
  PROVE  Good([s EXCEPT !.delegated = @ \cup {<<s.phase, a>>}])
<1> DEFINE u == [s EXCEPT !.delegated = @ \cup {<<s.phase, a>>}]
<1>1. s \in State /\ s.type \in WorkflowTypes /\ s.phase \in PhasesOf(s.type)
  BY DEF Good, State
<1>2. s.delegated \cup {<<s.phase, a>>} \in SUBSET (Phases \X Agents)
  BY <1>1 DEF State
<1>3. u \in State /\ u.type = s.type /\ u.phase = s.phase
      /\ u.delegated = s.delegated \cup {<<s.phase, a>>}
  BY <1>1, <1>2 DEF State
<1>4. CanReach(s.type, s.phase, s.phase)
  BY <1>1, CanReachSelf
<1>5. \A d \in u.delegated : CanReach(s.type, d[1], s.phase)
  BY <1>3, <1>4 DEF Good
<1> QED
  BY <1>1, <1>3, <1>5 DEF Good

\* Replacing a field other than these three by a value of its type keeps a
\* copy good.
LEMMA FieldsGood ==
  ASSUME NEW s, Good(s)
  PROVE  /\ \A x \in Sessions \cup {None} : Good([s EXCEPT !.session = x])
         /\ \A x \in Commits \cup {None} : Good([s EXCEPT !.base = x])
         /\ \A x \in Seq(TaskStatus) : Good([s EXCEPT !.tasks = x])
         /\ Good([s EXCEPT !.aborted = TRUE])
         /\ \A x \in SUBSET {"plan", "design"} : Good([s EXCEPT !.docs = x])
         /\ \A x \in [SummaryParts -> Provider] :
              Good([s EXCEPT !.summary = x])
BY DEF Good, State

\* So does a change of the task list in place, by StartTask and CompleteTask.
LEMMA TaskGood ==
  ASSUME NEW s, Good(s), NEW i \in Nat, i < Len(s.tasks),
         NEW x \in TaskStatus, NEW cur \in Nat \cup {None}
  PROVE  Good([s EXCEPT !.tasks[i + 1] = x, !.current = cur])
<1> DEFINE u == [s EXCEPT !.tasks[i + 1] = x, !.current = cur]
<1>1. s \in State /\ s.tasks \in Seq(TaskStatus)
  BY DEF Good, State
<1>2. [s.tasks EXCEPT ![i + 1] = x] \in Seq(TaskStatus)
  BY <1>1
<1>3. u \in State /\ u.type = s.type /\ u.phase = s.phase
      /\ u.delegated = s.delegated
  BY <1>1, <1>2 DEF State
<1> QED
  BY <1>3, AnnotationGood

\* Merging a summary by an agent or by the server leaves every part with a
\* provider.
LEMMA MergeType ==
  ASSUME NEW m \in [SummaryParts -> Provider], NEW parts, NEW who \in Provider
  PROVE  Merge(m, parts, who) \in [SummaryParts -> Provider]
BY DEF Merge

-----------------------------------------------------------------------------
(* Calls are well formed, and a step that only moves a process from one call *)
(* to another keeps the invariant.                                           *)

LEMMA NoCallOK == CallOK(NoCall)
BY DEF CallOK, NoCall, Call

LEMMA AtOK ==
  ASSUME NEW pc \in {"session", "base", "summary"}, NEW id \in Workflows,
         NEW sid \in Sessions \cup {None}
  PROVE  CallOK(At(pc, id, sid))
BY DEF CallOK, At, NoCall, Call

LEMMA SavingOK ==
  ASSUME NEW op \in Operations, NEW id \in Workflows, NEW s, Good(s)
  PROVE  CallOK(Saving(op, id, s))
BY DEF CallOK, Saving, NoCall, Call, Good

LEMMA SavingStartOK ==
  ASSUME NEW id \in Workflows, NEW s, Good(s), NEW sid \in Sessions \cup {None}
  PROVE  CallOK([Saving("Start", id, s) EXCEPT !.sid = sid])
BY DEF CallOK, Saving, NoCall, Call, Good, Operations

LEMMA SavingTransitionOK ==
  ASSUME NEW id \in Workflows, NEW s, Good(s), NEW from \in Phases,
         NEW raw \in BOOLEAN
  PROVE  CallOK([Saving("Transition", id, s) EXCEPT !.from = from, !.raw = raw])
BY DEF CallOK, Saving, NoCall, Call, Good, Operations

LEMMA BecomeInv ==
  ASSUME IndInv, NEW p \in Processes, NEW c, CallOK(c), Become(p, c)
  PROVE  IndInv'
<1>1. c \in Call
  BY DEF CallOK
<1>2. ProcsOK'
  BY <1>1 DEF IndInv, ProcsOK, Become
<1>3. RowsOK' /\ LearnOK'
  BY DEF IndInv, RowsOK, LearnOK, Become
<1> QED
  BY <1>2, <1>3 DEF IndInv

-----------------------------------------------------------------------------
(* The steps.                                                               *)

\* The step that reads in any mutator: a good row becomes a good copy, held
\* by a well-formed call.
LEMMA MutatorInv ==
  ASSUME IndInv, NEW h \in Handlers, NEW id \in Workflows,
         NEW op \in Operations, NEW s, Good(s),
         Become(h, Saving(op, id, s))
  PROVE  IndInv'
<1>1. h \in Processes
  BY DEF Processes
<1> QED
  BY <1>1, SavingOK, BecomeInv

\* POST /api/workflows, its first call: the row found, or a new one.
LEMMA StartInv ==
  ASSUME IndInv, NEW h \in Handlers, NEW id \in Workflows,
         NEW t \in StartTypes, NEW sid \in Sessions \cup {None},
         Start(h, id, t, sid)
  PROVE  IndInv'
<1>1. h \in Processes /\ t \in WorkflowTypes
  BY ConstantsAssumption DEF Processes
<1>2. CASE Become(h, AfterStart(id, sid))
  <2>1. CallOK(AfterStart(id, sid))
    BY AtOK DEF AfterStart
  <2> QED
    BY <1>1, <1>2, <2>1, BecomeInv
<1>3. CASE Become(h, [Saving("Start", id, NewState(t)) EXCEPT !.sid = sid])
  <2>1. CallOK([Saving("Start", id, NewState(t)) EXCEPT !.sid = sid])
    BY <1>1, NewStateGood, SavingStartOK
  <2> QED
    BY <1>1, <1>3, <2>1, BecomeInv
<1> QED
  BY <1>2, <1>3 DEF Start

\* The second call: a session is set in the copy, or the next call follows.
LEMMA SetSessionIDInv ==
  ASSUME IndInv, NEW h \in Processes, SetSessionID(h)
  PROVE  IndInv'
<1> DEFINE id == procs[h].id
           u == [rows[id] EXCEPT !.session = procs[h].sid]
<1>1. id \in Workflows /\ procs[h].sid \in Sessions \cup {None}
  BY DEF IndInv, ProcsOK, CallOK, SetSessionID, Call
<1>2. CallOK(At("base", id, None))
  BY <1>1, AtOK
<1>3. ASSUME rows[id] # None
      PROVE  CallOK(Saving("SetSessionID", id, u))
  <2>1. Good(u)
    BY <1>1, <1>3, FieldsGood DEF IndInv, RowsOK
  <2> QED
    BY <1>1, <2>1, SavingOK DEF Operations
<1>4. CASE Become(h, At("base", id, None))
  BY <1>2, <1>4, BecomeInv
<1>5. CASE rows[id] # None /\ Become(h, Saving("SetSessionID", id, u))
  BY <1>3, <1>5, BecomeInv
<1> QED
  BY <1>4, <1>5 DEF SetSessionID

\* The third call: a base commit is set in the copy, or the request is over.
LEMMA SetBaseCommitInv ==
  ASSUME IndInv, NEW h \in Processes, SetBaseCommit(h)
  PROVE  IndInv'
<1> DEFINE id == procs[h].id
<1>1. id \in Workflows
  BY DEF IndInv, ProcsOK, CallOK, SetBaseCommit
<1>2. CASE Become(h, NoCall)
  BY <1>2, NoCallOK, BecomeInv
<1>3. CASE rows[id] # None /\ \E c \in Commits :
             Become(h, Saving("SetBaseCommit", id, [rows[id] EXCEPT !.base = c]))
  <2>1. PICK c \in Commits :
          Become(h, Saving("SetBaseCommit", id, [rows[id] EXCEPT !.base = c]))
    BY <1>3
  <2>2. Good([rows[id] EXCEPT !.base = c])
    BY <1>1, <1>3, FieldsGood DEF IndInv, RowsOK
  <2>3. CallOK(Saving("SetBaseCommit", id, [rows[id] EXCEPT !.base = c]))
    BY <1>1, <2>2, SavingOK DEF Operations
  <2> QED
    BY <2>1, <2>3, BecomeInv
<1> QED
  BY <1>2, <1>3 DEF SetBaseCommit

\* The summary goroutine: the server's parts are merged into the copy.
LEMMA GenerateChangeSummaryInv ==
  ASSUME IndInv, NEW g \in Processes, GenerateChangeSummary(g)
  PROVE  IndInv'
<1> DEFINE id == procs[g].id
           u(parts) == [rows[id] EXCEPT !.summary = Merge(@, parts, "server")]
<1>1. id \in Workflows
  BY DEF IndInv, ProcsOK, CallOK, GenerateChangeSummary
<1>2. CASE Become(g, NoCall)
  BY <1>2, NoCallOK, BecomeInv
<1>3. ASSUME rows[id] # None,
             NEW parts \in {{"computed"}, {"computed", "governance"}},
             Become(g, Saving("SetChangeSummary", id, u(parts)))
      PROVE  IndInv'
  <2>1. Good(rows[id])
    BY <1>1, <1>3 DEF IndInv, RowsOK
  <2>2. Merge(rows[id].summary, parts, "server") \in [SummaryParts -> Provider]
    BY <2>1, MergeType DEF Good, State, Provider
  <2>3. Good(u(parts))
    BY <2>1, <2>2, FieldsGood
  <2>4. CallOK(Saving("SetChangeSummary", id, u(parts)))
    BY <1>1, <2>3, SavingOK DEF Operations
  <2> QED
    BY <1>3, <2>4, BecomeInv
<1> QED
  BY <1>2, <1>3 DEF GenerateChangeSummary

\* Any request: one step per operation.
LEMMA RequestInv ==
  ASSUME IndInv, NEW h \in Handlers, Request(h)
  PROVE  IndInv'
<1>1. PICK id \in Workflows :
        \/ \E t \in StartTypes, sid \in Sessions \cup {None} : Start(h, id, t, sid)
        \/ \E to \in Phases, raw \in BOOLEAN : Transition(h, id, to, raw)
        \/ \E a \in Agents : RecordDelegation(h, id, a)
        \/ \E n \in 0..MaxTasks : SetTasks(h, id, n)
        \/ \E i \in 0..MaxTasks : StartTask(h, id, i) \/ CompleteTask(h, id, i)
        \/ Abort(h, id)
        \/ \E b \in BOOLEAN : SetPlanContent(h, id, b) \/ SetDesignContent(h, id, b)
        \/ \E sid \in Sessions : UpdateSessionID(h, id, sid)
        \/ \E parts \in SUBSET SummaryParts : SetChangeSummary(h, id, parts)
        \/ Delete(h, id)
  BY DEF Request
<1>2. rows[id] # None => Good(rows[id])
  BY DEF IndInv, RowsOK
<1>3. h \in Processes
  BY DEF Processes
<1>4. ASSUME NEW t \in StartTypes, NEW sid \in Sessions \cup {None},
             Start(h, id, t, sid)
      PROVE  IndInv'
  BY <1>4, StartInv
<1>5. ASSUME NEW to \in Phases, NEW raw \in BOOLEAN, Transition(h, id, to, raw)
      PROVE  IndInv'
  <2>1. Good([rows[id] EXCEPT !.phase = to])
    BY <1>2, <1>5, TransitionGood DEF Transition
  <2>2. rows[id].phase \in Phases
    BY <1>2, <1>5 DEF Transition, Good, State
  <2> QED
    BY <1>3, <1>5, <2>1, <2>2, SavingTransitionOK, BecomeInv DEF Transition
<1>6. ASSUME NEW a \in Agents, RecordDelegation(h, id, a)
      PROVE  IndInv'
  <2>1. Good([rows[id] EXCEPT !.delegated = @ \cup {<<rows[id].phase, a>>}])
    BY <1>2, <1>6, DelegationGood DEF RecordDelegation
  <2> QED
    BY <1>6, <2>1, MutatorInv DEF RecordDelegation, Operations
<1>7. ASSUME NEW n \in 0..MaxTasks, SetTasks(h, id, n)
      PROVE  IndInv'
  <2>1. [i \in 1..n |-> "pending"] \in Seq(TaskStatus)
    BY ConstantsAssumption DEF TaskStatus
  <2>2. Good([rows[id] EXCEPT !.tasks = [i \in 1..n |-> "pending"]])
    BY <1>2, <1>7, <2>1, FieldsGood DEF SetTasks
  <2> QED
    BY <1>7, <2>2, MutatorInv DEF SetTasks, Operations
<1>8. ASSUME NEW i \in 0..MaxTasks, StartTask(h, id, i)
      PROVE  IndInv'
  <2>1. Good([rows[id] EXCEPT !.tasks[i + 1] = "in_progress", !.current = i])
    <3>1. Good(rows[id]) /\ i < Len(rows[id].tasks)
      BY <1>2, <1>8 DEF StartTask
    <3>2. i \in Nat /\ i \in Nat \cup {None} /\ "in_progress" \in TaskStatus
      BY ConstantsAssumption DEF TaskStatus
    <3> QED
      BY <3>1, <3>2, TaskGood, Zenon
  <2> QED
    BY <1>8, <2>1, MutatorInv DEF StartTask, Operations
<1>9. ASSUME NEW i \in 0..MaxTasks, CompleteTask(h, id, i)
      PROVE  IndInv'
  <2>1. Good([rows[id] EXCEPT !.tasks[i + 1] = "done", !.current = None])
    <3>1. Good(rows[id]) /\ i < Len(rows[id].tasks)
      BY <1>2, <1>9 DEF CompleteTask
    <3>2. i \in Nat /\ None \in Nat \cup {None} /\ "done" \in TaskStatus
      BY ConstantsAssumption DEF TaskStatus
    <3> QED
      BY <3>1, <3>2, TaskGood, Zenon
  <2> QED
    BY <1>9, <2>1, MutatorInv DEF CompleteTask, Operations
<1>10. ASSUME Abort(h, id)
       PROVE  IndInv'
  <2>1. Good([rows[id] EXCEPT !.aborted = TRUE])
    BY <1>2, <1>10, FieldsGood DEF Abort
  <2> QED
    BY <1>10, <2>1, MutatorInv DEF Abort, Operations
<1>11. ASSUME NEW b \in BOOLEAN,
              SetPlanContent(h, id, b) \/ SetDesignContent(h, id, b)
       PROVE  IndInv'
  <2> DEFINE docs(d) == IF b THEN rows[id].docs \cup {d} ELSE rows[id].docs \ {d}
  <2>1. rows[id] # None
    BY <1>11 DEF SetPlanContent, SetDesignContent
  <2>2. ASSUME NEW d \in {"plan", "design"}
        PROVE  Good([rows[id] EXCEPT !.docs = docs(d)])
    <3>1. docs(d) \in SUBSET {"plan", "design"}
      BY <1>2, <2>1 DEF Good, State
    <3> QED
      BY <1>2, <2>1, <3>1, FieldsGood
  <2>3. CASE SetPlanContent(h, id, b)
    BY <2>2, <2>3, MutatorInv DEF SetPlanContent, Operations
  <2>4. CASE SetDesignContent(h, id, b)
    BY <2>2, <2>4, MutatorInv DEF SetDesignContent, Operations
  <2> QED
    BY <1>11, <2>3, <2>4
<1>12. ASSUME NEW sid \in Sessions, UpdateSessionID(h, id, sid)
       PROVE  IndInv'
  <2>1. Good([rows[id] EXCEPT !.session = sid])
    BY <1>2, <1>12, FieldsGood DEF UpdateSessionID
  <2> QED
    BY <1>12, <2>1, MutatorInv DEF UpdateSessionID, Operations
<1>13. ASSUME NEW parts \in SUBSET SummaryParts, SetChangeSummary(h, id, parts)
       PROVE  IndInv'
  <2>1. Merge(rows[id].summary, parts, "agent") \in [SummaryParts -> Provider]
    BY <1>2, <1>13, MergeType DEF SetChangeSummary, Good, State, Provider
  <2>2. Good([rows[id] EXCEPT !.summary = Merge(@, parts, "agent")])
    BY <1>2, <1>13, <2>1, FieldsGood DEF SetChangeSummary
  <2> QED
    BY <1>13, <2>2, MutatorInv DEF SetChangeSummary, Operations
<1>14. ASSUME Delete(h, id)
       PROVE  IndInv'
  <2>1. RowsOK'
    BY <1>14 DEF Delete, IndInv, RowsOK
  <2>2. ProcsOK' /\ LearnOK'
    BY <1>14 DEF Delete, IndInv, ProcsOK, LearnOK
  <2> QED
    BY <2>1, <2>2 DEF IndInv
<1> QED
  BY <1>1, <1>4, <1>5, <1>6, <1>7, <1>8, <1>9, <1>10, <1>11, <1>12, <1>13, <1>14

\* The step that writes: the row becomes the copy the call holds, and the
\* process goes on as its handler does.
LEMMA SaveInv ==
  ASSUME IndInv, NEW p \in Processes, Save(p)
  PROVE  IndInv'
<1> DEFINE c == procs[p]
<1>1. c \in Call /\ c.pc = "save" /\ c.id \in Workflows /\ Good(c.next)
      /\ c.sid \in Sessions \cup {None}
  BY DEF IndInv, ProcsOK, CallOK, Save, Call
<1>2. RowsOK'
  <2>1. rows' = [rows EXCEPT ![c.id] = c.next]
    BY DEF Save, Upsert
  <2> QED
    BY <1>1, <2>1 DEF IndInv, RowsOK, Good
<1>3. LearnOK'
  BY <1>1 DEF Save, IndInv, LearnOK
<1>4. CallOK(AfterSave(c))
  BY <1>1, AtOK, NoCallOK DEF AfterSave, AfterStart
<1>5. ProcsOK'
  <2>1. CASE SpawnsSummary(c)
    <3>1. PICK g \in Goroutines :
            procs' = [procs EXCEPT ![p] = AfterSave(c),
                                   ![g] = At("summary", c.id, None)]
      BY <2>1 DEF Save
    <3>2. CallOK(At("summary", c.id, None))
      BY <1>1, AtOK
    <3> QED
      BY <1>4, <3>1, <3>2 DEF IndInv, ProcsOK, CallOK
  <2>2. CASE ~SpawnsSummary(c)
    <3>1. procs' = [procs EXCEPT ![p] = AfterSave(c)]
      BY <2>2 DEF Save
    <3> QED
      BY <1>4, <3>1 DEF IndInv, ProcsOK, CallOK
  <2> QED
    BY <2>1, <2>2
<1> QED
  BY <1>2, <1>3, <1>5 DEF IndInv

\* A write that fails.
LEMMA SaveFailsInv ==
  ASSUME IndInv, NEW p \in Processes, SaveFails(p)
  PROVE  IndInv'
<1>1. procs[p].id \in Workflows
  BY DEF IndInv, ProcsOK, CallOK, SaveFails
<1>2. CallOK(At("base", procs[p].id, None))
  BY <1>1, AtOK
<1> QED
  BY <1>2, NoCallOK, BecomeInv DEF SaveFails

-----------------------------------------------------------------------------
(* The theorems.                                                            *)

LEMMA InitInv == Init => IndInv
<1> SUFFICES ASSUME Init PROVE IndInv
  OBVIOUS
<1>1. RowsOK /\ LearnOK
  BY DEF Init, RowsOK, LearnOK
<1>2. NoCall \in Call
  BY NoCallOK DEF CallOK
<1>3. ProcsOK
  BY <1>2, NoCallOK DEF Init, ProcsOK
<1> QED
  BY <1>1, <1>3 DEF IndInv

LEMMA NextInv == IndInv /\ [Next]_vars => IndInv'
<1> SUFFICES ASSUME IndInv, [Next]_vars PROVE IndInv'
  OBVIOUS
<1>1. ASSUME NEW h \in Handlers, Request(h)
      PROVE  IndInv'
  BY <1>1, RequestInv
<1>2. ASSUME NEW p \in Processes, Continue(p)
      PROVE  IndInv'
  BY <1>2, SetSessionIDInv, SetBaseCommitInv, GenerateChangeSummaryInv,
     SaveInv, SaveFailsInv DEF Continue
<1>3. CASE UNCHANGED vars
  BY <1>3 DEF vars, IndInv, RowsOK, ProcsOK, LearnOK
<1> QED
  BY <1>1, <1>2, <1>3 DEF Next

LEMMA IndInvHolds == Spec => []IndInv
BY InitInv, NextInv, PTL DEF Spec

\* Type correctness: rows, calls in progress and learn counts are what the
\* coordinator's structs say they are, in every reachable state.
THEOREM TypeCorrect == Spec => []TypeOK
<1>1. IndInv => TypeOK
  BY DEF IndInv, RowsOK, ProcsOK, LearnOK, TypeOK
<1> QED
  BY <1>1, IndInvHolds, PTL

\* However many requests, starts with different types, deletions and failed
\* statements interleave, every copy of a workflow is in a phase of its type.
THEOREM PhaseOfItsTypeHolds == Spec => []PhaseOfItsType
<1>1. IndInv => PhaseOfItsType
  BY DEF IndInv, RowsOK, ProcsOK, CallOK, Good, PhaseOfItsType, Copies
<1> QED
  BY <1>1, IndInvHolds, PTL

\* In every copy of a workflow, each recorded delegation was made in a phase
\* that can have led to the phase of the copy.
THEOREM DelegationsOnPathHolds == Spec => []DelegationsOnPath
<1>1. IndInv => DelegationsOnPath
  BY DEF IndInv, RowsOK, ProcsOK, CallOK, Good, DelegationsOnPath, Copies
<1> QED
  BY <1>1, IndInvHolds, PTL

-----------------------------------------------------------------------------
(* One client at a time, that deletes nothing, on a database whose          *)
(* statements succeed. The goroutine of a finished workflow still runs      *)
(* beside its requests.                                                     *)

OneClient ==
  /\ \A h, k \in Handlers : h = k
  /\ DbMayFail = FALSE
  /\ "Delete" \notin Accepts

\* A call in progress and the row r it will write: a new workflow is written
\* where there is none; any other copy still agrees with the row on what cannot
\* have changed since it was read.
UpToDate(c, r) ==
  IF c.op = "Start"
  THEN r = None /\ c.next.summary["computed"] = "nobody"
  ELSE /\ r # None
       /\ c.next.type = r.type
       /\ r.base # None => c.next.base = r.base
       /\ c.next.summary["computed"] = "server"
            => r.phase = "complete" /\ r.base # None
       /\ IF c.op = "Transition"
          THEN /\ c.from = r.phase
               /\ ValidateTransition(r.type, r.phase, c.next.phase)
               /\ c.raw => c.next.phase = "complete"
          ELSE c.next.phase = r.phase

\* A goroutine works on a complete workflow with a base commit.
Finished(r) == r # None /\ r.phase = "complete" /\ r.base # None

HeldOK(p, c, r) ==
  /\ c.pc = "save" => UpToDate(c, r)
  /\ p \in Handlers => c.pc # "summary"
  /\ p \in Goroutines =>
       /\ c.pc \in {"idle", "summary", "save"}
       /\ c.pc # "idle" => Finished(r)
       /\ c.pc = "save" => c.op = "SetChangeSummary"

RowOK(r, n) ==
  /\ n = 0 \/ (n = 1 /\ r # None /\ r.phase = "complete")
  /\ r # None /\ r.summary["computed"] = "server"
       => r.phase = "complete" /\ r.base # None

OneClientInv ==
  /\ IndInv
  /\ \A id \in Workflows : RowOK(rows[id], learnStarted[id])
  /\ \A p \in Processes : HeldOK(p, procs[p], rows[procs[p].id])

\* "complete" has no successor.
LEMMA CompleteIsFinal ==
  ASSUME NEW t \in WorkflowTypes, NEW to
  PROVE  ~ValidateTransition(t, "complete", to)
BY DEF ValidateTransition, validTransitions, WorkflowTypes, SpecTransitions,
       BugTransitions, E2ETransitions

\* A step that only moves a process to a call that is right about its row.
LEMMA BecomeOne ==
  ASSUME OneClientInv, IndInv', NEW p \in Processes, NEW c,
         HeldOK(p, c, rows[c.id]), Become(p, c)
  PROVE  OneClientInv'
<1>1. \A q \in Processes : procs'[q] = IF q = p THEN c ELSE procs[q]
  BY DEF Become, OneClientInv, IndInv, ProcsOK
<1>2. rows' = rows /\ learnStarted' = learnStarted
  BY DEF Become
<1>3. \A q \in Processes : HeldOK(q, procs'[q], rows'[procs'[q].id])
  BY <1>1, <1>2 DEF OneClientInv
<1>4. \A id \in Workflows : RowOK(rows'[id], learnStarted'[id])
  BY <1>2 DEF OneClientInv
<1> QED
  BY <1>3, <1>4 DEF OneClientInv

\* A call of a handler that is not about to write.
LEMMA WaitingOne ==
  ASSUME OneClientInv, IndInv', NEW h \in Handlers, NEW c,
         c.pc \in {"idle", "session", "base"}, Become(h, c)
  PROVE  OneClientInv'
<1>1. h \in Processes /\ h \notin Goroutines
  BY ConstantsAssumption DEF Processes
<1>2. HeldOK(h, c, rows[c.id])
  BY <1>1 DEF HeldOK
<1> QED
  BY <1>1, <1>2, BecomeOne

\* The step that reads, in a mutator that leaves type and phase alone, a base
\* commit it finds, and what the server computed.
LEMMA AnnotateOne ==
  ASSUME OneClientInv, IndInv', NEW h \in Handlers, NEW id \in Workflows,
         NEW op, op \notin {"Start", "Transition"}, NEW u,
         rows[id] # None, u.type = rows[id].type, u.phase = rows[id].phase,
         rows[id].base # None => u.base = rows[id].base,
         u.summary["computed"] = "server" =>
           rows[id].summary["computed"] = "server",
         Become(h, Saving(op, id, u))
  PROVE  OneClientInv'
<1> DEFINE c == Saving(op, id, u)
<1>1. h \in Processes /\ h \notin Goroutines
  BY ConstantsAssumption DEF Processes
<1>2. c.pc = "save" /\ c.op = op /\ c.id = id /\ c.next = u
  BY DEF Saving, NoCall
<1>3. RowOK(rows[id], learnStarted[id])
  BY DEF OneClientInv
<1>4. UpToDate(c, rows[id])
  BY <1>2, <1>3 DEF UpToDate, RowOK
<1>5. HeldOK(h, c, rows[c.id])
  BY <1>1, <1>2, <1>4 DEF HeldOK
<1> QED
  BY <1>1, <1>5, BecomeOne

\* POST /api/workflows, its three calls.
LEMMA StartOne ==
  ASSUME OneClient, OneClientInv, IndInv', NEW h \in Handlers,
         NEW id \in Workflows, NEW t \in StartTypes,
         NEW sid \in Sessions \cup {None}, Start(h, id, t, sid)
  PROVE  OneClientInv'
<1> DEFINE c == [Saving("Start", id, NewState(t)) EXCEPT !.sid = sid]
<1>1. h \in Processes /\ h \notin Goroutines
  BY ConstantsAssumption DEF Processes
<1>2. CASE Become(h, AfterStart(id, sid))
  <2>1. AfterStart(id, sid).pc \in {"idle", "session", "base"}
    BY DEF AfterStart, At, NoCall
  <2> QED
    BY <1>2, <2>1, WaitingOne
<1>3. CASE rows[id] = None /\ Become(h, c)
  <2>1. c.pc = "save" /\ c.op = "Start" /\ c.id = id /\ c.next = NewState(t)
    BY DEF Saving, NoCall
  <2>2. NewState(t).summary["computed"] = "nobody"
    BY DEF NewState, SummaryParts
  <2>3. HeldOK(h, c, rows[c.id])
    BY <1>1, <1>3, <2>1, <2>2 DEF HeldOK, UpToDate
  <2> QED
    BY <1>1, <1>3, <2>3, BecomeOne
<1> QED
  BY <1>2, <1>3 DEF Start, OneClient

LEMMA SetSessionIDOne ==
  ASSUME OneClientInv, IndInv', NEW h \in Processes, SetSessionID(h)
  PROVE  OneClientInv'
<1> DEFINE id == procs[h].id
           u == [rows[id] EXCEPT !.session = procs[h].sid]
<1>1. h \in Handlers /\ id \in Workflows
  BY DEF OneClientInv, HeldOK, IndInv, ProcsOK, CallOK, SetSessionID, Processes
<1>2. CASE Become(h, At("base", id, None))
  <2>1. At("base", id, None).pc = "base"
    BY DEF At, NoCall
  <2> QED
    BY <1>1, <1>2, <2>1, WaitingOne
<1>3. CASE rows[id] # None /\ Become(h, Saving("SetSessionID", id, u))
  <2>1. rows[id] \in State
    BY <1>1, <1>3 DEF OneClientInv, IndInv, RowsOK, Good
  <2>2. u.type = rows[id].type /\ u.phase = rows[id].phase
        /\ u.base = rows[id].base /\ u.summary = rows[id].summary
    BY <2>1 DEF State
  <2> QED
    BY <1>1, <1>3, <2>2, AnnotateOne
<1> QED
  BY <1>2, <1>3 DEF SetSessionID

LEMMA SetBaseCommitOne ==
  ASSUME OneClientInv, IndInv', NEW h \in Processes, SetBaseCommit(h)
  PROVE  OneClientInv'
<1> DEFINE id == procs[h].id
           u(b) == [rows[id] EXCEPT !.base = b]
<1>1. h \in Handlers /\ id \in Workflows
  BY DEF OneClientInv, HeldOK, IndInv, ProcsOK, CallOK, SetBaseCommit, Processes
<1>2. CASE Become(h, NoCall)
  BY <1>1, <1>2, WaitingOne DEF NoCall
<1>3. ASSUME rows[id] # None, rows[id].base = None, NEW b \in Commits,
             Become(h, Saving("SetBaseCommit", id, u(b)))
      PROVE  OneClientInv'
  <2>1. rows[id] \in State
    BY <1>1, <1>3 DEF OneClientInv, IndInv, RowsOK, Good
  <2>2. u(b).type = rows[id].type /\ u(b).phase = rows[id].phase
        /\ u(b).summary = rows[id].summary
    BY <2>1 DEF State
  <2> QED
    BY <1>1, <1>3, <2>2, AnnotateOne
<1> QED
  BY <1>2, <1>3 DEF SetBaseCommit

\* The goroutine reads a row that is complete and stays so.
LEMMA GenerateChangeSummaryOne ==
  ASSUME OneClientInv, IndInv', NEW g \in Processes, GenerateChangeSummary(g)
  PROVE  OneClientInv'
<1> DEFINE id == procs[g].id
           c(parts) ==
             Saving("SetChangeSummary", id,
                    [rows[id] EXCEPT !.summary = Merge(@, parts, "server")])
<1>1. g \notin Handlers /\ id \in Workflows /\ Finished(rows[id])
  BY DEF OneClientInv, HeldOK, IndInv, ProcsOK, CallOK, GenerateChangeSummary,
         Processes
<1>2. CASE Become(g, NoCall)
  <2>1. HeldOK(g, NoCall, rows[NoCall.id])
    BY DEF HeldOK, NoCall
  <2> QED
    BY <1>2, <2>1, BecomeOne
<1>3. ASSUME NEW parts, Become(g, c(parts))
      PROVE  OneClientInv'
  <2>1. rows[id] \in State
    BY <1>1 DEF OneClientInv, IndInv, RowsOK, Good, Finished
  <2>2. c(parts).pc = "save" /\ c(parts).op = "SetChangeSummary" /\ c(parts).id = id
    BY DEF Saving, NoCall
  <2>3. c(parts).next.type = rows[id].type /\ c(parts).next.phase = rows[id].phase
        /\ c(parts).next.base = rows[id].base
    BY <2>1 DEF Saving, NoCall, State
  <2>4. UpToDate(c(parts), rows[id])
    BY <1>1, <2>2, <2>3 DEF UpToDate, Finished
  <2>5. HeldOK(g, c(parts), rows[c(parts).id])
    BY <1>1, <2>2, <2>4 DEF HeldOK
  <2> QED
    BY <1>3, <2>5, BecomeOne
<1> QED
  BY <1>2, <1>3 DEF GenerateChangeSummary

\* A request: what each operation leaves alone in its copy.
LEMMA RequestOne ==
  ASSUME OneClient, OneClientInv, IndInv', NEW h \in Handlers, Request(h)
  PROVE  OneClientInv'
<1>1. PICK id \in Workflows :
        \/ \E t \in StartTypes, sid \in Sessions \cup {None} : Start(h, id, t, sid)
        \/ \E to \in Phases, raw \in BOOLEAN : Transition(h, id, to, raw)
        \/ \E a \in Agents : RecordDelegation(h, id, a)
        \/ \E n \in 0..MaxTasks : SetTasks(h, id, n)
        \/ \E i \in 0..MaxTasks : StartTask(h, id, i) \/ CompleteTask(h, id, i)
        \/ Abort(h, id)
        \/ \E b \in BOOLEAN : SetPlanContent(h, id, b) \/ SetDesignContent(h, id, b)
        \/ \E sid \in Sessions : UpdateSessionID(h, id, sid)
        \/ \E parts \in SUBSET SummaryParts : SetChangeSummary(h, id, parts)
        \/ Delete(h, id)
  BY DEF Request
<1> DEFINE s == rows[id]
<1>2. s # None => s \in State
  BY DEF OneClientInv, IndInv, RowsOK, Good
<1>3. ASSUME NEW t \in StartTypes, NEW sid \in Sessions \cup {None},
             Start(h, id, t, sid)
      PROVE  OneClientInv'
  BY <1>3, StartOne
<1>4. ASSUME NEW to \in Phases, NEW raw \in BOOLEAN, Transition(h, id, to, raw)
      PROVE  OneClientInv'
  <2> DEFINE u == [s EXCEPT !.phase = to]
             c == [Saving("Transition", id, u) EXCEPT !.from = s.phase, !.raw = raw]
  <2>1. s \in State /\ ValidateTransition(s.type, s.phase, to)
        /\ (raw => to = "complete") /\ Become(h, c)
    BY <1>2, <1>4 DEF Transition
  <2>2. c.pc = "save" /\ c.op = "Transition" /\ c.id = id /\ c.next = u
        /\ c.from = s.phase /\ c.raw = raw
    BY DEF Saving, NoCall
  <2>3. u.type = s.type /\ u.phase = to /\ u.base = s.base /\ u.summary = s.summary
    BY <2>1 DEF State
  <2>4. s # None /\ RowOK(s, learnStarted[id])
    BY <1>4 DEF Transition, OneClientInv
  <2>5. UpToDate(c, s)
    BY <2>1, <2>2, <2>3, <2>4 DEF UpToDate, RowOK
  <2>6. h \in Processes /\ h \notin Goroutines
    BY ConstantsAssumption DEF Processes
  <2>7. HeldOK(h, c, rows[c.id])
    BY <2>2, <2>5, <2>6 DEF HeldOK
  <2> QED
    BY <2>1, <2>6, <2>7, BecomeOne
<1>5. ASSUME NEW a \in Agents, RecordDelegation(h, id, a)
      PROVE  OneClientInv'
  <2> DEFINE u == [s EXCEPT !.delegated = @ \cup {<<s.phase, a>>}]
  <2>1. s # None /\ Become(h, Saving("RecordDelegation", id, u))
    BY <1>5 DEF RecordDelegation
  <2>2. u.type = s.type /\ u.phase = s.phase /\ u.base = s.base
        /\ u.summary = s.summary
    BY <1>2, <2>1 DEF State
  <2> QED
    BY <2>1, <2>2, AnnotateOne
<1>6. ASSUME NEW n \in 0..MaxTasks, SetTasks(h, id, n)
      PROVE  OneClientInv'
  <2> DEFINE u == [s EXCEPT !.tasks = [i \in 1..n |-> "pending"]]
  <2>1. s # None /\ Become(h, Saving("SetTasks", id, u))
    BY <1>6 DEF SetTasks
  <2>2. u.type = s.type /\ u.phase = s.phase /\ u.base = s.base
        /\ u.summary = s.summary
    BY <1>2, <2>1 DEF State
  <2> QED
    BY <2>1, <2>2, AnnotateOne
<1>7. ASSUME NEW i \in 0..MaxTasks, StartTask(h, id, i)
      PROVE  OneClientInv'
  <2> DEFINE u == [s EXCEPT !.tasks[i + 1] = "in_progress", !.current = i]
  <2>1. s # None /\ Become(h, Saving("StartTask", id, u))
    BY <1>7 DEF StartTask
  <2>2. u.type = s.type /\ u.phase = s.phase /\ u.base = s.base
        /\ u.summary = s.summary
    BY <1>2, <2>1 DEF State
  <2> QED
    BY <2>1, <2>2, AnnotateOne
<1>8. ASSUME NEW i \in 0..MaxTasks, CompleteTask(h, id, i)
      PROVE  OneClientInv'
  <2> DEFINE u == [s EXCEPT !.tasks[i + 1] = "done", !.current = None]
  <2>1. s # None /\ Become(h, Saving("CompleteTask", id, u))
    BY <1>8 DEF CompleteTask
  <2>2. u.type = s.type /\ u.phase = s.phase /\ u.base = s.base
        /\ u.summary = s.summary
    BY <1>2, <2>1 DEF State
  <2> QED
    BY <2>1, <2>2, AnnotateOne
<1>9. ASSUME Abort(h, id)
      PROVE  OneClientInv'
  <2> DEFINE u == [s EXCEPT !.aborted = TRUE]
  <2>1. s # None /\ Become(h, Saving("Abort", id, u))
    BY <1>9 DEF Abort
  <2>2. u.type = s.type /\ u.phase = s.phase /\ u.base = s.base
        /\ u.summary = s.summary
    BY <1>2, <2>1 DEF State
  <2> QED
    BY <2>1, <2>2, AnnotateOne
<1>10. ASSUME NEW b \in BOOLEAN,
              SetPlanContent(h, id, b) \/ SetDesignContent(h, id, b)
       PROVE  OneClientInv'
  <2> DEFINE u(docs) == [s EXCEPT !.docs = docs]
  <2>1. s # None
    BY <1>10 DEF SetPlanContent, SetDesignContent
  <2>2. \A docs : u(docs).type = s.type /\ u(docs).phase = s.phase
                  /\ u(docs).base = s.base /\ u(docs).summary = s.summary
    BY <1>2, <2>1 DEF State
  <2>3. \E docs : \/ Become(h, Saving("SetPlanContent", id, u(docs)))
                  \/ Become(h, Saving("SetDesignContent", id, u(docs)))
    BY <1>10 DEF SetPlanContent, SetDesignContent
  <2> QED
    BY <2>1, <2>2, <2>3, AnnotateOne
<1>11. ASSUME NEW sid \in Sessions, UpdateSessionID(h, id, sid)
       PROVE  OneClientInv'
  <2> DEFINE u == [s EXCEPT !.session = sid]
  <2>1. s # None /\ Become(h, Saving("UpdateSessionID", id, u))
    BY <1>11 DEF UpdateSessionID
  <2>2. u.type = s.type /\ u.phase = s.phase /\ u.base = s.base
        /\ u.summary = s.summary
    BY <1>2, <2>1 DEF State
  <2> QED
    BY <2>1, <2>2, AnnotateOne
<1>12. ASSUME NEW parts \in SUBSET SummaryParts, SetChangeSummary(h, id, parts)
       PROVE  OneClientInv'
  <2> DEFINE u == [s EXCEPT !.summary = Merge(@, parts, "agent")]
  <2>1. s # None /\ Become(h, Saving("SetChangeSummary", id, u))
    BY <1>12 DEF SetChangeSummary
  <2>2. u.type = s.type /\ u.phase = s.phase /\ u.base = s.base
        /\ u.summary = Merge(s.summary, parts, "agent")
    BY <1>2, <2>1 DEF State
  <2>3. u.summary["computed"] = "server" => s.summary["computed"] = "server"
    BY <2>2 DEF Merge, SummaryParts
  <2> QED
    BY <2>1, <2>2, <2>3, AnnotateOne
<1>13. ~Delete(h, id)
  BY DEF Delete, Accepting, OneClient
<1> QED
  BY <1>1, <1>3, <1>4, <1>5, <1>6, <1>7, <1>8, <1>9, <1>10, <1>11, <1>12, <1>13

\* A call stays right about its row when the row keeps its type, its phase and
\* its base commit and the call does not start a workflow.
LEMMA HeldKept ==
  ASSUME NEW q, NEW c, NEW r, NEW u, HeldOK(q, c, r), Finished(r),
         r.type \in WorkflowTypes,
         u # None, u.type = r.type, u.phase = r.phase, u.base = r.base
  PROVE  HeldOK(q, c, u)
<1>1. ASSUME c.pc = "save"
      PROVE  UpToDate(c, u)
  <2>1. UpToDate(c, r) /\ c.op # "Start"
    BY <1>1 DEF HeldOK, UpToDate, Finished
  <2>2. c.op # "Transition"
    BY <2>1, CompleteIsFinal DEF UpToDate, Finished
  <2> QED
    BY <2>1, <2>2 DEF UpToDate, Finished
<1> QED
  BY <1>1 DEF HeldOK, Finished

\* The step that writes. Of two calls about one workflow one is the goroutine's,
\* so the workflow is complete and the written copy agrees with the row.
LEMMA SaveOne ==
  ASSUME OneClient, OneClientInv, IndInv', NEW p \in Processes, Save(p)
  PROVE  OneClientInv'
<1> DEFINE c == procs[p]
           id == c.id
           r == rows[id]
           n == learnStarted[id]
<1>1. c.pc = "save" /\ id \in Workflows /\ Good(c.next) /\ UpToDate(c, r)
      /\ HeldOK(p, c, r) /\ RowOK(r, n)
  BY DEF Save, OneClientInv, IndInv, ProcsOK, CallOK, HeldOK
<1>2. rows' = [rows EXCEPT ![id] = c.next]
  BY DEF Save, Upsert
<1>3. rows'[id] = c.next /\ c.next \in State /\ c.next # None
      /\ \A k \in Workflows : k # id => rows'[k] = rows[k]
  <2>1. c.next # None
    BY <1>1, NoneIsNoWorkflow DEF Good
  <2> QED
    BY <1>1, <1>2, <2>1 DEF OneClientInv, IndInv, RowsOK, Good
<1>4. r # None => r.type \in WorkflowTypes
  BY <1>1 DEF OneClientInv, IndInv, RowsOK, Good, State
<1>5. \A k \in Workflows : RowOK(rows'[k], learnStarted'[k])
  <2>1. ASSUME NEW k \in Workflows, k # id
        PROVE  RowOK(rows'[k], learnStarted'[k])
    <3>1. learnStarted'[k] = learnStarted[k]
      BY <2>1 DEF Save, OneClientInv, IndInv, LearnOK
    <3> QED
      BY <1>3, <2>1, <3>1 DEF OneClientInv
  <2>2. RowOK(c.next, learnStarted'[id])
    <3>1. c.next.summary["computed"] = "server" =>
            c.next.phase = "complete" /\ c.next.base # None
      <4>1. CASE c.op = "Start"
        BY <1>1, <4>1 DEF UpToDate
      <4>2. CASE c.op # "Start"
        BY <1>1, <1>4, <4>2, CompleteIsFinal DEF UpToDate
      <4> QED
        BY <4>1, <4>2
    <3>2. CASE StartsLearn(c)
      <4>1. r # None /\ r.phase = "learn" /\ c.next.phase = "complete"
        BY <1>1, <3>2 DEF StartsLearn, UpToDate
      <4>2. n = 0
        BY <1>1, <4>1 DEF RowOK
      <4>3. learnStarted'[id] = 1
        BY <1>1, <3>2, <4>2 DEF Save, OneClientInv, IndInv, LearnOK
      <4> QED
        BY <1>3, <3>1, <4>1, <4>3 DEF RowOK
    <3>3. CASE ~StartsLearn(c)
      <4>1. learnStarted'[id] = n
        BY <3>3 DEF Save
      <4>2. n = 1 => c.next.phase = "complete"
        BY <1>1, <1>4, CompleteIsFinal DEF RowOK, UpToDate
      <4> QED
        BY <1>1, <1>3, <3>1, <4>1, <4>2 DEF RowOK
    <3> QED
      BY <3>2, <3>3
  <2> QED
    BY <1>3, <2>1, <2>2
<1>6. ASSUME NEW q \in Processes, q # p
      PROVE  HeldOK(q, procs[q], rows'[procs[q].id])
  <2> DEFINE d == procs[q]
  <2>1. HeldOK(q, d, rows[d.id]) /\ (d.pc # "idle" => d.id \in Workflows)
    BY DEF OneClientInv, IndInv, ProcsOK, CallOK
  <2>2. CASE d.pc = "idle"
    BY <2>1, <2>2 DEF HeldOK
  <2>3. CASE d.pc # "idle" /\ d.id # id
    BY <1>3, <2>1, <2>3
  <2>4. CASE d.pc # "idle" /\ d.id = id
    <3>1. p \in Goroutines \/ q \in Goroutines
      BY <1>6 DEF Processes, OneClient
    <3>2. Finished(r)
      BY <1>1, <2>1, <2>4, <3>1 DEF HeldOK
    <3>3. c.next.type = r.type /\ c.next.phase = r.phase /\ c.next.base = r.base
      BY <1>1, <1>4, <3>2, CompleteIsFinal DEF UpToDate, Finished
    <3> QED
      BY <1>3, <1>4, <2>1, <2>4, <3>2, <3>3, HeldKept DEF Finished
  <2> QED
    BY <2>2, <2>3, <2>4
<1>7. HeldOK(p, AfterSave(c), rows'[AfterSave(c).id])
  <2>1. AfterSave(c).pc \in {"idle", "session", "base"}
    BY DEF AfterSave, AfterStart, At, NoCall
  <2>2. p \in Goroutines => AfterSave(c).pc = "idle"
    BY <1>1 DEF HeldOK, AfterSave, NoCall
  <2> QED
    BY <2>1, <2>2 DEF HeldOK
<1>8. ASSUME SpawnsSummary(c), NEW g \in Goroutines
      PROVE  HeldOK(g, At("summary", id, None), rows'[id])
  <2>1. Finished(c.next)
    BY <1>1, <1>3, <1>8 DEF SpawnsSummary, UpToDate, Finished
  <2>2. At("summary", id, None).pc = "summary" /\ g \notin Handlers
    BY ConstantsAssumption DEF At, NoCall
  <2> QED
    BY <1>3, <2>1, <2>2 DEF HeldOK
<1>9. \A q \in Processes : HeldOK(q, procs'[q], rows'[procs'[q].id])
  <2>1. CASE SpawnsSummary(c)
    <3>1. PICK g \in Goroutines :
            procs[g] = NoCall /\
            procs' = [procs EXCEPT ![p] = AfterSave(c), ![g] = At("summary", id, None)]
      BY <2>1 DEF Save
    <3>2. \A q \in Processes : procs'[q] = IF q = g THEN At("summary", id, None)
                                  ELSE IF q = p THEN AfterSave(c) ELSE procs[q]
      BY <3>1 DEF OneClientInv, IndInv, ProcsOK
    <3>3. At("summary", id, None).id = id
      BY DEF At, NoCall
    <3> QED
      BY <1>6, <1>7, <1>8, <2>1, <3>2, <3>3
  <2>2. CASE ~SpawnsSummary(c)
    <3>1. \A q \in Processes : procs'[q] = IF q = p THEN AfterSave(c) ELSE procs[q]
      BY <2>2 DEF Save, OneClientInv, IndInv, ProcsOK
    <3> QED
      BY <1>6, <1>7, <3>1
  <2> QED
    BY <2>1, <2>2
<1> QED
  BY <1>5, <1>9 DEF OneClientInv

LEMMA InitOne == Init => OneClientInv
<1> SUFFICES ASSUME Init PROVE OneClientInv
  OBVIOUS
<1>1. \A id \in Workflows : RowOK(rows[id], learnStarted[id])
  BY DEF Init, RowOK
<1>2. \A p \in Processes : HeldOK(p, procs[p], rows[procs[p].id])
  BY DEF Init, HeldOK, NoCall
<1> QED
  BY <1>1, <1>2, InitInv DEF OneClientInv

LEMMA NextOne ==
  ASSUME OneClient, OneClientInv, [Next]_vars
  PROVE  OneClientInv'
<1>1. IndInv'
  BY NextInv DEF OneClientInv
<1>2. ASSUME NEW h \in Handlers, Request(h)
      PROVE  OneClientInv'
  BY <1>1, <1>2, RequestOne
<1>3. ASSUME NEW p \in Processes, Continue(p)
      PROVE  OneClientInv'
  BY <1>1, <1>3, SetSessionIDOne, SetBaseCommitOne, GenerateChangeSummaryOne,
     SaveOne DEF Continue, SaveFails, OneClient
<1>4. CASE UNCHANGED vars
  BY <1>1, <1>4 DEF vars, OneClientInv
<1> QED
  BY <1>2, <1>3, <1>4 DEF Next

\* A request other than a deletion only reads.
LEMMA RequestReads ==
  ASSUME NEW h \in Handlers, Request(h), \A id \in Workflows : ~Delete(h, id)
  PROVE  UNCHANGED <<rows, learnStarted>>
<1>1. \A id, t, sid : Start(h, id, t, sid) => UNCHANGED <<rows, learnStarted>>
  BY DEF Start, Become
<1>2. \A id, to, raw : Transition(h, id, to, raw) => UNCHANGED <<rows, learnStarted>>
  BY DEF Transition, Become
<1>3. \A id, a : RecordDelegation(h, id, a) => UNCHANGED <<rows, learnStarted>>
  BY DEF RecordDelegation, Become
<1>4. \A id, n : SetTasks(h, id, n) => UNCHANGED <<rows, learnStarted>>
  BY DEF SetTasks, Become
<1>5. \A id, i : StartTask(h, id, i) \/ CompleteTask(h, id, i)
                 => UNCHANGED <<rows, learnStarted>>
  BY DEF StartTask, CompleteTask, Become
<1>6. \A id : Abort(h, id) => UNCHANGED <<rows, learnStarted>>
  BY DEF Abort, Become
<1>7. \A id, b : SetPlanContent(h, id, b) \/ SetDesignContent(h, id, b)
                 => UNCHANGED <<rows, learnStarted>>
  BY DEF SetPlanContent, SetDesignContent, Become
<1>8. \A id, sid : UpdateSessionID(h, id, sid) => UNCHANGED <<rows, learnStarted>>
  BY DEF UpdateSessionID, Become
<1>9. \A id, parts : SetChangeSummary(h, id, parts)
                     => UNCHANGED <<rows, learnStarted>>
  BY DEF SetChangeSummary, Become
<1> QED
  BY <1>1, <1>2, <1>3, <1>4, <1>5, <1>6, <1>7, <1>8, <1>9 DEF Request

\* The rows change only when a copy is written.
LEMMA RowsChange ==
  ASSUME OneClient, [Next]_vars, rows' # rows
  PROVE  \E p \in Processes : Save(p)
<1>1. ASSUME NEW h \in Handlers, Request(h)
      PROVE  rows' = rows
  <2>1. \A id \in Workflows : ~Delete(h, id)
    BY DEF Delete, Accepting, OneClient
  <2> QED
    BY <1>1, <2>1, RequestReads
<1>2. ASSUME NEW p \in Processes, Continue(p), ~Save(p)
      PROVE  rows' = rows
  BY <1>2 DEF Continue, SetSessionID, SetBaseCommit, GenerateChangeSummary,
     SaveFails, Become
<1> QED
  BY <1>1, <1>2 DEF Next, vars

\* What a write does to the rows.
LEMMA SaveWrites ==
  ASSUME OneClientInv, NEW p \in Processes, Save(p), NEW id \in Workflows,
         rows[id] # None, rows'[id] # rows[id]
  PROVE  rows'[id] = procs[p].next /\ UpToDate(procs[p], rows[id])
         /\ procs[p].op # "Start"
<1>1. id = procs[p].id
  BY DEF Save, OneClientInv, IndInv, RowsOK
<1>2. rows'[id] = procs[p].next
  BY <1>1 DEF Save, Upsert, OneClientInv, IndInv, RowsOK
<1>3. UpToDate(procs[p], rows[id])
  BY <1>1 DEF Save, OneClientInv, HeldOK
<1> QED
  BY <1>2, <1>3 DEF UpToDate

LEMMA OneClientHolds ==
  ASSUME OneClient
  PROVE  Spec => []OneClientInv
<1>1. OneClientInv /\ [Next]_vars => OneClientInv'
  BY NextOne
<1> QED
  BY <1>1, InitOne, PTL DEF Spec

\* One client at a time: no sequence of its requests, beside the goroutine of a
\* finished workflow, hands a workflow to the learn pipeline twice.
THEOREM LearnAtMostOnceHolds ==
  ASSUME OneClient
  PROVE  Spec => []LearnAtMostOnce
<1>1. OneClientInv => LearnAtMostOnce
  BY DEF OneClientInv, RowOK, LearnAtMostOnce
<1> QED
  BY <1>1, OneClientHolds, PTL

\* One client at a time: what the server computed is stored on a complete
\* workflow that has a base commit.
THEOREM ComputedSummaryHolds ==
  ASSUME OneClient
  PROVE  Spec => []ComputedSummaryIsOfFinishedWork
<1>1. OneClientInv => ComputedSummaryIsOfFinishedWork
  BY DEF OneClientInv, RowOK, ComputedSummaryIsOfFinishedWork
<1> QED
  BY <1>1, OneClientHolds, PTL

\* One client at a time: the stored phase changes only along a transition of
\* the type, although the check and the write are two statements.
THEOREM PhaseStepsValidHolds ==
  ASSUME OneClient
  PROVE  Spec => PhaseStepsValid
<1> DEFINE A == \A id \in Workflows :
       rows[id] # None /\ rows'[id] # None /\ rows'[id].phase # rows[id].phase
         => ValidateTransition(rows[id].type, rows[id].phase, rows'[id].phase)
<1>1. OneClientInv /\ [Next]_vars => [A]_rows
  <2> SUFFICES ASSUME OneClientInv, [Next]_vars, rows' # rows PROVE A
    OBVIOUS
  <2>1. PICK p \in Processes : Save(p)
    BY RowsChange
  <2>2. ASSUME NEW id \in Workflows, rows[id] # None,
               rows'[id].phase # rows[id].phase
        PROVE  ValidateTransition(rows[id].type, rows[id].phase, rows'[id].phase)
    BY <2>1, <2>2, SaveWrites DEF UpToDate
  <2> QED
    BY <2>2
<1> QED
  BY <1>1, OneClientHolds, PTL DEF Spec, PhaseStepsValid

\* One client at a time: a base commit, once stored, is neither moved by another
\* start at a later HEAD nor lost to a copy that the goroutine writes back.
THEOREM BaseCommitKeptHolds ==
  ASSUME OneClient
  PROVE  Spec => BaseCommitKept
<1> DEFINE A == \A id \in Workflows :
       rows[id] # None /\ rows[id].base # None => rows'[id].base = rows[id].base
<1>1. OneClientInv /\ [Next]_vars => [A]_rows
  <2> SUFFICES ASSUME OneClientInv, [Next]_vars, rows' # rows PROVE A
    OBVIOUS
  <2>1. PICK p \in Processes : Save(p)
    BY RowsChange
  <2>2. ASSUME NEW id \in Workflows, rows[id] # None, rows[id].base # None,
               rows'[id] # rows[id]
        PROVE  rows'[id].base = rows[id].base
    BY <2>1, <2>2, SaveWrites DEF UpToDate
  <2> QED
    BY <2>2
<1> QED
  BY <1>1, OneClientHolds, PTL DEF Spec, BaseCommitKept

-----------------------------------------------------------------------------
(* One client in a directory without a git repository sees the lifecycle.   *)

OneClientNoGit ==
  /\ \A h, k \in Handlers : h = k
  /\ DbMayFail = FALSE
  /\ Commits = {}

\* What an annotation keeps of a row.
Annotation(old, s) ==
  /\ s.type = old.type /\ s.phase = old.phase
  /\ old.delegated \subseteq s.delegated
  /\ \A d \in s.delegated \ old.delegated : d[1] = old.phase
  /\ old.aborted => s.aborted
  /\ old.session # None => s.session # None
  /\ \A p \in SummaryParts : old.summary[p] # "nobody" => s.summary[p] # "nobody"
  /\ s.current # old.current /\ s.current # None
       => s.tasks[s.current + 1] = "in_progress"

\* The copy a call will write is a creation, an advance or an annotation of the
\* row as it is now.
OneStepFrom(r, c) ==
  IF c.op = "Start" THEN r = None /\ \E t \in WorkflowTypes : c.next = NewState(t)
  ELSE /\ r # None
       /\ c.next.base = None
       /\ IF c.op = "Transition"
          THEN /\ c.from = r.phase
               /\ ValidateTransition(r.type, r.phase, c.next.phase)
               /\ c.next = [r EXCEPT !.phase = c.next.phase]
          ELSE Annotation(r, c.next)

AloneInv ==
  /\ IndInv
  /\ \A g \in Goroutines : procs[g].pc = "idle"
  /\ \A id \in Workflows : rows[id] # None => rows[id].base = None
  /\ \A h \in Handlers :
       /\ procs[h].pc # "summary"
       /\ procs[h].pc = "save" => OneStepFrom(rows[procs[h].id], procs[h])

\* A step that only moves the handler.
LEMMA BecomeAlone ==
  ASSUME AloneInv, IndInv', NEW h \in Handlers, NEW c, c.pc # "summary",
         c.pc = "save" => OneStepFrom(rows[c.id], c), Become(h, c)
  PROVE  AloneInv'
<1>1. h \in Processes /\ h \notin Goroutines
  BY ConstantsAssumption DEF Processes
<1>2. \A q \in Processes : procs'[q] = IF q = h THEN c ELSE procs[q]
  BY <1>1 DEF Become, AloneInv, IndInv, ProcsOK
<1>3. rows' = rows
  BY DEF Become
<1>4. \A g \in Goroutines : procs'[g].pc = "idle"
  BY <1>1, <1>2 DEF AloneInv, Processes
<1>5. \A k \in Handlers :
        /\ procs'[k].pc # "summary"
        /\ procs'[k].pc = "save" => OneStepFrom(rows'[procs'[k].id], procs'[k])
  BY <1>2, <1>3 DEF AloneInv, Processes
<1> QED
  BY <1>3, <1>4, <1>5 DEF AloneInv

\* The step that reads, in a mutator that annotates.
LEMMA AnnotateAlone ==
  ASSUME AloneInv, IndInv', NEW h \in Handlers, NEW id \in Workflows,
         NEW op, op \notin {"Start", "Transition"}, NEW u, rows[id] # None,
         Annotation(rows[id], u), u.base = rows[id].base,
         Become(h, Saving(op, id, u))
  PROVE  AloneInv'
<1> DEFINE c == Saving(op, id, u)
<1>1. c.pc = "save" /\ c.op = op /\ c.id = id /\ c.next = u
  BY DEF Saving, NoCall
<1>2. OneStepFrom(rows[c.id], c)
  BY <1>1 DEF OneStepFrom, AloneInv
<1> HIDE DEF c
<1> QED
  BY <1>1, <1>2, BecomeAlone DEF c

LEMMA RequestAlone ==
  ASSUME OneClientNoGit, AloneInv, IndInv', NEW h \in Handlers, Request(h)
  PROVE  AloneInv'
<1>1. PICK id \in Workflows :
        \/ \E t \in StartTypes, sid \in Sessions \cup {None} : Start(h, id, t, sid)
        \/ \E to \in Phases, raw \in BOOLEAN : Transition(h, id, to, raw)
        \/ \E a \in Agents : RecordDelegation(h, id, a)
        \/ \E n \in 0..MaxTasks : SetTasks(h, id, n)
        \/ \E i \in 0..MaxTasks : StartTask(h, id, i) \/ CompleteTask(h, id, i)
        \/ Abort(h, id)
        \/ \E b \in BOOLEAN : SetPlanContent(h, id, b) \/ SetDesignContent(h, id, b)
        \/ \E sid \in Sessions : UpdateSessionID(h, id, sid)
        \/ \E parts \in SUBSET SummaryParts : SetChangeSummary(h, id, parts)
        \/ Delete(h, id)
  BY DEF Request
<1> DEFINE s == rows[id]
<1>2. s # None => s \in State /\ s.base = None
  BY DEF AloneInv, IndInv, RowsOK, Good
<1>3. ASSUME NEW t \in StartTypes, NEW sid \in Sessions \cup {None},
             Start(h, id, t, sid)
      PROVE  AloneInv'
  <2> DEFINE c == [Saving("Start", id, NewState(t)) EXCEPT !.sid = sid]
  <2>1. CASE Become(h, AfterStart(id, sid))
    <3>1. AfterStart(id, sid).pc \in {"base", "session"}
      BY DEF AfterStart, At, NoCall
    <3> QED
      BY <2>1, <3>1, BecomeAlone
  <2>2. CASE rows[id] = None /\ Become(h, c)
    <3>1. c.pc = "save" /\ c.op = "Start" /\ c.id = id /\ c.next = NewState(t)
      BY DEF Saving, NoCall
    <3>2. OneStepFrom(rows[c.id], c)
      BY <2>2, <3>1, ConstantsAssumption DEF OneStepFrom
    <3> HIDE DEF c
    <3> QED
      BY <2>2, <3>1, <3>2, BecomeAlone
  <2> QED
    BY <1>3, <2>1, <2>2 DEF Start, OneClientNoGit
<1>4. ASSUME NEW to \in Phases, NEW raw \in BOOLEAN, Transition(h, id, to, raw)
      PROVE  AloneInv'
  <2> DEFINE u == [s EXCEPT !.phase = to]
             c == [Saving("Transition", id, u) EXCEPT !.from = s.phase, !.raw = raw]
  <2>1. s # None /\ ValidateTransition(s.type, s.phase, to) /\ Become(h, c)
    BY <1>4 DEF Transition
  <2>2. c.pc = "save" /\ c.op = "Transition" /\ c.id = id /\ c.next = u
        /\ c.from = s.phase
    BY DEF Saving, NoCall
  <2>3. u.phase = to /\ u.base = None
    BY <1>2, <2>1 DEF State
  <2>4. OneStepFrom(rows[c.id], c)
    BY <2>1, <2>2, <2>3 DEF OneStepFrom
  <2> HIDE DEF c
  <2> QED
    BY <2>1, <2>2, <2>4, BecomeAlone
<1>5. ASSUME NEW a \in Agents, RecordDelegation(h, id, a)
      PROVE  AloneInv'
  <2> DEFINE u == [s EXCEPT !.delegated = @ \cup {<<s.phase, a>>}]
  <2>1. s # None /\ Become(h, Saving("RecordDelegation", id, u))
    BY <1>5 DEF RecordDelegation
  <2>2. Annotation(s, u) /\ u.base = s.base
    BY <1>2, <1>5, <2>1, ConstantsAssumption DEF RecordDelegation, Annotation, State
  <2> QED
    BY <2>1, <2>2, AnnotateAlone
<1>6. ASSUME NEW n \in 0..MaxTasks, SetTasks(h, id, n)
      PROVE  AloneInv'
  <2> DEFINE u == [s EXCEPT !.tasks = [i \in 1..n |-> "pending"]]
  <2>1. s # None /\ Become(h, Saving("SetTasks", id, u))
    BY <1>6 DEF SetTasks
  <2>2. Annotation(s, u) /\ u.base = s.base
    BY <1>2, <1>6, <2>1, ConstantsAssumption DEF SetTasks, Annotation, State
  <2> QED
    BY <2>1, <2>2, AnnotateAlone
<1>7. ASSUME NEW i \in 0..MaxTasks, StartTask(h, id, i)
      PROVE  AloneInv'
  <2> DEFINE u == [s EXCEPT !.tasks[i + 1] = "in_progress", !.current = i]
  <2>1. s # None /\ Become(h, Saving("StartTask", id, u))
    BY <1>7 DEF StartTask
  <2>2. Annotation(s, u) /\ u.base = s.base
    BY <1>2, <1>7, <2>1, ConstantsAssumption DEF StartTask, Annotation, State
  <2> QED
    BY <2>1, <2>2, AnnotateAlone
<1>8. ASSUME NEW i \in 0..MaxTasks, CompleteTask(h, id, i)
      PROVE  AloneInv'
  <2> DEFINE u == [s EXCEPT !.tasks[i + 1] = "done", !.current = None]
  <2>1. s # None /\ Become(h, Saving("CompleteTask", id, u))
    BY <1>8 DEF CompleteTask
  <2>2. Annotation(s, u) /\ u.base = s.base
    BY <1>2, <1>8, <2>1, ConstantsAssumption DEF CompleteTask, Annotation, State
  <2> QED
    BY <2>1, <2>2, AnnotateAlone
<1>9. ASSUME Abort(h, id)
      PROVE  AloneInv'
  <2> DEFINE u == [s EXCEPT !.aborted = TRUE]
  <2>1. s # None /\ Become(h, Saving("Abort", id, u))
    BY <1>9 DEF Abort
  <2>2. Annotation(s, u) /\ u.base = s.base
    BY <1>2, <1>9, <2>1, ConstantsAssumption DEF Abort, Annotation, State
  <2> QED
    BY <2>1, <2>2, AnnotateAlone
<1>10. ASSUME NEW sid \in Sessions, UpdateSessionID(h, id, sid)
      PROVE  AloneInv'
  <2> DEFINE u == [s EXCEPT !.session = sid]
  <2>1. s # None /\ Become(h, Saving("UpdateSessionID", id, u))
    BY <1>10 DEF UpdateSessionID
  <2>2. Annotation(s, u) /\ u.base = s.base
    BY <1>2, <1>10, <2>1, ConstantsAssumption DEF UpdateSessionID, Annotation, State
  <2> QED
    BY <2>1, <2>2, AnnotateAlone
<1>11. ASSUME NEW parts \in SUBSET SummaryParts, SetChangeSummary(h, id, parts)
      PROVE  AloneInv'
  <2> DEFINE u == [s EXCEPT !.summary = Merge(@, parts, "agent")]
  <2>1. s # None /\ Become(h, Saving("SetChangeSummary", id, u))
    BY <1>11 DEF SetChangeSummary
  <2>2. Annotation(s, u) /\ u.base = s.base
    BY <1>2, <1>11, <2>1, ConstantsAssumption DEF SetChangeSummary, Annotation, State, Merge
  <2> QED
    BY <2>1, <2>2, AnnotateAlone
<1>12. ASSUME NEW b \in BOOLEAN,
              SetPlanContent(h, id, b) \/ SetDesignContent(h, id, b)
       PROVE  AloneInv'
  <2> DEFINE u(docs) == [s EXCEPT !.docs = docs]
  <2>1. s # None
    BY <1>12 DEF SetPlanContent, SetDesignContent
  <2>2. \A docs : Annotation(s, u(docs)) /\ u(docs).base = s.base
    BY <1>2, <2>1 DEF Annotation, State
  <2>3. \E docs : \/ Become(h, Saving("SetPlanContent", id, u(docs)))
                  \/ Become(h, Saving("SetDesignContent", id, u(docs)))
    BY <1>12 DEF SetPlanContent, SetDesignContent
  <2> QED
    BY <2>1, <2>2, <2>3, AnnotateAlone
<1>13. ASSUME Delete(h, id)
       PROVE  AloneInv'
  <2>1. procs' = procs /\ rows' = [rows EXCEPT ![id] = None] /\ procs[h].pc = "idle"
    BY <1>13 DEF Delete, Accepting, NoCall
  <2>2. \A k \in Handlers : procs'[k].pc = "idle"
    BY <2>1 DEF OneClientNoGit
  <2>3. \A k \in Workflows : rows'[k] # None => rows'[k].base = None
    BY <2>1 DEF AloneInv, IndInv, RowsOK
  <2> QED
    BY <2>1, <2>2, <2>3 DEF AloneInv
<1> QED
  BY <1>1, <1>3, <1>4, <1>5, <1>6, <1>7, <1>8, <1>9, <1>10, <1>11, <1>12, <1>13

\* What follows a Start: a session for a row that has none; no base commit.
LEMMA ContinueAlone ==
  ASSUME OneClientNoGit, AloneInv, IndInv', NEW p \in Processes, Continue(p), ~Save(p)
  PROVE  AloneInv'
<1> DEFINE id == procs[p].id
           u == [rows[id] EXCEPT !.session = procs[p].sid]
<1>1. p \in Handlers /\ (SetSessionID(p) \/ SetBaseCommit(p))
  BY DEF Continue, SetSessionID, SetBaseCommit, GenerateChangeSummary, SaveFails,
         Processes, AloneInv, OneClientNoGit
<1>2. CASE SetBaseCommit(p)
  <2>1. Become(p, NoCall)
    BY <1>2 DEF SetBaseCommit, OneClientNoGit
  <2> QED
    BY <1>1, <2>1, BecomeAlone DEF NoCall
<1>3. CASE SetSessionID(p)
  <2>1. id \in Workflows
    BY <1>3 DEF SetSessionID, AloneInv, IndInv, ProcsOK, CallOK
  <2>2. CASE Become(p, At("base", id, None))
    <3>1. At("base", id, None).pc = "base"
      BY DEF At, NoCall
    <3> QED
      BY <1>1, <2>2, <3>1, BecomeAlone
  <2>3. CASE /\ rows[id] # None /\ rows[id].session = None
             /\ Become(p, Saving("SetSessionID", id, u))
    <3>1. rows[id] \in State
      BY <2>1, <2>3 DEF AloneInv, IndInv, RowsOK, Good
    <3>2. Annotation(rows[id], u) /\ u.base = rows[id].base
      BY <2>3, <3>1 DEF Annotation, State
    <3> QED
      BY <1>1, <2>1, <2>3, <3>2, AnnotateAlone
  <2> QED
    BY <1>3, <2>2, <2>3 DEF SetSessionID
<1> QED
  BY <1>1, <1>2, <1>3

\* Only the client writes: the row becomes the copy, which is one step from it.
LEMMA SaveAlone ==
  ASSUME OneClientNoGit, AloneInv, IndInv', NEW p \in Processes, Save(p)
  PROVE  /\ AloneInv'
         /\ LET c == procs[p] IN
              /\ c.id \in Workflows /\ OneStepFrom(rows[c.id], c)
              /\ c.next \in State /\ c.next # None
              /\ rows' = [rows EXCEPT ![c.id] = c.next]
<1> DEFINE c == procs[p]
           id == c.id
<1>1. c.pc = "save" /\ id \in Workflows /\ Good(c.next)
  BY DEF Save, AloneInv, IndInv, ProcsOK, CallOK
<1>2. p \in Handlers /\ OneStepFrom(rows[id], c)
  BY <1>1 DEF AloneInv, Processes
<1>3. c.next \in State /\ c.next # None /\ c.next.base = None
  <2>1. c.next \in State /\ c.next # None
    BY <1>1, NoneIsNoWorkflow DEF Good
  <2>2. \A t : NewState(t).base = None
    BY DEF NewState
  <2> QED
    BY <1>2, <2>1, <2>2 DEF OneStepFrom
<1>4. rows' = [rows EXCEPT ![id] = c.next]
  BY DEF Save, Upsert
<1>5. procs' = [procs EXCEPT ![p] = AfterSave(c)]
  BY <1>3 DEF Save, SpawnsSummary
<1>6. AfterSave(c).pc \in {"idle", "session", "base"}
  BY DEF AfterSave, AfterStart, At, NoCall
<1>7. /\ \A g \in Goroutines : procs'[g].pc = "idle"
      /\ \A h \in Handlers : procs'[h].pc \in {"idle", "session", "base"}
  <2>1. \A q \in Processes : procs'[q] = IF q = p THEN AfterSave(c) ELSE procs[q]
    BY <1>5 DEF AloneInv, IndInv, ProcsOK
  <2>2. \A h \in Handlers : h = p
    BY <1>2 DEF OneClientNoGit
  <2>3. p \notin Goroutines
    BY <1>2, ConstantsAssumption
  <2> QED
    BY <1>6, <2>1, <2>2, <2>3 DEF AloneInv, Processes
<1>8. \A k \in Workflows : rows'[k] # None => rows'[k].base = None
  BY <1>1, <1>3, <1>4 DEF AloneInv, IndInv, RowsOK
<1> QED
  BY <1>1, <1>2, <1>3, <1>4, <1>7, <1>8 DEF AloneInv

LEMMA InitAlone == Init => AloneInv
<1> SUFFICES ASSUME Init PROVE AloneInv
  OBVIOUS
<1>1. \A p \in Processes : procs[p].pc = "idle"
  BY DEF Init, NoCall
<1> QED
  BY <1>1, InitInv DEF AloneInv, Init, Processes

LEMMA NextAlone ==
  ASSUME OneClientNoGit, AloneInv, [Next]_vars
  PROVE  AloneInv'
<1>1. IndInv'
  BY NextInv DEF AloneInv
<1>2. ASSUME NEW h \in Handlers, Request(h)
      PROVE  AloneInv'
  BY <1>1, <1>2, RequestAlone
<1>3. ASSUME NEW p \in Processes, Continue(p)
      PROVE  AloneInv'
  BY <1>1, <1>3, ContinueAlone, SaveAlone
<1>4. CASE UNCHANGED vars
  BY <1>1, <1>4 DEF vars, AloneInv
<1> QED
  BY <1>2, <1>3, <1>4 DEF Next

\* "learn" leads to "complete" only.
LEMMA LearnThenComplete ==
  ASSUME NEW t \in WorkflowTypes, NEW to, ValidateTransition(t, "learn", to)
  PROVE  to = "complete"
BY DEF ValidateTransition, validTransitions, WorkflowTypes, SpecTransitions,
       BugTransitions, E2ETransitions

\* A write is a step of the lifecycle.
LEMMA SaveIsStep ==
  ASSUME OneClientNoGit, AloneInv, IndInv', NEW p \in Processes, Save(p)
  PROVE  Lifecycle!Next
<1> DEFINE c == procs[p]
           id == c.id
           r == rows[id]
           s == c.next
<1>1. /\ id \in Workflows /\ OneStepFrom(r, c) /\ s \in State /\ s # None
      /\ rows' = [rows EXCEPT ![id] = s]
  BY SaveAlone
<1>2. rows'[id] = s
  BY <1>1 DEF AloneInv, IndInv, RowsOK
<1>3. r # None => r \in State
  BY <1>1 DEF AloneInv, IndInv, RowsOK, Good
<1>4. learnStarted' = IF StartsLearn(c) THEN [learnStarted EXCEPT ![id] = @ + 1]
                                        ELSE learnStarted
  BY DEF Save
<1>5. CASE c.op = "Start"
  <2>1. PICK t \in WorkflowTypes : s = NewState(t)
    BY <1>1, <1>5 DEF OneStepFrom
  <2>2. r = None /\ learnStarted' = learnStarted
    BY <1>1, <1>4, <1>5 DEF OneStepFrom, StartsLearn
  <2>3. Lifecycle!Create(id, s)
    BY <2>1, <2>2 DEF Lifecycle!Create, NewState, InitialPhase, Lifecycle!InitialPhase
  <2> QED
    BY <1>1, <1>2, <2>3 DEF Lifecycle!Next, Lifecycle!Step
<1>6. CASE c.op = "Transition"
  <2>1. /\ r # None /\ c.from = r.phase /\ ValidateTransition(r.type, r.phase, s.phase)
        /\ s = [r EXCEPT !.phase = s.phase]
    BY <1>1, <1>6 DEF OneStepFrom
  <2>2. StartsLearn(c) <=> r.phase = "learn"
    <3>1. r.type \in WorkflowTypes
      BY <1>3, <2>1 DEF State
    <3> QED
      BY <1>6, <2>1, <3>1, LearnThenComplete DEF StartsLearn
  <2>3. Lifecycle!Advance(id, s)
    BY <1>4, <2>1, <2>2 DEF Lifecycle!Advance, ValidateTransition, validTransitions,
       WorkflowTypes, SpecTransitions, BugTransitions, E2ETransitions,
       Lifecycle!ValidateTransition, Lifecycle!validTransitions,
       Lifecycle!WorkflowTypes, Lifecycle!SpecTransitions,
       Lifecycle!BugTransitions, Lifecycle!E2ETransitions
  <2> QED
    BY <1>1, <1>2, <2>3 DEF Lifecycle!Next, Lifecycle!Step
<1>7. CASE c.op \notin {"Start", "Transition"}
  <2>1. r # None /\ Annotation(r, s) /\ learnStarted' = learnStarted
    BY <1>1, <1>4, <1>7 DEF OneStepFrom, StartsLearn
  <2>2. r.base = None /\ DOMAIN r.summary = SummaryParts
    BY <1>1, <1>3, <2>1 DEF AloneInv, State
  <2>3. Lifecycle!Annotate(id, s)
    BY <2>1, <2>2 DEF Lifecycle!Annotate, Annotation
  <2> QED
    BY <1>1, <1>2, <2>3 DEF Lifecycle!Next, Lifecycle!Step
<1> QED
  BY <1>5, <1>6, <1>7

\* Any other step leaves the lifecycle alone, or removes a workflow.
LEMMA OtherSteps ==
  ASSUME AloneInv, [Next]_vars, \A p \in Processes : ~Save(p)
  PROVE  Lifecycle!Next \/ UNCHANGED <<rows, learnStarted>>
<1>1. ASSUME NEW h \in Handlers, NEW id \in Workflows, Delete(h, id)
      PROVE  Lifecycle!Next
  <2>1. rows[id] # None /\ rows' = [rows EXCEPT ![id] = None]
        /\ learnStarted' = learnStarted
    BY <1>1 DEF Delete
  <2>2. rows'[id] = None
    BY <2>1 DEF AloneInv, IndInv, RowsOK
  <2> QED
    BY <2>1, <2>2 DEF Lifecycle!Next, Lifecycle!Step, Lifecycle!Remove
<1>2. ASSUME NEW h \in Handlers, Request(h), \A id \in Workflows : ~Delete(h, id)
      PROVE  UNCHANGED <<rows, learnStarted>>
  BY <1>2, RequestReads
<1>3. ASSUME NEW p \in Processes, Continue(p)
      PROVE  UNCHANGED <<rows, learnStarted>>
  BY <1>3 DEF Continue, SetSessionID, SetBaseCommit, GenerateChangeSummary,
     SaveFails, Become
<1> QED
  BY <1>1, <1>2, <1>3 DEF Next, vars

\* One client that waits for each answer, in a directory that is no git repository:
\* reads, copies and writes of the handlers implement the lifecycle, for every set
\* of workflows, sessions and agents, and with deletions.
THEOREM ImplementsLifecycleHolds ==
  ASSUME OneClientNoGit
  PROVE  Spec => ImplementsLifecycle
<1>1. Init => Lifecycle!Init
  BY DEF Init, Lifecycle!Init
<1>2. AloneInv /\ [Next]_vars => [Lifecycle!Next]_Lifecycle!vars
  <2> SUFFICES ASSUME AloneInv, [Next]_vars
               PROVE  Lifecycle!Next \/ UNCHANGED <<rows, learnStarted>>
    BY DEF Lifecycle!vars
  <2>1. IndInv'
    BY NextInv DEF AloneInv
  <2> QED
    BY <2>1, SaveIsStep, OtherSteps
<1>3. AloneInv /\ [Next]_vars => AloneInv'
  BY NextAlone
<1> QED
  BY <1>1, <1>2, <1>3, InitAlone, PTL DEF Spec, ImplementsLifecycle, Lifecycle!Spec

-----------------------------------------------------------------------------
(* HookGuards. The list of workflows holds each workflow that is there once,  *)
(* so its first of a set is one of the set; and what a call in progress has   *)
(* seen, its witnesses have.                                                  *)

HookType ==
  [pc : {"idle", "dashboard", "fetch", "phase guard", "write"}, names : SUBSET HookFlows,
   first : HookFlows \union {NoFlow}, agent : GuardedAgents \union {NoFlow},
   listed : SUBSET (HookFlows \X FlowType)]

VerdictType ==
  [flow : HookFlows \union {NoFlow},
   outcome : {"none", "allowed", "blocked", "written", "unguarded"},
   names : SUBSET HookFlows, first : HookFlows \union {NoFlow}]

\* The list of the workflows that are there, each once.
Lists(list, there) ==
  /\ list \in Seq(HookFlows)
  /\ \A m, n \in 1..Len(list) : list[m] = list[n] => m = n
  /\ \A f \in HookFlows : there[f] # NoFlow <=> \E n \in 1..Len(list) : list[n] = f

\* What a call in progress knows is known to the witnesses.
CallWitnessed ==
  hook # NoHook =>
    /\ verdict = NoVerdict
    /\ Fitting(hook.agent, flows) \subseteq fitting
    /\ {f \in HookFlows : flows[f] = NoFlow} \subseteq missing
    /\ inReview => OneInReview(flows)
    /\ \A own \in hook.listed : AllowedIn(hook.agent, own[2]) => own[1] \in fitting
    /\ hook.pc \in {"phase guard", "write"} => hook.names = {}
    /\ hook.pc = "fetch" => hook.first # NoFlow
    /\ hook.pc = "write" => ~inReview

HooksInv ==
  /\ flows \in [HookFlows -> FlowType \union {NoFlow}]
  /\ Lists(recent, flows)
  /\ hook \in HookType /\ verdict \in VerdictType
  /\ fitting \subseteq HookFlows /\ missing \subseteq HookFlows /\ inReview \in BOOLEAN
  /\ CallWitnessed
  /\ HooksDecide

\* A set of natural numbers that is not empty has a least element.
LEMMA LeastNatural ==
  ASSUME NEW T, T \subseteq Nat, T # {}
  PROVE  \E x \in T : \A y \in T : x <= y
<1> DEFINE R == OpToRel(<, Nat)
<1>1. IsWellFoundedOn(R, Nat)
  BY NatLessThanWellFounded
<1>2. \A x, y \in Nat : <<y, x>> \in R <=> y < x
  BY DEF OpToRel
<1> HIDE DEF R
<1>3. PICK x \in T : \A y \in T : ~(<<y, x>> \in R)
  BY <1>1, WFMin
<1>4. ASSUME NEW y \in T
      PROVE  x <= y
  <2>1. ~(y < x)
    BY <1>2, <1>3
  <2> QED
    BY <2>1
<1> QED
  BY <1>4

\* A workflow that is started has a phase of its type.
LEMMA FlowHasType ==
  ASSUME NEW type \in GuardedTypes, NEW mine \in BOOLEAN
  PROVE  Flow(type, mine) \in FlowType
BY HookAssumption DEF Flow, FlowType, InitialPhase, PhasesOf, Phases, WorkflowTypes

\* The first of some workflows that are there is one of them.
LEMMA FirstIsOne ==
  ASSUME Lists(recent, flows), NEW S, S \subseteq HookFlows, S # {},
         \A f \in S : flows[f] # NoFlow
  PROVE  FirstOf(S) \in S
<1> DEFINE T == {n \in 1..Len(recent) : recent[n] \in S}
<1>1. recent \in Seq(HookFlows) /\ DOMAIN recent = 1..Len(recent) /\ Len(recent) \in Nat
  BY DEF Lists
<1>2. T \subseteq Nat /\ T # {}
  BY <1>1 DEF Lists
<1>3. PICK x \in T : \A y \in T : x <= y
  BY <1>2, LeastNatural
<1>4. /\ x \in DOMAIN recent /\ recent[x] \in S
      /\ \A m \in 1..(x - 1) : recent[m] \notin S
  <2>1. x \in 1..Len(recent) /\ recent[x] \in S
    OBVIOUS
  <2>2. ASSUME NEW m \in 1..(x - 1), recent[m] \in S
        PROVE  FALSE
    <3>1. m \in T
      BY <1>1, <2>1, <2>2
    <3>2. x <= m
      BY <1>3, <3>1
    <3> QED
      BY <3>2, <2>1, <1>1
  <2> QED
    BY <1>1, <2>1, <2>2
<1> HIDE DEF T
<1> QED
  BY <1>4 DEF FirstOf

\* Taking a workflow off the list leaves the others in it.
LEMMA WithoutOne ==
  ASSUME Lists(recent, flows), NEW f \in HookFlows
  PROVE  /\ Without(f) \in Seq(HookFlows)
         /\ \A m, n \in 1..Len(Without(f)) : Without(f)[m] = Without(f)[n] => m = n
         /\ \A g \in HookFlows : (\E n \in 1..Len(Without(f)) : Without(f)[n] = g)
                                   <=> flows[g] # NoFlow /\ g # f
<1>1. recent \in Seq(HookFlows) /\ DOMAIN recent = 1..Len(recent) /\ Len(recent) \in Nat
  BY DEF Lists
<1>2. CASE \E n \in DOMAIN recent : recent[n] = f
  <2> DEFINE k == CHOOSE n \in DOMAIN recent : recent[n] = f
             s == SubSeq(recent, 1, k - 1)
             t == SubSeq(recent, k + 1, Len(recent))
  <2>1. k \in 1..Len(recent) /\ recent[k] = f
    BY <1>1, <1>2
  <2>2. Without(f) = s \o t
    BY <1>2 DEF Without
  <2> HIDE DEF k
  <2>3. /\ s \in Seq(HookFlows) /\ Len(s) = k - 1
        /\ \A i \in 1..(k - 1) : s[i] = recent[i]
    <3>1. \A i \in 1..(k - 1) : recent[i] \in HookFlows
      BY <1>1, <2>1
    <3>2. 1 \in Int /\ k - 1 \in Int
      BY <2>1
    <3>3. /\ s \in Seq(HookFlows)
          /\ Len(s) = IF 1 <= k - 1 THEN k - 1 - 1 + 1 ELSE 0
          /\ \A i \in 1..(k - 1 - 1 + 1) : s[i] = recent[1 + i - 1]
      BY <3>1, <3>2, SubSeqProperties
    <3> HIDE DEF s
    <3> QED
      BY <3>3, <2>1, <1>1
  <2>4. /\ t \in Seq(HookFlows) /\ Len(t) = Len(recent) - k
        /\ \A i \in 1..(Len(recent) - k) : t[i] = recent[k + i]
    <3>1. \A i \in (k + 1)..Len(recent) : recent[i] \in HookFlows
      BY <1>1, <2>1
    <3>2. k + 1 \in Int /\ Len(recent) \in Int
      BY <2>1, <1>1
    <3>3. /\ t \in Seq(HookFlows)
          /\ Len(t) = IF k + 1 <= Len(recent) THEN Len(recent) - (k + 1) + 1 ELSE 0
          /\ \A i \in 1..(Len(recent) - (k + 1) + 1) : t[i] = recent[k + 1 + i - 1]
      BY <3>1, <3>2, SubSeqProperties
    <3> HIDE DEF s, t
    <3>4. Len(recent) - (k + 1) + 1 = Len(recent) - k /\ k \in Nat /\ k <= Len(recent)
      BY <2>1, <1>1
    <3>5. \A i \in 1..(Len(recent) - k) : t[i] = recent[k + i]
      <4>1. \A i \in 1..(Len(recent) - k) : k + 1 + i - 1 = k + i
        BY <3>4, <1>1
      <4> QED
        BY <3>3, <3>4, <4>1
    <3>6. Len(t) = Len(recent) - k
      <4>1. CASE k + 1 <= Len(recent)
        BY <3>3, <3>4, <4>1
      <4>2. CASE ~(k + 1 <= Len(recent))
        <5>1. Len(recent) \in Nat
          BY <1>1
        <5>2. \A a, b \in Nat : b <= a /\ ~(b + 1 <= a) => a = b
          OBVIOUS
        <5>3. Len(recent) = k
          BY <3>4, <4>2, <5>1, <5>2
        <5> QED
          BY <3>3, <3>4, <4>2, <5>3
      <4> QED
        BY <4>1, <4>2
    <3> QED
      BY <3>3, <3>5, <3>6
  <2> HIDE DEF s, t
  <2>5. /\ s \o t \in Seq(HookFlows)
        /\ Len(s \o t) = Len(recent) - 1
        /\ \A i \in 1..(Len(recent) - 1) :
             (s \o t)[i] = IF i < k THEN recent[i] ELSE recent[i + 1]
    <3>1. /\ s \o t \in Seq(HookFlows)
          /\ Len(s \o t) = Len(s) + Len(t)
          /\ \A i \in 1..(Len(s) + Len(t)) :
               (s \o t)[i] = IF i <= Len(s) THEN s[i] ELSE t[i - Len(s)]
      BY <2>3, <2>4, ConcatProperties
    <3>2. ASSUME NEW i \in 1..(Len(recent) - 1)
          PROVE  (s \o t)[i] = IF i < k THEN recent[i] ELSE recent[i + 1]
      <4>1. i \in 1..(Len(s) + Len(t))
        BY <1>1, <2>1, <2>3, <2>4
      <4>2. CASE i < k
        BY <1>1, <2>1, <2>3, <2>4, <3>1, <4>1, <4>2
      <4>3. CASE ~(i < k)
        <5>1. i - (k - 1) \in 1..(Len(recent) - k) /\ k + (i - (k - 1)) = i + 1
          BY <1>1, <2>1, <4>3
        <5>2. (s \o t)[i] = t[i - (k - 1)]
          BY <1>1, <2>1, <2>3, <3>1, <4>1, <4>3
        <5> QED
          BY <2>4, <4>3, <5>1, <5>2
      <4> QED
        BY <4>2, <4>3
    <3> QED
      BY <1>1, <2>1, <2>3, <2>4, <3>1, <3>2
  <2> DEFINE u == s \o t
  <2> HIDE DEF u
  <2>6. /\ u \in Seq(HookFlows) /\ Len(u) = Len(recent) - 1
        /\ \A i \in 1..(Len(recent) - 1) :
             u[i] = IF i < k THEN recent[i] ELSE recent[i + 1]
    BY <2>5 DEF u
  <2>7. \A m, n \in 1..Len(u) : u[m] = u[n] => m = n
    BY <1>1, <2>1, <2>6 DEF Lists
  <2>8. ASSUME NEW g \in HookFlows
        PROVE  (\E n \in 1..Len(u) : u[n] = g) <=> flows[g] # NoFlow /\ g # f
    <3>1. ASSUME NEW n \in 1..Len(u), u[n] = g
          PROVE  flows[g] # NoFlow /\ g # f
      BY <1>1, <2>1, <2>6, <3>1 DEF Lists
    <3>2. ASSUME flows[g] # NoFlow, g # f
          PROVE  \E n \in 1..Len(u) : u[n] = g
      <4>1. PICK n \in 1..Len(recent) : recent[n] = g
        BY <3>2 DEF Lists
      <4>2. CASE n < k
        <5>1. n \in 1..Len(u) /\ u[n] = g
          BY <1>1, <2>1, <2>6, <4>1, <4>2
        <5> QED
          BY <5>1
      <4>3. CASE n > k
        <5>1. n - 1 \in 1..Len(u) /\ u[n - 1] = g
          BY <1>1, <2>1, <2>6, <4>1, <4>3
        <5> QED
          BY <5>1
      <4> QED
        BY <1>1, <2>1, <3>2, <4>1, <4>2, <4>3
    <3> QED
      BY <3>1, <3>2
  <2> QED
    BY <2>2, <2>6, <2>7, <2>8 DEF u
<1>3. CASE ~(\E n \in DOMAIN recent : recent[n] = f)
  <2>1. Without(f) = recent
    BY <1>3 DEF Without
  <2> QED
    BY <1>1, <1>3, <2>1 DEF Lists
<1> QED
  BY <1>2, <1>3

\* A list stays one when a workflow is written or removed.
LEMMA PutKeepsList ==
  ASSUME HooksInv, NEW f \in HookFlows, NEW flow \in FlowType \union {NoFlow}, Put(f, flow)
  PROVE  Lists(recent', flows')
<1>1. flows \in [HookFlows -> FlowType \union {NoFlow}] /\ Lists(recent, flows)
  BY DEF HooksInv
<1>2. flows' = [flows EXCEPT ![f] = flow]
  BY DEF Put
<1>3. flows'[f] = flow /\ \A g \in HookFlows : g # f => flows'[g] = flows[g]
  BY <1>1, <1>2
<1> DEFINE s == Without(f)
<1>4. /\ s \in Seq(HookFlows)
      /\ \A m, n \in 1..Len(s) : s[m] = s[n] => m = n
      /\ \A g \in HookFlows : (\E n \in 1..Len(s) : s[n] = g) <=> flows[g] # NoFlow /\ g # f
  BY <1>1, WithoutOne
<1> HIDE DEF s
<1>5. CASE flow = NoFlow
  <2>1. recent' = s
    BY <1>5 DEF Put, s
  <2> QED
    BY <1>3, <1>4, <1>5, <2>1 DEF Lists
<1>6. CASE flow # NoFlow
  <2> DEFINE u == <<f>> \o s
  <2>1. recent' = u
    BY <1>6 DEF Put, Touched, s
  <2>2. /\ u \in Seq(HookFlows) /\ Len(u) = 1 + Len(s)
        /\ \A i \in 1..(1 + Len(s)) : u[i] = IF i <= 1 THEN f ELSE s[i - 1]
    <3>1. <<f>> \in Seq(HookFlows) /\ Len(<<f>>) = 1 /\ <<f>>[1] = f
      OBVIOUS
    <3>2. /\ u \in Seq(HookFlows) /\ Len(u) = Len(<<f>>) + Len(s)
          /\ \A i \in 1..(Len(<<f>>) + Len(s)) :
               u[i] = IF i <= Len(<<f>>) THEN <<f>>[i] ELSE s[i - Len(<<f>>)]
      BY <1>4, <3>1, ConcatProperties
    <3> HIDE DEF u
    <3>3. Len(s) \in Nat
      BY <1>4
    <3> QED
      BY <3>1, <3>2, <3>3
  <2> HIDE DEF u
  <2>3. Len(s) \in Nat
    BY <1>4
  <2>4. \A m, n \in 1..Len(u) : u[m] = u[n] => m = n
    <3>1. \A n \in 2..Len(u) : u[n] = s[n - 1] /\ n - 1 \in 1..Len(s) /\ u[n] # f
      BY <1>4, <2>2, <2>3
    <3>2. u[1] = f
      BY <2>2, <2>3
    <3>3. ASSUME NEW m \in 1..Len(u), NEW n \in 1..Len(u), u[m] = u[n]
          PROVE  m = n
      <4>1. CASE m = 1 \/ n = 1
        <5>1. \A i \in 1..Len(u) : u[i] = f => i = 1
          BY <2>2, <2>3, <3>1
        <5> QED
          BY <3>2, <3>3, <4>1, <5>1
      <4>2. CASE m # 1 /\ n # 1
        <5>1. m \in 2..Len(u) /\ n \in 2..Len(u)
          BY <2>2, <2>3, <4>2
        <5>2. s[m - 1] = s[n - 1] /\ m - 1 \in 1..Len(s) /\ n - 1 \in 1..Len(s)
          BY <3>1, <3>3, <5>1
        <5>3. m - 1 = n - 1
          BY <1>4, <5>2
        <5> QED
          BY <5>1, <5>3
      <4> QED
        BY <4>1, <4>2
    <3> QED
      BY <3>3
  <2>5. ASSUME NEW g \in HookFlows
        PROVE  flows'[g] # NoFlow <=> \E n \in 1..Len(u) : u[n] = g
    <3>1. CASE g = f
      <4>1. 1 \in 1..Len(u) /\ u[1] = g
        BY <2>2, <2>3, <3>1
      <4> QED
        BY <4>1, <3>1, <1>3, <1>6
    <3>2. CASE g # f
      <4>1. ASSUME NEW n \in 1..Len(s), s[n] = g
            PROVE  n + 1 \in 1..Len(u) /\ u[n + 1] = g
        BY <2>2, <2>3, <4>1
      <4>2. ASSUME NEW n \in 1..Len(u), u[n] = g
            PROVE  n - 1 \in 1..Len(s) /\ s[n - 1] = g
        BY <2>2, <2>3, <3>2, <4>2
      <4>3. (\E n \in 1..Len(u) : u[n] = g) <=> (\E n \in 1..Len(s) : s[n] = g)
        BY <4>1, <4>2
      <4> QED
        BY <1>3, <1>4, <3>2, <4>3
    <3> QED
      BY <3>1, <3>2
  <2> QED
    BY <2>1, <2>2, <2>4, <2>5 DEF Lists
<1> QED
  BY <1>5, <1>6

\* At first no workflow is there and no call is in progress.
LEMMA HooksInvInit == HooksInit => HooksInv
<1> SUFFICES ASSUME HooksInit PROVE HooksInv
  OBVIOUS
<1> USE DEF HooksInit
<1>1. flows \in [HookFlows -> FlowType \union {NoFlow}]
  OBVIOUS
<1>2. Lists(recent, flows)
  BY DEF Lists
<1>3. hook \in HookType /\ verdict \in VerdictType
  BY DEF NoHook, NoVerdict, HookType, VerdictType
<1>4. CallWitnessed
  BY DEF CallWitnessed
<1>5. HooksDecide
  BY HookAssumption DEF HooksDecide, FlowsNeverMix, ReviewIsReadOnly, NoVerdict
<1> QED
  BY <1>1, <1>2, <1>3, <1>4, <1>5 DEF HooksInv

\* A workflow is written while a call may be in progress.
LEMMA PutStep ==
  ASSUME HooksInv, NEW f \in HookFlows, NEW flow \in FlowType \union {NoFlow}, Put(f, flow)
  PROVE  HooksInv'
<1>1. /\ flows \in [HookFlows -> FlowType \union {NoFlow}]
      /\ hook \in HookType /\ verdict \in VerdictType
      /\ fitting \subseteq HookFlows /\ missing \subseteq HookFlows /\ inReview \in BOOLEAN
      /\ CallWitnessed /\ HooksDecide
  BY DEF HooksInv
<1>2. flows' = [flows EXCEPT ![f] = flow] /\ hook' = hook /\ Witness
  BY DEF Put
<1>3. flows' \in [HookFlows -> FlowType \union {NoFlow}]
  BY <1>1, <1>2
<1>4. Lists(recent', flows')
  BY PutKeepsList
<1>5. hook' \in HookType
  BY <1>1, <1>2
<1>6. CASE hook = NoHook
  <2>1. verdict' = NoVerdict /\ fitting' = {} /\ missing' = {} /\ inReview' = FALSE
    BY <1>2, <1>6 DEF Witness
  <2>2. verdict' \in VerdictType
    BY <2>1 DEF NoVerdict, VerdictType
  <2>3. CallWitnessed'
    BY <1>2, <1>6 DEF CallWitnessed, NoHook
  <2>4. HooksDecide'
    BY <2>1, HookAssumption DEF HooksDecide, FlowsNeverMix, ReviewIsReadOnly, NoVerdict
  <2> QED
    BY <1>3, <1>4, <1>5, <2>1, <2>2, <2>3, <2>4 DEF HooksInv, Lists
<1>7. CASE hook # NoHook
  <2>1. /\ fitting' = fitting \union Fitting(hook.agent, flows')
        /\ missing' = missing \union {g \in HookFlows : flows'[g] = NoFlow}
        /\ inReview' = (inReview /\ OneInReview(flows')) /\ verdict' = verdict
    BY <1>2, <1>7 DEF Witness
  <2>2. fitting' \subseteq HookFlows /\ missing' \subseteq HookFlows /\ inReview' \in BOOLEAN
    BY <1>1, <2>1 DEF Fitting
  <2>3. CallWitnessed'
    <3>1. verdict' = NoVerdict
      BY <1>1, <1>7, <2>1 DEF CallWitnessed
    <3>2. Fitting(hook'.agent, flows') \subseteq fitting'
      BY <1>2, <2>1
    <3>3. {g \in HookFlows : flows'[g] = NoFlow} \subseteq missing'
      BY <2>1
    <3>4. inReview' => OneInReview(flows')
      BY <2>1
    <3>5. \A own \in hook'.listed : AllowedIn(hook'.agent, own[2]) => own[1] \in fitting'
      BY <1>1, <1>2, <1>7, <2>1 DEF CallWitnessed
    <3>6. /\ hook'.pc \in {"phase guard", "write"} => hook'.names = {}
          /\ hook'.pc = "fetch" => hook'.first # NoFlow
          /\ hook'.pc = "write" => ~inReview'
      BY <1>1, <1>2, <1>7, <2>1 DEF CallWitnessed
    <3> QED
      BY <3>1, <3>2, <3>3, <3>4, <3>5, <3>6 DEF CallWitnessed
  <2>4. HooksDecide'
    BY <1>1, <1>7, <2>1, HookAssumption
       DEF CallWitnessed, HooksDecide, FlowsNeverMix, ReviewIsReadOnly, NoVerdict
  <2> QED
    BY <1>1, <1>3, <1>4, <1>5, <2>1, <2>2, <2>3, <2>4 DEF HooksInv, Lists
<1> QED
  BY <1>6, <1>7

\* A call begins.
LEMMA BeginStep ==
  ASSUME HooksInv, NEW call \in HookType, Begins(call), call.listed = {},
         call.pc \in {"dashboard", "phase guard"},
         call.pc = "phase guard" => call.names = {}
  PROVE  HooksInv'
<1>1. /\ flows' = flows /\ recent' = recent /\ hook' = call /\ verdict' = NoVerdict
      /\ fitting' = Fitting(call.agent, flows)
      /\ missing' = {f \in HookFlows : flows[f] = NoFlow}
      /\ inReview' = OneInReview(flows)
  BY DEF Begins
<1>2. verdict' \in VerdictType
  BY <1>1 DEF NoVerdict, VerdictType
<1>3. fitting' \subseteq HookFlows /\ missing' \subseteq HookFlows /\ inReview' \in BOOLEAN
  BY <1>1 DEF Fitting, OneInReview
<1>4. CallWitnessed'
  BY <1>1 DEF CallWitnessed
<1>5. HooksDecide'
  BY <1>1, HookAssumption DEF HooksDecide, FlowsNeverMix, ReviewIsReadOnly, NoVerdict
<1>6. Lists(recent, flows) /\ flows \in [HookFlows -> FlowType \union {NoFlow}]
  BY DEF HooksInv
<1> QED
  BY <1>1, <1>2, <1>3, <1>4, <1>5, <1>6 DEF HooksInv

\* A call ends with a verdict the witnesses bear out.
LEMMA EndStep ==
  ASSUME HooksInv, NEW flow \in HookFlows \union {NoFlow},
         NEW outcome \in {"allowed", "blocked", "written", "unguarded"},
         HookEnds(flow, outcome), hook # NoHook,
         \A f \in HookFlows :
           hook.names = {f} /\ hook.first = f /\ f \notin missing => flow \in {f, NoFlow},
         outcome = "allowed" => flow \in fitting,
         outcome = "written" => ~inReview
  PROVE  HooksInv'
<1>1. /\ hook' = NoHook /\ flows' = flows /\ recent' = recent
      /\ verdict' = [flow |-> flow, outcome |-> outcome, names |-> hook.names,
                     first |-> hook.first]
      /\ fitting' = fitting /\ missing' = missing /\ inReview' = inReview
  BY DEF HookEnds
<1>2. hook \in HookType
  BY DEF HooksInv
<1>3. verdict' \in VerdictType /\ hook' \in HookType
  BY <1>1, <1>2 DEF HookType, VerdictType, NoHook
<1>4. CallWitnessed'
  BY <1>1 DEF CallWitnessed
<1>5. HooksDecide'
  <2>1. /\ verdict'.flow = flow /\ verdict'.outcome = outcome
        /\ verdict'.names = hook.names /\ verdict'.first = hook.first
    BY <1>1
  <2> QED
    BY <1>1, <2>1 DEF HooksDecide, FlowsNeverMix, ReviewIsReadOnly
<1> QED
  BY <1>1, <1>3, <1>4, <1>5 DEF HooksInv

\* A workflow the listing showed is judged, as it was listed, or none is.
LEMMA BySessionStep ==
  ASSUME HooksInv, NEW listed \in SUBSET (HookFlows \X FlowType), BySession(listed),
         hook # NoHook, \A own \in listed : AllowedIn(hook.agent, own[2]) => own[1] \in fitting,
         \A f \in HookFlows : ~(hook.names = {f} /\ hook.first = f /\ f \notin missing)
  PROVE  HooksInv'
<1>1. CASE \E own \in listed : listed = {own} /\ Judge(own[1], own[2])
  <2>1. PICK own \in listed : Judge(own[1], own[2])
    BY <1>1
  <2>2. own[1] \in HookFlows \union {NoFlow}
    OBVIOUS
  <2> DEFINE outcome == IF AllowedIn(hook.agent, own[2]) THEN "allowed" ELSE "blocked"
  <2>3. HookEnds(own[1], outcome)
    BY <2>1 DEF Judge
  <2>4. outcome \in {"allowed", "blocked", "written", "unguarded"} /\ outcome # "written"
    OBVIOUS
  <2>5. outcome = "allowed" => own[1] \in fitting
    OBVIOUS
  <2> HIDE DEF outcome
  <2> QED
    BY <2>2, <2>3, <2>4, <2>5, EndStep
<1>2. CASE Unresolved
  BY <1>2, EndStep DEF Unresolved
<1> QED
  BY <1>1, <1>2 DEF BySession

\* A workflow that is there is judged.
LEMMA JudgeStep ==
  ASSUME HooksInv, NEW g \in HookFlows, flows[g] # NoFlow, Judge(g, flows[g]), hook # NoHook,
         \A f \in HookFlows : hook.names = {f} /\ hook.first = f => g = f
  PROVE  HooksInv'
<1> DEFINE outcome == IF AllowedIn(hook.agent, flows[g]) THEN "allowed" ELSE "blocked"
<1>1. HookEnds(g, outcome)
  BY DEF Judge
<1>2. outcome \in {"allowed", "blocked", "written", "unguarded"} /\ outcome # "written"
  OBVIOUS
<1>3. outcome = "allowed" => g \in Fitting(hook.agent, flows)
  BY DEF Fitting
<1>4. Fitting(hook.agent, flows) \subseteq fitting
  BY DEF HooksInv, CallWitnessed
<1> HIDE DEF outcome
<1> QED
  BY <1>1, <1>2, <1>3, <1>4, EndStep

LEMMA HooksInvStep == HooksInv /\ [HooksNext]_hookVars => HooksInv'
<1> SUFFICES ASSUME HooksInv, [HooksNext]_hookVars PROVE HooksInv'
  OBVIOUS
<1>0. /\ flows \in [HookFlows -> FlowType \union {NoFlow}] /\ Lists(recent, flows)
      /\ hook \in HookType /\ verdict \in VerdictType
      /\ fitting \subseteq HookFlows /\ missing \subseteq HookFlows /\ inReview \in BOOLEAN
      /\ CallWitnessed /\ HooksDecide
  BY DEF HooksInv
<1>a. hook.pc # "idle" => hook # NoHook
  BY DEF NoHook
<1>b. hook.agent \in GuardedAgents \union {NoFlow} /\ hook.names \subseteq HookFlows
      /\ hook.first \in HookFlows \union {NoFlow}
      /\ hook.listed \in SUBSET (HookFlows \X FlowType)
  BY <1>0 DEF HookType
<1>c. \A f \in HookFlows : flows[f] # NoFlow => flows[f] \in FlowType
  BY <1>0
<1>1. ASSUME NEW f \in HookFlows, StartFlow(f) PROVE HooksInv'
  <2>1. PICK type \in GuardedTypes, mine \in BOOLEAN : Put(f, Flow(type, mine))
    BY <1>1 DEF StartFlow
  <2>2. Flow(type, mine) \in FlowType
    BY FlowHasType
  <2> QED
    BY <2>1, <2>2, PutStep
<1>2. ASSUME NEW f \in HookFlows, AdvanceFlow(f) PROVE HooksInv'
  <2>1. PICK phase \in PhasesOf(flows[f].type) : Put(f, [flows[f] EXCEPT !.phase = phase])
    BY <1>2 DEF AdvanceFlow
  <2>2. flows[f] \in FlowType
    BY <1>c, <1>2 DEF AdvanceFlow
  <2>3. [flows[f] EXCEPT !.phase = phase] \in FlowType
    BY <2>1, <2>2 DEF FlowType, PhasesOf, Phases
  <2> QED
    BY <2>1, <2>3, PutStep
<1>3. ASSUME NEW f \in HookFlows, AbortFlow(f) PROVE HooksInv'
  <2>1. flows[f] \in FlowType /\ Put(f, [flows[f] EXCEPT !.aborted = TRUE])
    BY <1>c, <1>3 DEF AbortFlow, ActiveFlows
  <2>2. [flows[f] EXCEPT !.aborted = TRUE] \in FlowType
    BY <2>1 DEF FlowType
  <2> QED
    BY <2>1, <2>2, PutStep
<1>4. ASSUME NEW f \in HookFlows, DeleteFlow(f) PROVE HooksInv'
  BY <1>4, PutStep DEF DeleteFlow
<1>5. CASE BeginDelegation
  <2>0. PICK names \in SUBSET HookFlows, agent \in GuardedAgents :
          \E first \in names \union {NoFlow} :
            Begins([NoHook EXCEPT !.pc = "dashboard", !.names = names, !.first = first,
                                  !.agent = agent])
    BY <1>5 DEF BeginDelegation
  <2>1. PICK first \in names \union {NoFlow} :
          Begins([NoHook EXCEPT !.pc = "dashboard", !.names = names, !.first = first,
                                !.agent = agent])
    BY <2>0
  <2> DEFINE call == [NoHook EXCEPT !.pc = "dashboard", !.names = names, !.first = first,
                                    !.agent = agent]
  <2>2. call \in HookType /\ call.pc = "dashboard" /\ call.listed = {}
    BY DEF NoHook, HookType
  <2> HIDE DEF call
  <2> QED
    BY <2>1, <2>2, BeginStep DEF call
<1>6. CASE BeginWrite
  <2>1. PICK agent \in GuardedAgents :
          Begins([NoHook EXCEPT !.pc = "phase guard", !.agent = agent])
    BY <1>6 DEF BeginWrite
  <2> DEFINE call == [NoHook EXCEPT !.pc = "phase guard", !.agent = agent]
  <2>2. call \in HookType /\ call.pc = "phase guard" /\ call.listed = {} /\ call.names = {}
    BY DEF NoHook, HookType
  <2> HIDE DEF call
  <2> QED
    BY <2>1, <2>2, BeginStep DEF call
<1>7. CASE OnlyNamed
  <2>1. PICK f \in HookFlows : Named = {f} /\ Judge(f, flows[f]) /\ hook.pc = "dashboard"
    BY <1>7 DEF OnlyNamed
  <2>2. f \in hook.names /\ flows[f] # NoFlow
    BY <2>1 DEF Named, ActiveFlows
  <2> QED
    BY <1>a, <2>1, <2>2, JudgeStep
<1>8. CASE SeveralNamed
  <2>1. PICK f \in Named, g \in Named : f # g
    BY <1>8 DEF SeveralNamed
  <2>2. f \in hook.names /\ g \in hook.names
    BY DEF Named
  <2>3. \A e \in HookFlows : hook.names # {e}
    BY <2>1, <2>2
  <2>4. hook # NoHook
    BY <1>8, <1>a DEF SeveralNamed
  <2> DEFINE own == Named \intersect Mine(flows)
             e == FirstOf(own)
  <2>5. CASE own = {}
    <3>1. Unresolved
      BY <1>8, <2>5 DEF SeveralNamed
    <3> QED
      BY <2>3, <2>4, <3>1, EndStep DEF Unresolved
  <2>6. CASE own # {}
    <3>1. Judge(e, flows[e])
      BY <1>8, <2>6 DEF SeveralNamed
    <3>2. own \subseteq HookFlows /\ \A h \in own : flows[h] # NoFlow
      BY DEF Named, ActiveFlows
    <3>3. e \in own
      BY <1>0, <2>6, <3>2, FirstIsOne
    <3> HIDE DEF e, own
    <3> QED
      BY <2>3, <2>4, <3>1, <3>2, <3>3, JudgeStep
  <2> QED
    BY <2>5, <2>6
<1>9. CASE NoneNamed
  <2> DEFINE listed == {<<f, flows[f]>> : f \in Mine(flows)}
  <2>1. hook.pc = "dashboard" /\ hook # NoHook
    BY <1>9, <1>a DEF NoneNamed
  <2>2. listed \in SUBSET (HookFlows \X FlowType)
    BY <1>c DEF Mine, ActiveFlows
  <2>3. \A own \in listed : AllowedIn(hook.agent, own[2]) => own[1] \in fitting
    <3>1. ASSUME NEW f \in Mine(flows), AllowedIn(hook.agent, flows[f])
          PROVE  f \in fitting
      BY <1>0, <2>1, <3>1 DEF CallWitnessed, Fitting, Mine, ActiveFlows
    <3> QED
      BY <3>1
  <2>4. CASE AsksForId
    <3>1. /\ hook' = [hook EXCEPT !.pc = "fetch", !.listed = listed]
          /\ UNCHANGED <<flows, recent, verdict, fitting, missing, inReview>>
      BY <1>9, <2>4 DEF NoneNamed
    <3> HIDE DEF listed
    <3>2. /\ hook' \in HookType /\ hook'.pc = "fetch" /\ hook'.listed = listed
          /\ hook'.agent = hook.agent /\ hook'.first = hook.first
      BY <1>0, <2>2, <3>1 DEF HookType
    <3>3. CallWitnessed'
      BY <1>0, <2>1, <2>3, <2>4, <3>1, <3>2 DEF CallWitnessed, AsksForId
    <3>4. HooksDecide'
      BY <1>0, <3>1 DEF HooksDecide, FlowsNeverMix, ReviewIsReadOnly
    <3> QED
      BY <1>0, <3>1, <3>2, <3>3, <3>4 DEF HooksInv
  <2>5. CASE ~AsksForId
    <3>1. BySession(listed)
      BY <1>9, <2>5 DEF NoneNamed
    <3>2. \A f \in HookFlows : hook.first # f
      BY <2>5, HookAssumption DEF AsksForId
    <3> HIDE DEF listed
    <3> QED
      BY <2>1, <2>2, <2>3, <3>1, <3>2, BySessionStep
  <2> QED
    BY <2>4, <2>5
<1>10. CASE FetchById
  <2>1. hook.pc = "fetch" /\ hook # NoHook /\ hook.first \in HookFlows
    BY <1>0, <1>10, <1>a, <1>b DEF FetchById, CallWitnessed
  <2>2. CASE flows[hook.first] = NoFlow
    <3>1. BySession(hook.listed)
      BY <1>10, <2>2 DEF FetchById
    <3>2. hook.first \in missing
      BY <1>0, <2>1, <2>2 DEF CallWitnessed
    <3>3. \A own \in hook.listed : AllowedIn(hook.agent, own[2]) => own[1] \in fitting
      BY <1>0, <2>1 DEF CallWitnessed
    <3> QED
      BY <1>b, <2>1, <3>1, <3>2, <3>3, BySessionStep
  <2>3. CASE flows[hook.first] # NoFlow
    <3>1. Judge(hook.first, flows[hook.first])
      BY <1>10, <2>3 DEF FetchById
    <3> QED
      BY <2>1, <2>3, <3>1, JudgeStep
  <2> QED
    BY <2>2, <2>3
<1>11. CASE ServerUnreachable
  BY <1>11, <1>a, EndStep DEF ServerUnreachable, Unresolved
<1>12. CASE PhaseGuard
  <2>1. hook.pc = "phase guard" /\ hook # NoHook /\ hook.names = {}
    BY <1>0, <1>12, <1>a DEF PhaseGuard, CallWitnessed
  <2>2. CASE Blocks
    <3>1. PICK f \in GuardingFlows : HookEnds(f, "blocked")
      BY <1>12, <2>2 DEF PhaseGuard
    <3>2. f \in HookFlows
      <4>1. CASE Mine(flows) # {}
        <5>1. FirstOf(Mine(flows)) \in Mine(flows)
          BY <1>0, <4>1, FirstIsOne DEF Mine, ActiveFlows
        <5> QED
          BY <3>1, <4>1, <5>1 DEF GuardingFlows, Mine, ActiveFlows
      <4>2. CASE Mine(flows) = {}
        BY <3>1, <4>2 DEF GuardingFlows
      <4> QED
        BY <4>1, <4>2
    <3> QED
      BY <2>1, <3>1, <3>2, EndStep
  <2>3. CASE ~Blocks
    <3>1. /\ hook' = [hook EXCEPT !.pc = "write"]
          /\ UNCHANGED <<flows, recent, verdict, fitting, missing, inReview>>
      BY <1>12, <2>3 DEF PhaseGuard
    <3>2. /\ hook' \in HookType /\ hook'.pc = "write" /\ hook'.listed = hook.listed
          /\ hook'.agent = hook.agent /\ hook'.first = hook.first /\ hook'.names = {}
      BY <1>0, <2>1, <3>1 DEF HookType
    <3>3. ~OneInReview(flows)
      <4>1. ASSUME NEW f \in HookFlows, Mine(flows) = {f}, UnderReview(flows[f])
            PROVE  FALSE
        <5>1. FirstOf(Mine(flows)) \in Mine(flows)
          BY <1>0, <4>1, FirstIsOne DEF Mine, ActiveFlows
        <5>2. GuardingFlows = {f}
          BY <4>1, <5>1 DEF GuardingFlows
        <5> QED
          BY <2>3, <4>1, <5>2 DEF Blocks
      <4> QED
        BY <4>1 DEF OneInReview
    <3>4. CallWitnessed'
      BY <1>0, <2>1, <3>1, <3>2, <3>3 DEF CallWitnessed
    <3>5. HooksDecide'
      BY <1>0, <3>1 DEF HooksDecide, FlowsNeverMix, ReviewIsReadOnly
    <3> QED
      BY <1>0, <3>1, <3>2, <3>4, <3>5 DEF HooksInv
  <2> QED
    BY <2>2, <2>3
<1>13. CASE PhaseGuardUnreachable
  <2>1. hook.pc = "phase guard" /\ hook # NoHook /\ HookEnds(NoFlow, "unguarded")
    BY <1>13, <1>a DEF PhaseGuardUnreachable
  <2> QED
    BY <2>1, EndStep
<1>14. CASE ToolWrites
  <2>1. hook.pc = "write" /\ hook # NoHook /\ HookEnds(NoFlow, "written")
    BY <1>14, <1>a DEF ToolWrites
  <2>2. ~inReview
    BY <1>0, <2>1 DEF CallWitnessed
  <2> QED
    BY <2>1, <2>2, EndStep
<1>15. CASE UNCHANGED hookVars
  BY <1>15, <1>0 DEF hookVars, HooksInv, CallWitnessed, HooksDecide, FlowsNeverMix,
                     ReviewIsReadOnly, Lists
<1> QED
  BY <1>1, <1>2, <1>3, <1>4, <1>5, <1>6, <1>7, <1>8, <1>9, <1>10, <1>11, <1>12, <1>13, <1>14,
     <1>15 DEF HooksNext

LEMMA HooksInvTypes == HooksInv => HooksTypeOK
<1>1. ASSUME HooksInv PROVE recent \in Seq(HookFlows) /\ DOMAIN recent = 1..Len(recent)
  BY <1>1 DEF HooksInv, Lists
<1> QED
  BY <1>1 DEF HooksInv, HooksTypeOK, Lists, HookType, VerdictType

LEMMA HooksInvHolds == HooksSpec => []HooksInv
BY HooksInvInit, HooksInvStep, PTL DEF HooksSpec

\* hooks/phase_guard.go:60-101, :425-499: a delegation that names one workflow is judged by
\* it, an agent that is let through fits a phase that was, and nobody writes under review,
\* for any number of workflows that are started, moved, aborted and deleted meanwhile.
THEOREM HooksDecideHolds == HooksSpec => []HooksDecide
<1>1. HooksInv => HooksDecide
  BY DEF HooksInv
<1> QED
  BY <1>1, HooksInvHolds, PTL
=============================================================================
