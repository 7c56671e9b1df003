-------------------------------- MODULE HookGuards -------------------------------
(* The guards around an agent's tool calls (hooks/phase_guard.go): which workflow a *)
(* delegation is for, whether the agent may work in its phase, and whether a writer *)
(* may write. A hook asks the server once or twice over HTTP while workflows go on, *)
(* and the tool runs after it answered. Hooks change nothing, so one call at a time *)
(* is enough; it comes from one session, and a flow is "mine" when it names it.     *)
EXTENDS Naturals, Sequences, WorkflowPhases

CONSTANTS HookFlows,        \* workflow ids
          GuardedTypes,     \* types of workflows that are started
          GuardedAgents,    \* delivery agents, of those the allow-list names
          NoFlow            \* no such workflow; no id in the text

ASSUME HookAssumption ==
  /\ GuardedTypes \subseteq WorkflowTypes
  /\ NoFlow \notin HookFlows \union GuardedAgents

VARIABLES flows,        \* rows of workflows
          recent,       \* their ids, last updated first
          hook,         \* the call in progress
          verdict,      \* what became of the last call
          fitting,      \* flows in whose phase its agent might work at some time since it began
          missing,      \* flows that were not there at some time since then
          inReview      \* since the call began, my one active flow was under review

hookVars == <<flows, recent, hook, verdict, fitting, missing, inReview>>

Flow(type, mine) ==
  [type |-> type, phase |-> InitialPhase(type), mine |-> mine, aborted |-> FALSE]

NoHook == [pc |-> "idle", names |-> {}, first |-> NoFlow, agent |-> NoFlow,
           listed |-> {}]

NoVerdict == [flow |-> NoFlow, outcome |-> "none", names |-> {}, first |-> NoFlow]

HooksInit ==
  /\ flows = [f \in HookFlows |-> NoFlow] /\ recent = <<>>
  /\ hook = NoHook /\ verdict = NoVerdict
  /\ fitting = {} /\ missing = {} /\ inReview = FALSE

Engineers == {"backend", "frontend", "database", "devops", "mobile", "implementation"}

Builders == Engineers \union {"ux", "qa"}

\* phaseAgentAllowlist; a phase without an entry allows everybody.
Allowlist ==
  [spec |-> [plan |-> {"strategic", "system"}, discovery |-> {"debugger", "strategic"},
             design |-> {"strategic", "system", "ux"}, governance |-> {"reviewer", "governance"},
             accept |-> {}, implement |-> Builders, verify |-> {"reviewer"}, learn |-> {},
             complete |-> {}],
   bug  |-> [analyze |-> {"debugger", "strategic", "system"}, fix |-> Builders,
             review |-> {"reviewer"}],
   e2e  |-> [setup |-> {"qa"}, plan |-> {"strategic"}, generate |-> {"qa", "frontend"},
             heal |-> {"debugger", "qa"}, complete |-> {}]]

AllowedIn(agent, flow) ==
  flow.phase \in DOMAIN Allowlist[flow.type] => agent \in Allowlist[flow.type][flow.phase]

UnderReview(flow) ==
  <<flow.type, flow.phase>> \in {<<"spec", "verify">>, <<"bug", "review">>}

ActiveFlows(now) == {f \in HookFlows : now[f] # NoFlow /\ now[f].phase # "complete" /\ ~now[f].aborted}

Mine(now) == {f \in ActiveFlows(now) : now[f].mine}

OneInReview(now) == \E f \in HookFlows : Mine(now) = {f} /\ UnderReview(now[f])

\* The first of S in the order of the list, last updated first.
FirstOf(S) == recent[CHOOSE n \in DOMAIN recent :
                 recent[n] \in S /\ \A m \in 1..(n - 1) : recent[m] \notin S]

Fitting(agent, now) == {f \in HookFlows : now[f] # NoFlow /\ AllowedIn(agent, now[f])}

\* What the call in progress has lived to see.
Witness ==
  IF hook = NoHook
  THEN verdict' = NoVerdict /\ fitting' = {} /\ missing' = {} /\ inReview' = FALSE
  ELSE /\ fitting' = fitting \union Fitting(hook.agent, flows')
       /\ missing' = missing \union {f \in HookFlows : flows'[f] = NoFlow}
       /\ inReview' = (inReview /\ OneInReview(flows'))
       /\ UNCHANGED verdict

-----------------------------------------------------------------------------
(* Workflows meanwhile. Every write makes a workflow the first of the list.          *)
Without(f) ==
  IF \E n \in DOMAIN recent : recent[n] = f
  THEN LET n == CHOOSE n \in DOMAIN recent : recent[n] = f
       IN  SubSeq(recent, 1, n - 1) \o SubSeq(recent, n + 1, Len(recent))
  ELSE recent

Touched(f) == <<f>> \o Without(f)

Put(f, flow) ==
  /\ flows' = [flows EXCEPT ![f] = flow]
  /\ recent' = IF flow = NoFlow THEN Without(f) ELSE Touched(f)
  /\ Witness
  /\ UNCHANGED hook

StartFlow(f) ==
  /\ flows[f] = NoFlow
  /\ \E type \in GuardedTypes, mine \in BOOLEAN : Put(f, Flow(type, mine))

AdvanceFlow(f) ==
  /\ flows[f] # NoFlow
  /\ \E phase \in PhasesOf(flows[f].type) :
       /\ ValidateTransition(flows[f].type, flows[f].phase, phase)
       /\ Put(f, [flows[f] EXCEPT !.phase = phase])

AbortFlow(f) ==
  /\ f \in ActiveFlows(flows)
  /\ Put(f, [flows[f] EXCEPT !.aborted = TRUE])

DeleteFlow(f) ==
  /\ flows[f] # NoFlow
  /\ Put(f, NoFlow)

-----------------------------------------------------------------------------
Begins(call) ==
  /\ hook = NoHook /\ hook' = call
  /\ verdict' = NoVerdict
  /\ fitting' = Fitting(call.agent, flows)
  /\ missing' = {f \in HookFlows : flows[f] = NoFlow}
  /\ inReview' = OneInReview(flows)
  /\ UNCHANGED <<flows, recent>>

\* A delivery agent is to be started: names are the workflows whose ids occur in the
\* text, first is the first of its words that looks like an id.
BeginDelegation ==
  \E names \in SUBSET HookFlows, agent \in GuardedAgents :
    \E first \in names \union {NoFlow} :
      Begins([NoHook EXCEPT !.pc = "dashboard", !.names = names, !.first = first,
                            !.agent = agent])

\* A delivery agent is to write.
BeginWrite ==
  \E agent \in GuardedAgents : Begins([NoHook EXCEPT !.pc = "phase guard", !.agent = agent])

HookEnds(flow, outcome) ==
  /\ hook' = NoHook
  /\ verdict' = [flow |-> flow, outcome |-> outcome, names |-> hook.names, first |-> hook.first]
  /\ UNCHANGED <<flows, recent, fitting, missing, inReview>>

Judge(f, flow) ==
  HookEnds(f, IF AllowedIn(hook.agent, flow) THEN "allowed" ELSE "blocked")

Unresolved == HookEnds(NoFlow, "blocked")

\* My one active flow, as it was listed.
BySession(listed) ==
  \/ \E own \in listed : listed = {own} /\ Judge(own[1], own[2])
  \/ (\A own \in listed : listed # {own}) /\ Unresolved

Named == hook.names \intersect ActiveFlows(flows)

OnlyNamed ==
  /\ hook.pc = "dashboard"
  /\ \E f \in HookFlows : Named = {f} /\ Judge(f, flows[f])

\* Of several, my own that was updated last, or none.
SeveralNamed ==
  /\ hook.pc = "dashboard"
  /\ \E f, g \in Named : f # g
  /\ IF Named \intersect Mine(flows) = {} THEN Unresolved
     ELSE LET f == FirstOf(Named \intersect Mine(flows)) IN Judge(f, flows[f])

\* An id that is in no list is asked for; without one, the session decides.
AsksForId == hook.first # NoFlow

NoneNamed ==
  /\ hook.pc = "dashboard" /\ Named = {}
  /\ LET listed == {<<f, flows[f]>> : f \in Mine(flows)} IN
     IF AsksForId
     THEN /\ hook' = [hook EXCEPT !.pc = "fetch", !.listed = listed]
          /\ UNCHANGED <<flows, recent, verdict, fitting, missing, inReview>>
     ELSE BySession(listed)

\* The second request finds the workflow, active or not; else the session decides, by
\* the list of the first.
FetchById ==
  /\ hook.pc = "fetch"
  /\ IF flows[hook.first] = NoFlow THEN BySession(hook.listed)
     ELSE Judge(hook.first, flows[hook.first])

\* The server does not answer: delegations are refused, except in a directory of the
\* project stratus itself, where they pass unjudged.
ServerUnreachable ==
  /\ hook.pc \in {"dashboard", "fetch"}
  /\ Unresolved \/ HookEnds(NoFlow, "unguarded")

\* Mutant of GuardingFlows: whichever was updated last, whoever's it is.
GuardingFlowsOfAnyone ==
  IF ActiveFlows(flows) # {} THEN {FirstOf(ActiveFlows(flows))} ELSE {}

\* Mine that was updated last, or the only one there is.
GuardingFlows ==
  IF Mine(flows) # {} THEN {FirstOf(Mine(flows))}
  ELSE {f \in HookFlows : ActiveFlows(flows) = {f}}

Blocks == \E f \in GuardingFlows : UnderReview(flows[f])

\* A write is let through unless it is known to be out of place.
PhaseGuard ==
  /\ hook.pc = "phase guard"
  /\ IF Blocks THEN \E f \in GuardingFlows : HookEnds(f, "blocked")
     ELSE /\ hook' = [hook EXCEPT !.pc = "write"]
          /\ UNCHANGED <<flows, recent, verdict, fitting, missing, inReview>>

PhaseGuardUnreachable ==
  /\ hook.pc = "phase guard"
  /\ HookEnds(NoFlow, "unguarded")

\* The tool runs.
ToolWrites ==
  /\ hook.pc = "write"
  /\ HookEnds(NoFlow, "written")

HooksNext ==
  \/ \E f \in HookFlows : StartFlow(f) \/ AdvanceFlow(f) \/ AbortFlow(f) \/ DeleteFlow(f)
  \/ BeginDelegation \/ BeginWrite
  \/ OnlyNamed \/ SeveralNamed \/ NoneNamed \/ FetchById \/ ServerUnreachable
  \/ PhaseGuard \/ PhaseGuardUnreachable \/ ToolWrites

HooksSpec == HooksInit /\ [][HooksNext]_hookVars

-----------------------------------------------------------------------------
FlowType ==
  {w \in [type : GuardedTypes, phase : Phases, mine : BOOLEAN, aborted : BOOLEAN] :
     w.phase \in PhasesOf(w.type)}

\* NoFlow is no row.
ASSUME FlowAssumption == NoFlow \notin FlowType

HooksTypeOK ==
  /\ flows \in [HookFlows -> FlowType \union {NoFlow}]
  /\ recent \in Seq(HookFlows) /\ \A f \in HookFlows : flows[f] # NoFlow <=>
       \E n \in DOMAIN recent : recent[n] = f
  /\ hook.pc \in {"idle", "dashboard", "fetch", "phase guard", "write"}
  /\ hook.names \subseteq HookFlows /\ hook.first \in HookFlows \union {NoFlow}
  /\ hook.agent \in GuardedAgents \union {NoFlow}
  /\ hook.listed \subseteq HookFlows \X FlowType
  /\ verdict.outcome \in {"none", "allowed", "blocked", "written", "unguarded"}
  /\ verdict.flow \in HookFlows \union {NoFlow}
  /\ fitting \subseteq HookFlows /\ missing \subseteq HookFlows /\ inReview \in BOOLEAN

\* hooks/phase_guard.go:425-499, "so parallel flows never mix": a delegation whose text
\* names one workflow, which is there from the request to the answer, is judged by that
\* one or refused, whatever the session owns and in whatever state it is; and while the
\* server answers an agent is let through only if that was, at some time of the call, in
\* a phase that allows it.
FlowsNeverMix ==
  /\ \A f \in HookFlows :
       verdict.names = {f} /\ verdict.first = f /\ f \notin missing
         => verdict.flow \in {f, NoFlow}
  /\ verdict.outcome = "allowed" => verdict.flow \in fitting

\* hooks/phase_guard.go:60-101: no delivery agent writes in a session whose one active
\* flow is under review from the call of the tool to its end, while the server answers.
ReviewIsReadOnly == inReview => verdict.outcome # "written"

\* The guards answer for the right workflow, in a state it was in meanwhile.
HooksDecide == FlowsNeverMix /\ ReviewIsReadOnly
=============================================================================
