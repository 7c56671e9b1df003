--------------------------- MODULE WorkflowPhases ---------------------------
(***************************************************************************)
(* The phase machine of a workflow (orchestration/state.go): the workflow  *)
(* types, the phases of each type, the transitions that                    *)
(* ValidateTransition accepts and the phase a new workflow starts in.      *)
(* Pure definitions: no state, used by the coordinator that stores         *)
(* workflows and by the lifecycle it is meant to implement.                *)
(***************************************************************************)

WorkflowTypes == {"spec", "bug", "e2e"}

Phases ==
  {"plan", "implement", "verify", "learn", "complete", "discovery", "design",
   "governance", "accept", "analyze", "fix", "review", "setup", "generate",
   "heal"}

SpecTransitions ==
  {<<"plan", "implement">>, <<"plan", "discovery">>, <<"plan", "accept">>,
   <<"discovery", "design">>, <<"design", "governance">>, <<"design", "plan">>,
   <<"governance", "plan">>, <<"accept", "implement">>,
   <<"implement", "verify">>, <<"verify", "implement">>, <<"verify", "learn">>,
   <<"learn", "complete">>}

BugTransitions ==
  {<<"analyze", "fix">>, <<"fix", "review">>, <<"review", "fix">>,
   <<"review", "complete">>}

E2ETransitions ==
  {<<"setup", "plan">>, <<"plan", "generate">>, <<"generate", "heal">>,
   <<"heal", "generate">>, <<"heal", "complete">>}

validTransitions ==
  [t \in WorkflowTypes |->
     IF t = "spec" THEN SpecTransitions
     ELSE IF t = "bug" THEN BugTransitions ELSE E2ETransitions]

\* The phases with an entry in the type's transition map; "complete" has an
\* entry with no successor.
PhasesOf(t) ==
  IF t = "spec"
  THEN {"plan", "discovery", "design", "governance", "accept", "implement",
        "verify", "learn", "complete"}
  ELSE IF t = "bug" THEN {"analyze", "fix", "review", "complete"}
  ELSE {"setup", "plan", "generate", "heal", "complete"}

\* Mutant of ValidateTransition: a complete workflow may be reopened.
ValidateTransitionReopening(t, from, to) ==
  \/ <<from, to>> \in validTransitions[t]
  \/ from = "complete" /\ <<to, from>> \in validTransitions[t]

ValidateTransition(t, from, to) == <<from, to>> \in validTransitions[t]

\* Mutant of InitialPhase: a name that is no phase, for one of the types.
InitialPhaseUnknown(t) ==
  IF t = "bug" THEN "start" ELSE IF t = "e2e" THEN "setup" ELSE "plan"

InitialPhase(t) ==
  IF t = "bug" THEN "analyze" ELSE IF t = "e2e" THEN "setup" ELSE "plan"

-----------------------------------------------------------------------------
(* A phase q can be reached from p when every set of phases that holds p    *)
(* and is closed under the type's transitions holds q.                      *)

Closed(t, S) ==
  \A p, q \in PhasesOf(t) : p \in S /\ ValidateTransition(t, p, q) => q \in S

ReachableFrom(t, p) ==
  {q \in PhasesOf(t) :
     \A S \in SUBSET PhasesOf(t) : p \in S /\ Closed(t, S) => q \in S}

\* As a set of pairs: TLC computes it once for each type.
ReachablePairs(t) ==
  {r \in PhasesOf(t) \X PhasesOf(t) : r[2] \in ReachableFrom(t, r[1])}

Reachable == UNION {{<<t, r>> : r \in ReachablePairs(t)} : t \in WorkflowTypes}

CanReach(t, p, q) == <<t, <<p, q>>>> \in Reachable
=============================================================================
