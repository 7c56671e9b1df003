------------------------------ MODULE MCServices ------------------------------
(* The services around the workflow and the swarm share no state with each other. *)
(* They are checked together: each behaviour is a behaviour of one of them, while *)
(* the others rest in their initial states.                                       *)
EXTENDS EventBus, IndexWorker, Forge, Signals, Guardian, LLMCalls, Onboarding,
        CodeAnalyst, InboxWatcher, Worktrees, PreviewMerge, Guardrails, Terminal, Hub,
        EvolutionCycle, ProposalReview, Migrations, WikiVault, PageStaleness, DocsIndex,
        LearnPipeline

VARIABLE service    \* the one that runs in this behaviour

-----------------------------------------------------------------------------

AllServices ==
  {"bus", "index", "forge", "signals", "guardian", "llm", "onboarding", "analyst", "inbox",
   "worktrees", "preview", "guardrails", "terminal", "hub", "evolution", "review", "upgrade", "vault",
   "staleness", "docs", "learn"}

ServicesInit ==
  /\ service \in AllServices
  /\ BusInit /\ IndexInit /\ ForgeInit /\ SignalsInit /\ LLMInit
  /\ OnboardInit /\ AnalystInit /\ InboxInit
  /\ GuardianInit /\ (service # "guardian" => debt = 0)
  /\ TreesInit /\ PreviewInit /\ GuardrailInit /\ TermInit /\ HubInit
  /\ EvoInit /\ ReviewInit /\ MigrateInit /\ VaultInit
  /\ PageInit /\ (service # "staleness" => page.linked /\ page.status = "draft")
  /\ DocsInit /\ (service # "docs" => docFile = CHOOSE text \in DocTexts : TRUE)
  /\ LearnInit /\ (service # "learn" => wired = {})

ServicesNext ==
  /\ UNCHANGED service
  /\ \/ service = "bus"        /\ BusNext
     \/ service = "index"      /\ IndexNext
     \/ service = "forge"      /\ ForgeNext
     \/ service = "signals"    /\ SignalsNext
     \/ service = "guardian"   /\ GuardianNext
     \/ service = "llm"        /\ LLMNext
     \/ service = "onboarding" /\ OnboardNext
     \/ service = "analyst"    /\ AnalystNext
     \/ service = "inbox"      /\ InboxNext
     \/ service = "worktrees"  /\ TreesNext
     \/ service = "preview"    /\ PreviewNext
     \/ service = "guardrails" /\ GuardrailNext
     \/ service = "terminal"   /\ TermNext
     \/ service = "hub"        /\ HubNext
     \/ service = "evolution"  /\ EvoNext
     \/ service = "upgrade"    /\ MigrateNext
     \/ service = "vault"      /\ VaultNext
     \/ service = "review"     /\ ReviewNext
     \/ service = "staleness"  /\ PageNext
     \/ service = "docs"       /\ DocsNext
     \/ service = "learn"      /\ LearnNext
  /\ service # "bus"        => UNCHANGED busVars
  /\ service # "index"      => UNCHANGED indexVars
  /\ service # "forge"      => UNCHANGED forgeVars
  /\ service # "signals"    => UNCHANGED signalVars
  /\ service # "guardian"   => UNCHANGED guardianVars
  /\ service # "llm"        => UNCHANGED llmVars
  /\ service # "onboarding" => UNCHANGED onboardVars
  /\ service # "analyst"    => UNCHANGED analystVars
  /\ service # "inbox"      => UNCHANGED inboxVars
  /\ service # "worktrees"  => UNCHANGED treeVars
  /\ service # "preview"    => UNCHANGED previewVars
  /\ service # "guardrails" => UNCHANGED guardrailVars
  /\ service # "terminal"   => UNCHANGED termVars
  /\ service # "hub"        => UNCHANGED hubVars
  /\ service # "evolution"  => UNCHANGED evoVars
  /\ service # "upgrade"    => UNCHANGED migrateVars
  /\ service # "vault"      => UNCHANGED vaultVars
  /\ service # "review"     => UNCHANGED reviewVars
  /\ service # "staleness"  => UNCHANGED stalenessVars
  /\ service # "docs"       => UNCHANGED docsVars
  /\ service # "learn"      => UNCHANGED learnVars

servicesVars == <<service, busVars, indexVars, forgeVars, signalVars, guardianVars,
                  llmVars, onboardVars, analystVars, inboxVars, treeVars, previewVars,
                  guardrailVars, termVars, hubVars, evoVars, migrateVars, vaultVars,
                  reviewVars, stalenessVars, docsVars, learnVars>>

ServicesSpec == ServicesInit /\ [][ServicesNext]_servicesVars

\* Every variable of every service keeps to its type.
ServicesTypeOK ==
  /\ service \in AllServices
  /\ BusTypeOK /\ IndexTypeOK /\ ForgeTypeOK /\ SignalsTypeOK /\ GuardianTypeOK
  /\ LLMTypeOK /\ OnboardTypeOK /\ AnalystTypeOK /\ InboxTypeOK
  /\ TreesTypeOK /\ PreviewTypeOK /\ GuardrailTypeOK /\ TermTypeOK /\ HubTypeOK
  /\ EvoTypeOK /\ MigrateTypeOK /\ VaultTypeOK /\ ReviewTypeOK /\ PageTypeOK
  /\ DocsTypeOK /\ LearnTypeOK

\* What the wiki, the index of documents and the learn pipeline know is so: a change of
\* the source behind the noted commit was acted upon or given up (insight/engine.go:
\* 657-742), an undisturbed run leaves exactly the chunks of the document (db/governance.go:
\* 88-118), and a workflow has one artifact and a true summary (orchestration/
\* learn_pipeline.go:70-184, internal/insight/artifacts/builder.go:36-75).
KnowledgeKept == ChangesAreNoticed /\ IndexedAsWritten /\ OneArtifactEach /\ SummaryIsTrue

-----------------------------------------------------------------------------
(* What must happen in the end is asked of each service under the fairness its  *)
(* own module states, the fairness of its goroutines, and of no other.          *)
FairServices == {"bus", "index", "forge", "signals", "worktrees", "guardian", "llm",
                 "analyst", "vault", "learn", "hub", "terminal"}

FairServicesInit == ServicesInit /\ service \in FairServices
FairServicesSpec == FairServicesInit /\ [][ServicesNext]_servicesVars

\* swarm/forge.go:152-206, db/swarm.go:629-660, swarm/store.go:64-93, guardian/
\* checks.go:286-299: the entries of a call are decided, direct signals handed out,
\* worktrees of ended missions removed, and debt over the threshold is reported.
FairSwarmServed ==
  /\ service = "forge"     /\ ForgeFairness    => TakenEntriesDecided
  /\ \A w \in Receivers :
       service = "signals" /\ SignalsFairness(w) => DirectSignalsHandedOut(w)
  /\ service = "worktrees" /\ TreesFairness    => ListedTreesGo
  /\ service = "guardian"  /\ GuardianFairness => DebtReported

\* internal/insight: a queued call of a model ends (llm/semaphore.go:66-72), the
\* analyst is free again (code_analyst/engine.go:90-203), what a user writes into the
\* vault is noticed (wiki_engine/vault_pull.go:36-143), and a pipeline that began ends.
FairInsightEnds ==
  /\ service = "llm"     /\ LLMFairness     => CallsEnd
  /\ service = "analyst" /\ AnalystFairness => EngineIsFreed
  /\ service = "vault"   /\ VaultFairness   => EditsAreNoticed
  /\ service = "learn"   /\ LearnFairness   => PipelinesEnd

\* events/bus.go:88-132, api/ws_hub.go:37-110, terminal/pty.go:59-66, api/server.go:
\* 201-261: an accepted event reaches who is and stays subscribed, and Close returns;
\* broadcasts go to who is there and end, clients that cannot be written to leave; dead
\* sessions are forgotten; and files that are reported dirty are taken.
FairEventsServed ==
  /\ []SentToRegistered
  /\ service = "bus"      /\ BusFairness   => SubscribersServed /\ CloseReturns
  /\ service = "hub"      /\ HubFairness   => BroadcastsEnd /\ FailedClientsLeave
  /\ service = "terminal" /\ TermFairness  => DeadAreForgotten
  /\ service = "index"    /\ IndexFairness => DirtyFilesTaken
=============================================================================
