# Stratus, modelled in TLA+

TLA+ modules for the protocols of stratus: the orchestration of workflows, the
swarm of agents that work on one mission in parallel, and the services around
them. The modules are
translated from the Go source, not from its documents; where code and documents
disagree, a run shows it (see *Findings*).

To check a module: `tlc -config MCWorkflow.cfg MCWorkflow.tla`; to
check the proofs: `tlapm WorkflowProofs.tla` (TLAPS 1.4.5, Z3, Zenon, LS4).

## 1. The system

Stratus is one Go process. An HTTP server (`api/`) runs each request on a
goroutine of its own; all state that survives is in one SQLite database in WAL
mode behind a pool of four connections (`db/db.go:29`). Periodic work runs under
`internal/scheduler`, which calls its job again only after the last call
returned. Components tell each other things through the event bus
(`events/bus.go`, one goroutine per delivery) and the browser through the
WebSocket hub. Nothing above SQLite serialises two requests: **a handler that
reads a row, computes, and writes it is two steps**, and that is where most of
the hard behaviour is.

| component | state | operations | what is hard, what makes it correct |
|---|---|---|---|
| Workflow phase machine `orchestration/state.go` | none | `ValidateTransition`, `InitialPhase` | every phase reachable, "complete" final |
| Workflow coordinator `orchestration/coordinator.go`, `api/routes_orchestration.go`, `api/routes_summary.go` | a row of `workflows` per workflow | start, transition, delegate, task list, abort, plan, design, session, base commit, summary, delete | each mutator is Get … save of the whole row without lock or version; start is three independent writes; a goroutine computes the change summary beside the client. The row must stay possible: its phase one of its type, its delegations on its path |
| Learn pipeline `orchestration/learn_pipeline.go`, `wiki_autodoc.go`, `internal/insight/artifacts/builder.go` | artifacts, a wiki page, a summary event per workflow | run once per finished workflow, on a goroutine | started twice, or never; steps that fail half way or panic; searches before inserts. One artifact, and a summary that claims only what was done |
| Tickets, workers, dispatch `swarm/store.go`, `db/swarm.go`, `api/routes_swarm.go` | rows of `tickets`, `workers` | create, spawn, heartbeat, set status, dispatch | dispatch assigns from three earlier reads; retry counters are read and written back. Order of dependencies, no split of overlapping tickets, bounded retries |
| File reservations `db/swarm.go` | rows of `file_reservations` | reserve (a transaction), release, cascades | check-then-insert under SQLite's snapshots; no file held by two workers |
| Guardian `guardian/`, `db/guardian.go` | rows of `guardian_alerts`, `guardian_baselines` | tick or `RunOnce`: stale workers, overdue tickets, measurements | acts on lists that are stale by then; must unblock overdue work; asks for an open alert and inserts one in two statements |
| Missions and worktrees `swarm/store.go`, `swarm/worktree.go` | mission status, git worktrees, one preview worktree per mission | spawn, end, clean up, preview | a worktree is made before its row and removed on a goroutine; a preview merges branch after branch and may be made twice at once. No worktree nobody names; nothing missing from a preview unreported |
| Forge `swarm/forge.go` | `forge_entries`, the integration worktree and its stash | submit, execute the queue, retry | merging and recording are apart; calls overlap; a crash between any two git commands. "merged" must mean merged |
| Signals `db/swarm.go` | rows of `signals` | send, poll and mark | a poll selects and marks; polls overlap. Handed out once, and in the end |
| Guardrails `db/swarm.go:1065-1100`, `api/routes_swarm.go:740-799` | a row of counters per worker | report a tool call | counted by a read and a write; parallel calls. Nobody is blocked for a loop he is not in |
| Checkpoints, evidence | rows | append, read | – |
| Event bus `events/bus.go` | subscribers, channel, closed flag | publish, subscribe, unsubscribe, close | send on a closed channel; delivery from a snapshot. At most once, and `Close` returns |
| Index worker `api/server.go` | set of dirty files, a token | mark, wait, take, index | lock and channel are apart; files leave the set before they are indexed |
| LLM clients `internal/insight/llm` | usage of the day, slots per provider | call with retry | check before, record after; a slot is held over all attempts |
| Onboarding `api/routes_onboarding.go`, `internal/insight/onboarding` | progress in memory, wiki pages | start, generate pages | jobs write each other's progress; repetition after a crash |
| Code analyst `internal/insight/code_analyst` | running flag, hash cache | run | hashed early, read late; finalizer registered late |
| Inbox watcher `internal/insight/wiki_engine` | timers, inbox, archive | notice, ingest, archive | timers that fire while they are reset; files written while they are ingested |
| WebSocket hub `api/ws_hub.go` | map of clients, a channel each | connect, broadcast, leave | a broadcast holds the lock everybody needs to leave. It must end whatever browsers do |
| Terminals `terminal/` | sessions, ptys, a table of ids | create, type, exit | an id is created anew while the watcher of its last session is about to forget it |
| Evolution cycle and proposals `internal/insight/evolution_loop`, `api/routes_insight.go` | a flag, rows of runs, proposals and pages | trigger, review | a timeout between any two statements, failed commits; a review writes a status and then a file |
| Wiki pages and vault `internal/insight/wiki_engine`, `db/wiki.go`, `insight/engine.go` | pages, their files, scores of staleness, the commit noted last | edit, sync, pull, delete; maintenance, check at start | the same text is edited in two places, rows and files are written apart; changes must not slip between two starts |
| Index of governance documents `db/governance.go` | rows of `docs` | index, sweep | a document is several rows, written one by one and known by the first |
| Database `db/db.go` | tables of an older version | open | a table is replaced by four transactions, and a crash may come between any two. It opens again, and only one crash costs the metrics |
| Hooks `hooks/` | none | judge a delegation, guard a write | ask the server twice while workflows go on |
| Prefetch, analytics, MCP, CLI, configuration, frontend, skills | scores, texts, I/O | | see *Not modelled* |

`PROJECT.json` lists each with its sources, and under `hazards` each place where
something of this kind bites, with the property that covers it or the reason why
none does.

## 2. Modules

| module | what it is | code |
|---|---|---|
| `WorkflowPhases` | types, phases, transitions | `orchestration/state.go` |
| `WorkflowLifecycle` | abstract: what a client of the workflow API is promised | – |
| `Coordinator` | rows, requests in progress, the summary goroutine | `coordinator.go`, `routes_orchestration.go`, `routes_summary.go` |
| `PathPatterns` | overlap of file patterns | `db/swarm.go:865-928` |
| `ReservationBook` | abstract: reserving is one atomic step | – |
| `FileReservations` | the reserving transaction on SQLite | `db/swarm.go:750-842`, cascades of `db/schema.go` |
| `Dispatch` | pure: who gets which ticket | `swarm/store.go:195-364`, `db/swarm.go:512-547` |
| `SwarmBoard` | tickets, workers, dispatching requests, guardian tick | `swarm/store.go`, `db/swarm.go`, `guardian/checks.go` |
| `Deliveries` | abstract: what an event bus promises | – |
| `EventBus` | publishers, dispatcher, deliveries, `Close` | `events/bus.go` |
| `IndexWorker` | dirty files, token, worker | `api/server.go:168-261`, `vexor/client.go` |
| `Forge` | the merge queue on git | `swarm/forge.go`, `swarm/store.go` |
| `Signals` | the table and overlapping polls | `db/swarm.go:579-660` |
| `Guardian` | a measuring check, baseline, alerts | `guardian/`, `db/guardian.go` |
| `LLMCalls` | budget, slots, retries | `internal/insight/llm` |
| `Onboarding` | jobs, progress, pages by title | `api/routes_onboarding.go`, `onboarding/orchestrator.go` |
| `CodeAnalyst` | runs, hash cache | `code_analyst/engine.go`, `dedup.go` |
| `InboxWatcher` | timers and ingests of one path | `wiki_engine/inbox_watcher.go` |
| `Worktrees` | worktrees of the workers of a mission | `swarm/store.go:64-112, 525-538`, `worktree.go` |
| `PreviewMerge` | the preview worktree | `swarm/worktree.go:100-133` |
| `Guardrails` | counted tool calls, verdicts | `db/swarm.go:1065-1100`, `routes_swarm.go` |
| `Terminal` | connections, sessions, ids | `terminal/pty.go`, `ws_terminal.go` |
| `Hub` | clients, their channels, the lock | `api/ws_hub.go` |
| `EvolutionCycle` | cycles, transactions of proposals | `evolution_loop/` |
| `ProposalReview` | status and file of a proposal | `api/routes_insight.go:357-484`, `db/lifecycle.go` |
| `Migrations` | the upgrade of `daily_metrics` | `db/db.go:18-141` |
| `WikiVault` | pages and files | `vault_pull.go`, `vault_sync.go`, `routes_wiki.go` |
| `PageStaleness` | the score of a page | `insight/engine.go:657-742`, `wiki_engine/engine.go`, `db/wiki.go:307-325` |
| `DocsIndex` | rows of one document | `db/governance.go:43-118` |
| `LearnPipeline` | pipelines of one workflow | `learn_pipeline.go`, `builder.go`, `db/wiki.go:557-674` |
| `HookGuards` | workflows and one tool call | `hooks/phase_guard.go` |
| `WorkflowProofs` | theorems about `WorkflowPhases`, `Coordinator`, `HookGuards` | |
| `RequestsProofs` | about `PathPatterns`, `FileReservations`, and `MCRequests` | |
| `SwarmBoardProofs` | about `Dispatch`, `SwarmBoard`, and `MCWorkflow` | |
| `ForgeProofs` | about `Forge`, `Worktrees`, `PreviewMerge` | |
| `BackgroundProofs` | about `IndexWorker`, `Guardian`, `InboxWatcher`, `EventBus`, `Signals`, `Hub`, `Guardrails`, `Terminal`, `Migrations` | |
| `InsightProofs` | about `LLMCalls`, `Onboarding`, `CodeAnalyst`, `EvolutionCycle`, `ProposalReview` | |
| `KnowledgeProofs` | about `WikiVault`, `PageStaleness`, `DocsIndex`, `LearnPipeline` | |
| `ServicesProofs` | about `MCServices`, from the four above | |
| `MC*` | instances for TLC | |

`Coordinator` and `WorkflowLifecycle` extend `WorkflowPhases`; `FileReservations`
and `Dispatch` share `PathPatterns`, as the code shares `hasPathOverlap`;
`SwarmBoard` extends `Dispatch`, and `HookGuards` the phases. `EventBus` instantiates
`Deliveries`.

`MCCoordinator` makes the clients of a coordinator wait for one another. Three modules put parts side by side that share no state, so that one run of TLC
checks them; a behaviour is a behaviour of one part, named by a variable, while the
others rest. `MCServices` has twenty-one services (variable `service`).
`MCRequests` has the reservations and the coordinator with two requests at a time,
`MCWorkflow` the coordinator with one client in a git repository, the dispatch of
a chain of tickets, and the hooks (variable `part`). Side by side, nothing is
added to a part or taken from it, and its properties keep their meaning.

### Correspondence with the code

*Coordinator.* `rows[id]` is the row of `workflows`. A mutator of `coordinator.go`
is one action that stands for its `Get`, its checks and the change of its copy,
and `Save` for the write of the whole copy (`INSERT … ON CONFLICT DO UPDATE`) and
what the handler does after it: the next call of `POST /api/workflows`, the
learn pipeline, the summary goroutine. `procs[p]` holds the copy between the two.
`SaveFails` and the disjuncts with `DbMayFail` are the error paths. A document
is present or absent, a part of the change summary is known by who provided it.
A call that only returns changes nothing and is no step. Readiness warnings of
`Transition` are only logged. `handleAbortWorkflow` is the model's `Abort`
although no route of the server reaches it at this commit.

*FileReservations.* `tx[h]` is an open transaction: "read" after its SELECT,
"inserted" when it holds the write lock. SQLite is external and modelled by what
it does in WAL mode: a snapshot per transaction, one write lock, and an upgrade
of a snapshot that is no longer the latest fails at once (`MayWrite`). Rows that
differ in their random id alone are one. A pattern is a path of components and a
trailing glob (`"src/**"`); a glob within a name (`"src/a*"`) is outside the model.

*Dispatch* and *SwarmBoard.* Lists are sets with ranks for their order. A step of
`SwarmBoard` is one SQL statement; between two statements of a dispatch, of a
status change or of a tick anything may happen. `late` and `silent` say that a
timestamp is older than the guardian's threshold. `UpdateTicketStatus` serves
both clients and guardian and is `Update` (what it computes) and `Write` here. A
dispatched ticket whose UPDATE fails is skipped, as in the code. Result and
description of a ticket, the signals and the deletion of the mission are left
out. `wasDone` and `rejections` are history variables.

*EventBus.* A step is one effect another goroutine can see: `Publish` tests
`closed` and sends in two steps, `Close` sets the flag, cancels, closes the
channel and waits in four. A send on the closed channel panics
(`PublishPanics`): the code can do it, and the model lets it. `deliver` works on
a snapshot of the handlers, in any order, one goroutine each.

*IndexWorker.* `dirtyFiles` is the map under `dirtyMu`, `token` the channel of one
place; `markDirty` is `MarkAdds` and `MarkSignals`. `version`, `reported` and
`indexed` number the edits of a file, so that "the index is fresh" can be said.
`Index` ignores the paths it is given, and so does `Covered`.

*Forge.* Entry `e` is also the branch of its worker. Each git command is a step;
`CanStash`, `CanMerge` and `Clashes` say what git does, and a command of a call
may fail on another call's index lock (`Contended`). `gitIndex` tells an
unfinished merge from paths a failed pop left unmerged: `git merge --abort` ends
the first and not the second.

*Signals.* A poll is a transaction: snapshot (`PollSelects`), write lock
(`PollMarks`), `PollCommits`; SQLite refuses the lock to a stale snapshot, as in
`FileReservations`. `answered` counts the committed polls that held a signal.

*Guardian.* One measured quantity; `Compare` follows `checkTechDebt`, and a
baseline that cannot be read counts as none (`MisreadBaseline`). `open` counts
the alerts that `HasRecentAlert` would find. Any statement may fail (`DbFails`).

*LLMCalls.* A call passes `BudgetedClient`, the gate of its provider and the
retrying client. "high" stands for a call the budget does not hold: one of high
priority, or one whose lookup failed. Time is left out, with the minimum interval
between calls.

*Onboarding.* `progress` is the status behind the server's one pointer.
`ListExisting` sees one page per title of the rows the listing returns, or none
when it fails; pages go stale behind the job's back. Linking and the vault are
reports of progress (`ReportStage`).

*CodeAnalyst.* Contents of a file are numbered as they appear. `CollectAndFilter`
takes the hashes, `ReadSource` reads what is there by then, `UpdateCache` stores
the early hash. Rows of runs, findings and metrics are left out.

*InboxWatcher.* One path. `Rearm` is `Timer.Reset`, which also revives a timer
whose goroutine is already waiting for the lock; `ForgetTimer` deletes the map
entry whichever timer it holds. `excused` are versions given up by a failure or
present at a restart.

*Worktrees.* `SpawnWorker` is git, then the row, then the clean-up when the row is
refused; a removal lists the workers, removes one worktree after the other and, for
`CleanupMission`, deletes the mission. `listed` is what the removal found. What git fails to
remove is `spared`, with what was in the making in a crash and the worktree of a worker whose
row came between listing and deletion. Names of branches and the integration worktree are left out.

*PreviewMerge.* All previews of a mission share one path, so a second call starts by
removing the first one's. `git merge --abort` at `worktree.go:127` has no directory and
so acts on the project's own (`projectMerge`); the preview goes on in its conflict, in which
no later branch can be merged (`CanMergeInto`).

*Guardrails.* `Counted` is what a report writes back, `Verdicts` its answer. Only the
counters are modelled, with the ceiling and the repetition that block. A SELECT, INSERT or
UPDATE that fails ends the report without a count (`SomeFailed`).

*Terminal.* A session is its shell, its pty, its watcher and its reader. The reader
closes the connection it was started for, even if that has a new session by then. `rivals`
are the sessions of the same id whose watchers were still to come when it was entered.

*Hub.* `sync.RWMutex` with its rule that a waiting writer keeps new readers out. A
broadcast sends to one client at a time; `SendOrSkip` never waits.

*EvolutionCycle.* Flag, row of the run, one transaction per idea on a pool of
connections; `expired` is the context's deadline, which may pass anywhere. A COMMIT
that fails leaves its transaction open (`LeftOpen`), as the driver does.

*ProposalReview.* A request is a read with validation, the new status, and for an approval the
look for the file, its creation, or the roll-back. `unsettled` says that an overlap, a
stop or a lost roll-back came since the last approval that went through by itself.

*Migrations.* Each statement of `migrateDailyMetrics` commits by itself, and each step of
a process that opens the database is one of them. `cutOff` records that a process ended between
DROP and RENAME, `together` that two had the database open.

*WikiVault.* A text is known by the edits it holds. A pull is the read of file and row
(`PullReads`) and what it decides; a sync lists and writes. A deletion removes the row and then the
file, or fails to. Users leave the front matter alone.

*PageStaleness.* Scores in tenths, ages in units of ten days. `raised` and `givenUp` record
for each commit that touched the source whether the check acted upon it.

*DocsIndex.* One document, a text known by the number of its chunks; each DELETE and INSERT
is a step. `undisturbedRuns` and `tainted` say which runs met no failure, crash, overlap or edit.

*LearnPipeline.* The steps of `RunLearnPipeline` with the builder's mutex, the search
and the insert of artifact and page apart. A page that is deleted between its lookup and the second
reading is read as nil without an error, and the assignment at `db/wiki.go:631` panics: the pipeline
recovers and returns with nothing recorded (`ReloadPanics`). `blindBuilds` counts artifacts built
because the search failed.

*HookGuards.* Workflows change by whole operations here, since only stored rows are
seen; when the server does not answer, delegations are refused, except in the repository of
stratus itself, where they pass unjudged, and writes pass; `recent` is the order in which the server lists them, last updated first. `BeginDelegation` chooses which ids the text names; `fitting`, `missing` and `inReview`
record what the call has lived to see. Agents that are not "delivery" agents pass and are no step.

## 3. What is checked

"V" runs end in the violation they look for.

| run | instance | what it shows |
|---|---|---|
| `requests` | two requests at a time: reservations of 2 workers in nested directories; 1 workflow of all types on a database that may fail | `RequestsTypeOK`; `HoldersExist`, `NoSharedFile`, `ImplementsBook` (refinement); `PhaseOfItsType`: no interleaving stores a phase its type does not have; `DelegationsOnPath`: phase and delegations of a copy always tell one possible history |
| `workflow_one_client` | 2 connections, 1 request at a time, no git | `ImplementsLifecycle`: the calls implement the abstract lifecycle (refinement) |
| `workflow` | 1 client and the summary goroutine, 2 commits; 3 tickets whose files overlap in a chain, 2 workers; 2 workflows and a tool call | `PartsTypeOK`; `LearnAtMostOnce`, `ComputedSummaryIsOfFinishedWork`, `PhaseStepsValid`, `BaseCommitKept`; `OverlappingTicketsTogether`; `HooksDecide` |
| `workflow_two_clients` V | 2 requests | `PhaseStepsValid` fails |
| `workflow_agent_summary` V | 1 client, goroutine | `AgentSummaryKept` fails |
| `reservations_everything` V | the pattern `**` | `NoSharedFile` fails |
| `board` | 2 tickets, one depending on the other, 1 worker, 1 request, guardian | `BoardTypeOK`, `DependenciesDoneFirst`, `OverdueTicketsEnd` (liveness) |
| `board_resurrect` V | 1 ticket, 1 worker, guardian | `TerminalWorkersStay` fails |
| `board_retries` V | 1 ticket, 2 status changes at once | `RetriesBounded` fails |
| `services` | 21 services, each alone in its behaviours | what each keeps true, below |
| `services_fair` | the 12 services with fairness | what each gets done in the end, below |
| `docs_sweep` V | 1 document, 1 run at a time, 1 edit | `SweepsStaleOnly` fails |

The properties of `services` (always) and `services_fair` (in the end), beside
`ServicesTypeOK`. The runs name some of them together: `KnowledgeKept` is the last three
rows, `FairEventsServed`, `FairSwarmServed` and `FairInsightEnds` group the last column.

| service | always | in the end |
|---|---|---|
| event bus | `BusImplementsDeliveries` (refinement): at most once, to handlers of one moment | `SubscribersServed`, `CloseReturns` |
| index worker | `IndexKeepsUp`: no lost wake-up, and at rest after a good run the index holds all that was reported | `DirtyFilesTaken` |
| forge | `MergedIsIntegrated`; `UndisturbedForge`: trouble of one entry does not spill over, every stash is popped | `TakenEntriesDecided` |
| signals | `ReadMeansHandedOutOnce` | `DirectSignalsHandedOut`, for each worker that polls |
| guardian | `GuardianKept`: duplicates are bounded by the scans; the baseline falls unless scans overlap or a read fails | `DebtReported` |
| model calls | `OvershootBounded`: past the limit by less than one answer per caller | `CallsEnd` |
| onboarding | `OnboardingSound`: one page per title, unless jobs overlap or the store fails; never locked out | |
| code analyst | `SkippedWasAnalysed`, unless an earlier content was restored | `EngineIsFreed` |
| inbox | `InboxKept`: nothing is forgotten, and what is archived is a page or was overtaken | |
| worktrees | `TreesAccountedFor`: none without a row, but those of git's failures, of crashes, and of spawns between listing and deletion | `ListedTreesGo` |
| preview | `PreviewOrReported`: nothing is missing unreported, and before the first conflict nothing that exists is reported | |
| guardrails | `GuardrailsCount`: never overcounted; calls in a row that do not fail are counted exactly and loops blocked | |
| terminals | `TerminalsKept`: one open pty per connection; the newest session is found unless the watcher of one it replaced took the id, and a replaced one never is | `DeadAreForgotten` |
| hub | `SentToRegistered` (a conjunct of `FairEventsServed`) | `BroadcastsEnd`, `FailedClientsLeave` |
| evolution cycle | `EvolutionSettles`: one cycle at a time, no orphaned "running" row, no feature without its page | |
| proposal review | `ApprovedIsApplied`: approved exactly when the file was created | |
| database upgrade | `UpgradeLosesInOnePlace`: the database can be opened again, and only a crash between DROP and RENAME loses the metrics, then for good | |
| wiki vault | `VaultKeepsEdits`: a pull does not undo what the server had written when it looked; pages whose deletion raced nobody stay deleted | `EditsAreNoticed` |
| staleness of pages | `ChangesAreNoticed`: no change slips between two starts | |
| index of documents | `IndexedAsWritten`: an undisturbed run leaves exactly the document | |
| learn pipeline | `OneArtifactEach`; `SummaryIsTrue`, also of a pipeline that panics: it has none | `PipelinesEnd` |

`HooksDecide` of `workflow`: a delegation that names one workflow is judged by it or refused,
an agent is let through only if a workflow allowed it at some time of the call
(`FlowsNeverMix`), and no delivery agent writes while its session's one workflow is under
review and the server answers (`ReviewIsReadOnly`).

The premises are limits of the code, not of the model: without them TLC finds the
counterexample. Overlapping onboarding jobs do write a title twice; a stash pop
that conflicts does make later entries conflicts of their own; a restored file
may be skipped although only another content was analysed under its hash. The others, by line:

* the page of a learn pipeline deleted before it is read again makes the pipeline panic
  (`db/wiki.go:627-631`, with `wiki_scan.go:19-21`), and the workflow has no summary at all;
* overlapping previews of a mission (`PreviewMerge`) lose branches silently; `git merge
  --abort` (`worktree.go:127`) runs in the project's directory, where it may end a
  merge of the user's, and leaves the preview in its conflict: all later branches are reported
  as failed whether they conflict or not;
* worktrees of workers spawned between the listing and the deletion of their mission stay; so do integration
  and preview worktrees, though `SKILL.md:324` has all removed;
* a session created anew under its id ends the connection through the reader of the
  old one (`ws_terminal.go:112`), and the watcher of the old one forgets the new one;
* a failed COMMIT leaves the transaction open on its connection (`proposal_writer.go:152`);
* two processes that open an old database at once may lose metrics; a crash between
  DROP and RENAME (`db.go:128-129`) loses them for good: the next opening finds no
  `daily_metrics` (`db.go:81-83`), the schema makes an empty one that has the new column, and no
  opening ever reads or renames `daily_metrics_new` again;
* an edit of the server between a pull's look at the row and its update is overwritten
  (`vault_pull.go:108-139`); a pull or a sync at work on a page while it is deleted, or a file
  that cannot be removed (`routes_wiki.go:218-221`), brings it back;
* the exported form of a page may be written back as its text by a pull, conflicts are
  copied again at each pull, and files without an id become a page at each pull;
* `DocsIndex`: a crash between two chunks leaves a part of a document in the index for ever,
  since the first chunk's hash matches;
* `PageStaleness`: changes are given up when the diff or a query fails, and the
  baseline is noted all the same; maintenance overwrites a raised score with its own;
* `ProposalReview`: overlapping approvals leave "approved" without its file, or a file
  with "drafted", and a file that appears between `Stat` and write is overwritten
  although `routes_insight.go:469` says "Never overwrite";
* `HookGuards`: the write guard lets everything through when the server does not answer;
  of several workflows of the session named in one text the first of the list is taken; in the
  repository of stratus itself a server that does not answer lets delegations through
  (`phase_guard.go:151-153`).

**Bounds, and why they are enough.** Workflows do not share anything, so one
is enough; two requests at a time give every pair of interleaved calls, and what
holds of them is proved for any number. `MaxDelegations = 1` still lets a
delegation be recorded under every phase. One goroutine (`Goroutines`) is enough
because "complete" has no successor: a workflow spawns one at most, and in these
runs the workflow is not deleted where commits exist. `MaxLearnRuns` is one more
than the property allows in `workflow`. Reservations: two rows make a
conflict and a third one leaves room for a request in progress; the patterns
contain a directory, one below it and one beside it, and two per request.
`board` has one request beside the guardian, which is enough for every race the
guardian takes part in; two concurrent requests on two tickets exceed what TLC can
do, and for them `DependenciesDoneFirst` and `BoardTypeOK` are proved. Limits on
revisions and rejections are 1, so that they are reached. The dispatch of `workflow` has
the smallest set of tickets whose overlap is not transitive, ranked so that the
connecting one comes last. `services`: two of everything that races (events and
handlers, callers, overlapping forge calls, polls, scans, timers and ingests), three
callers of the model on one slot, so that one waits behind another that waits,
and three onboarding jobs, since the first two cannot overlap by themselves: it takes a
late write of the first to let the third start beside the second. `MaxMeddling`
= 2 lets two things come between the git commands, e.g. an edit and a crash;
`MaxUsage` is past the limit of the budget; `MaxEdits`, `MaxVersions` and
`MaxWrites` let a file change under every reader; `MaxPages` and `ListLimit` let
a title have a second page. For the onboarding one title is enough, as pages of
different titles meet only in the limit of the listing. Two workers and two removals make
a spawn beside a removal and a removal beside another; two conflicting branches and two
previews make every conflict there is to report. Four tool calls reach the ceiling of
four and, in a row, pass the repetition of three. Two connections, one id and three shells:
a session replaced under its id twice, by its own connection or another. Two browsers with channels of one
message: one full, one not, under two broadcasts. Two cycles and two ideas, one with a
page; two openers and one day of metrics; one page with one pull, two edits and one
heading (a page shares nothing with another); two reviews of one proposal; two commits
and two starts, so that a commit lies between them; texts of one and two
chunks, so that one can be the beginning of what the other left; two pipelines of one
workflow. Hooks: two workflows of type bug and one agent, which may work in some of its phases
and not in others. `services_fair` has one vault edit, one signal, one source file, two shells
and one disturbance of the forge, since liveness costs most there. Symmetry is used among requests only (`requests`), in runs without
liveness; no action names one of them.

**Restricted environments.** `workflow_one_client` has no repository, no
`e2e` workflows (their phases are a row of the same table) and leaves out
`SetPlanContent` and `SetDesignContent`, which `workflow` has (each sets one field to
a text or to none). `workflow` deletes nothing: a goroutine that outlives its row puts
the row back, which is a property of the code (`save` is an upsert) and not one
of these. `SetTicketTo` and `SetWorkerTo` say which statuses clients set; `board`
leaves workers to the guardian and to heartbeats, `board_resurrect` sets only
terminal ones.

**Fairness.** `SwarmBoard` has `WF_boardVars(Tick)`. The scheduler calls the
guardian's job again as long as the server runs, ticks follow one another, and a
tick is a finite sequence of statements; that they succeed in the end is an
assumption (a tick whose statements fail is retried at the next one). Requests are
never forced to come or to finish, and time need not pass.

In `services_fair` every liveness property is `service = "x" /\ Fairness of the module => X`,
so that none leans on the fairness of another service. All of them have weak
fairness of goroutines that have begun (dispatcher, deliveries, a `Close`,
the index worker, calls of the forge and of the model, scans, runs, removals of
worktrees, watchers and readers of terminals, pulls, pipelines, broadcasts and the
hub's lock) and none of requests, failures or crashes, nor of a write to a browser,
which may take for ever. Strong fairness is assumed in five places: of
`TakeBatch` (again and again nothing is reported for the five seconds of the
quiet period; with reports that never pause the code indeed never indexes); of a
worker's polls and of their `PollMarks` (a worker with unread signals keeps
polling, and sometimes no other write comes between the two statements, since a
stale snapshot is refused each time); of the tick's statements in `Guardian` (the
database does not fail for ever); of a pull's visits to each file (`PullReads`: every walk of the
vault comes to every file, also when edits come in between).

Each checked property has a mutant: a plausible bug in one mapped definition
(named as a mutant in its comment), with which TLC finds the property violated.

### Findings

1. `workflow_two_clients`: README.md:493 promises that every phase change is
   validated before it is written. It is validated against a copy; with two
   requests the stored phase moves along no transition.
2. `workflow_agent_summary`: the comment at `coordinator.go:579-581` says that the
   goroutine cannot erase what an agent submitted. It fills
   `governance_compliance` itself, and it writes back a row it read earlier.
3. `reservations_everything`: `**` strips to an empty base, which overlaps with
   nothing, so two workers share every file.
4. `board_resurrect`: a worker killed after the guardian listed it becomes stale,
   and its next heartbeat makes it active, against `db/swarm.go:299-300`.
5. `docs_sweep`: a document that did not change is skipped without touching its rows'
   `indexed_at`, and then swept because they are a day old, against the comment
   "Remove stale entries" (`db/governance.go:56`): a document in order drops out of the
   index until the next run.
6. `board_retries`: two status changes of one ticket lose a count, and it goes
   back to work more often than `MaxTicketRejections`.

Noted without a run: the comment at `wiki_engine/engine.go:158-160` says that pages over
the *configured* threshold are marked stale by the store, which has a constant of its own
(0.7, `db/wiki.go:33`) that the formula above it can reach and not exceed, so that maintenance marks
none, and since `UpdateWikiPageStaleness` sets `updated_at`, each maintenance resets the age it measures.
`string(rune('0'+n))` (`routes_swarm.go:785`) prints no number past nine.
`phase_guard.go:435-436` promises no pick by list order, which line 463 does among workflows of one session.
The comment at `db/db.go:82`, "table not yet created; schema will handle it", is wrong of a database whose
upgrade was cut off between DROP and RENAME.

## 4. What is proved

Every invariant, action property and refinement that a passing run checks is also
proved, for every value of the constants that satisfies the named assumptions of the
modules. Each assumption gives constants their types (bounds are natural numbers, those
the code keeps positive are not 0; sets of tickets, workers, titles, scans, callers,
pipelines are finite; ranks tell tickets and workers apart), or says that a value that
stands for "none" is no row. TLC evaluates each of them in a run. Beside
them, two kinds of theorems about a specification have a hypothesis:
`NoSharedFileHolds`, that no pattern has an empty base (finding 3 is what happens
otherwise), and the theorems about one client (`OneClient`, `OneClientNoGit`), below.

The bounds of the runs are constants (`MaxEntries`, `MaxToolCalls`, `MaxShells`, …), so a
theorem holds whatever they are.

**Workflows** (`WorkflowProofs`).
`TypeCorrect`, `PhaseOfItsTypeHolds`, `DelegationsOnPathHolds`, for any number of
requests, workflows and goroutines. The invariants are about every *copy*, stored or
held, since a held copy is stored later whatever happened in between; `IndInv` says
that every copy is `Good` (phase of its type, delegations on its path), with the shape
of each pending call. The key lemmas are `TransitionStaysInType` and `CanReachStep`: a
transition extends every path by one step.
For one client at a time on a database that does not fail (`OneClient`, nothing
deleted): `LearnAtMostOnceHolds`, `ComputedSummaryHolds`, `PhaseStepsValidHolds`,
`BaseCommitKeptHolds`, beside any number of summary goroutines. The invariant
relates each held copy to the row it will replace (`UpToDate`): type and base
commit are still the row's, and a held transition is still valid. The step that
needs an argument is `SaveOne`: of two calls about one workflow one is a
goroutine's, so the workflow is complete, "complete" is final, and both copies
agree with the row on type, phase and base commit. For one client without git,
deletions included, `ImplementsLifecycleHolds` proves the refinement: a held copy
is one abstract step from the row (`OneStepFrom`).
`HooksDecideHolds`: the invariant `CallWitnessed` says that what a call has read is known
to the witnesses of what it lived to see (`fitting`, `missing`, `inReview`), and `Lists`
that the server's list has each workflow once, so that of one named workflow there is
one answer.

**Overlapping requests** (`RequestsProofs`).
`ReservationsTypeCorrect`, `HoldersExistHolds`, `NoSharedFileHolds`,
`ImplementsBookHolds`. The inductive invariant says that a
fresh snapshot is what is stored, that at most one transaction holds the lock,
that the one that does has a fresh snapshot and saw no conflict, and that what
is stored has no conflicts. Commit then is `Acquire` of the book. From
conflict-freedom to files: if two patterns cover one file their bases are
prefixes of one path, so one is a prefix of the other (`SharedFileOverlaps`).
`RequestsTypeCorrect` composes it with the coordinator.

**Swarm** (`SwarmBoardProofs`).
`DispatchFindsWorker`: the round-robin index never leaves the list of candidates; the
n-th of a finite ranked list exists, by the least counterexample.
`PlanKeepsOverlapsTogether`: overlapping tickets have equal
groups, hence one first ticket and one worker.
`BoardTypeCorrect`, `DependenciesDoneFirstHolds`, `OverlappingTicketsTogetherHolds`,
for any number of requests. The invariant `BoardInv`
says of each pending call what its reads still guarantee after the rows
changed: rows once there stay, `wasDone` only grows, so what was done when a
dispatch listed a ticket is recorded for ever (`CallOK`, `GuardianOK`,
`DoneIsRecorded`); the plan's shape comes from `DispatchFindsWorker`.
`PartsTypeCorrect` composes coordinator, dispatch and hooks (`MCWorkflow`).

**Branches and worktrees** (`ForgeProofs`).
`MergedIsIntegratedHolds`: the invariant follows an outcome from
the merge to the record: a call that holds "merged" for an entry, or a row that
says so, means `integrated[e] >= submittedTip[e]`, which no later step undoes
because `tip` and `integrated` only grow; the turn of a call is an entry of its list.
`BlameIsJustHolds` and `EditsComeBackHolds`, together `UndisturbedForgeHolds`: while
`undisturbed`, one call runs at a time (`Quiet`), it finds index and stash as its last
command left them, and it has a reason for each outcome it holds (`QuietCall`).
`TreesAccountedForHolds`: inductive with the type and with `ListedDone`: who has a row, or was
listed by a removal, is not in the making, and a worktree a removal is done with is gone or
`spared`. So the cascade that deletes the rows leaves only what the listing had missed.
`PreviewOrReportedHolds` (an action property): the branch that is merged is the one
whose turn it is (`OneMerging`, `HasTurn`), and a branch leaves the list only into the
tree or into the report; that a turn exists is the least-element lemma. While the preview is
clean, who is reported has been deleted (`JustReports`): a branch that clashed ends "clean" for good.

**Beside the requests** (`BackgroundProofs`).
Index worker: `NoLostWakeupHolds` (inductive as it stands),
`FreshWhenQuietHolds` (whatever was reported is dirty, being read, or in the
index, unless the last run failed), together `IndexKeepsUpHolds`.
Guardian: `GuardianKeptHolds`; open alerts and those about to be saved together are at
most as many as the scans, and a scan alone compared with the baseline it writes.
Inbox: `InboxNotForgottenHolds` and `ArchivedIsPageOrOvertookHolds` (versions grow, and an
archiving goroutine's own text is a page or given up), together `InboxKeptHolds`.
Signals: `ReadMeansHandedOutOnceHolds`; a snapshot that is not stale shows
what is stored, and whoever holds the lock has such a snapshot, so the UPDATE
marks exactly the rows of the SELECT.
Bus: `BusImplementsDeliveriesHolds`; channel, delivery and
goroutines hold disjoint events, each of them accepted, in the channel once
(`BusInv`); then sends, starts, runs and `Close` are Accept, Offer, Handle and
Withdraw or stutter.
Hub: `SentToRegisteredHolds`.
Guardrails: `GuardrailsCountHolds`; a row never counts a call that has not begun
(`CountsWithin`), and while reports do not overlap, the row is the streak or one call
behind it (`OneAfterTheOther`), as long as no report failed.
Terminals: `TerminalsKeptHolds`; sessions are started in order, an open pty is the one its
connection types into, and an id leads to its newest session until a rival of that
session is gone (`Newest`, `RivalsKnown`), and to the last one or nowhere (`LeadsToLast`).
Upgrade: `UpgradeLosesInOnePlaceHolds`; with one opener at a time, its step tells which tables
there are, and a table that is dropped has no rows the new one lacks (`TablesAt`). `MetricsStand`
says where the old metrics are: in `daily_metrics` while there is one, in the new table between
DROP and RENAME, and, once a process ended there, in the new table for ever, which no step of an
opener looks for.

**Calls of the model and what they make** (`InsightProofs`).
`OvershootBoundedHolds`: a call the budget let through is
charged `MaxTokens` in advance (`OvershootAccounted`, with `AccountedIsBounded`).
`NeverLockedOutHolds` and `OnePagePerTitleHolds`, together `OnboardingSoundHolds`: while
nothing disturbs the jobs one is at work (`OneAtWork`), what it saw of the pages it
has to make is still so (`KnowsPages`), and the listing has room for all pages, since with one
per title there are at most as many as titles (`RowsFit`, by cardinalities; no sum is needed).
`SkippedWasAnalysedHolds`: a hash that is the newest content's cannot have
been overtaken between hashing and reading (`RunOK`, `CacheOK`).
`EvolutionSettlesHolds`: the flag is set as long as a cycle runs, a cycle that has not
started has no row, and a transaction about to commit holds a page for each new
feature (`FlagIsSet`, `NoRowYet`, `CommitsPages`).
`ApprovedIsAppliedHolds`: while settled, the one busy request knows by the status it read
whether the file is there (`FromTellsFile`), and at rest status and file `Agree`.

**Knowledge** (`KnowledgeProofs`).
`VaultKeepsEditsHolds` (an action property): each copy of a page, in its file, in a list
or in the hands of a pull, is older than the page or has all that the server wrote
(`Behind`); whoever could bring a deleted page back has made it a raced one.
`ChangesAreNoticedHolds`: commits up to the one noted are settled, and those up to the one
a check started from (`Settled`).
`IndexedAsWrittenHolds`: an undisturbed run has written what it has read so far, and rows
that no disturbed run left are a whole text (`WroteSoFar`, `RowsOf`).
`OneArtifactEachHolds`, `SummaryIsTrueHolds`: artifacts are at most as many as the
pipelines that are past building, who builds holds the builder's mutex, an outcome a
pipeline holds is a row that is there, and a pipeline that has a summary has ended and moves
no more; one that panicked never comes to its summary.

**The services side by side** (`ServicesProofs`).
A behaviour of `MCServices` begins and steps as each service does (`EachBegins`,
`EachSteps`), without its fairness, so every invariant above holds of the
composition: `KnowledgeKeptHolds`, `ServicesKeepTheirs`. `ServicesTypeCorrect` adds the
types of all variables. Some need facts that are no types: the bus's channel is within its
capacity because a send needs room, a stash of the forge holds an edit (`ForgeFlags`,
`ForgeCounts`), a run of the analyst that asks the model asks about files
(`AsksAboutFiles`), an ingest that saves has a text (`SavesText`).

**Only model-checked:** liveness, which is out of TLAPS's reach with the ENABLED that
fairness needs: `OverdueTicketsEnd`, and the last column of the table of services
(`FairEventsServed`, `FairSwarmServed`, `FairInsightEnds`). The safety conjunct of
`FairEventsServed`, `SentToRegistered`, is proved. Nothing is recursive: no module
declares a RECURSIVE operator, and sequences are taken apart by index or by `RemoveAt`
where a proof speaks about them.

## 5. Not modelled

* **Time and text.** The minimum interval between model calls, the windows of 24
  hours and 60 seconds, formats of time stamps. `created_at > datetime(...)` at
  `db/guardian.go:93` compares a "T" with a blank and so accepts up to 48 hours; the
  model lets an alert stop being recent at any time. In the same way
  `indexed_at < datetime(...)` at `db/governance.go:57` holds of rows of an earlier date only,
  and a row may be aged or not in the model.
* **Components without a protocol**: scores and texts computed from rows (analytics,
  links and search of the wiki, generators of the evolution loop), appended rows
  (checkpoints, evidence), translation of requests, flags and files (MCP, command
  line, configuration, agents, the copying of assets in `cmd/stratus/main.go`), prefetch,
  the frontend, skills.
* **Hooks**: commands of the shell that write (text), `teammate_idle`, which reads one list and
  answers. The list of active workflows ends after ten (`coordinator.go:475`), and an id is
  found as a part of a longer one; two workflows cannot show either.
* **Insight engine** beyond the check at start: the flag of a generation that ends late
  would matter for Stop followed by Start, and the program starts the engine once.
  The older `Run` of the evolution loop, called when `StratusSelfEnabled` is set;
  the recording of agent results, of trajectories and of syntheses, which nothing calls at this
  commit. The diff of the check at start ends after 500 files.
* **Learn pipeline**: `BuildRecent`, since nothing publishes the event that starts it; titles of plans.
* **Worktrees**: the integration worktree, which is created once and which nothing removes.
* **Hazards without a property**, for nothing promises otherwise: `SetTasks` does not
  reset `current_task` (`coordinator.go:399`); the raw text of a request is compared with
  "complete" (`routes_orchestration.go:386`); reservations of workers that are gone are
  released by nobody (`db/swarm.go:836`); the id of a timeout signal is its ticket's
  (`guardian/checks.go:222`), so that a second one is refused; the answer of a poll that is lost on
  its way is not handed out again; `git merge --abort` in the user's project; two processes that open
  an old database; files of the vault without an id.

## 6. Plan

Done: the workflow coordinator, file reservations, dispatch and the board; the
services of `MCServices`; the hooks; each with the properties of its hazards, and three
refinements of abstract specifications (`WorkflowLifecycle`, `ReservationBook`,
`Deliveries`); proofs of every invariant, action property and refinement the runs check,
component by component, and of the three compositions.

What could follow: an abstract merge queue that `Forge` implements while nothing
disturbs it, an atomic mailbox that `Signals` implements, and an abstract store of
pages for `WikiVault`; upper bounds on what the proved premises exclude (how many pages a
title can get when onboarding jobs overlap, how often a ticket can be retried when
status changes do).
