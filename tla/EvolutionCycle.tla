----------------------------- MODULE EvolutionCycle ----------------------------
(* The evolution cycle: one at a time, with a row of its own, scores ideas and     *)
(* writes each of them in a transaction under the context of the cycle, which      *)
(* times out. A COMMIT that meets the timeout fails, and nothing rolls the         *)
(* transaction back: it stays open on its connection, which goes to the pool.      *)

CONSTANTS Cycles,        \* goroutines that were triggered, each once
          Ideas,         \* hypotheses, by their idempotency hash
          FeatureIdeas   \* those that get a page of the wiki too

ASSUME FeatureAssumption == FeatureIdeas \subseteq Ideas

VARIABLES evoRunning,    \* the loop's flag
          cycles,        \* where each cycle is, and the ideas it has to write
          expired,       \* cycles whose timeout has passed
          runRows,       \* the status in each cycle's row of evolution_runs
          proposals,     \* ideas with a committed row
          ideaPages,     \* ideas with a committed page
          txn,           \* the open transaction: rows and pages it inserted
          evoExcused     \* cycles that a crash or the database cut short

evoVars == <<evoRunning, cycles, expired, runRows, proposals, ideaPages, txn, evoExcused>>

Txn(open, rows, pagesOf) == [open |-> open, rows |-> rows, pages |-> pagesOf]
NoTxn == Txn(FALSE, {}, {})
Cycle(at, todo) == [at |-> at, todo |-> todo]

EvoInit ==
  /\ evoRunning = FALSE
  /\ cycles = [c \in Cycles |-> Cycle("idle", {})]
  /\ expired = {} /\ evoExcused = {}
  /\ runRows = [c \in Cycles |-> "none"]
  /\ proposals = {} /\ ideaPages = {}
  /\ txn = NoTxn

InCycle(c) == cycles[c].at \notin {"idle", "refused", "ended"}
Writing    == \E c \in Cycles : cycles[c].at \in {"write", "commit"}
LeftOpen   == txn.open /\ ~Writing

-----------------------------------------------------------------------------
RunTargetCycle(c) ==
  /\ cycles[c].at = "idle"
  /\ \/ /\ evoRunning
        /\ cycles' = [cycles EXCEPT ![c] = Cycle("refused", {})]
        /\ UNCHANGED evoRunning
     \/ /\ ~evoRunning
        /\ evoRunning' = TRUE
        /\ cycles' = [cycles EXCEPT ![c] = Cycle("start", {})]
  /\ UNCHANGED <<expired, runRows, proposals, ideaPages, txn, evoExcused>>

SaveCycle(c) ==
  /\ cycles[c].at = "start" /\ ~LeftOpen
  /\ runRows' = [runRows EXCEPT ![c] = "running"]
  /\ cycles' = [cycles EXCEPT ![c] = Cycle("build", {})]
  /\ UNCHANGED <<evoRunning, expired, proposals, ideaPages, txn, evoExcused>>

\* The database is busy for too long, as it is while a transaction stays open.
SaveCycleFails(c) ==
  /\ cycles[c].at = "start"
  /\ cycles' = [cycles EXCEPT ![c] = Cycle("ended", {})]
  /\ evoRunning' = FALSE
  /\ UNCHANGED <<expired, runRows, proposals, ideaPages, txn, evoExcused>>

TimesOut(c) ==
  /\ InCycle(c) /\ cycles[c].at # "start" /\ c \notin expired
  /\ expired' = expired \union {c}
  /\ UNCHANGED <<evoRunning, cycles, runRows, proposals, ideaPages, txn, evoExcused>>

Generate(c, found) ==
  /\ cycles[c].at = "build"
  /\ cycles' = [cycles EXCEPT ![c] = Cycle("score", found)]
  /\ UNCHANGED <<evoRunning, expired, runRows, proposals, ideaPages, txn, evoExcused>>

BuildFails(c) ==
  /\ cycles[c].at = "build"
  /\ cycles' = [cycles EXCEPT ![c] = Cycle("failed", {})]
  /\ UNCHANGED <<evoRunning, expired, runRows, proposals, ideaPages, txn, evoExcused>>

-----------------------------------------------------------------------------
NextIdea(c) == CHOOSE i \in cycles[c].todo : TRUE
WithoutIdea(c) == Cycle("score", cycles[c].todo \ {NextIdea(c)})

BeginImmediate(c) ==
  /\ cycles[c].at = "score" /\ cycles[c].todo # {}
  /\ c \notin expired /\ ~txn.open
  /\ txn' = Txn(TRUE, {}, {})
  /\ cycles' = [cycles EXCEPT ![c].at = "write"]
  /\ UNCHANGED <<evoRunning, expired, runRows, proposals, ideaPages, evoExcused>>

\* No connection after the timeout, or no transaction beside the one left open: the
\* error is logged and the idea skipped.
BeginFails(c) ==
  /\ cycles[c].at = "score" /\ cycles[c].todo # {}
  /\ c \in expired \/ txn.open
  /\ cycles' = [cycles EXCEPT ![c] = WithoutIdea(c)]
  /\ UNCHANGED <<evoRunning, expired, runRows, proposals, ideaPages, txn, evoExcused>>

PagesFor(i) == ({i} \intersect FeatureIdeas) \ proposals

WriteInTx(c) ==
  /\ cycles[c].at = "write" /\ c \notin expired
  /\ txn' = Txn(TRUE, {NextIdea(c)}, PagesFor(NextIdea(c)))
  /\ cycles' = [cycles EXCEPT ![c].at = "commit"]
  /\ UNCHANGED <<evoRunning, expired, runRows, proposals, ideaPages, evoExcused>>

WriteRollsBack(c) ==
  /\ cycles[c].at = "write"
  /\ txn' = NoTxn
  /\ cycles' = [cycles EXCEPT ![c] = WithoutIdea(c)]
  /\ UNCHANGED <<evoRunning, expired, runRows, proposals, ideaPages, evoExcused>>

CommitIdea(c) ==
  /\ cycles[c].at = "commit" /\ c \notin expired
  /\ proposals' = proposals \union txn.rows
  /\ ideaPages' = ideaPages \union txn.pages
  /\ txn' = NoTxn
  /\ cycles' = [cycles EXCEPT ![c] = WithoutIdea(c)]
  /\ UNCHANGED <<evoRunning, expired, runRows, evoExcused>>

CommitTimesOut(c) ==
  /\ cycles[c].at = "commit" /\ c \in expired
  /\ cycles' = [cycles EXCEPT ![c] = WithoutIdea(c)]
  /\ UNCHANGED <<evoRunning, expired, runRows, proposals, ideaPages, txn, evoExcused>>

-----------------------------------------------------------------------------
\* Mutant of Final: a cycle that failed keeps its status.
FinalIfDone(c) == IF cycles[c].at = "failed" THEN runRows[c] ELSE "completed"

Final(c) == IF cycles[c].at = "failed" THEN "failed" ELSE "completed"

MayFinish(c) == cycles[c].at = "failed" \/ (cycles[c].at = "score" /\ cycles[c].todo = {})

FinishRun(c) ==
  /\ MayFinish(c) /\ ~LeftOpen
  /\ runRows' = [runRows EXCEPT ![c] = Final(c)]
  /\ cycles' = [cycles EXCEPT ![c] = Cycle("ended", {})]
  /\ evoRunning' = FALSE
  /\ UNCHANGED <<expired, proposals, ideaPages, txn, evoExcused>>

\* UpdateRun fails, or ends up in the transaction that is open: an error is logged.
FinishUnsaved(c) ==
  /\ MayFinish(c)
  /\ cycles' = [cycles EXCEPT ![c] = Cycle("ended", {})]
  /\ evoRunning' = FALSE
  /\ evoExcused' = evoExcused \union {c}
  /\ UNCHANGED <<expired, runRows, proposals, ideaPages, txn>>

\* The server stops: SQLite undoes the open transaction; rows stay "running".
CrashInCycle ==
  /\ (\E c \in Cycles : InCycle(c)) \/ txn.open
  /\ evoExcused' = evoExcused \union {c \in Cycles : InCycle(c)}
  /\ cycles' = [c \in Cycles |-> IF InCycle(c) THEN Cycle("ended", {}) ELSE cycles[c]]
  /\ evoRunning' = FALSE /\ txn' = NoTxn
  /\ UNCHANGED <<expired, runRows, proposals, ideaPages>>

EvoNext ==
  \/ CrashInCycle
  \/ \E c \in Cycles :
       \/ RunTargetCycle(c) \/ SaveCycle(c) \/ SaveCycleFails(c) \/ TimesOut(c)
       \/ BuildFails(c) \/ \E found \in SUBSET Ideas : Generate(c, found)
       \/ BeginImmediate(c) \/ BeginFails(c) \/ WriteInTx(c) \/ WriteRollsBack(c)
       \/ CommitIdea(c) \/ CommitTimesOut(c) \/ FinishRun(c) \/ FinishUnsaved(c)

EvoSpec == EvoInit /\ [][EvoNext]_evoVars

-----------------------------------------------------------------------------
EvoTypeOK ==
  /\ evoRunning \in BOOLEAN
  /\ cycles \in [Cycles -> [at : {"idle", "refused", "start", "build", "score", "write",
                                  "commit", "failed", "ended"}, todo : SUBSET Ideas]]
  /\ expired \subseteq Cycles /\ evoExcused \subseteq Cycles
  /\ runRows \in [Cycles -> {"none", "running", "completed", "failed"}]
  /\ proposals \subseteq Ideas /\ ideaPages \subseteq Ideas
  /\ txn \in [open : BOOLEAN, rows : SUBSET Ideas, pages : SUBSET Ideas]

\* Two cycles are never under way at once, whatever times out, fails or crashes
\* (run_target_cycle.go:24-39).
OneCycleAtATime ==
  \A c, d \in Cycles : InCycle(c) /\ InCycle(d) => c = d

\* A row that says "running" belongs to the cycle that runs, unless the server crashed
\* or the database refused the last update (run_target_cycle.go:93-116).
RunningRunsRun ==
  \A c \in Cycles : runRows[c] = "running" => InCycle(c) \/ c \in evoExcused

\* A proposal of a new feature has its page, whenever a timeout, an error or a crash
\* cuts the write of both short (proposal_writer.go:163-260).
FeaturesHavePages ==
  proposals \intersect FeatureIdeas = ideaPages

\* Flag, rows and pages agree, whatever times out, fails or crashes.
EvolutionSettles == OneCycleAtATime /\ RunningRunsRun /\ FeaturesHavePages
=============================================================================
