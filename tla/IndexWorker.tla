------------------------------ MODULE IndexWorker ------------------------------
(* The worker that keeps the code index fresh: requests add the files an agent *)
(* changed to a set and leave a token in a channel of one place; the worker    *)
(* waits for the token, lets the edits settle, empties the set and indexes.    *)
EXTENDS Naturals, FiniteSets

CONSTANTS IndexFiles,    \* files that change
          IndexCallers,  \* requests that report changes, at once
          MaxEdits       \* bound of the model: edits of a file

ASSUME IndexAssumption == MaxEdits \in Nat

VARIABLES version,      \* edits of each file on disk
          reported,     \* the version a caller of markDirty had seen
          dirtyFiles,   \* the set under dirtyMu
          token,        \* dirtyCh holds a value
          marking,      \* callers between their two steps
          worker,       \* where the worker is
          failing,      \* consecutiveErrors > 0
          reading,      \* versions on disk when the running index began
          indexed,      \* versions the index holds at least
          lastRunGood   \* the last batch was indexed, not dropped

indexVars == <<version, reported, dirtyFiles, token, marking, worker, failing,
               reading, indexed, lastRunGood>>

None0 == [f \in IndexFiles |-> 0]

IndexInit ==
  /\ version = None0 /\ reported = None0 /\ reading = None0 /\ indexed = None0
  /\ dirtyFiles = {}
  /\ token = FALSE
  /\ marking = {}
  /\ worker = "waiting"
  /\ failing = FALSE
  /\ lastRunGood = TRUE

-----------------------------------------------------------------------------
Edit(f) ==
  /\ version[f] < MaxEdits
  /\ version' = [version EXCEPT ![f] = @ + 1]
  /\ UNCHANGED <<reported, dirtyFiles, token, marking, worker, failing, reading,
                 indexed, lastRunGood>>

\* markDirty adds under the lock, and then leaves the token.
MarkAdds(c, files) ==
  /\ c \notin marking
  /\ marking' = marking \union {c}
  /\ dirtyFiles' = dirtyFiles \union files
  /\ reported' = [f \in IndexFiles |-> IF f \in files THEN version[f] ELSE reported[f]]
  /\ UNCHANGED <<version, token, worker, failing, reading, indexed, lastRunGood>>

\* Mutant of MarkSignals: the channel has no place, so that the token gets
\* through only to a worker that waits for it.
MarkSignalsUnbuffered(c) ==
  /\ c \in marking
  /\ marking' = marking \ {c}
  /\ token' = (token \/ worker = "waiting")
  /\ UNCHANGED <<version, reported, dirtyFiles, worker, failing, reading, indexed,
                 lastRunGood>>

MarkSignals(c) ==
  /\ c \in marking
  /\ marking' = marking \ {c}
  /\ token' = TRUE
  /\ UNCHANGED <<version, reported, dirtyFiles, worker, failing, reading, indexed,
                 lastRunGood>>

-----------------------------------------------------------------------------
WorkerWakes ==
  /\ worker = "waiting" /\ token
  /\ token' = FALSE
  /\ worker' = IF failing THEN "backing off" ELSE "settling"
  /\ UNCHANGED <<version, reported, dirtyFiles, marking, failing, reading, indexed,
                 lastRunGood>>

AfterBackoff == "settling"

\* The back-off ends by itself or with the next token, which it consumes.
BackoffEnds ==
  /\ worker = "backing off"
  /\ worker' = AfterBackoff
  /\ token' \in {token, FALSE}
  /\ UNCHANGED <<version, reported, dirtyFiles, marking, failing, reading, indexed,
                 lastRunGood>>

\* A token during the quiet period starts the period again.
Resettle ==
  /\ worker = "settling" /\ token
  /\ token' = FALSE
  /\ UNCHANGED <<version, reported, dirtyFiles, marking, worker, failing, reading,
                 indexed, lastRunGood>>

\* Index ignores the list it is given and indexes the whole project: afterwards
\* the index holds what was on disk when it began, or later.
Covered == version

\* The quiet period is over: the set is taken, and dropped when the indexer is
\* not installed.
TakeBatch ==
  /\ worker = "settling"
  /\ dirtyFiles' = {}
  /\ \/ dirtyFiles = {} /\ worker' = "waiting" /\ UNCHANGED <<lastRunGood, reading>>
     \/ /\ dirtyFiles # {} /\ worker' = "waiting"
        /\ lastRunGood' = FALSE /\ UNCHANGED reading
     \/ /\ dirtyFiles # {} /\ worker' = "indexing"
        /\ reading' = Covered /\ UNCHANGED lastRunGood
  /\ UNCHANGED <<version, reported, token, marking, failing, indexed>>

IndexSucceeds ==
  /\ worker = "indexing"
  /\ worker' = "waiting"
  /\ indexed' = reading
  /\ failing' = FALSE
  /\ lastRunGood' = TRUE
  /\ UNCHANGED <<version, reported, dirtyFiles, token, marking, reading>>

IndexFails ==
  /\ worker = "indexing"
  /\ worker' = "waiting"
  /\ failing' = TRUE
  /\ lastRunGood' = FALSE
  /\ UNCHANGED <<version, reported, dirtyFiles, token, marking, reading, indexed>>

WorkerStep == \/ WorkerWakes \/ BackoffEnds \/ Resettle \/ TakeBatch
              \/ IndexSucceeds \/ IndexFails

IndexNext ==
  \/ \E f \in IndexFiles : Edit(f)
  \/ \E c \in IndexCallers : \/ MarkSignals(c)
                             \/ \E files \in SUBSET IndexFiles \ {{}} : MarkAdds(c, files)
  \/ WorkerWakes \/ BackoffEnds \/ Resettle \/ TakeBatch
  \/ IndexSucceeds \/ IndexFails

\* The worker runs, and a caller that added files goes on to leave its token;
\* nobody is bound to report. Strong fairness of TakeBatch says that again and
\* again nothing is reported for the five seconds of the quiet period.
IndexFairness ==
  /\ WF_indexVars(WorkerStep)
  /\ SF_indexVars(TakeBatch)
  /\ \A c \in IndexCallers : WF_indexVars(MarkSignals(c))

IndexSpec == IndexInit /\ [][IndexNext]_indexVars /\ IndexFairness

-----------------------------------------------------------------------------
Versions == [IndexFiles -> 0 .. MaxEdits]

IndexTypeOK ==
  /\ version \in Versions /\ reported \in Versions
  /\ reading \in Versions /\ indexed \in Versions
  /\ dirtyFiles \subseteq IndexFiles
  /\ token \in BOOLEAN /\ failing \in BOOLEAN /\ lastRunGood \in BOOLEAN
  /\ marking \subseteq IndexCallers
  /\ worker \in {"waiting", "backing off", "settling", "indexing"}

\* No wake-up is lost: while files are dirty, the token is there, or a caller is
\* about to leave it, or the worker has yet to take the set
\* (api/server.go:168-178 and 201-261: the lock and the channel are apart).
NoLostWakeup ==
  dirtyFiles # {} => token \/ marking # {} \/ worker \in {"backing off", "settling"}

\* When the worker rests after a good run and nothing is dirty, the index holds
\* every version that was reported, also of files whose batch had failed before
\* (vexor/client.go:88 indexes everything, whatever batch it is given).
FreshWhenQuiet ==
  worker = "waiting" /\ dirtyFiles = {} /\ lastRunGood
    => \A f \in IndexFiles : reported[f] <= indexed[f]

\* No report is forgotten, neither before it is taken nor after its batch failed.
IndexKeepsUp == NoLostWakeup /\ FreshWhenQuiet

\* A dirty file is taken in the end, whatever callers, failures and back-offs do
\* meanwhile (api/server.go:201-261).
DirtyFilesTaken == \A f \in IndexFiles : f \in dirtyFiles ~> f \notin dirtyFiles
=============================================================================
