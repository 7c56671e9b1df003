------------------------------ MODULE CodeAnalyst ------------------------------
(* The code analyst: one run at a time ranks the files, skips those whose hash   *)
(* is in the cache, and asks the model about the others, one by one. Files change *)
(* at any time; the hash is taken before the first question, and each content is *)
(* read when its turn comes. The flag is in memory, the cache is stored.           *)
EXTENDS Naturals, FiniteSets

CONSTANTS SourceFiles,   \* files of the project
          MaxRuns,       \* bound of the model: calls of Run
          MaxFiles,      \* most files Rank keeps
          MaxVersions    \* bound of the model: contents a file goes through

ASSUME AnalystAssumption == MaxVersions \in Nat \ {0}

AnalysisRuns == 1 .. MaxRuns    \* in the order they begin

NoFile    == 0                  \* there is no file; its hash is empty
NotCached == MaxVersions + 1

VARIABLES disk,       \* the content of each file, numbered as they appear
          newest,     \* the last number given
          cache,      \* code_file_cache.git_hash, or NotCached
          analysed,   \* <<file, content>> the analyzer answered about
          analysing,  \* e.running
          runs,       \* where each call is
          restored    \* files that got an earlier content back

analystVars == <<disk, newest, cache, analysed, analysing, runs, restored>>

\* A run holds the files it has yet to ask about, with their hashes; the one it
\* is at; and the content it read of that one.
Scores   == SourceFiles \X (0 .. MaxVersions)
NoScore  == <<>>
RunState(at, todo, score, content) ==
  [at |-> at, todo |-> todo, score |-> score, content |-> content]
Bare(at) == RunState(at, {}, NoScore, NoFile)

AnalystInit ==
  /\ disk = [f \in SourceFiles |-> 1] /\ newest = [f \in SourceFiles |-> 1]
  /\ cache = [f \in SourceFiles |-> NotCached]
  /\ analysed = {}
  /\ analysing = FALSE
  /\ runs = [r \in AnalysisRuns |-> Bare("idle")]
  /\ restored = {}

fileVars == <<disk, newest, restored>>
Live(r)  == runs[r].at \notin {"idle", "over"}

-----------------------------------------------------------------------------
Rewrite(f) ==
  /\ newest[f] < MaxVersions
  /\ newest' = [newest EXCEPT ![f] = @ + 1]
  /\ disk' = [disk EXCEPT ![f] = newest'[f]]
  /\ UNCHANGED <<cache, analysed, analysing, runs, restored>>

\* A checkout, a stash or an undo.
RestoreContent(f, v) ==
  /\ v # disk[f] /\ v <= newest[f]
  /\ disk' = [disk EXCEPT ![f] = v]
  /\ restored' = restored \union {f}
  /\ UNCHANGED <<newest, cache, analysed, analysing, runs>>

DeleteFile(f) ==
  /\ disk[f] # NoFile
  /\ disk' = [disk EXCEPT ![f] = NoFile]
  /\ UNCHANGED <<newest, cache, analysed, analysing, runs, restored>>

\* A call fails at once while another one runs.
BeginRun(r) ==
  /\ runs[r].at = "idle" /\ \A o \in 1 .. r - 1 : runs[o].at # "idle"
  /\ runs' = [runs EXCEPT ![r] = Bare(IF analysing THEN "over" ELSE "starting")]
  /\ analysing' = TRUE
  /\ UNCHANGED <<fileVars, cache, analysed>>

SaveRun(r) ==
  /\ runs[r].at = "starting"
  /\ runs' = [runs EXCEPT ![r] = Bare("collecting")]
  /\ UNCHANGED <<fileVars, cache, analysed, analysing>>

\* Mutant of SaveRunFails: the error path leaves the flag to the finalizer, which
\* is not registered yet.
SaveRunFailsUnfreed(r) ==
  /\ runs[r].at = "starting"
  /\ runs' = [runs EXCEPT ![r] = Bare("over")]
  /\ UNCHANGED <<fileVars, cache, analysed, analysing>>

\* The finalizer is not registered yet: this path frees the engine by itself.
SaveRunFails(r) ==
  /\ runs[r].at = "starting"
  /\ runs' = [runs EXCEPT ![r] = Bare("over")]
  /\ analysing' = FALSE
  /\ UNCHANGED <<fileVars, cache, analysed>>

\* FilterUnchanged keeps what changed, what is not cached, and what was analysed
\* long ago or cannot be looked up. Ranking comes first: a file beyond MaxFiles
\* gets no turn, although those before it are skipped.
Changed(ranked, again) == {f \in ranked : cache[f] # disk[f] \/ f \in again}

CollectAndFilter(r, ranked, again) ==
  /\ runs[r].at = "collecting"
  /\ Cardinality(ranked) <= MaxFiles
  /\ again \subseteq {f \in ranked : cache[f] = disk[f]}
  /\ runs' = [runs EXCEPT ![r] =
       RunState("files", {<<f, disk[f]>> : f \in Changed(ranked, again)}, NoScore, NoFile)]
  /\ UNCHANGED <<fileVars, cache, analysed, analysing>>

\* A file that is gone is an error of its own; the next one follows.
NextFile(r, todo) == [runs EXCEPT ![r] = RunState("files", todo, NoScore, NoFile)]

ReadSource(r, score) ==
  /\ runs[r].at = "files" /\ score \in runs[r].todo
  /\ LET content == disk[score[1]]
         todo == runs[r].todo \ {score} IN
     runs' = IF content = NoFile THEN NextFile(r, todo)
             ELSE [runs EXCEPT ![r] = RunState("asking", todo, score, content)]
  /\ UNCHANGED <<fileVars, cache, analysed, analysing>>

\* The findings are saved one by one; one that is not saved is only logged.
AnswerComes(r) ==
  /\ runs[r].at = "asking"
  /\ analysed' = analysed \union {<<runs[r].score[1], runs[r].content>>}
  /\ runs' = [runs EXCEPT ![r].at = "caching"]
  /\ UNCHANGED <<fileVars, cache, analysing>>

AnswerFails(r) ==
  /\ runs[r].at = "asking"
  /\ runs' = NextFile(r, runs[r].todo)
  /\ UNCHANGED <<fileVars, cache, analysed, analysing>>

\* Mutant of CachedHash: the file is hashed when it is written down.
CachedHashOfNow(r) == disk[runs[r].score[1]]

CachedHash(r) == runs[r].score[2]

UpdateCache(r) ==
  /\ runs[r].at = "caching"
  /\ cache' \in {cache, [cache EXCEPT ![runs[r].score[1]] = CachedHash(r)]}
  /\ runs' = NextFile(r, runs[r].todo)
  /\ UNCHANGED <<fileVars, analysed, analysing>>

\* All files are through, the token budget is, or the context ended; a run that
\* cannot collect ends here too. The finalizer saves the row (left out here) and
\* then clears the flag.
CloseRun(r) ==
  /\ runs[r].at \in {"collecting", "files", "asking"}
  /\ runs' = [runs EXCEPT ![r] = Bare("freeing")]
  /\ UNCHANGED <<fileVars, cache, analysed, analysing>>

FreeEngine(r) ==
  /\ runs[r].at = "freeing"
  /\ analysing' = FALSE
  /\ runs' = [runs EXCEPT ![r] = Bare("over")]
  /\ UNCHANGED <<fileVars, cache, analysed>>

\* The process ends, and the flag with it.
KillEngine ==
  /\ \E r \in AnalysisRuns : Live(r)
  /\ analysing' = FALSE
  /\ runs' = [r \in AnalysisRuns |-> IF Live(r) THEN Bare("over") ELSE runs[r]]
  /\ UNCHANGED <<fileVars, cache, analysed>>

RunStep(r) ==
  \/ SaveRun(r) \/ SaveRunFails(r) \/ AnswerComes(r) \/ AnswerFails(r)
  \/ UpdateCache(r) \/ CloseRun(r) \/ FreeEngine(r)
  \/ \E score \in runs[r].todo : ReadSource(r, score)

AnalystNext ==
  \/ \E f \in SourceFiles :
       \/ Rewrite(f) \/ DeleteFile(f)
       \/ \E v \in 1 .. MaxVersions : RestoreContent(f, v)
  \/ \E r \in AnalysisRuns :
       \/ BeginRun(r) \/ SaveRun(r) \/ SaveRunFails(r) \/ AnswerComes(r)
       \/ AnswerFails(r) \/ UpdateCache(r) \/ CloseRun(r) \/ FreeEngine(r)
       \/ \E score \in runs[r].todo : ReadSource(r, score)
       \/ \E ranked \in SUBSET SourceFiles :
            \E again \in SUBSET ranked : CollectAndFilter(r, ranked, again)
  \/ KillEngine

\* A run that began goes on.
AnalystFairness == \A r \in AnalysisRuns : WF_analystVars(RunStep(r))

AnalystSpec == AnalystInit /\ [][AnalystNext]_analystVars /\ AnalystFairness

-----------------------------------------------------------------------------
AnalystTypeOK ==
  /\ disk \in [SourceFiles -> 0 .. MaxVersions]
  /\ newest \in [SourceFiles -> 1 .. MaxVersions]
  /\ cache \in [SourceFiles -> 0 .. NotCached]
  /\ analysed \subseteq SourceFiles \X (1 .. MaxVersions)
  /\ analysing \in BOOLEAN
  /\ runs \in [AnalysisRuns ->
       [at : {"idle", "starting", "collecting", "files", "asking", "caching",
              "freeing", "over"},
        todo : SUBSET Scores, score : Scores \union {NoScore}, content : 0 .. MaxVersions]]
  /\ restored \subseteq SourceFiles

\* A file the cache would skip was analysed with the content it has now, although
\* it may be rewritten between its hash, its reading and its answer, and the
\* process may die in between; only an earlier content that comes back may be
\* taken for one that was analysed (code_analyst/engine.go:264-354,
\* dedup.go:42-107: the hash of the filter is stored with the findings of what
\* was read later).
SkippedWasAnalysed ==
  \A f \in SourceFiles \ restored :
    disk[f] # NoFile /\ cache[f] = disk[f] => <<f, disk[f]>> \in analysed

\* The engine is never blocked for good, on whatever path a run ends
\* (code_analyst/engine.go:90-203: the finalizer is registered late).
EngineIsFreed == (\E r \in AnalysisRuns : Live(r)) ~> ~analysing
=============================================================================
