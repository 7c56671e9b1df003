------------------------------- MODULE LearnPipeline -----------------------------
(* What happens when a workflow is complete (orchestration/learn_pipeline.go): an   *)
(* artifact is built from its events, the knowledge is analysed, a page of the wiki *)
(* is written, and a summary of the three steps is saved as an event, whichever     *)
(* returned an error; a step that panics ends the pipeline without one. Builds are  *)
(* one at a time (artifacts/builder.go); the page is looked up and then updated or  *)
(* inserted (db/wiki.go). Pipelines of one workflow overlap when two requests       *)
(* complete it, or when it is deleted and completed again.                          *)
EXTENDS Naturals, FiniteSets

CONSTANTS Pipelines,    \* pipelines of one workflow
          NoPipeline    \* nobody holds the builder; no page

ASSUME LearnAssumption == IsFiniteSet(Pipelines) /\ NoPipeline \notin Pipelines

VARIABLES wired,        \* what the coordinator was given: insight, a wiki
          builder,      \* the pipeline that holds the builder's mutex
          artifacts,    \* rows of artifacts for the workflow
          learntPage,   \* its page, known by the pipeline that inserted the row
          pipelines,    \* where each is and what became of its steps
          summaries,    \* events of type learn_pipeline
          blindBuilds,  \* artifacts built although the search for an earlier one failed
          documented    \* pipelines that wrote the page

learnVars == <<wired, builder, artifacts, learntPage, pipelines, summaries, blindBuilds,
               documented>>

WaitingPipeline == [pc |-> "waiting", artifact |-> "disabled", knowledge |-> "disabled",
            autodoc |-> "disabled", blind |-> FALSE, found |-> NoPipeline]

LearnInit ==
  /\ wired \in SUBSET {"insight", "wiki"}
  /\ builder = NoPipeline /\ artifacts = 0 /\ learntPage = NoPipeline
  /\ pipelines = [p \in Pipelines |-> WaitingPipeline]
  /\ summaries = {} /\ blindBuilds = 0 /\ documented = {}

At(p, pc) == pipelines[p].pc = pc

Proceeds(p, pc) == pipelines' = [pipelines EXCEPT ![p].pc = pc]

AfterKnowledge == IF "wiki" \in wired THEN "enrich" ELSE "summary"

-----------------------------------------------------------------------------
\* The last phase is written, and the goroutine starts.
PipelineStarts(p) ==
  /\ At(p, "waiting")
  /\ Proceeds(p, IF "insight" \in wired THEN "build" ELSE AfterKnowledge)
  /\ UNCHANGED <<wired, builder, artifacts, learntPage, summaries, blindBuilds, documented>>

LockBuilder(p) ==
  /\ At(p, "build") /\ builder = NoPipeline
  /\ builder' = p
  /\ Proceeds(p, "lookup")
  /\ UNCHANGED <<wired, artifacts, learntPage, summaries, blindBuilds, documented>>

\* Build returns, and the pipeline goes on: the analysis needs an artifact.
Built(p, outcome) ==
  /\ builder' = NoPipeline
  /\ pipelines' = [pipelines EXCEPT ![p].artifact = outcome,
       ![p].knowledge = IF outcome = "ok" THEN @ ELSE "skipped",
       ![p].pc = IF outcome = "ok" THEN "knowledge" ELSE AfterKnowledge]

\* An artifact the workflow has already is returned like one that was built.
FindsArtifact(p) ==
  /\ At(p, "lookup") /\ artifacts > 0
  /\ Built(p, "ok")
  /\ UNCHANGED <<wired, artifacts, learntPage, summaries, blindBuilds, documented>>

\* There is none, or the search failed, which is only logged.
FindsNoArtifact(p) ==
  /\ At(p, "lookup")
  /\ pipelines' = [pipelines EXCEPT ![p].pc = "events", ![p].blind = (artifacts > 0)]
  /\ UNCHANGED <<wired, builder, artifacts, learntPage, summaries, blindBuilds, documented>>

\* The events cannot be read, or are too few.
BuildsNothing(p) ==
  /\ At(p, "events")
  /\ \E outcome \in {"failed", "skipped"} : Built(p, outcome)
  /\ UNCHANGED <<wired, artifacts, learntPage, summaries, blindBuilds, documented>>

BuildsArtifact(p) ==
  /\ At(p, "events")
  /\ artifacts' = artifacts + 1
  /\ blindBuilds' = IF pipelines[p].blind THEN blindBuilds + 1 ELSE blindBuilds
  /\ Built(p, "ok")
  /\ UNCHANGED <<wired, learntPage, summaries, documented>>

\* RunAnalysis logs the errors of its parts; only its own ends as "failed".
AnalyseKnowledge(p) ==
  /\ At(p, "knowledge")
  /\ \E outcome \in {"ok", "failed"} :
       pipelines' = [pipelines EXCEPT ![p].knowledge = outcome, ![p].pc = AfterKnowledge]
  /\ UNCHANGED <<wired, builder, artifacts, learntPage, summaries, blindBuilds, documented>>

\* A model may rewrite the text; without its answer the text stays as it was.
Enrich(p) ==
  /\ At(p, "enrich")
  /\ Proceeds(p, "page")
  /\ UNCHANGED <<wired, builder, artifacts, learntPage, summaries, blindBuilds, documented>>

Documents(p, outcome) ==
  pipelines' = [pipelines EXCEPT ![p].autodoc = outcome, ![p].pc = "summary"]

LookUpPage(p) ==
  /\ At(p, "page")
  /\ pipelines' = [pipelines EXCEPT ![p].found = learntPage,
       ![p].pc = IF learntPage = NoPipeline THEN "insert" ELSE "update"]
  /\ UNCHANGED <<wired, builder, artifacts, learntPage, summaries, blindBuilds, documented>>

\* The UPDATE of a page that has gone changes no row, and is no error.
UpdateLearntPage(p) ==
  /\ At(p, "update")
  /\ documented' = IF learntPage = pipelines[p].found THEN documented \union {p} ELSE documented
  /\ Proceeds(p, "reload")
  /\ UNCHANGED <<wired, builder, artifacts, learntPage, summaries, blindBuilds>>

Reloaded(p) == learntPage = pipelines[p].found

ReloadPage(p) ==
  /\ At(p, "reload") /\ Reloaded(p)
  /\ Documents(p, "ok")
  /\ UNCHANGED <<wired, builder, artifacts, learntPage, summaries, blindBuilds, documented>>

\* A row that has gone is read as no page without an error, and the assignment to its
\* field panics: the pipeline recovers and returns, with nothing said of any step.
ReloadPanics(p) ==
  /\ At(p, "reload") /\ ~Reloaded(p)
  /\ Proceeds(p, "panicked")
  /\ UNCHANGED <<wired, builder, artifacts, learntPage, summaries, blindBuilds, documented>>

\* The pair of workflow and slug is unique: a second page is refused.
InsertLearntPage(p) ==
  /\ At(p, "insert")
  /\ IF learntPage = NoPipeline
     THEN /\ learntPage' = p /\ documented' = documented \union {p}
          /\ Documents(p, "ok")
     ELSE /\ UNCHANGED <<learntPage, documented>>
          /\ Documents(p, "failed")
  /\ UNCHANGED <<wired, builder, artifacts, summaries, blindBuilds>>

\* A statement fails, or the time of the pipeline is up and all that follow fail.
PageFails(p) ==
  /\ pipelines[p].pc \in {"page", "update", "reload", "insert"}
  /\ Documents(p, "failed")
  /\ UNCHANGED <<wired, builder, artifacts, learntPage, summaries, blindBuilds, documented>>

SummaryOf(p) ==
  [pipeline |-> p, artifact |-> pipelines[p].artifact, knowledge |-> pipelines[p].knowledge,
   autodoc |-> pipelines[p].autodoc]

\* A summary that cannot be saved is only logged.
EmitSummary(p) ==
  /\ At(p, "summary")
  /\ summaries' \in {summaries, summaries \union {SummaryOf(p)}}
  /\ Proceeds(p, "ended")
  /\ UNCHANGED <<wired, builder, artifacts, learntPage, blindBuilds, documented>>

\* A user deletes the page.
DeleteLearntPage ==
  /\ learntPage # NoPipeline /\ learntPage' = NoPipeline
  /\ UNCHANGED <<wired, builder, artifacts, pipelines, summaries, blindBuilds, documented>>

\* The server stops; nothing starts a pipeline again.
PipelinesDie ==
  /\ \E p \in Pipelines : pipelines[p].pc \notin {"waiting", "ended", "panicked", "dead"}
  /\ pipelines' = [p \in Pipelines |->
       IF pipelines[p].pc \in {"waiting", "ended", "panicked"} THEN pipelines[p]
       ELSE [pipelines[p] EXCEPT !.pc = "dead"]]
  /\ builder' = NoPipeline
  /\ UNCHANGED <<wired, artifacts, learntPage, summaries, blindBuilds, documented>>

PipelineStep(p) ==
  \/ LockBuilder(p) \/ FindsArtifact(p) \/ FindsNoArtifact(p) \/ BuildsNothing(p)
  \/ BuildsArtifact(p) \/ AnalyseKnowledge(p) \/ Enrich(p) \/ LookUpPage(p)
  \/ UpdateLearntPage(p) \/ ReloadPage(p) \/ ReloadPanics(p) \/ InsertLearntPage(p)
  \/ PageFails(p) \/ EmitSummary(p)

LearnNext ==
  \/ \E p \in Pipelines : PipelineStarts(p) \/ PipelineStep(p)
  \/ DeleteLearntPage \/ PipelinesDie

\* Statements return, models answer or time out, and a mutex that is free is taken.
LearnFairness == \A p \in Pipelines : WF_learnVars(PipelineStep(p))

LearnSpec == LearnInit /\ [][LearnNext]_learnVars

-----------------------------------------------------------------------------
Outcomes == {"disabled", "ok", "failed", "skipped"}

LearnTypeOK ==
  /\ wired \subseteq {"insight", "wiki"}
  /\ builder \in Pipelines \union {NoPipeline} /\ learntPage \in Pipelines \union {NoPipeline}
  /\ artifacts \in 0..Cardinality(Pipelines) /\ blindBuilds \in 0..artifacts
  /\ pipelines \in [Pipelines ->
       [pc : {"waiting", "build", "lookup", "events", "knowledge", "enrich", "page", "update",
              "reload", "insert", "summary", "ended", "panicked", "dead"},
        artifact : Outcomes, knowledge : Outcomes, autodoc : Outcomes, blind : BOOLEAN,
        found : Pipelines \union {NoPipeline}]]
  /\ summaries \subseteq [pipeline : Pipelines, artifact : Outcomes, knowledge : Outcomes,
                          autodoc : Outcomes]
  /\ documented \subseteq Pipelines

\* artifacts/builder.go:36-75: no constraint of the table, only the mutex and the search
\* under it keep a workflow to one artifact: there are more only for searches that failed.
OneArtifactEach == artifacts <= 1 + blindBuilds

\* orchestration/learn_pipeline.go:70-184, db/wiki.go:557-674: what the summary calls
\* done was done: an artifact is there, and the page was written by this very pipeline,
\* however pipelines overlap. A pipeline whose page was deleted before it read it again
\* panics (db/wiki.go:627-631) and is not summed up at all, neither as done nor as
\* failed: whoever has a summary went through every step.
SummaryIsTrue ==
  \A s \in summaries :
    /\ pipelines[s.pipeline].pc = "ended" /\ s = SummaryOf(s.pipeline)
    /\ s.artifact = "ok" => artifacts > 0
    /\ s.knowledge = "ok" => s.artifact = "ok"
    /\ s.autodoc = "ok" => s.pipeline \in documented

\* A pipeline ends, if only by a panic that is recovered, unless the server stops
\* (orchestration/learn_pipeline.go:81-85).
PipelinesEnd ==
  \A p \in Pipelines : At(p, "build") ~> pipelines[p].pc \in {"ended", "panicked", "dead"}
=============================================================================
