------------------------------- MODULE Guardrails ------------------------------
(* The guardrails of one worker: each tool call it reports is counted in its row, *)
(* by a read and a write that are two statements, and answered with "allow" or    *)
(* "block". Calls of one worker overlap when the agent uses tools in parallel.    *)
EXTENDS Naturals

CONSTANTS ToolNames,        \* tools the worker calls
          MaxToolCalls,     \* reports, numbered in the order in which they begin
          ToolCallCeiling,  \* calls after which the worker is blocked
          RepetitionBlock   \* calls of one tool in a row after which it is blocked

ASSUME GuardrailAssumption ==
  MaxToolCalls \in Nat /\ ToolCallCeiling \in Nat /\ RepetitionBlock \in Nat \ {0}

NoTool == "none"

VARIABLES guardrail,   \* the row: tool_calls, last_tool, repetition_count
          reports,     \* where each report is, and the row it read
          answers,     \* what each report was answered
          called,      \* history: how often each tool was reported, in all
          streak,      \* history: how often the last tool, without another in between
          parallel     \* two reports overlapped

guardrailVars == <<guardrail, reports, answers, called, streak, parallel>>

ToolReports == 1 .. MaxToolCalls

\* A worker without a row reads as no calls.
GuardrailRow(calls, last, repeated) == [calls |-> calls, last |-> last, repeated |-> repeated]
NoMetric == GuardrailRow(0, NoTool, 0)

Report(at, tool, seen) == [at |-> at, tool |-> tool, seen |-> seen]
NoReport == Report("idle", NoTool, NoMetric)

GuardrailInit ==
  /\ guardrail = NoMetric
  /\ reports = [c \in ToolReports |-> NoReport]
  /\ answers = [c \in ToolReports |-> "none"]
  /\ called = [t \in ToolNames |-> 0]
  /\ streak = GuardrailRow(0, NoTool, 0)
  /\ parallel = FALSE

-----------------------------------------------------------------------------
\* Mutant of Counted: another tool does not start the count again.
CountedOn(row, tool) == GuardrailRow(row.calls + 1, tool, row.repeated + 1)

Counted(row, tool) ==
  GuardrailRow(row.calls + 1, tool, IF tool = row.last THEN row.repeated + 1 ELSE 1)

Verdicts(row) ==
  IF row.repeated >= RepetitionBlock \/ row.calls >= ToolCallCeiling THEN "block" ELSE "allow"

SelectGuardrail(c, tool) ==
  /\ reports[c] = NoReport
  /\ \A d \in 1 .. c - 1 : reports[d] # NoReport
  /\ reports' = [reports EXCEPT ![c] = Report("read", tool, guardrail)]
  /\ called' = [called EXCEPT ![tool] = @ + 1]
  /\ streak' = GuardrailRow(streak.calls + 1, tool,
                            IF tool = streak.last THEN streak.repeated + 1 ELSE 1)
  /\ parallel' = (parallel \/ \E d \in ToolReports : reports[d].at = "read")
  /\ UNCHANGED <<guardrail, answers>>

\* UPDATE, or INSERT when there was no row, which fails if there is one by now.
WriteGuardrail(c) ==
  /\ reports[c].at = "read"
  /\ reports[c].seen # NoMetric \/ guardrail = NoMetric
  /\ guardrail' = Counted(reports[c].seen, reports[c].tool)
  /\ reports' = [reports EXCEPT ![c].at = "done"]
  /\ answers' = [answers EXCEPT ![c] = Verdicts(guardrail')]
  /\ UNCHANGED <<called, streak, parallel>>

InsertFails(c) ==
  /\ reports[c].at = "read"
  /\ reports[c].seen = NoMetric /\ guardrail # NoMetric
  /\ reports' = [reports EXCEPT ![c].at = "failed"]
  /\ UNCHANGED <<guardrail, answers, called, streak, parallel>>

\* The SELECT or the write fails otherwise: the call is not counted.
SelectFails(c, tool) ==
  /\ reports[c] = NoReport
  /\ \A d \in 1 .. c - 1 : reports[d] # NoReport
  /\ reports' = [reports EXCEPT ![c] = Report("failed", tool, NoMetric)]
  /\ called' = [called EXCEPT ![tool] = @ + 1]
  /\ streak' = Counted(streak, tool)
  /\ UNCHANGED <<guardrail, answers, parallel>>

WriteFails(c) ==
  /\ reports[c].at = "read"
  /\ reports' = [reports EXCEPT ![c].at = "failed"]
  /\ UNCHANGED <<guardrail, answers, called, streak, parallel>>

GuardrailNext ==
  \E c \in ToolReports :
    \/ \E t \in ToolNames : SelectGuardrail(c, t) \/ SelectFails(c, t)
    \/ WriteGuardrail(c) \/ InsertFails(c) \/ WriteFails(c)

GuardrailSpec == GuardrailInit /\ [][GuardrailNext]_guardrailVars

-----------------------------------------------------------------------------
RowType == [calls : 0 .. MaxToolCalls, last : ToolNames \union {NoTool},
            repeated : 0 .. MaxToolCalls]

GuardrailTypeOK ==
  /\ guardrail \in RowType /\ streak \in RowType
  /\ reports \in [ToolReports -> [at : {"idle", "read", "done", "failed"},
                                  tool : ToolNames \union {NoTool}, seen : RowType]]
  /\ answers \in [ToolReports -> {"none", "allow", "block"}]
  /\ called \in [ToolNames -> 0 .. MaxToolCalls]
  /\ parallel \in BOOLEAN

SomeFailed == \E d \in ToolReports : reports[d].at = "failed"

\* However reports overlap and fail, a repetition that is counted did happen: no tool has a
\* higher count than it has calls, and nobody is blocked for a loop of calls that
\* were never made (db/swarm.go:1068-1100: a read and a write of the row).
NeverOvercounted ==
  guardrail.last # NoTool => guardrail.repeated <= called[guardrail.last]

\* Reports that come one after the other, and none of which failed, are counted exactly,
\* and a loop is blocked from its RepetitionBlock-th call on, the calls from the ceiling on
\* (api/routes_swarm.go:780-799).
LoopsAreBlocked ==
  ~parallel /\ ~SomeFailed => \A c \in ToolReports :
    reports[c].at = "done" /\ (\A d \in ToolReports : d > c => reports[d] = NoReport) =>
      /\ guardrail = streak
      /\ (answers[c] = "block") <=>
           (streak.repeated >= RepetitionBlock \/ streak.calls >= ToolCallCeiling)

\* What is counted did happen, and loops are blocked.
GuardrailsCount == NeverOvercounted /\ LoopsAreBlocked
=============================================================================
