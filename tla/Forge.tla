--------------------------------- MODULE Forge ---------------------------------
(* The merge queue of one mission. A call of ExecuteForge snapshots the pending *)
(* entries, merges their branches one after the other in the integration        *)
(* worktree, records the outcomes, and verifies the merged branches. Calls may  *)
(* overlap, the process may crash between any two git commands, workers may go  *)
(* on committing, and the end of the mission deletes their branches.            *)
EXTENDS Naturals

CONSTANTS MaxEntries,     \* entries
          MaxForgeCalls,  \* calls of ExecuteForge
          ClashingPairs,  \* two-element sets of entries whose branches do not merge
          MaxMeddling     \* bound of the model: commits, edits, retries, removals,
                          \* overlapping calls and crashes, together

ASSUME ForgeAssumption ==
  MaxEntries \in Nat /\ MaxForgeCalls \in Nat /\ MaxMeddling \in Nat

\* Entries are numbered in the order of their submission, which is the order of
\* the queue, and each stands for its worker's branch too; calls in the order in
\* which they begin.
ForgeEntries == 1 .. MaxEntries
ForgeCalls   == 1 .. MaxForgeCalls

VARIABLES tip,          \* commits of each branch
          hasBranch,    \* the branch was not deleted
          integrated,   \* commits of each branch in the integration branch
          gitIndex,     \* "clean", in a conflicting "merging", or "unmerged" by a pop
          local,        \* the integration worktree has uncommitted changes
          stashes,      \* stash entries made from this worktree
          meddling,     \* how often something came in between so far
          status,       \* forge_entries.status
          submittedTip, \* commits of the branch when its entry was made
          calls,        \* where each call is
          undisturbed   \* no crash, no overlap, no edit or clash in the way so far

forgeVars == <<tip, hasBranch, integrated, gitIndex, local, stashes, meddling,
               status, submittedTip, calls, undisturbed>>

NoOutcome == [e \in ForgeEntries |-> "none"]
Call(at, todo, stashed, outcome) ==
  [at |-> at, todo |-> todo, stashed |-> stashed, outcome |-> outcome]
IdleCall == Call("idle", {}, FALSE, NoOutcome)

Running(c)   == calls[c].at \notin {"idle", "done", "dead"}
Contended(c) == \E d \in ForgeCalls \ {c} : Running(d)

ForgeInit ==
  /\ tip = [e \in ForgeEntries |-> 1]
  /\ hasBranch = [e \in ForgeEntries |-> TRUE]
  /\ integrated = [e \in ForgeEntries |-> 0]
  /\ gitIndex = "clean" /\ local = FALSE /\ stashes = 0 /\ meddling = 0
  /\ status = [e \in ForgeEntries |-> "absent"]
  /\ submittedTip = [e \in ForgeEntries |-> 0]
  /\ calls = [c \in ForgeCalls |-> IdleCall]
  /\ undisturbed = TRUE

gitVars   == <<tip, hasBranch, integrated, gitIndex, local, stashes>>
entryVars == <<status, submittedTip>>

-----------------------------------------------------------------------------
(* What workers, users and the end of the mission do. *)
Meddle == meddling < MaxMeddling /\ meddling' = meddling + 1

\* What was committed before the entry was made counts as the first commit.
Commit(e) ==
  /\ Meddle
  /\ hasBranch[e] /\ status[e] # "absent"
  /\ tip' = [tip EXCEPT ![e] = @ + 1]
  /\ UNCHANGED <<hasBranch, integrated, gitIndex, local, stashes, entryVars, calls,
                 undisturbed>>

EditWorktree ==
  /\ Meddle
  /\ local' = TRUE
  /\ undisturbed' = (undisturbed /\ \A c \in ForgeCalls : ~Running(c))
  /\ UNCHANGED <<tip, hasBranch, integrated, gitIndex, stashes, entryVars, calls>>

SubmitToForge(e) ==
  /\ status[e] = "absent"
  /\ \A d \in 1 .. e - 1 : status[d] # "absent"
  /\ status' = [status EXCEPT ![e] = "pending"]
  /\ submittedTip' = [submittedTip EXCEPT ![e] = tip[e]]
  /\ UNCHANGED <<gitVars, meddling, calls, undisturbed>>

\* handleUpdateForgeEntry, used to try an entry again.
Retry(e) ==
  /\ Meddle
  /\ status[e] \in {"conflict", "failed"}
  /\ status' = [status EXCEPT ![e] = "pending"]
  /\ UNCHANGED <<gitVars, submittedTip, calls, undisturbed>>

\* The mission may end at any time; then the goroutine UpdateMissionStatus starts
\* removes the workers' worktrees and branches one by one.
RemoveBranch(e) ==
  /\ Meddle
  /\ hasBranch[e]
  /\ hasBranch' = [hasBranch EXCEPT ![e] = FALSE]
  /\ UNCHANGED <<tip, integrated, gitIndex, local, stashes, entryVars, calls,
                 undisturbed>>

Crash ==
  /\ Meddle
  /\ \E c \in ForgeCalls : Running(c)
  /\ calls' = [c \in ForgeCalls |->
                 IF Running(c) THEN Call("dead", {}, FALSE, NoOutcome) ELSE calls[c]]
  /\ undisturbed' = FALSE
  /\ UNCHANGED <<gitVars, entryVars>>

-----------------------------------------------------------------------------
(* ExecuteForge; every git command is a step. A git command of a call may find  *)
(* the index locked by the other call's, and then fails and changes nothing.    *)
Pending == {e \in ForgeEntries : status[e] = "pending"}

Snapshot(c) ==
  /\ calls[c].at = "idle"
  /\ \A d \in 1 .. c - 1 : calls[d].at # "idle"
  /\ Pending # {}
  /\ calls' = [calls EXCEPT ![c] = Call("stash", Pending, FALSE, NoOutcome)]
  /\ IF Contended(c) THEN Meddle /\ undisturbed' = FALSE
                     ELSE UNCHANGED <<meddling, undisturbed>>
  /\ UNCHANGED <<gitVars, entryVars>>

\* stash refuses while the index has unmerged paths.
CanStash == gitIndex = "clean" /\ local

\* Mutant of Stash: without --include-untracked it finds nothing to save.
StashTrackedOnly(c) ==
  /\ calls[c].at = "stash"
  /\ calls' = [calls EXCEPT ![c].at = "merge", ![c].stashed = FALSE]
  /\ UNCHANGED <<gitVars, meddling, entryVars, undisturbed>>

Stash(c) ==
  /\ calls[c].at = "stash"
  /\ \/ /\ CanStash
        /\ local' = FALSE /\ stashes' = stashes + 1
        /\ calls' = [calls EXCEPT ![c].at = "merge", ![c].stashed = TRUE]
     \/ /\ ~CanStash \/ Contended(c)
        /\ calls' = [calls EXCEPT ![c].at = "merge", ![c].stashed = FALSE]
        /\ UNCHANGED <<local, stashes>>
  /\ UNCHANGED <<tip, hasBranch, integrated, gitIndex, meddling, entryVars, undisturbed>>

\* The entry whose turn it is.
Current(c) == CHOOSE e \in calls[c].todo : \A d \in calls[c].todo : e <= d

Clashes(e) ==
  /\ integrated[e] < tip[e]
  /\ \E d \in ForgeEntries : {d, e} \in ClashingPairs /\ integrated[d] > 0

Merged(c, e) ==
  calls' = [calls EXCEPT ![c].at = "pop", ![c].outcome[e] = "merged"]

\* git merge starts only on an index without unmerged paths; a branch that is
\* in already is a success.
CanMerge(e) == hasBranch[e] /\ gitIndex = "clean"

Merge(c) ==
  LET e == Current(c) IN
  /\ calls[c].at = "merge"
  /\ \/ /\ CanMerge(e) /\ ~Clashes(e)
        /\ integrated' = [integrated EXCEPT ![e] = tip[e]]
        /\ Merged(c, e)
        /\ UNCHANGED gitIndex
     \/ /\ CanMerge(e) /\ Clashes(e)
        /\ gitIndex' = "merging"
        /\ calls' = [calls EXCEPT ![c].at = "list"]
        /\ UNCHANGED integrated
     \/ /\ ~CanMerge(e) \/ local \/ Contended(c)
        /\ calls' = [calls EXCEPT ![c].at = "list"]
        /\ UNCHANGED <<gitIndex, integrated>>
  /\ UNCHANGED <<tip, hasBranch, local, stashes, meddling, entryVars, undisturbed>>

\* Mutant of Verdict: without unmerged paths there was nothing left to merge.
VerdictUpToDate == IF gitIndex = "clean" THEN "merged" ELSE "conflict"

\* The outcome is "conflict" when some path is unmerged now, whoever left it so.
Verdict == IF gitIndex = "clean" THEN "failed" ELSE "conflict"

ListConflicts(c) ==
  /\ calls[c].at = "list"
  /\ calls' = [calls EXCEPT ![c].at = "abort",
                           ![c].outcome[Current(c)] = Verdict]
  /\ UNCHANGED <<gitVars, meddling, entryVars, undisturbed>>

IndexAfterAbort == IF gitIndex = "merging" THEN "clean" ELSE gitIndex

AfterAbort(c) == [calls EXCEPT ![c].at = "pop"]

Abort(c) ==
  /\ calls[c].at = "abort"
  /\ calls' = AfterAbort(c)
  /\ \/ gitIndex' = IndexAfterAbort
     \/ Contended(c) /\ UNCHANGED gitIndex
  /\ UNCHANGED <<tip, hasBranch, integrated, local, stashes, meddling, entryVars,
                 undisturbed>>

NextEntry(c) ==
  [calls EXCEPT ![c].todo = @ \ {Current(c)}, ![c].stashed = FALSE,
                ![c].at = IF calls[c].todo = {Current(c)} THEN "record" ELSE "stash"]

\* A pop that clashes with what was merged keeps the stash and leaves the paths
\* unmerged; the error is only logged.
Pop(c) ==
  /\ calls[c].at = "pop"
  /\ calls' = NextEntry(c)
  /\ \/ /\ calls[c].stashed /\ stashes > 0 /\ gitIndex = "clean"
        /\ local' = TRUE /\ stashes' = stashes - 1
        /\ UNCHANGED <<gitIndex, undisturbed>>
     \/ /\ calls[c].stashed /\ stashes > 0 /\ gitIndex = "clean"
        /\ gitIndex' = "unmerged" /\ undisturbed' = FALSE
        /\ UNCHANGED <<local, stashes>>
     \/ /\ ~calls[c].stashed \/ stashes = 0 \/ gitIndex # "clean" \/ local \/ Contended(c)
        /\ UNCHANGED <<local, stashes, gitIndex, undisturbed>>
  /\ UNCHANGED <<tip, hasBranch, integrated, meddling, entryVars>>

Decided(c) == {e \in ForgeEntries : calls[c].outcome[e] # "none"}

Record(c, e) ==
  /\ calls[c].at = "record"
  /\ e \in Decided(c)
  /\ status' = [status EXCEPT ![e] = calls[c].outcome[e]]
  /\ calls' = [calls EXCEPT ![c].outcome[e] = "none",
                            ![c].at = IF Decided(c) = {e} THEN "done" ELSE "record"]
  /\ UNCHANGED <<gitVars, meddling, submittedTip, undisturbed>>

CallStep(c) == \/ Stash(c) \/ Merge(c) \/ ListConflicts(c) \/ Abort(c) \/ Pop(c)
               \/ \E e \in ForgeEntries : Record(c, e)

ForgeNext ==
  \/ \E e \in ForgeEntries : Commit(e) \/ SubmitToForge(e) \/ Retry(e) \/ RemoveBranch(e)
  \/ EditWorktree \/ Crash
  \/ \E c \in ForgeCalls :
       \/ Snapshot(c) \/ Stash(c) \/ Merge(c) \/ ListConflicts(c) \/ Abort(c) \/ Pop(c)
       \/ \E e \in ForgeEntries : Record(c, e)

\* A call that began goes on; the removal of branches is not awaited.
ForgeFairness == \A c \in ForgeCalls : WF_forgeVars(CallStep(c))

ForgeSpec == ForgeInit /\ [][ForgeNext]_forgeVars /\ ForgeFairness

-----------------------------------------------------------------------------
ForgeTypeOK ==
  /\ tip \in [ForgeEntries -> 1 .. MaxMeddling + 1]
  /\ hasBranch \in [ForgeEntries -> BOOLEAN]
  /\ integrated \in [ForgeEntries -> 0 .. MaxMeddling + 1]
  /\ gitIndex \in {"clean", "merging", "unmerged"}
  /\ local \in BOOLEAN /\ undisturbed \in BOOLEAN
  /\ meddling \in 0 .. MaxMeddling /\ stashes \in 0 .. MaxMeddling
  /\ status \in [ForgeEntries -> {"absent", "pending", "merged", "conflict", "failed"}]
  /\ submittedTip \in [ForgeEntries -> 0 .. MaxMeddling + 1]
  /\ calls \in [ForgeCalls ->
       [at : {"idle", "stash", "merge", "list", "abort", "pop", "record", "done", "dead"},
        todo : SUBSET ForgeEntries, stashed : BOOLEAN,
        outcome : [ForgeEntries -> {"none", "merged", "conflict", "failed"}]]]

\* An entry says "merged" only when the integration branch holds everything the
\* branch had when it was submitted, however calls overlap, fail and crash
\* (swarm/forge.go:47-80, 183-197: outcomes are recorded long after the merges).
MergedIsIntegrated ==
  \A e \in ForgeEntries : status[e] = "merged" => integrated[e] >= submittedTip[e]

\* When nothing disturbs a call, a branch is blamed only for its own trouble: a
\* conflict is with a branch that is in, a failure is a branch that is gone. The
\* trouble of one entry does not spill over to the next, nor do the uncommitted
\* changes of the worktree (swarm/forge.go:50-51, 66-69: stash, abort and pop
\* around every merge).
BlameIsJust ==
  undisturbed => \A e \in ForgeEntries :
    /\ status[e] = "conflict" => Clashes(e)
    /\ status[e] = "failed"   => ~hasBranch[e]

\* When nothing disturbs the calls, the uncommitted changes of the worktree are back
\* in place after them, also of calls that met conflicts and failures
\* (swarm/forge.go:50-51, 83-99: the pop is deferred).
EditsComeBack == undisturbed /\ (\A c \in ForgeCalls : ~Running(c)) => stashes = 0

\* Every entry that a call took is decided, unless the process crashes
\* (swarm/forge.go:152-206).
TakenEntriesDecided ==
  \A c \in ForgeCalls, e \in ForgeEntries :
    calls[c].at = "stash" /\ e \in calls[c].todo
      ~> calls[c].at = "dead" \/ status[e] \in {"merged", "conflict", "failed"}

\* While nothing disturbs the calls: whom a conflict blames and what stays in the
\* stash (swarm/forge.go:50-99).
UndisturbedForge == BlameIsJust /\ EditsComeBack
=============================================================================
