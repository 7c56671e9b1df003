---------------------------- MODULE ServicesProofs -----------------------------
(* What is proved about each service holds when they are composed: a          *)
(* behaviour of MCServices is a behaviour of each service, without its        *)
(* fairness. The types of all their variables, and everything the run of the  *)
(* composition checks.                                                        *)
EXTENDS MCServices, BackgroundProofs, ForgeProofs, InsightProofs, KnowledgeProofs

-----------------------------------------------------------------------------
(* EventBus. *)
LEMMA BusTypeInit == BusInit => BusTypeOK
BY BusAssumption DEF BusInit, BusTypeOK, ClosingSteps

LEMMA BusTypeStep == BusTypeOK /\ BusInv /\ BusInv' /\ [BusNext]_busVars => BusTypeOK'
<1> SUFFICES ASSUME BusTypeOK, BusInv, BusInv', [BusNext]_busVars PROVE BusTypeOK'
  OBVIOUS
<1>1. Len(buffer') <= BusCapacity
  <2>1. buffer \in Seq(BusEvents) /\ Len(buffer) <= BusCapacity /\ BusCapacity \in Nat
    BY BusAssumption DEF BusTypeOK
  <2>2. CASE UNCHANGED buffer
    BY <2>1, <2>2
  <2>3. ASSUME NEW e \in BusEvents, PublishSends(e) PROVE Len(buffer') <= BusCapacity
    BY <2>1, <2>3 DEF PublishSends
  <2>4. CASE DispatchTakes
    <3>1. buffer # <<>> /\ buffer' = Tail(buffer)
      BY <2>4 DEF DispatchTakes
    <3> QED
      BY <2>1, <3>1
  <2> QED
    BY <2>2, <2>3, <2>4
       DEF BusNext, busVars, PublishBegins, PublishPanics, PublishGivesUp, Subscribe,
           Unsubscribe, DeliverStarts, DispatchEnds, DeliverReturns, HandlerRuns,
           CloseBegins, CloseGoesOn
<1>2. closing' \in ClosingSteps
  BY DEF BusTypeOK, ClosingSteps, BusNext, busVars, PublishBegins, PublishSends,
         PublishPanics, PublishGivesUp, Subscribe, Unsubscribe, DeliverStarts,
         DispatchTakes, DispatchEnds, DeliverReturns, HandlerRuns, CloseBegins, CloseGoesOn
<1>3. ran' \subseteq BusHandlers \X BusEvents
  BY DEF BusTypeOK, BusNext, busVars, PublishBegins, PublishSends,
         PublishPanics, PublishGivesUp, Subscribe, Unsubscribe, DeliverStarts,
         DispatchTakes, DispatchEnds, DeliverReturns, HandlerRuns, CloseBegins, CloseGoesOn
<1> QED
  BY <1>1, <1>2, <1>3 DEF BusInv, BusTypeOK, Dispatchers

-----------------------------------------------------------------------------
(* IndexWorker. *)
LEMMA OneMoreFits ==
  ASSUME NEW m \in Nat, NEW n \in 0 .. m, n < m
  PROVE  n + 1 \in 0 .. m
OBVIOUS

LEMMA IndexTypeInit == IndexInit => IndexTypeOK
<1>1. 0 \in 0 .. MaxEdits
  BY IndexAssumption
<1> QED
  BY <1>1 DEF IndexInit, IndexTypeOK, Versions, None0

LEMMA IndexTypeStep == IndexTypeOK /\ [IndexNext]_indexVars => IndexTypeOK'
<1> SUFFICES ASSUME IndexTypeOK, [IndexNext]_indexVars PROVE IndexTypeOK'
  OBVIOUS
<1> USE DEF IndexTypeOK
<1>1. CASE UNCHANGED indexVars
  BY <1>1 DEF indexVars
<1>2. ASSUME NEW f \in IndexFiles, Edit(f) PROVE IndexTypeOK'
  <2>1. version[f] \in 0 .. MaxEdits /\ version[f] < MaxEdits
    BY <1>2 DEF Edit, Versions
  <2>2. version[f] + 1 \in 0 .. MaxEdits
    BY <2>1, OneMoreFits, IndexAssumption
  <2> QED
    BY <1>2, <2>2 DEF Edit, Versions
<1>3. ASSUME NEW c \in IndexCallers, MarkSignals(c) PROVE IndexTypeOK'
  BY <1>3 DEF MarkSignals
<1>4. ASSUME NEW c \in IndexCallers, NEW changed \in SUBSET IndexFiles \ {{}},
             MarkAdds(c, changed)
      PROVE  IndexTypeOK'
  BY <1>4 DEF MarkAdds, Versions
<1>5. CASE WorkerWakes
  BY <1>5 DEF WorkerWakes
<1>6. CASE BackoffEnds
  BY <1>6 DEF BackoffEnds, AfterBackoff
<1>7. CASE Resettle
  BY <1>7 DEF Resettle
<1>8. CASE TakeBatch
  BY <1>8 DEF TakeBatch, Covered
<1>9. CASE IndexSucceeds \/ IndexFails
  BY <1>9 DEF IndexSucceeds, IndexFails
<1> QED
  BY <1>1, <1>2, <1>3, <1>4, <1>5, <1>6, <1>7, <1>8, <1>9 DEF IndexNext

-----------------------------------------------------------------------------
(* Forge. Commits and stashes are bounded by what came in between: each stash *)
(* holds an edit that is no longer in the worktree.                           *)
ForgeFlags ==
  /\ hasBranch \in [ForgeEntries -> BOOLEAN]
  /\ gitIndex \in {"clean", "merging", "unmerged"}
  /\ local \in BOOLEAN /\ undisturbed \in BOOLEAN

ForgeCounts ==
  /\ meddling \in Nat /\ meddling <= MaxMeddling /\ stashes \in Nat
  /\ stashes <= meddling /\ (local = TRUE => stashes < meddling)
  /\ \A e \in ForgeEntries : /\ 1 <= tip[e] /\ tip[e] <= meddling + 1
                             /\ integrated[e] <= meddling + 1
                             /\ submittedTip[e] <= meddling + 1

LEMMA ForgeBoundsInit == ForgeInit => ForgeFlags /\ ForgeCounts
<1> SUFFICES ASSUME ForgeInit PROVE ForgeFlags /\ ForgeCounts
  OBVIOUS
<1>1. ForgeFlags
  BY DEF ForgeInit, ForgeFlags
<1>2. MaxMeddling \in Nat
  BY ForgeAssumption
<1>3. /\ meddling = 0 /\ stashes = 0 /\ local = FALSE
      /\ \A e \in ForgeEntries : tip[e] = 1 /\ integrated[e] = 0 /\ submittedTip[e] = 0
  BY DEF ForgeInit
<1>4. ForgeCounts
  BY <1>2, <1>3 DEF ForgeCounts
<1> QED
  BY <1>1, <1>4

LEMMA ForgeFlagsStep == ForgeFlags /\ [ForgeNext]_forgeVars => ForgeFlags'
<1> SUFFICES ASSUME ForgeFlags, [ForgeNext]_forgeVars PROVE ForgeFlags'
  OBVIOUS
<1> USE DEF ForgeFlags, gitVars, entryVars
<1>1. CASE UNCHANGED forgeVars
  BY <1>1 DEF forgeVars
<1>2. ASSUME NEW e \in ForgeEntries,
             Commit(e) \/ SubmitToForge(e) \/ Retry(e) \/ RemoveBranch(e)
      PROVE  ForgeFlags'
  BY <1>2 DEF Commit, SubmitToForge, Retry, RemoveBranch
<1>3. CASE EditWorktree \/ Crash
  BY <1>3 DEF EditWorktree, Crash
<1>4. ASSUME NEW c \in ForgeCalls, Snapshot(c) \/ ListConflicts(c) \/ Abort(c)
      PROVE  ForgeFlags'
  BY <1>4 DEF Snapshot, ListConflicts, Abort, IndexAfterAbort
<1>5. ASSUME NEW c \in ForgeCalls, Stash(c) \/ Pop(c) PROVE ForgeFlags'
  BY <1>5 DEF Stash, Pop
<1>6. ASSUME NEW c \in ForgeCalls, Merge(c) PROVE ForgeFlags'
  BY <1>6 DEF Merge
<1>7. ASSUME NEW c \in ForgeCalls, NEW e \in ForgeEntries, Record(c, e) PROVE ForgeFlags'
  BY <1>7 DEF Record
<1> QED
  BY <1>1, <1>2, <1>3, <1>4, <1>5, <1>6, <1>7 DEF ForgeNext

\* Of the numbers, a step of a call moves commits and stashes only.
LEMMA CountsMove ==
  ASSUME ForgeCounts, ForgeInv, meddling' = meddling, UNCHANGED <<tip, submittedTip>>,
         \A e \in ForgeEntries : integrated'[e] \in {integrated[e], tip[e]},
         \/ UNCHANGED <<local, stashes>>
         \/ local = TRUE /\ local' = FALSE /\ stashes' = stashes + 1
         \/ stashes > 0 /\ local' = TRUE /\ stashes' = stashes - 1
  PROVE  ForgeCounts'
<1>1. \A e \in ForgeEntries :
        tip[e] \in Nat /\ integrated[e] \in Nat /\ submittedTip[e] \in Nat
  BY DEF ForgeInv
<1>2. /\ stashes' \in Nat /\ stashes' <= meddling'
      /\ (local' = TRUE => stashes' < meddling')
  BY DEF ForgeCounts
<1>3. \A e \in ForgeEntries : integrated'[e] <= meddling' + 1
  BY <1>1 DEF ForgeCounts
<1> QED
  BY <1>2, <1>3 DEF ForgeCounts

\* What comes in between counts.
LEMMA CountsMeddled ==
  ASSUME ForgeCounts, ForgeInv, Meddle, UNCHANGED <<integrated, submittedTip, stashes>>,
         \A e \in ForgeEntries : tip'[e] \in {tip[e], tip[e] + 1}
  PROVE  ForgeCounts'
<1>1. /\ \A e \in ForgeEntries :
           tip[e] \in Nat /\ integrated[e] \in Nat /\ submittedTip[e] \in Nat
      /\ MaxMeddling \in Nat
  BY ForgeAssumption DEF ForgeInv
<1>2. meddling' = meddling + 1 /\ meddling' <= MaxMeddling
  BY <1>1 DEF ForgeCounts, Meddle
<1>3. \A e \in ForgeEntries : 1 <= tip'[e] /\ tip'[e] <= meddling' + 1
  BY <1>1, <1>2 DEF ForgeCounts
<1> QED
  BY <1>1, <1>2, <1>3 DEF ForgeCounts

LEMMA ForgeCountsStep ==
  ForgeFlags /\ ForgeCounts /\ ForgeInv /\ [ForgeNext]_forgeVars => ForgeCounts'
<1> SUFFICES ASSUME ForgeFlags, ForgeCounts, ForgeInv, [ForgeNext]_forgeVars
             PROVE  ForgeCounts'
  OBVIOUS
<1> USE DEF entryVars, gitVars
<1>1. CASE UNCHANGED forgeVars
  BY <1>1 DEF forgeVars, ForgeCounts
<1>2. ASSUME NEW e \in ForgeEntries, Commit(e) PROVE ForgeCounts'
  <2>1. \A x \in ForgeEntries : tip'[x] \in {tip[x], tip[x] + 1}
    BY <1>2 DEF Commit, ForgeInv
  <2> QED
    BY <1>2, <2>1, CountsMeddled DEF Commit
<1>3. ASSUME NEW e \in ForgeEntries, SubmitToForge(e) PROVE ForgeCounts'
  <2>1. /\ UNCHANGED <<tip, integrated, local, stashes, meddling>>
        /\ \A x \in ForgeEntries : submittedTip'[x] \in {submittedTip[x], tip[x]}
    BY <1>3 DEF SubmitToForge, ForgeInv
  <2> QED
    BY <2>1 DEF ForgeCounts
<1>4. ASSUME NEW e \in ForgeEntries, Retry(e) \/ RemoveBranch(e) PROVE ForgeCounts'
  BY <1>4, CountsMeddled DEF Retry, RemoveBranch
<1>5. CASE EditWorktree \/ Crash
  BY <1>5, CountsMeddled DEF EditWorktree, Crash
<1>6. ASSUME NEW c \in ForgeCalls, Snapshot(c) PROVE ForgeCounts'
  <2>1. CASE Contended(c)
    BY <1>6, <2>1, CountsMeddled DEF Snapshot
  <2>2. CASE ~Contended(c)
    BY <1>6, <2>2, CountsMove DEF Snapshot
  <2> QED
    BY <2>1, <2>2
<1>7. ASSUME NEW c \in ForgeCalls, Stash(c) PROVE ForgeCounts'
  <2>1. \/ UNCHANGED <<local, stashes>>
        \/ local = TRUE /\ local' = FALSE /\ stashes' = stashes + 1
    BY <1>7, Zenon DEF Stash, CanStash, ForgeFlags
  <2> QED
    BY <1>7, <2>1, CountsMove DEF Stash
<1>8. ASSUME NEW c \in ForgeCalls, Merge(c) PROVE ForgeCounts'
  <2> DEFINE e == Current(c)
  <2>1. /\ UNCHANGED <<tip, local, stashes, meddling, submittedTip>>
        /\ integrated' = integrated \/ integrated' = [integrated EXCEPT ![e] = tip[e]]
    BY <1>8 DEF Merge
  <2> HIDE DEF e
  <2>2. \A x \in ForgeEntries : integrated'[x] \in {integrated[x], tip[x]}
    BY <2>1 DEF ForgeInv
  <2> QED
    BY <2>1, <2>2, CountsMove
<1>9. ASSUME NEW c \in ForgeCalls, ListConflicts(c) \/ Abort(c) PROVE ForgeCounts'
  BY <1>9, CountsMove DEF ListConflicts, Abort
<1>10. ASSUME NEW c \in ForgeCalls, Pop(c) PROVE ForgeCounts'
  <2>1. \/ UNCHANGED <<local, stashes>>
        \/ stashes > 0 /\ local' = TRUE /\ stashes' = stashes - 1
    BY <1>10, Zenon DEF Pop
  <2> QED
    BY <1>10, <2>1, CountsMove DEF Pop
<1>11. ASSUME NEW c \in ForgeCalls, NEW e \in ForgeEntries, Record(c, e)
       PROVE  ForgeCounts'
  BY <1>11, CountsMove DEF Record
<1> QED
  BY <1>1, <1>2, <1>3, <1>4, <1>5, <1>6, <1>7, <1>8, <1>9, <1>10, <1>11 DEF ForgeNext

LEMMA ForgeTypes == ForgeInv /\ ForgeFlags /\ ForgeCounts => ForgeTypeOK
<1> SUFFICES ASSUME ForgeInv, ForgeFlags, ForgeCounts PROVE ForgeTypeOK
  OBVIOUS
<1>0. MaxMeddling \in Nat
  BY ForgeAssumption
<1>1. ASSUME NEW e \in ForgeEntries
      PROVE  /\ tip[e] \in 1 .. MaxMeddling + 1
             /\ integrated[e] \in 0 .. MaxMeddling + 1
             /\ submittedTip[e] \in 0 .. MaxMeddling + 1
  <2>1. tip[e] \in Nat /\ integrated[e] \in Nat /\ submittedTip[e] \in Nat
    BY DEF ForgeInv
  <2> QED
    BY <1>0, <2>1 DEF ForgeCounts
<1>2. /\ tip \in [ForgeEntries -> 1 .. MaxMeddling + 1]
      /\ integrated \in [ForgeEntries -> 0 .. MaxMeddling + 1]
      /\ submittedTip \in [ForgeEntries -> 0 .. MaxMeddling + 1]
  BY <1>1 DEF ForgeInv
<1>3. stashes \in 0 .. MaxMeddling /\ meddling \in 0 .. MaxMeddling
  BY <1>0 DEF ForgeCounts
<1>4. calls \in [ForgeCalls ->
       [at : {"idle", "stash", "merge", "list", "abort", "pop", "record", "done", "dead"},
        todo : SUBSET ForgeEntries, stashed : BOOLEAN,
        outcome : [ForgeEntries -> {"none", "merged", "conflict", "failed"}]]]
  BY DEF ForgeInv, ForgeCallStates, ForgeOutcomes
<1> QED
  BY <1>2, <1>3, <1>4 DEF ForgeInv, ForgeFlags, ForgeTypeOK

-----------------------------------------------------------------------------
(* Signals and reviews: the invariant says it. *)
LEMMA SignalsTypes == SignalsInv => SignalsTypeOK
BY DEF SignalsInv, SignalsTypeOK, SignalRows, PollStates

LEMMA ReviewTypes == ReviewInv => ReviewTypeOK
BY DEF ReviewInv, ReviewTypeOK, UnderWay

-----------------------------------------------------------------------------
(* Guardian. Nobody counts more than there may be. *)
LEMMA GuardianTypeInit == GuardianInit => GuardianTypeOK
<1> SUFFICES ASSUME GuardianInit PROVE GuardianTypeOK
  OBVIOUS
<1>1. 0 \in 0 .. MaxDebt
  BY GuardianAssumption
<1>2. debt \in 0 .. MaxDebt /\ baseline = 0 /\ open = 0
  BY DEF GuardianInit
<1>3. scans \in [Scans -> [at : {"idle", "counted", "lower", "look", "save"},
                           counted : 0 .. MaxDebt]]
  BY <1>1 DEF GuardianInit, NoScan, Scan
<1>4. guarding \in BOOLEAN /\ scansOverlapped \in BOOLEAN /\ misread \in BOOLEAN
  BY DEF GuardianInit
<1> QED
  BY <1>1, <1>2, <1>3, <1>4 DEF GuardianTypeOK

LEMMA GuardianTypeStep == GuardianTypeOK /\ [GuardianNext]_guardianVars => GuardianTypeOK'
<1> SUFFICES ASSUME GuardianTypeOK, [GuardianNext]_guardianVars PROVE GuardianTypeOK'
  OBVIOUS
<1> USE DEF GuardianTypeOK, disturbances
<1>0. NoScan \in [at : {"idle", "counted", "lower", "look", "save"}, counted : 0 .. MaxDebt]
  BY GuardianAssumption DEF NoScan, Scan
<1>1. CASE UNCHANGED guardianVars
  BY <1>1 DEF guardianVars
<1>2. ASSUME NEW n \in 0 .. MaxDebt, DebtChanges(n) PROVE GuardianTypeOK'
  BY <1>2 DEF DebtChanges
<1>3. CASE StartGuardian
  BY <1>3 DEF StartGuardian
<1>4. CASE AlertGoesAway
  BY <1>4 DEF AlertGoesAway
<1>5. ASSUME NEW s \in Scans, Measure(s) PROVE GuardianTypeOK'
  BY <1>5 DEF Measure, Scan
<1>6. ASSUME NEW s \in Scans, Compare(s) PROVE GuardianTypeOK'
  BY <1>0, <1>6 DEF Compare, Scan
<1>7. ASSUME NEW s \in Scans, MisreadBaseline(s) PROVE GuardianTypeOK'
  BY <1>7 DEF MisreadBaseline
<1>8. ASSUME NEW s \in Scans, SetBaseline(s) PROVE GuardianTypeOK'
  BY <1>0, <1>8 DEF SetBaseline
<1>9. ASSUME NEW s \in Scans, LookForAlert(s) PROVE GuardianTypeOK'
  BY <1>0, <1>9 DEF LookForAlert
<1>10. ASSUME NEW s \in Scans, SaveAlert(s) \/ DbFails(s) PROVE GuardianTypeOK'
  BY <1>0, <1>10 DEF SaveAlert, DbFails
<1> QED
  BY <1>1, <1>2, <1>3, <1>4, <1>5, <1>6, <1>7, <1>8, <1>9, <1>10 DEF GuardianNext

-----------------------------------------------------------------------------
(* LLMCalls. *)
LEMMA ShorterSeq ==
  ASSUME NEW S, NEW s \in Seq(S), NEW n \in DOMAIN s
  PROVE  RemoveAt(s, n) \in Seq(S)
<1>1. n \in 1 .. Len(s)
  OBVIOUS
<1>2. SubSeq(s, 1, n - 1) \in Seq(S) /\ SubSeq(s, n + 1, Len(s)) \in Seq(S)
  BY <1>1
<1> QED
  BY <1>2 DEF RemoveAt

LLMCallType == [at : {"idle", "queued", "attempting", "answered"},
                high : BOOLEAN, attempt : 0 .. MaxRetries]

LEMMA LLMTypeInit == LLMInit => LLMTypeOK
<1>1. 0 \in 0 .. MaxRetries
  BY LLMAssumption
<1> QED
  BY <1>1 DEF LLMInit, LLMTypeOK, NoCall, LLMCall

LEMMA LLMTypeStep == LLMTypeOK /\ [LLMNext]_llmVars => LLMTypeOK'
<1> SUFFICES ASSUME LLMTypeOK, [LLMNext]_llmVars PROVE LLMTypeOK'
  OBVIOUS
<1>0. /\ usage \in Nat /\ lowUsage \in Nat
      /\ llmCalls \in [Clients -> LLMCallType] /\ slotQueue \in Seq(Clients)
  BY DEF LLMTypeOK, LLMCallType
<1>n. NoCall \in LLMCallType
  BY LLMAssumption DEF NoCall, LLMCall, LLMCallType
<1>1. CASE UNCHANGED llmVars
  BY <1>0, <1>1 DEF llmVars, LLMTypeOK, LLMCallType
<1>2. ASSUME NEW c \in Clients, NEW high \in BOOLEAN, BeginCall(c, high) PROVE LLMTypeOK'
  <2>1. LLMCall("queued", high, 0) \in LLMCallType
    BY LLMAssumption DEF LLMCall, LLMCallType
  <2>2. llmCalls' \in [Clients -> LLMCallType]
    BY <1>0, <1>2, <2>1 DEF BeginCall
  <2>3. slotQueue' \in Seq(Clients)
    BY <1>0, <1>2 DEF BeginCall
  <2> QED
    BY <1>0, <1>2, <2>2, <2>3 DEF BeginCall, LLMTypeOK, LLMCallType
<1>3. ASSUME NEW c \in Clients, TakeSlot(c) PROVE LLMTypeOK'
  <2>2. llmCalls' \in [Clients -> LLMCallType]
    BY <1>0, <1>3 DEF TakeSlot, LLMCallType
  <2>3. slotQueue' \in Seq(Clients)
    BY <1>0, <1>3 DEF TakeSlot
  <2> QED
    BY <1>0, <1>3, <2>2, <2>3 DEF TakeSlot, LLMTypeOK, LLMCallType
<1>4. ASSUME NEW c \in Clients, GiveUpCall(c) PROVE LLMTypeOK'
  <2>2. llmCalls' \in [Clients -> LLMCallType]
    BY <1>0, <1>n, <1>4 DEF GiveUpCall
  <2>3. slotQueue' \in Seq(Clients)
    BY <1>0, <1>4, ShorterSeq DEF GiveUpCall
  <2> QED
    BY <1>0, <1>4, <2>2, <2>3 DEF GiveUpCall, LLMTypeOK, LLMCallType
<1>5. ASSUME NEW c \in Clients, AttemptFails(c) PROVE LLMTypeOK'
  <2>1. CASE MayRetry(c)
    <3>1. /\ llmCalls[c].high \in BOOLEAN /\ llmCalls[c].attempt \in 0 .. MaxRetries
          /\ llmCalls[c].attempt < MaxRetries
      BY <1>0, <2>1 DEF LLMCallType, MayRetry
    <3>2. llmCalls[c].attempt + 1 \in 0 .. MaxRetries
      BY <3>1, OneMoreFits, LLMAssumption
    <3>3. LLMCall("attempting", llmCalls[c].high, llmCalls[c].attempt + 1) \in LLMCallType
      BY <3>1, <3>2 DEF LLMCall, LLMCallType
    <3> QED
      BY <1>0, <1>5, <2>1, <3>3 DEF AttemptFails, LLMTypeOK, LLMCallType
  <2>2. CASE ~MayRetry(c)
    BY <1>0, <1>n, <1>5, <2>2 DEF AttemptFails, LLMTypeOK, LLMCallType
  <2> QED
    BY <2>1, <2>2
<1>6. ASSUME NEW c \in Clients, Answered(c) PROVE LLMTypeOK'
  BY <1>0, <1>6 DEF Answered, LLMTypeOK, LLMCallType
<1>7. ASSUME NEW c \in Clients, NEW tokens \in 0 .. MaxTokens, RecordUsage(c, tokens)
      PROVE  LLMTypeOK'
  <2>1. usage' \in Nat /\ lowUsage' \in Nat
    BY <1>0, <1>7, LLMAssumption DEF RecordUsage
  <2>2. llmCalls' \in [Clients -> LLMCallType] /\ slotQueue' \in Seq(Clients)
    BY <1>0, <1>n, <1>7 DEF RecordUsage
  <2> QED
    BY <2>1, <2>2 DEF LLMTypeOK, LLMCallType
<1>8. CASE Midnight
  BY <1>0, <1>8 DEF Midnight, LLMTypeOK, LLMCallType
<1> QED
  BY <1>1, <1>2, <1>3, <1>4, <1>5, <1>6, <1>7, <1>8 DEF LLMNext

-----------------------------------------------------------------------------
(* CodeAnalyst. A run that asks about a file has read one. *)
AnalysisStates ==
  [at : {"idle", "starting", "collecting", "files", "asking", "caching", "freeing", "over"},
   todo : SUBSET Scores, score : Scores \union {NoScore}, content : 0 .. MaxVersions]

AsksAboutFiles ==
  \A r \in AnalysisRuns : runs[r].at \in {"asking", "caching"} =>
    runs[r].score \in Scores /\ runs[r].content # NoFile

\* A state with this question, or none.
LEMMA StateOf ==
  ASSUME NEW at \in {"idle", "starting", "collecting", "files", "asking", "caching",
                     "freeing", "over"},
         NEW todo \in SUBSET Scores
  PROVE  /\ Bare(at) \in AnalysisStates
         /\ RunState(at, todo, NoScore, NoFile) \in AnalysisStates
         /\ \A score \in Scores, content \in 0 .. MaxVersions :
              RunState(at, todo, score, content) \in AnalysisStates
BY AnalystAssumption DEF Bare, RunState, AnalysisStates, NoFile

LEMMA AnalystTypeInit == AnalystInit => AnalystTypeOK /\ AsksAboutFiles
<1> SUFFICES ASSUME AnalystInit PROVE AnalystTypeOK /\ AsksAboutFiles
  OBVIOUS
<1>1. /\ 1 \in 1 .. MaxVersions /\ 1 \in 0 .. MaxVersions
      /\ NotCached \in 0 .. NotCached
  BY AnalystAssumption DEF NotCached
<1>2. runs \in [AnalysisRuns -> AnalysisStates]
  <2>1. Bare("idle") \in AnalysisStates
    BY StateOf, {} \in SUBSET Scores
  <2> QED
    BY <2>1 DEF AnalystInit
<1>3. \A r \in AnalysisRuns : runs[r].at = "idle"
  BY DEF AnalystInit, Bare, RunState
<1> QED
  BY <1>1, <1>2, <1>3
     DEF AnalystInit, AnalystTypeOK, AsksAboutFiles, AnalysisStates

\* One run moves.
LEMMA RunMovesType ==
  ASSUME runs \in [AnalysisRuns -> AnalysisStates], AsksAboutFiles,
         NEW r \in AnalysisRuns, NEW new \in AnalysisStates,
         new.at \in {"asking", "caching"} => new.score \in Scores /\ new.content # NoFile,
         runs' = [runs EXCEPT ![r] = new]
  PROVE  runs' \in [AnalysisRuns -> AnalysisStates] /\ AsksAboutFiles'
<1>1. runs' \in [AnalysisRuns -> AnalysisStates]
  OBVIOUS
<1>2. \A o \in AnalysisRuns : runs'[o] = IF o = r THEN new ELSE runs[o]
  OBVIOUS
<1> QED
  BY <1>1, <1>2 DEF AsksAboutFiles

LEMMA AnalystTypeStep ==
  AnalystTypeOK /\ AsksAboutFiles /\ [AnalystNext]_analystVars
    => AnalystTypeOK' /\ AsksAboutFiles'
<1> SUFFICES ASSUME AnalystTypeOK, AsksAboutFiles, [AnalystNext]_analystVars
             PROVE  AnalystTypeOK' /\ AsksAboutFiles'
  OBVIOUS
<1>r. runs \in [AnalysisRuns -> AnalysisStates]
  BY DEF AnalystTypeOK, AnalysisStates
<1>t. ASSUME runs' \in [AnalysisRuns -> AnalysisStates] /\ AsksAboutFiles',
             UNCHANGED fileVars, UNCHANGED <<cache, analysed>>, analysing' \in BOOLEAN
      PROVE  AnalystTypeOK' /\ AsksAboutFiles'
  BY <1>t DEF AnalystTypeOK, AnalysisStates, fileVars
<1>f. ASSUME UNCHANGED <<cache, analysed, analysing, runs>>,
             disk' \in [SourceFiles -> 0 .. MaxVersions],
             newest' \in [SourceFiles -> 1 .. MaxVersions], restored' \subseteq SourceFiles
      PROVE  AnalystTypeOK' /\ AsksAboutFiles'
  BY <1>f DEF AnalystTypeOK, AsksAboutFiles
<1>v. MaxVersions \in Nat /\ NoFile \in 0 .. MaxVersions /\ {} \in SUBSET Scores
  BY AnalystAssumption DEF NoFile
<1>1. CASE UNCHANGED analystVars
  BY <1>1 DEF analystVars, AnalystTypeOK, AsksAboutFiles
<1>2. ASSUME NEW f \in SourceFiles, Rewrite(f) PROVE AnalystTypeOK' /\ AsksAboutFiles'
  <2>1. newest[f] \in 1 .. MaxVersions /\ newest[f] < MaxVersions
    BY <1>2 DEF AnalystTypeOK, Rewrite
  <2>2. newest[f] + 1 \in 1 .. MaxVersions /\ newest[f] + 1 \in 0 .. MaxVersions
    BY <2>1, <1>v
  <2>3. newest' = [newest EXCEPT ![f] = newest[f] + 1] /\ newest'[f] = newest[f] + 1
    BY <1>2 DEF Rewrite, AnalystTypeOK
  <2>4. disk' = [disk EXCEPT ![f] = newest[f] + 1]
    BY <1>2, <2>3 DEF Rewrite
  <2> QED
    BY <1>2, <1>f, <2>2, <2>3, <2>4 DEF Rewrite, AnalystTypeOK
<1>3. ASSUME NEW f \in SourceFiles, DeleteFile(f) PROVE AnalystTypeOK' /\ AsksAboutFiles'
  BY <1>3, <1>f, <1>v DEF DeleteFile, AnalystTypeOK
<1>4. ASSUME NEW f \in SourceFiles, NEW v \in 1 .. MaxVersions, RestoreContent(f, v)
      PROVE  AnalystTypeOK' /\ AsksAboutFiles'
  <2>1. v \in 0 .. MaxVersions
    BY <1>v
  <2> QED
    BY <1>4, <1>f, <2>1 DEF RestoreContent, AnalystTypeOK
<1>5. ASSUME NEW r \in AnalysisRuns,
             NEW at \in {"idle", "starting", "collecting", "files", "freeing", "over"},
             NEW todo \in SUBSET Scores,
             runs' = [runs EXCEPT ![r] = RunState(at, todo, NoScore, NoFile)],
             UNCHANGED fileVars, UNCHANGED <<cache, analysed>>, analysing' \in BOOLEAN
      PROVE  AnalystTypeOK' /\ AsksAboutFiles'
  <2> DEFINE new == RunState(at, todo, NoScore, NoFile)
  <2>1. new \in AnalysisStates
    BY StateOf
  <2>2. new.at \notin {"asking", "caching"}
    BY DEF RunState
  <2>3. runs' = [runs EXCEPT ![r] = new]
    BY <1>5
  <2> HIDE DEF new
  <2>4. runs' \in [AnalysisRuns -> AnalysisStates] /\ AsksAboutFiles'
    BY <1>r, <2>1, <2>2, <2>3, RunMovesType
  <2> QED
    BY <1>5, <1>t, <2>4
<1>b. analysing \in BOOLEAN /\ \A r \in AnalysisRuns : runs[r].todo \in SUBSET Scores
  BY <1>r DEF AnalystTypeOK, AnalysisStates
<1>6. ASSUME NEW r \in AnalysisRuns,
             BeginRun(r) \/ SaveRun(r) \/ SaveRunFails(r) \/ CloseRun(r) \/ FreeEngine(r)
      PROVE  AnalystTypeOK' /\ AsksAboutFiles'
  <2>1. PICK at \in {"over", "starting", "collecting", "freeing"} :
          runs' = [runs EXCEPT ![r] = RunState(at, {}, NoScore, NoFile)]
    BY <1>6 DEF BeginRun, SaveRun, SaveRunFails, CloseRun, FreeEngine, Bare
  <2>2. UNCHANGED fileVars /\ UNCHANGED <<cache, analysed>> /\ analysing' \in BOOLEAN
    BY <1>6, <1>b DEF BeginRun, SaveRun, SaveRunFails, CloseRun, FreeEngine
  <2> QED
    BY <1>5, <1>v, <2>1, <2>2
<1>7. ASSUME NEW r \in AnalysisRuns, NEW ranked \in SUBSET SourceFiles,
             NEW again \in SUBSET ranked, CollectAndFilter(r, ranked, again)
      PROVE  AnalystTypeOK' /\ AsksAboutFiles'
  <2> DEFINE todo == {<<f, disk[f]>> : f \in Changed(ranked, again)}
  <2>1. todo \in SUBSET Scores
    BY DEF Changed, Scores, AnalystTypeOK
  <2>2. /\ runs' = [runs EXCEPT ![r] = RunState("files", todo, NoScore, NoFile)]
        /\ UNCHANGED fileVars /\ UNCHANGED <<cache, analysed>> /\ analysing' = analysing
    BY <1>7 DEF CollectAndFilter
  <2> HIDE DEF todo
  <2> QED
    BY <1>5, <1>b, <2>1, <2>2
<1>8. ASSUME NEW r \in AnalysisRuns, NEW score \in runs[r].todo, ReadSource(r, score)
      PROVE  AnalystTypeOK' /\ AsksAboutFiles'
  <2> DEFINE content == disk[score[1]]
             todo    == runs[r].todo \ {score}
             new     == RunState("asking", todo, score, content)
  <2>0. score \in Scores /\ content \in 0 .. MaxVersions /\ todo \in SUBSET Scores
    BY <1>b DEF Scores, AnalystTypeOK
  <2>1. /\ UNCHANGED fileVars /\ UNCHANGED <<cache, analysed>> /\ analysing' = analysing
        /\ content = NoFile => runs' = [runs EXCEPT ![r] = RunState("files", todo, NoScore, NoFile)]
        /\ content # NoFile => runs' = [runs EXCEPT ![r] = new]
    BY <1>8 DEF ReadSource, NextFile
  <2>2. new \in AnalysisStates
    BY <2>0, StateOf
  <2>3. new.score = score /\ new.content = content
    BY DEF RunState
  <2> HIDE DEF content, todo, new
  <2>4. CASE content = NoFile
    BY <1>5, <1>b, <2>0, <2>1, <2>4
  <2>5. CASE content # NoFile
    <3>1. runs' \in [AnalysisRuns -> AnalysisStates] /\ AsksAboutFiles'
      BY <1>r, <2>0, <2>1, <2>2, <2>3, <2>5, RunMovesType
    <3> QED
      BY <1>t, <1>b, <2>1, <3>1
  <2> QED
    BY <2>4, <2>5
<1>9. ASSUME NEW r \in AnalysisRuns, AnswerComes(r) PROVE AnalystTypeOK' /\ AsksAboutFiles'
  <2> DEFINE new == [runs[r] EXCEPT !.at = "caching"]
  <2>1. /\ runs' = [runs EXCEPT ![r] = new]
        /\ UNCHANGED fileVars /\ UNCHANGED <<cache, analysing>>
        /\ analysed' = analysed \union {<<runs[r].score[1], runs[r].content>>}
        /\ runs[r].at = "asking"
    BY <1>9 DEF AnswerComes
  <2>2. runs[r].score \in Scores /\ runs[r].content # NoFile
        /\ runs[r].content \in 0 .. MaxVersions
    BY <1>r, <2>1 DEF AsksAboutFiles, AnalysisStates
  <2>3. new \in AnalysisStates /\ new.score = runs[r].score /\ new.content = runs[r].content
    BY <1>r DEF AnalysisStates
  <2> HIDE DEF new
  <2>4. runs' \in [AnalysisRuns -> AnalysisStates] /\ AsksAboutFiles'
    BY <1>r, <2>1, <2>2, <2>3, RunMovesType
  <2>5. runs[r].content \in 1 .. MaxVersions /\ runs[r].score[1] \in SourceFiles
    BY <1>v, <2>2 DEF Scores, NoFile
  <2>6. analysed' \subseteq SourceFiles \X (1 .. MaxVersions)
    BY <2>1, <2>5 DEF AnalystTypeOK
  <2> QED
    BY <2>1, <2>4, <2>6 DEF AnalystTypeOK, AnalysisStates, fileVars
<1>10. ASSUME NEW r \in AnalysisRuns, AnswerFails(r) PROVE AnalystTypeOK' /\ AsksAboutFiles'
  BY <1>5, <1>b, <1>10 DEF AnswerFails, NextFile
<1>11. ASSUME NEW r \in AnalysisRuns, UpdateCache(r) PROVE AnalystTypeOK' /\ AsksAboutFiles'
  <2> DEFINE new == RunState("files", runs[r].todo, NoScore, NoFile)
  <2>1. /\ runs' = [runs EXCEPT ![r] = new]
        /\ UNCHANGED fileVars /\ UNCHANGED <<analysed, analysing>>
        /\ cache' \in {cache, [cache EXCEPT ![runs[r].score[1]] = runs[r].score[2]]}
        /\ runs[r].at = "caching"
    BY <1>11 DEF UpdateCache, NextFile, CachedHash
  <2>2. new \in AnalysisStates
    BY <1>b, StateOf
  <2>3. new.at = "files"
    BY DEF RunState
  <2> HIDE DEF new
  <2>4. runs' \in [AnalysisRuns -> AnalysisStates] /\ AsksAboutFiles'
    BY <1>r, <2>1, <2>2, <2>3, RunMovesType
  <2>5. runs[r].score[2] \in 0 .. MaxVersions
    BY <2>1 DEF AsksAboutFiles, Scores
  <2>6. runs[r].score[2] \in 0 .. NotCached
    BY <1>v, <2>5 DEF NotCached
  <2>7. cache' \in [SourceFiles -> 0 .. NotCached]
    BY <2>1, <2>6 DEF AnalystTypeOK
  <2> QED
    BY <2>1, <2>4, <2>7 DEF AnalystTypeOK, AnalysisStates, fileVars
<1>12. CASE KillEngine
  <2>1. Bare("over") \in AnalysisStates
    BY <1>v, StateOf
  <2>2. Bare("over").at = "over"
    BY DEF Bare, RunState
  <2>3. runs' = [r \in AnalysisRuns |-> IF Live(r) THEN Bare("over") ELSE runs[r]]
    BY <1>12 DEF KillEngine
  <2>4. runs' \in [AnalysisRuns -> AnalysisStates]
    BY <1>r, <2>1, <2>3
  <2>5. AsksAboutFiles'
    BY <2>2, <2>3 DEF AsksAboutFiles
  <2> QED
    BY <1>12, <1>t, <2>4, <2>5 DEF KillEngine
<1> QED
  BY <1>1, <1>2, <1>3, <1>4, <1>6, <1>7, <1>8, <1>9, <1>10, <1>11, <1>12 DEF AnalystNext

-----------------------------------------------------------------------------
(* InboxWatcher. A goroutine that saves has read something. *)
SavesText == \A g \in Ingests : ingests[g].at = "save" => ingests[g].text # NoText

LEMMA InboxTypeInit == InboxInit => InboxTypeOK /\ SavesText
<1> SUFFICES ASSUME InboxInit PROVE InboxTypeOK /\ SavesText
  OBVIOUS
<1>1. NoText \in 0 .. MaxWrites
  BY InboxAssumption DEF NoText
<1> QED
  BY <1>1 DEF InboxInit, InboxTypeOK, SavesText, NoIngest, Ingest, NoText

LEMMA InboxTypeStep ==
  InboxTypeOK /\ SavesText /\ [InboxNext]_inboxVars => InboxTypeOK' /\ SavesText'
<1> SUFFICES ASSUME InboxTypeOK, SavesText, [InboxNext]_inboxVars
             PROVE  InboxTypeOK' /\ SavesText'
  OBVIOUS
<1> USE DEF InboxTypeOK, SavesText
<1>0. MaxWrites \in Nat /\ NoText = 0 /\ NoText \in 0 .. MaxWrites
  BY InboxAssumption DEF NoText
<1>n. NoIngest \in [at : {"idle", "forget", "read", "save", "archive"}, text : 0 .. MaxWrites]
      /\ NoIngest.at = "idle"
  BY <1>0 DEF NoIngest, Ingest
<1>1. CASE UNCHANGED inboxVars
  BY <1>1 DEF inboxVars
<1>2. CASE WriteFile
  <2>1. written \in 0 .. MaxWrites /\ written < MaxWrites
    BY <1>2 DEF WriteFile
  <2>2. written + 1 \in 0 .. MaxWrites
    BY <1>0, <2>1, OneMoreFits
  <2> QED
    BY <1>2, <2>2 DEF WriteFile
<1>3. CASE NoticeEvent
  BY <1>3 DEF NoticeEvent, Rearm
<1>4. CASE RestartWatcher
  BY <1>4, <1>n DEF RestartWatcher
<1>5. ASSUME NEW g \in Ingests, NEW t \in Timers, TimerFires(t, g)
      PROVE  InboxTypeOK' /\ SavesText'
  BY <1>5, <1>0 DEF TimerFires, Ingest
<1>6. ASSUME NEW g \in Ingests, ForgetTimer(g) PROVE InboxTypeOK' /\ SavesText'
  BY <1>6 DEF ForgetTimer
<1>7. ASSUME NEW g \in Ingests, ReadInbox(g) PROVE InboxTypeOK' /\ SavesText'
  BY <1>7, <1>n DEF ReadInbox, NothingToRead, Ingest
<1>8. ASSUME NEW g \in Ingests, SaveRawPage(g) PROVE InboxTypeOK' /\ SavesText'
  <2>1. ingests[g].text \in 1 .. MaxWrites
    BY <1>8, <1>0 DEF SaveRawPage
  <2> QED
    BY <1>8, <2>1 DEF SaveRawPage
<1>9. ASSUME NEW g \in Ingests, IngestFails(g) PROVE InboxTypeOK' /\ SavesText'
  BY <1>9, <1>n DEF IngestFails
<1>10. ASSUME NEW g \in Ingests, ArchiveFile(g) PROVE InboxTypeOK' /\ SavesText'
  <2>1. inbox # NoText => inbox \in 1 .. MaxWrites
    BY <1>0
  <2> QED
    BY <1>10, <1>0, <1>n, <2>1 DEF ArchiveFile
<1> QED
  BY <1>1, <1>2, <1>3, <1>4, <1>5, <1>6, <1>7, <1>8, <1>9, <1>10 DEF InboxNext

-----------------------------------------------------------------------------
(* The composition: it begins as each service begins, and each of its steps is a *)
(* step of one service and changes nothing of the others.                        *)
LEMMA EachBegins ==
  ServicesInit =>
    /\ BusInit /\ IndexInit /\ ForgeInit
    /\ SignalsInit /\ GuardianInit /\ LLMInit
    /\ OnboardInit /\ AnalystInit /\ InboxInit
    /\ TreesInit /\ PreviewInit /\ GuardrailInit
    /\ TermInit /\ HubInit /\ EvoInit
    /\ MigrateInit /\ VaultInit /\ ReviewInit
    /\ PageInit /\ DocsInit /\ LearnInit
BY DEF ServicesInit

LEMMA EachSteps ==
  [ServicesNext]_servicesVars =>
    /\ [BusNext]_busVars /\ [IndexNext]_indexVars /\ [ForgeNext]_forgeVars
    /\ [SignalsNext]_signalVars /\ [GuardianNext]_guardianVars /\ [LLMNext]_llmVars
    /\ [OnboardNext]_onboardVars /\ [AnalystNext]_analystVars /\ [InboxNext]_inboxVars
    /\ [TreesNext]_treeVars /\ [PreviewNext]_previewVars /\ [GuardrailNext]_guardrailVars
    /\ [TermNext]_termVars /\ [HubNext]_hubVars /\ [EvoNext]_evoVars
    /\ [MigrateNext]_migrateVars /\ [VaultNext]_vaultVars /\ [ReviewNext]_reviewVars
    /\ [PageNext]_stalenessVars /\ [DocsNext]_docsVars /\ [LearnNext]_learnVars
<1>1. CASE UNCHANGED servicesVars
  BY <1>1 DEF servicesVars
<1>2. ASSUME ServicesNext
      PROVE
        /\ [BusNext]_busVars /\ [IndexNext]_indexVars /\ [ForgeNext]_forgeVars
        /\ [SignalsNext]_signalVars /\ [GuardianNext]_guardianVars /\ [LLMNext]_llmVars
        /\ [OnboardNext]_onboardVars /\ [AnalystNext]_analystVars /\ [InboxNext]_inboxVars
        /\ [TreesNext]_treeVars /\ [PreviewNext]_previewVars /\ [GuardrailNext]_guardrailVars
        /\ [TermNext]_termVars /\ [HubNext]_hubVars /\ [EvoNext]_evoVars
        /\ [MigrateNext]_migrateVars /\ [VaultNext]_vaultVars /\ [ReviewNext]_reviewVars
        /\ [PageNext]_stalenessVars /\ [DocsNext]_docsVars /\ [LearnNext]_learnVars
  <2>1. [BusNext]_busVars
    BY <1>2 DEF ServicesNext
  <2>2. [IndexNext]_indexVars
    BY <1>2 DEF ServicesNext
  <2>3. [ForgeNext]_forgeVars
    BY <1>2 DEF ServicesNext
  <2>4. [SignalsNext]_signalVars
    BY <1>2 DEF ServicesNext
  <2>5. [GuardianNext]_guardianVars
    BY <1>2 DEF ServicesNext
  <2>6. [LLMNext]_llmVars
    BY <1>2 DEF ServicesNext
  <2>7. [OnboardNext]_onboardVars
    BY <1>2 DEF ServicesNext
  <2>8. [AnalystNext]_analystVars
    BY <1>2 DEF ServicesNext
  <2>9. [InboxNext]_inboxVars
    BY <1>2 DEF ServicesNext
  <2>10. [TreesNext]_treeVars
    BY <1>2 DEF ServicesNext
  <2>11. [PreviewNext]_previewVars
    BY <1>2 DEF ServicesNext
  <2>12. [GuardrailNext]_guardrailVars
    BY <1>2 DEF ServicesNext
  <2>13. [TermNext]_termVars
    BY <1>2 DEF ServicesNext
  <2>14. [HubNext]_hubVars
    BY <1>2 DEF ServicesNext
  <2>15. [EvoNext]_evoVars
    BY <1>2 DEF ServicesNext
  <2>16. [MigrateNext]_migrateVars
    BY <1>2 DEF ServicesNext
  <2>17. [VaultNext]_vaultVars
    BY <1>2 DEF ServicesNext
  <2>18. [ReviewNext]_reviewVars
    BY <1>2 DEF ServicesNext
  <2>19. [PageNext]_stalenessVars
    BY <1>2 DEF ServicesNext
  <2>20. [DocsNext]_docsVars
    BY <1>2 DEF ServicesNext
  <2>21. [LearnNext]_learnVars
    BY <1>2 DEF ServicesNext
  <2> QED
    BY <2>1, <2>2, <2>3, <2>4, <2>5, <2>6, <2>7, <2>8, <2>9, <2>10, <2>11,
       <2>12, <2>13, <2>14, <2>15, <2>16, <2>17, <2>18, <2>19, <2>20, <2>21
<1> QED
  BY <1>1, <1>2

-----------------------------------------------------------------------------
(* What each service keeps, it keeps here: its invariant needs its steps only. *)
LEMMA BusKept == ServicesSpec => [](BusTypeOK /\ BusInv) /\ BusImplementsDeliveries
BY EachBegins, EachSteps, BusTypeInit, BusTypeStep, BusInvInit, BusStep, PTL
   DEF ServicesSpec, BusImplementsDeliveries, Promise!Spec

LEMMA IndexKept == ServicesSpec => []IndexTypeOK /\ []IndexKeepsUp
<1>1. IndexInv => FreshWhenQuiet
  BY DEF IndexInv, FreshWhenQuiet
<1> QED
  BY <1>1, EachBegins, EachSteps, IndexTypeInit, IndexTypeStep, NoLostWakeupInit,
     NoLostWakeupStep, IndexInvInit, IndexInvStep, PTL DEF ServicesSpec, IndexKeepsUp

LEMMA ForgeKept ==
  ServicesSpec => []ForgeTypeOK /\ []MergedIsIntegrated /\ []UndisturbedForge
<1>1. QuietInv => ForgeInv /\ MergedIsIntegrated /\ UndisturbedForge
  BY DEF QuietInv, ForgeInv, Quiet, Blame, BlameIsJust, EditsComeBack, UndisturbedForge
<1> QED
  BY <1>1, EachBegins, EachSteps, QuietInit, QuietStep, ForgeBoundsInit, ForgeFlagsStep,
     ForgeCountsStep, ForgeTypes, PTL DEF ServicesSpec

LEMMA SignalsKept == ServicesSpec => []SignalsTypeOK /\ []ReadMeansHandedOutOnce
<1>1. SignalsInv => ReadMeansHandedOutOnce
  BY DEF SignalsInv
<1> QED
  BY <1>1, EachBegins, EachSteps, SignalsInvInit, SignalsInvStep, SignalsTypes, PTL
     DEF ServicesSpec

LEMMA GuardianServiceKept == ServicesSpec => []GuardianTypeOK /\ GuardianKept
BY EachBegins, EachSteps, GuardianTypeInit, GuardianTypeStep, GuardianInvInit,
   GuardianInvStep, GuardianKeptStep, PTL DEF ServicesSpec, GuardianKept

LEMMA LLMKept == ServicesSpec => []LLMTypeOK /\ []OvershootBounded
BY EachBegins, EachSteps, LLMTypeInit, LLMTypeStep, LLMInvInit, LLMInvStep,
   AccountedIsBounded, PTL DEF ServicesSpec

LEMMA OnboardKept == ServicesSpec => []OnboardTypeOK /\ []OnboardingSound
<1>1. ServicesSpec => OnboardSpec
  BY EachBegins, EachSteps, PTL DEF ServicesSpec, OnboardSpec
<1>2. PagesInv => OnboardTypeOK
  BY DEF PagesInv
<1>3. OnboardSpec => []OnboardTypeOK
  BY <1>2, PagesInvInit, PagesInvStep, PTL DEF OnboardSpec
<1> QED
  BY <1>1, <1>3, OnboardingSoundHolds, PTL

LEMMA AnalystKept == ServicesSpec => []AnalystTypeOK /\ []SkippedWasAnalysed
<1>1. AnalystInv => SkippedWasAnalysed
  BY AnalystAssumption
     DEF AnalystInv, SkippedWasAnalysed, CacheOK, IsNewest, NotCached, NoFile
<1> QED
  BY <1>1, EachBegins, EachSteps, AnalystTypeInit, AnalystTypeStep, AnalystInvInit,
     AnalystInvStep, PTL DEF ServicesSpec

LEMMA InboxServiceKept == ServicesSpec => []InboxTypeOK /\ InboxKept
<1>1. ServicesSpec => InboxSpec
  BY EachBegins, EachSteps, PTL DEF ServicesSpec, InboxSpec
<1>2. InboxSpec => []InboxTypeOK
  BY InboxTypeInit, InboxTypeStep, PTL DEF InboxSpec
<1> QED
  BY <1>1, <1>2, InboxKeptHolds, PTL

LEMMA TreesKept == ServicesSpec => []TreesTypeOK /\ []TreesAccountedFor
<1>1. TreesInv => TreesTypeOK /\ TreesAccountedFor
  BY DEF TreesInv
<1> QED
  BY <1>1, EachBegins, EachSteps, TreesInvInit, TreesInvStep, PTL DEF ServicesSpec

LEMMA PreviewKept == ServicesSpec => []PreviewTypeOK /\ PreviewOrReported
<1>1. ServicesSpec => PreviewSpec
  BY EachBegins, EachSteps, PTL DEF ServicesSpec, PreviewSpec
<1>2. PreviewInv => PreviewTypeOK
  BY DEF PreviewInv
<1>3. PreviewSpec => []PreviewTypeOK
  BY <1>2, PreviewInvInit, PreviewInvStep, PTL DEF PreviewSpec
<1> QED
  BY <1>1, <1>3, PreviewOrReportedHolds, PTL

LEMMA GuardrailKept == ServicesSpec => []GuardrailTypeOK /\ []GuardrailsCount
<1>1. ServicesSpec => GuardrailSpec
  BY EachBegins, EachSteps, PTL DEF ServicesSpec, GuardrailSpec
<1>2. GuardrailInv => GuardrailTypeOK
  BY DEF GuardrailInv
<1>3. GuardrailSpec => []GuardrailTypeOK
  BY <1>2, GuardrailInvInit, GuardrailInvStep, PTL DEF GuardrailSpec
<1> QED
  BY <1>1, <1>3, GuardrailsCountHolds, PTL

LEMMA TermKept == ServicesSpec => []TermTypeOK /\ []TerminalsKept
<1>1. TermInv => TermTypeOK /\ TerminalsKept
  BY DEF TermInv, TerminalsKept, OnePtyPerConnection, OpenIsActive, NewestIsFound, LeadsToLast,
         Newest
<1> QED
  BY <1>1, EachBegins, EachSteps, TermInvInit, TermInvStep, PTL DEF ServicesSpec

LEMMA HubKept == ServicesSpec => []HubTypeOK /\ []SentToRegistered
<1>1. HubInv => HubTypeOK /\ SentToRegistered
  BY DEF HubInv
<1> QED
  BY <1>1, EachBegins, EachSteps, HubInvInit, HubInvStep, PTL DEF ServicesSpec

LEMMA EvoKept == ServicesSpec => []EvoTypeOK /\ []EvolutionSettles
<1>1. EvoInv => EvoTypeOK /\ EvolutionSettles
  BY DEF EvoInv, EvolutionSettles
<1> QED
  BY <1>1, EachBegins, EachSteps, EvoInvInit, EvoInvStep, PTL DEF ServicesSpec

LEMMA MigrateKept == ServicesSpec => []MigrateTypeOK /\ []UpgradeLosesInOnePlace
<1>1. MigrateInv => MigrateTypeOK /\ UpgradeLosesInOnePlace
  BY DEF MigrateInv, MigrateTypeOK, UpgradeLosesInOnePlace, MetricsStand, MetricsAreRead,
         OneOpener, AlwaysOpens
<1> QED
  BY <1>1, EachBegins, EachSteps, MigrateInvInit, MigrateInvStep, PTL DEF ServicesSpec

LEMMA VaultKept == ServicesSpec => []VaultTypeOK /\ VaultKeepsEdits
<1>1. VaultInv => VaultTypeOK /\ DeletedStayDeleted
  BY DEF VaultInv, PageKept, DeletedStayDeleted
<1> QED
  BY <1>1, EachBegins, EachSteps, VaultInvInit, VaultInvStep, PullKeepsStep, PTL
     DEF ServicesSpec, VaultKeepsEdits

LEMMA ReviewKept == ServicesSpec => []ReviewTypeOK /\ []ApprovedIsApplied
<1>1. ReviewInv => ApprovedIsApplied
  BY DEF ReviewInv, ApprovedIsApplied, Agree
<1> QED
  BY <1>1, EachBegins, EachSteps, ReviewInvInit, ReviewInvStep, ReviewTypes, PTL
     DEF ServicesSpec

LEMMA StalenessKept == ServicesSpec => []PageTypeOK /\ []ChangesAreNoticed
<1>1. StalenessInv => PageTypeOK /\ ChangesAreNoticed
  BY DEF StalenessInv, ChangesAreNoticed, Settled
<1> QED
  BY <1>1, EachBegins, EachSteps, StalenessInvInit, StalenessInvStep, PTL
     DEF ServicesSpec

LEMMA DocsKept == ServicesSpec => []DocsTypeOK /\ []IndexedAsWritten
<1>1. ServicesSpec => DocsSpec
  BY EachBegins, EachSteps, PTL DEF ServicesSpec, DocsSpec
<1>2. DocsInv => DocsTypeOK
  BY DEF DocsInv
<1>3. DocsSpec => []DocsTypeOK
  BY <1>2, DocsInvInit, DocsInvStep, PTL DEF DocsSpec
<1> QED
  BY <1>1, <1>3, IndexedAsWrittenHolds, PTL

LEMMA LearnKept ==
  ServicesSpec => []LearnTypeOK /\ []OneArtifactEach /\ []SummaryIsTrue
<1>1. LearnInv => LearnTypeOK /\ OneArtifactEach /\ SummaryIsTrue
  BY DEF LearnInv
<1> QED
  BY <1>1, EachBegins, EachSteps, LearnInvInit, LearnInvStep, PTL DEF ServicesSpec

-----------------------------------------------------------------------------
\* Whatever services run, with however many callers, files and rows each, every
\* variable keeps to its type; in particular the counters that the code bounds stay
\* within their bounds: the channel of the bus (events/bus.go:60-132), the queues of the
\* hub (api/ws_hub.go:37-110), the attempts of a call (insight/llm/retry.go:37-67).
THEOREM ServicesTypeCorrect == ServicesSpec => []ServicesTypeOK
<1>1. ServicesSpec => [](service \in AllServices)
  <2>1. ServicesInit => service \in AllServices
    BY DEF ServicesInit
  <2>2. service \in AllServices /\ [ServicesNext]_servicesVars => (service \in AllServices)'
    BY DEF ServicesNext, servicesVars
  <2> QED
    BY <2>1, <2>2, PTL DEF ServicesSpec
<1> QED
  BY <1>1, BusKept, IndexKept, ForgeKept, SignalsKept, GuardianServiceKept, LLMKept,
     OnboardKept, AnalystKept, InboxServiceKept, TreesKept, PreviewKept, GuardrailKept,
     TermKept, HubKept, EvoKept, MigrateKept, VaultKept, ReviewKept, StalenessKept,
     DocsKept, LearnKept, PTL DEF ServicesTypeOK

\* What the wiki, the index of documents and the learn pipeline know is so, for any
\* number of commits, documents, chunks and pipelines (insight/engine.go:657-742,
\* db/governance.go:88-118, orchestration/learn_pipeline.go:70-184).
THEOREM KnowledgeKeptHolds == ServicesSpec => []KnowledgeKept
BY StalenessKept, DocsKept, LearnKept, PTL DEF KnowledgeKept

\* Everything else the composition is checked for on a small instance holds of it for
\* every value of the constants: what is proved of a service under its own
\* specification needs none of the fairness stated there, and the refinement of
\* Deliveries (events/bus.go:60-132) needs none either.
THEOREM ServicesKeepTheirs ==
  ServicesSpec =>
    /\ [](IndexKeepsUp /\ MergedIsIntegrated /\ UndisturbedForge)
    /\ [](ReadMeansHandedOutOnce /\ OvershootBounded /\ OnboardingSound)
    /\ [](SkippedWasAnalysed /\ TreesAccountedFor /\ GuardrailsCount)
    /\ [](TerminalsKept /\ SentToRegistered /\ EvolutionSettles)
    /\ [](ApprovedIsApplied /\ UpgradeLosesInOnePlace)
    /\ GuardianKept /\ InboxKept /\ PreviewOrReported /\ VaultKeepsEdits
    /\ BusImplementsDeliveries
BY BusKept, IndexKept, ForgeKept, SignalsKept, GuardianServiceKept, LLMKept, OnboardKept,
   AnalystKept, InboxServiceKept, TreesKept, PreviewKept, GuardrailKept, TermKept, HubKept,
   EvoKept, MigrateKept, VaultKept, ReviewKept, PTL
=============================================================================
