----------------------------- MODULE InsightProofs -----------------------------
(* Theorems about what the server does with a language model: what its calls  *)
(* may spend, when onboarding may start and which pages it makes, what the    *)
(* code analyst skips, how a cycle of the evolution loop settles, and what an *)
(* approved proposal leaves.                                                  *)
EXTENDS LLMCalls, Onboarding, CodeAnalyst, EvolutionCycle, ProposalReview,
        FiniteSetTheorems, TLAPS

-----------------------------------------------------------------------------
(* LLMCalls. A call that was admitted reserves what its answer may cost:    *)
(* the accounted sum is the invariant, and the bound follows from it.       *)

CallStates == [at : {"idle", "queued", "attempting", "answered"},
               high : BOOLEAN, attempt : Nat]

LLMInv ==
  /\ usage \in Nat /\ lowUsage \in Nat
  /\ llmCalls \in [Clients -> CallStates]
  /\ OvershootAccounted

\* More calls of the same cost cost more.
LEMMA ProductMonotone ==
  ASSUME NEW k \in Nat, NEW n \in Nat, NEW m \in Nat, k <= n
  PROVE  k * m <= n * m
<1>1. PICK d \in Nat : n = k + d
  <2> WITNESS n - k \in Nat
  <2> QED
    OBVIOUS
<1>2. n * m = k * m + d * m
  BY <1>1
<1>3. d * m \in Nat /\ k * m \in Nat
  OBVIOUS
<1> QED
  BY <1>2, <1>3

\* A set of calls is finite, and a smaller one has fewer.
LEMMA FewerCalls ==
  ASSUME NEW S, NEW T, S \subseteq T, T \subseteq Clients
  PROVE  /\ Cardinality(S) \in Nat /\ Cardinality(T) \in Nat
         /\ Cardinality(S) <= Cardinality(T)
         /\ Cardinality(S) * MaxTokens <= Cardinality(T) * MaxTokens
<1>1. IsFiniteSet(T) /\ IsFiniteSet(S)
  BY LLMAssumption, FS_Subset
<1>2. Cardinality(S) \in Nat /\ Cardinality(T) \in Nat /\ Cardinality(S) <= Cardinality(T)
  BY <1>1, FS_CardinalityType, FS_Subset
<1> QED
  BY <1>2, ProductMonotone, LLMAssumption

\* The budget is sound at the start.
LEMMA LLMInvInit == LLMInit => LLMInv
<1> SUFFICES ASSUME LLMInit PROVE LLMInv
  OBVIOUS
<1>1. InFlight = {}
  BY DEF LLMInit, InFlight, NoCall, LLMCall
<1>2. Cardinality(InFlight) * MaxTokens <= Cardinality(Clients) * MaxTokens
      /\ Cardinality(InFlight) = 0
  BY <1>1, FewerCalls, FS_EmptySet
<1>3. Cardinality(Clients) \in Nat
  BY FewerCalls
<1> QED
  BY <1>2, <1>3, LLMAssumption
  DEF LLMInit, LLMInv, CallStates, OvershootAccounted, NoCall, LLMCall

\* Usage that stays, with no call more in flight, stays accounted for.
LEMMA AccountedWhenFewer ==
  ASSUME LLMInv, lowUsage' <= usage', lowUsage' \in Nat, usage' \in Nat,
         InFlight' \subseteq Clients,
         \/ lowUsage' = lowUsage /\ InFlight' \subseteq InFlight
         \/ lowUsage' < DailyLimit
  PROVE  OvershootAccounted'
<1> DEFINE Reserved == Cardinality(InFlight) * MaxTokens
           Most     == Cardinality(Clients) * MaxTokens
<1>1. InFlight \subseteq Clients
  BY DEF InFlight
<1>2. Reserved \in Nat /\ Most \in Nat
  BY <1>1, FewerCalls, LLMAssumption
<1>3. Reserved' \in Nat /\ Reserved' <= Most
  BY FewerCalls, LLMAssumption
<1>4. InFlight' \subseteq InFlight => Reserved' <= Reserved
  BY <1>1, FewerCalls
<1>5. lowUsage + Reserved < DailyLimit + Most
  BY DEF LLMInv, OvershootAccounted
<1>6. lowUsage' + Reserved' < DailyLimit + Most
  BY <1>2, <1>3, <1>4, <1>5, LLMAssumption DEF LLMInv
<1> QED
  BY <1>6 DEF OvershootAccounted

\* Every step of a call keeps the account.
LEMMA LLMInvStep == LLMInv /\ [LLMNext]_llmVars => LLMInv'
<1> SUFFICES ASSUME LLMInv, [LLMNext]_llmVars PROVE LLMInv'
  OBVIOUS
<1> USE LLMAssumption
<1>0. /\ usage \in Nat /\ lowUsage \in Nat /\ lowUsage <= usage
      /\ llmCalls \in [Clients -> CallStates]
  BY DEF LLMInv, OvershootAccounted
<1>1. ASSUME NEW c \in Clients, NEW high \in BOOLEAN, BeginCall(c, high)
      PROVE  LLMInv'
  <2>1. llmCalls' = [llmCalls EXCEPT ![c] = LLMCall("queued", high, 0)]
        /\ llmCalls[c] = NoCall /\ usage' = usage /\ lowUsage' = lowUsage
    BY <1>1 DEF BeginCall
  <2>2. llmCalls' \in [Clients -> CallStates]
    BY <1>0, <2>1 DEF CallStates, LLMCall
  <2>3. InFlight' \subseteq Clients
    BY DEF InFlight
  <2>4. high => InFlight' \subseteq InFlight
    BY <1>0, <2>1 DEF InFlight, LLMCall
  <2>5. ~high => usage < DailyLimit
    BY <1>1 DEF BeginCall, WithinBudget
  <2>6. lowUsage < DailyLimit \/ InFlight' \subseteq InFlight
    BY <1>0, <2>4, <2>5
  <2>7. OvershootAccounted'
    BY <1>0, <2>1, <2>3, <2>6, AccountedWhenFewer
  <2> QED
    BY <1>0, <2>1, <2>2, <2>7 DEF LLMInv
<1>2. ASSUME NEW c \in Clients, TakeSlot(c) \/ GiveUpCall(c) \/ AttemptFails(c) \/ Answered(c)
      PROVE  LLMInv'
  <2>1. usage' = usage /\ lowUsage' = lowUsage
    BY <1>2 DEF TakeSlot, GiveUpCall, AttemptFails, Answered
  <2>2. llmCalls[c].at # "idle"
    BY <1>2 DEF TakeSlot, GiveUpCall, AttemptFails, Answered
  <2>3. /\ llmCalls' \in [Clients -> CallStates]
        /\ \A d \in Clients \ {c} : llmCalls'[d] = llmCalls[d]
        /\ llmCalls'[c].at = "idle" \/ llmCalls'[c].high = llmCalls[c].high
    <3>1. CASE TakeSlot(c)
      BY <1>0, <3>1 DEF TakeSlot, CallStates
    <3>2. CASE GiveUpCall(c)
      BY <1>0, <3>2 DEF GiveUpCall, CallStates, NoCall, LLMCall
    <3>3. CASE AttemptFails(c)
      <4>1. PICK new \in CallStates :
              /\ llmCalls' = [llmCalls EXCEPT ![c] = new]
              /\ new.at = "idle" \/ new.high = llmCalls[c].high
        <5>1. llmCalls[c].high \in BOOLEAN /\ llmCalls[c].attempt + 1 \in Nat
          BY <1>0 DEF CallStates
        <5>2. /\ NoCall \in CallStates /\ NoCall.at = "idle"
              /\ LLMCall("attempting", llmCalls[c].high, llmCalls[c].attempt + 1)
                   \in CallStates
              /\ LLMCall("attempting", llmCalls[c].high, llmCalls[c].attempt + 1).high
                   = llmCalls[c].high
          BY <5>1 DEF CallStates, NoCall, LLMCall
        <5> QED
          BY <3>3, <5>2 DEF AttemptFails
      <4> QED
        BY <1>0, <4>1
    <3>4. CASE Answered(c)
      BY <1>0, <3>4 DEF Answered, CallStates
    <3> QED
      BY <1>2, <3>1, <3>2, <3>3, <3>4
  <2>4. InFlight' \subseteq InFlight /\ InFlight' \subseteq Clients
    BY <2>2, <2>3 DEF InFlight
  <2>5. OvershootAccounted'
    BY <1>0, <2>1, <2>4, AccountedWhenFewer
  <2> QED
    BY <1>0, <2>1, <2>3, <2>5 DEF LLMInv
<1>3. ASSUME NEW c \in Clients, NEW tokens \in 0 .. MaxTokens, RecordUsage(c, tokens)
      PROVE  LLMInv'
  <2>1. /\ llmCalls[c].at = "answered"
        /\ usage' = usage + tokens
        /\ lowUsage' = IF llmCalls[c].high THEN lowUsage ELSE lowUsage + tokens
        /\ llmCalls' = [llmCalls EXCEPT ![c] = NoCall]
    BY <1>3 DEF RecordUsage
  <2>2. tokens \in Nat /\ tokens <= MaxTokens
    OBVIOUS
  <2>3. usage' \in Nat /\ lowUsage' \in Nat /\ lowUsage' <= usage'
    BY <1>0, <2>1, <2>2
  <2>4. llmCalls' \in [Clients -> CallStates]
    BY <1>0, <2>1 DEF CallStates, NoCall, LLMCall
  <2>5. InFlight' = InFlight \ {c} /\ InFlight \subseteq Clients
    BY <1>0, <2>1 DEF InFlight, NoCall, LLMCall
  <2>6. CASE llmCalls[c].high
    <3>1. OvershootAccounted'
      BY <2>1, <2>3, <2>5, <2>6, AccountedWhenFewer
    <3> QED
      BY <2>3, <2>4, <3>1 DEF LLMInv
  <2>7. CASE ~llmCalls[c].high
    <3> DEFINE n == Cardinality(InFlight)
               k == Cardinality(InFlight')
               Most == Cardinality(Clients) * MaxTokens
    <3>1. c \in InFlight /\ IsFiniteSet(InFlight)
      BY <2>1, <2>5, <2>7, FS_Subset DEF InFlight
    <3>2. k = n - 1 /\ n \in Nat /\ k \in Nat /\ Most \in Nat
      BY <2>5, <3>1, FS_RemoveElement, FewerCalls
    <3>3. k * MaxTokens = n * MaxTokens - MaxTokens /\ n * MaxTokens \in Nat
      BY <3>2
    <3>4. lowUsage + n * MaxTokens < DailyLimit + Most
      BY DEF LLMInv, OvershootAccounted
    <3>5. lowUsage' = lowUsage + tokens
      BY <2>1, <2>7
    <3> HIDE DEF n, k, Most
    <3>6. lowUsage' + k * MaxTokens < DailyLimit + Most
      BY <1>0, <2>2, <3>2, <3>3, <3>4, <3>5
    <3>7. OvershootAccounted'
      BY <2>3, <3>6 DEF OvershootAccounted, k, Most
    <3> QED
      BY <2>3, <2>4, <3>7 DEF LLMInv
  <2> QED
    BY <2>6, <2>7
<1>4. CASE Midnight
  <2>1. usage' = 0 /\ lowUsage' = 0 /\ llmCalls' = llmCalls
    BY <1>4 DEF Midnight
  <2>2. InFlight' \subseteq Clients
    BY DEF InFlight
  <2>3. OvershootAccounted'
    BY <2>1, <2>2, AccountedWhenFewer
  <2> QED
    BY <1>0, <2>1, <2>3 DEF LLMInv
<1>5. CASE UNCHANGED llmVars
  BY <1>5 DEF llmVars, LLMInv, OvershootAccounted, InFlight
<1> QED
  BY <1>1, <1>2, <1>3, <1>4, <1>5 DEF LLMNext

\* What is accounted for bounds what is used.
LEMMA AccountedIsBounded == LLMInv => OvershootBounded
<1> SUFFICES ASSUME LLMInv PROVE OvershootBounded
  OBVIOUS
<1> DEFINE Reserved == Cardinality(InFlight) * MaxTokens
           Most     == Cardinality(Clients) * MaxTokens
<1>1. Reserved \in Nat /\ Most \in Nat
  BY FewerCalls, LLMAssumption DEF InFlight
<1>2. lowUsage + Reserved < DailyLimit + Most /\ lowUsage \in Nat
  BY DEF LLMInv, OvershootAccounted
<1> HIDE DEF Reserved
<1>3. lowUsage < DailyLimit + Most
  BY <1>1, <1>2, LLMAssumption
<1> QED
  BY <1>3 DEF OvershootBounded

\* What calls that passed the budget check use goes past the limit by less than one
\* answer per caller, for any number of callers and slots
\* (internal/insight/llm/budget.go:84-107).
THEOREM OvershootBoundedHolds == LLMSpec => []OvershootBounded
BY AccountedIsBounded, LLMInvInit, LLMInvStep, PTL DEF LLMSpec

-----------------------------------------------------------------------------
(* Onboarding. Every job that is under way was the reason for what the      *)
(* progress says, or overwrote it; whoever ends writes that it ended.       *)

JobStates == [at : {"idle", "scan", "prepare", "list", "pages", "asking", "finish", "gone"},
              todo : SUBSET Titles, seen : [Titles -> {"published", "stale", "absent"}],
              page : Titles \union {NoTitle}]

OnboardInv == jobs \in [OnboardJobs -> JobStates] /\ NeverLockedOut

LEMMA OnboardInvInit == OnboardInit => OnboardInv
BY DEF OnboardInit, OnboardInv, NeverLockedOut, JobStates, IdleJob, Job, Absent, Finished

LEMMA OnboardInvStep == OnboardInv /\ [OnboardNext]_onboardVars => OnboardInv'
<1> SUFFICES ASSUME OnboardInv, [OnboardNext]_onboardVars PROVE OnboardInv'
  OBVIOUS
<1>0. jobs \in [OnboardJobs -> JobStates]
  BY DEF OnboardInv
<1>1. ASSUME NEW j \in OnboardJobs, JobFails(j) \/ ReportComplete(j) \/ FinishJob(j)
      PROVE  OnboardInv'
  <2>1. GoneJob \in JobStates /\ Job("finish", {}, Absent, NoTitle) \in JobStates
    BY DEF GoneJob, Job, JobStates, Absent
  <2>2. jobs' \in [OnboardJobs -> JobStates] /\ progress' \in Finished
    BY <1>0, <1>1, <2>1 DEF JobFails, ReportComplete, FinishJob, Finished
  <2> QED
    BY <2>2 DEF OnboardInv, NeverLockedOut
<1>2. ASSUME NEW j \in OnboardJobs,
             \/ StartJob(j) \/ ScanDone(j) \/ Plan(j) \/ ListExisting(j) \/ EndPage(j)
             \/ ReportStage(j)
             \/ \E t \in Titles : SkipPage(j, t) \/ BeginPage(j, t)
      PROVE  OnboardInv'
  <2> DEFINE Under == /\ jobs' \in [OnboardJobs -> JobStates]
                      /\ jobs'[j].at \notin {"idle", "gone"}
  <2>1. ASSUME StartJob(j) PROVE Under
    <3>1. Job("scan", Titles, Absent, NoTitle) \in JobStates
      BY DEF Job, JobStates, Absent
    <3> QED
      BY <1>0, <2>1, <3>1 DEF StartJob, Job
  <2>2. ASSUME ScanDone(j) PROVE Under
    BY <1>0, <2>2 DEF ScanDone, JobStates
  <2>3. ASSUME Plan(j) PROVE Under
    BY <1>0, <2>3 DEF Plan, JobStates
  <2>4. ASSUME ListExisting(j) PROVE Under
    <3>1. PICK seen \in [Titles -> {"published", "stale", "absent"}] :
            jobs' = [jobs EXCEPT ![j].at = "pages", ![j].seen = seen]
      BY <2>4 DEF ListExisting
    <3> QED
      BY <1>0, <3>1 DEF JobStates
  <2>5. ASSUME EndPage(j) PROVE Under
    <3>1. jobs' = [jobs EXCEPT ![j].at = "pages", ![j].page = NoTitle]
      BY <2>5 DEF EndPage
    <3> QED
      BY <1>0, <3>1 DEF JobStates
  <2>6. ASSUME NEW t \in Titles, SkipPage(j, t) PROVE Under
    BY <1>0, <2>6 DEF SkipPage, JobStates
  <2>7. ASSUME NEW t \in Titles, BeginPage(j, t) PROVE Under
    BY <1>0, <2>7 DEF BeginPage, JobStates
  <2>7a. ASSUME ReportStage(j) PROVE Under
    BY <1>0, <2>7a DEF ReportStage
  <2>8. Under
    BY <1>2, <2>1, <2>2, <2>3, <2>4, <2>5, <2>6, <2>7, <2>7a
  <2> QED
    BY <2>8 DEF OnboardInv, NeverLockedOut, Active
<1>3. ASSUME NEW t \in Titles, PageGoesStale(t)
      PROVE  OnboardInv'
  BY <1>3 DEF PageGoesStale, OnboardInv, NeverLockedOut, Active
<1>4. CASE Restart
  <2>1. GoneJob \in JobStates
    BY DEF GoneJob, Job, JobStates, Absent
  <2>2. progress' \in Finished /\ jobs' \in [OnboardJobs -> JobStates]
    BY <1>0, <1>4, <2>1 DEF Restart, ProgressAfterRestart, Finished
  <2> QED
    BY <2>2 DEF OnboardInv, NeverLockedOut
<1>5. CASE UNCHANGED onboardVars
  BY <1>5 DEF onboardVars, OnboardInv, NeverLockedOut, Active
<1> QED
  BY <1>1, <1>2, <1>3, <1>4, <1>5 DEF OnboardNext

\* The progress never says that a job runs when none does, however many jobs
\* write each other's progress (api/routes_onboarding.go:74-97, 224-233).
THEOREM NeverLockedOutHolds == OnboardSpec => []NeverLockedOut
<1>1. OnboardInv => NeverLockedOut
  BY DEF OnboardInv
<1> QED
  BY <1>1, OnboardInvInit, OnboardInvStep, PTL DEF OnboardSpec

-----------------------------------------------------------------------------
(* Onboarding, its pages. As long as the jobs do not overlap and the store  *)
(* answers and has room, one job at most is at work on pages, what it       *)
(* listed is still so for the titles it has to do, and the title it asks    *)
(* for has no page.                                                         *)

Calm == ~jobsOverlapped /\ ~storeFailed /\ Cardinality(Titles) <= ListLimit

WorksOnPages(job) == job.at \in {"list", "pages", "asking"}

\* What job j knows of the titles it has to do, and of the one it asks for.
KnowsPages(j) ==
  jobs[j].at \in {"pages", "asking"} =>
    /\ \A t \in jobs[j].todo :
         /\ jobs[j].seen[t] = "absent" => published[t] + stale[t] = 0
         /\ jobs[j].seen[t] = "stale"  => published[t] = 0
    /\ jobs[j].at = "asking" =>
         /\ jobs[j].page \in Titles /\ jobs[j].page \notin jobs[j].todo
         /\ published[jobs[j].page] + stale[jobs[j].page] = 0

OneAtWork == \A i, j \in OnboardJobs : WorksOnPages(jobs[i]) /\ WorksOnPages(jobs[j]) => i = j

PagesInv ==
  /\ OnboardTypeOK
  /\ Calm => /\ OneAtWork
             /\ \A t \in Titles : published[t] + stale[t] <= 1
             /\ \A j \in OnboardJobs : KnowsPages(j)

\* When every title has one page at most, a listing has room for all of them.
LEMMA RowsFit ==
  ASSUME OnboardTypeOK, \A t \in Titles : published[t] + stale[t] <= 1
  PROVE  Rows \in Nat /\ Rows <= Cardinality(Titles)
<1>1. \A t \in Titles : published[t] + stale[t] \in Nat
  BY DEF OnboardTypeOK
<1>2. \A t \in Titles : 1 .. (published[t] + stale[t]) \subseteq {1}
  BY <1>1
<1>3. PageRows \subseteq Titles \X {1}
  BY <1>2 DEF PageRows
<1>4. IsFiniteSet({1}) /\ Cardinality({1}) = 1
  BY FS_Singleton
<1>5. IsFiniteSet(Titles) /\ Cardinality(Titles) \in Nat
  BY OnboardAssumption, FS_CardinalityType
<1>6. /\ IsFiniteSet(Titles \X {1})
      /\ Cardinality(Titles \X {1}) = Cardinality(Titles) * Cardinality({1})
  BY <1>4, <1>5, FS_Product
<1>7. Cardinality(Titles \X {1}) = Cardinality(Titles)
  BY <1>4, <1>5, <1>6
<1>8. IsFiniteSet(PageRows) /\ Cardinality(PageRows) <= Cardinality(Titles \X {1})
  BY <1>3, <1>6, FS_Subset
<1>9. Cardinality(PageRows) \in Nat
  BY <1>8, FS_CardinalityType
<1> QED
  BY <1>7, <1>8, <1>9 DEF Rows

\* A step of job j that is at work on pages, or that leaves them alone.
LEMMA JobSteps ==
  ASSUME PagesInv, NEW j \in OnboardJobs, NEW new \in JobStates,
         jobs' = [jobs EXCEPT ![j] = new],
         progress' \in Finished \union {"scanning", "generating"},
         published' \in [Titles -> Nat], stale' \in [Titles -> Nat],
         jobsOverlapped' \in BOOLEAN, storeFailed' \in BOOLEAN,
         Calm' => /\ Calm
                  /\ WorksOnPages(new) => \A i \in OnboardJobs \ {j} : ~WorksOnPages(jobs[i])
                  /\ \A t \in Titles : published'[t] + stale'[t] <= 1
                  /\ KnowsPages(j)',
         UNCHANGED <<published, stale>> \/ WorksOnPages(jobs[j])
  PROVE  PagesInv'
<1>1. /\ jobs' \in [OnboardJobs -> JobStates] /\ jobs'[j] = new
      /\ \A i \in OnboardJobs \ {j} : jobs'[i] = jobs[i]
  BY DEF PagesInv, OnboardTypeOK, JobStates
<1>2. OnboardTypeOK'
  BY <1>1 DEF OnboardTypeOK, JobStates
<1>3. ASSUME Calm'
      PROVE  OneAtWork' /\ \A i \in OnboardJobs : KnowsPages(i)'
  <2>1. OneAtWork'
    BY <1>1, <1>3 DEF PagesInv, OneAtWork
  <2>2. ASSUME NEW i \in OnboardJobs \ {j} PROVE KnowsPages(i)'
    <3>1. jobs'[i] = jobs[i] /\ KnowsPages(i)
      BY <1>1, <1>3 DEF PagesInv
    <3>2. CASE UNCHANGED <<published, stale>>
      BY <3>1, <3>2 DEF KnowsPages
    <3>3. CASE WorksOnPages(jobs[j])
      <4>1. ~WorksOnPages(jobs[i])
        BY <1>3, <3>3 DEF PagesInv, OneAtWork
      <4> QED
        BY <3>1, <4>1 DEF KnowsPages, WorksOnPages
    <3> QED
      BY <3>2, <3>3
  <2> QED
    BY <1>3, <2>1, <2>2
<1> QED
  BY <1>2, <1>3 DEF PagesInv

\* Jobs that are at no page know nothing that could be wrong.
LEMMA JobStateFields ==
  /\ IdleJob \in JobStates /\ GoneJob \in JobStates
  /\ Job("scan", Titles, Absent, NoTitle) \in JobStates
  /\ Job("finish", {}, Absent, NoTitle) \in JobStates
  /\ IdleJob.at = "idle" /\ GoneJob.at = "gone"
  /\ Job("scan", Titles, Absent, NoTitle).at = "scan"
  /\ Job("finish", {}, Absent, NoTitle).at = "finish"
BY DEF IdleJob, GoneJob, Job, JobStates, Absent

LEMMA PagesInvInit == OnboardInit => PagesInv
<1> SUFFICES ASSUME OnboardInit PROVE PagesInv
  OBVIOUS
<1>1. OnboardTypeOK
  BY JobStateFields DEF OnboardInit, OnboardTypeOK, JobStates, Finished
<1>2. \A j \in OnboardJobs : jobs[j].at = "idle"
  BY JobStateFields DEF OnboardInit
<1> QED
  BY <1>1, <1>2 DEF OnboardInit, PagesInv, OneAtWork, WorksOnPages, KnowsPages

\* A job that is on its way to its pages, or past them.
LEMMA OffPages ==
  ASSUME PagesInv, NEW j \in OnboardJobs,
         \/ StartJob(j) \/ JobFails(j) \/ ScanDone(j) \/ ReportComplete(j) \/ FinishJob(j)
  PROVE  PagesInv'
<1>0. /\ jobs \in [OnboardJobs -> JobStates]
      /\ published \in [Titles -> Nat] /\ stale \in [Titles -> Nat]
      /\ jobsOverlapped \in BOOLEAN /\ storeFailed \in BOOLEAN
  BY DEF PagesInv, OnboardTypeOK, JobStates
<1>1. UNCHANGED <<published, stale, jobsOverlapped, storeFailed>>
  BY DEF StartJob, JobFails, ScanDone, ReportComplete, FinishJob, pageVars
<1>2. progress' \in Finished \union {"scanning", "generating"}
  BY DEF StartJob, JobFails, ScanDone, ReportComplete, FinishJob, Finished
<1>3. PICK new \in JobStates : /\ jobs' = [jobs EXCEPT ![j] = new]
                               /\ new.at \in {"scan", "prepare", "finish", "gone"}
  <2>1. CASE ScanDone(j)
    <3>1. jobs' = [jobs EXCEPT ![j] = [jobs[j] EXCEPT !.at = "prepare"]]
      BY <1>0, <2>1 DEF ScanDone
    <3>2. /\ [jobs[j] EXCEPT !.at = "prepare"] \in JobStates
          /\ [jobs[j] EXCEPT !.at = "prepare"].at = "prepare"
      BY <1>0 DEF JobStates
    <3> QED
      BY <3>1, <3>2
  <2> QED
    BY <2>1, JobStateFields DEF StartJob, JobFails, ReportComplete, FinishJob
<1>4. jobs'[j].at \in {"scan", "prepare", "finish", "gone"}
  BY <1>0, <1>3
<1>5. Calm' => Calm /\ (\A t \in Titles : published'[t] + stale'[t] <= 1) /\ KnowsPages(j)'
  BY <1>1, <1>4 DEF Calm, KnowsPages, PagesInv
<1>6. ~WorksOnPages(new)
  BY <1>3 DEF WorksOnPages
<1> QED
  BY <1>0, <1>1, <1>2, <1>3, <1>5, <1>6, JobSteps

\* The listing shows what there is, when it succeeds and has room.
LEMMA ListingIsTrue ==
  ASSUME PagesInv, Calm, NEW seen, \A t \in Titles : seen[t] \in ListedAs(t)
  PROVE  \A t \in Titles : /\ seen[t] = "absent" => published[t] + stale[t] = 0
                           /\ seen[t] = "stale" => published[t] = 0
<1>0. /\ published \in [Titles -> Nat] /\ stale \in [Titles -> Nat]
      /\ \A t \in Titles : published[t] + stale[t] <= 1
  BY DEF PagesInv, OnboardTypeOK
<1>1. Rows \in Nat /\ Rows <= Cardinality(Titles) /\ Cardinality(Titles) \in Nat /\ ListLimit \in Nat
  BY <1>0, RowsFit, OnboardAssumption, FS_CardinalityType DEF PagesInv
<1>2. ~(Rows > ListLimit)
  BY <1>1 DEF Calm
<1> QED
  BY <1>0, <1>2 DEF ListedAs

LEMMA PagesInvStep == PagesInv /\ [OnboardNext]_onboardVars => PagesInv'
<1> SUFFICES ASSUME PagesInv, [OnboardNext]_onboardVars PROVE PagesInv'
  OBVIOUS
<1>0. /\ jobs \in [OnboardJobs -> JobStates]
      /\ published \in [Titles -> Nat] /\ stale \in [Titles -> Nat]
      /\ jobsOverlapped \in BOOLEAN /\ storeFailed \in BOOLEAN
      /\ progress \in Finished \union {"scanning", "generating"}
  BY DEF PagesInv, OnboardTypeOK, JobStates
<1>i. Calm => /\ OneAtWork /\ \A t \in Titles : published[t] + stale[t] <= 1
              /\ \A j \in OnboardJobs : KnowsPages(j)
  BY DEF PagesInv
<1>f. /\ "scanning" \in Finished \union {"scanning", "generating"}
      /\ "generating" \in Finished \union {"scanning", "generating"}
  OBVIOUS
<1>a. ASSUME NEW j \in OnboardJobs, WorksOnPages(jobs[j]), Calm
      PROVE  \A i \in OnboardJobs \ {j} : ~WorksOnPages(jobs[i])
  BY <1>a, <1>i DEF OneAtWork
<1>1. ASSUME NEW j \in OnboardJobs, Plan(j) PROVE PagesInv'
  <2> DEFINE new == [jobs[j] EXCEPT !.at = "list"]
  <2>1. /\ jobs' = [jobs EXCEPT ![j] = new] /\ progress' = "scanning"
        /\ jobsOverlapped' = (jobsOverlapped \/ \E o \in OnboardJobs \ {j} : Generating(o))
        /\ UNCHANGED <<published, stale, storeFailed>>
    BY <1>0, <1>1 DEF Plan
  <2>2. new \in JobStates /\ new.at = "list"
    BY <1>0 DEF JobStates
  <2> HIDE DEF new
  <2>3. jobs'[j] = new
    BY <1>0, <2>1
  <2>4. jobsOverlapped' \in BOOLEAN
    BY <1>0, <2>1
  <2>5. Calm' => Calm /\ \A i \in OnboardJobs \ {j} : ~WorksOnPages(jobs[i])
    BY <1>0, <2>1 DEF Calm, WorksOnPages, Generating
  <2>6. KnowsPages(j)'
    BY <2>2, <2>3 DEF KnowsPages
  <2> QED
    BY <1>0, <1>i, <1>f, <2>1, <2>2, <2>4, <2>5, <2>6, JobSteps
<1>2. ASSUME NEW j \in OnboardJobs, ListExisting(j) PROVE PagesInv'
  <2>1. PICK seen \in [Titles -> {"published", "stale", "absent"}] :
          /\ \/ (\A t \in Titles : seen[t] \in ListedAs(t)) /\ UNCHANGED storeFailed
             \/ seen = Absent /\ storeFailed' = TRUE
          /\ jobs' = [jobs EXCEPT ![j].at = "pages", ![j].seen = seen]
    BY <1>2 DEF ListExisting
  <2> DEFINE new == [jobs[j] EXCEPT !.at = "pages", !.seen = seen]
  <2>2. /\ jobs' = [jobs EXCEPT ![j] = new] /\ WorksOnPages(jobs[j])
        /\ UNCHANGED <<progress, published, stale, jobsOverlapped>>
    BY <1>0, <1>2, <2>1 DEF ListExisting, WorksOnPages
  <2>3. new \in JobStates /\ new.at = "pages" /\ new.seen = seen /\ new.todo = jobs[j].todo
    BY <1>0 DEF JobStates
  <2> HIDE DEF new
  <2>4. jobs'[j] = new /\ new.todo \subseteq Titles /\ storeFailed' \in BOOLEAN
    BY <1>0, <2>1, <2>2, <2>3 DEF JobStates
  <2>5. ASSUME Calm' PROVE Calm /\ \A t \in Titles : seen[t] \in ListedAs(t)
    BY <1>0, <2>1, <2>2, <2>5 DEF Calm
  <2>6. Calm' => KnowsPages(j)'
    BY <2>2, <2>3, <2>4, <2>5, ListingIsTrue DEF KnowsPages
  <2> QED
    BY <1>0, <1>i, <1>a, <2>2, <2>3, <2>4, <2>5, <2>6, JobSteps
<1>3. ASSUME NEW j \in OnboardJobs, NEW t \in Titles, SkipPage(j, t) PROVE PagesInv'
  <2> DEFINE new == [jobs[j] EXCEPT !.todo = jobs[j].todo \ {t}]
  <2>1. /\ jobs' = [jobs EXCEPT ![j] = new] /\ WorksOnPages(jobs[j]) /\ jobs[j].at = "pages"
        /\ progress' = "generating"
        /\ UNCHANGED <<published, stale, jobsOverlapped, storeFailed>>
    BY <1>0, <1>3 DEF SkipPage, WorksOnPages, pageVars
  <2>2. /\ new \in JobStates /\ new.at = "pages" /\ new.seen = jobs[j].seen
        /\ new.todo \subseteq jobs[j].todo
    BY <1>0, <2>1 DEF JobStates
  <2> HIDE DEF new
  <2>3. jobs'[j] = new
    BY <1>0, <2>1
  <2>4. Calm' => Calm /\ KnowsPages(j)'
    BY <1>i, <2>1, <2>2, <2>3 DEF KnowsPages, Calm
  <2> QED
    BY <1>0, <1>i, <1>a, <1>f, <2>1, <2>2, <2>4, JobSteps
<1>4. ASSUME NEW j \in OnboardJobs, NEW t \in Titles, BeginPage(j, t) PROVE PagesInv'
  <2> DEFINE new == [jobs[j] EXCEPT !.at = "asking", !.todo = jobs[j].todo \ {t}, !.page = t]
  <2>1. /\ jobs' = [jobs EXCEPT ![j] = new] /\ WorksOnPages(jobs[j]) /\ jobs[j].at = "pages"
        /\ t \in jobs[j].todo /\ jobs[j].seen[t] # "published"
        /\ progress' = "generating"
        /\ UNCHANGED <<published, jobsOverlapped>>
    BY <1>0, <1>4 DEF BeginPage, WorksOnPages, Skips
  <2>2. /\ new \in JobStates /\ new.at = "asking" /\ new.seen = jobs[j].seen
        /\ new.todo = jobs[j].todo \ {t} /\ new.page = t
        /\ jobs[j].todo \subseteq Titles
    BY <1>0, <2>1 DEF JobStates
  <2>2a. jobs[j].seen[t] \in {"stale", "absent"}
    <3>1. jobs[j].seen \in [Titles -> {"published", "stale", "absent"}]
      BY <1>0 DEF JobStates
    <3> QED
      BY <2>1, <3>1
  <2> HIDE DEF new
  <2>3. jobs'[j] = new
    BY <1>0, <2>1
  <2>4. \/ /\ jobs[j].seen[t] = "stale" /\ stale[t] > 0
           /\ stale' = [stale EXCEPT ![t] = @ - 1] /\ UNCHANGED storeFailed
        \/ jobs[j].seen[t] = "stale" /\ storeFailed' = TRUE /\ UNCHANGED stale
        \/ jobs[j].seen[t] = "absent" /\ UNCHANGED <<stale, storeFailed>>
    BY <1>4, <2>2a DEF BeginPage
  <2>4a. storeFailed' \in BOOLEAN
    BY <1>0, <2>4
  <2>4b. \/ stale' = stale
         \/ stale[t] > 0 /\ stale' = [stale EXCEPT ![t] = stale[t] - 1]
    BY <2>4
  <2>5. /\ stale' \in [Titles -> Nat]
        /\ \A u \in Titles \ {t} : stale'[u] = stale[u]
    <3>1. stale[t] \in Nat
      BY <1>0
    <3> QED
      BY <1>0, <2>4b, <3>1
  <2>6. Calm' => Calm
    BY <1>0, <2>1, <2>4 DEF Calm
  <2>7. ASSUME Calm' PROVE published[t] + stale'[t] = 0
    <3>1. /\ jobs[j].seen[t] = "absent" => published[t] + stale[t] = 0
          /\ jobs[j].seen[t] = "stale" => published[t] = 0
          /\ published[t] + stale[t] <= 1 /\ published[t] \in Nat /\ stale[t] \in Nat
      BY <1>0, <1>i, <2>1, <2>6, <2>7 DEF KnowsPages
    <3>2. \/ jobs[j].seen[t] = "stale" /\ stale[t] > 0 /\ stale'[t] = stale[t] - 1
          \/ jobs[j].seen[t] = "absent" /\ stale'[t] = stale[t]
      BY <1>0, <2>4, <2>7 DEF Calm
    <3> QED
      BY <3>1, <3>2
  <2>8. Calm' => KnowsPages(j)'
    BY <1>i, <2>1, <2>2, <2>3, <2>5, <2>6, <2>7 DEF KnowsPages
  <2>9. Calm' => \A u \in Titles : published'[u] + stale'[u] <= 1
    BY <1>0, <1>i, <2>1, <2>5, <2>6, <2>7
  <2> QED
    BY <1>0, <1>a, <1>f, <2>1, <2>2, <2>4a, <2>5, <2>6, <2>8, <2>9, JobSteps
<1>5. ASSUME NEW j \in OnboardJobs, EndPage(j) PROVE PagesInv'
  <2> DEFINE new == [jobs[j] EXCEPT !.at = "pages", !.page = NoTitle]
             t == jobs[j].page
  <2>1. /\ jobs' = [jobs EXCEPT ![j] = new] /\ WorksOnPages(jobs[j]) /\ jobs[j].at = "asking"
        /\ published' \in {published, [published EXCEPT ![t] = @ + 1]}
        /\ UNCHANGED <<progress, stale, jobsOverlapped, storeFailed>>
    BY <1>0, <1>5 DEF EndPage, WorksOnPages
  <2>2. /\ new \in JobStates /\ new.at = "pages" /\ new.seen = jobs[j].seen
        /\ new.todo = jobs[j].todo /\ new.todo \subseteq Titles
    BY <1>0 DEF JobStates
  <2> HIDE DEF new, t
  <2>3. jobs'[j] = new
    BY <1>0, <2>1
  <2>4. /\ published' \in [Titles -> Nat]
        /\ \A u \in Titles \ {t} : published'[u] = published[u]
    BY <1>0, <2>1
  <2>5. Calm' => Calm
    BY <2>1 DEF Calm
  <2>6. Calm => t \in Titles /\ t \notin new.todo /\ published[t] + stale[t] = 0
    BY <1>i, <2>1, <2>2 DEF KnowsPages, t
  <2>7. ASSUME Calm PROVE \A u \in Titles : published'[u] + stale'[u] <= 1
    <3>1. published'[t] <= published[t] + 1 /\ published[t] \in Nat /\ stale[t] \in Nat
          /\ published'[t] \in Nat
      BY <1>0, <2>1, <2>4, <2>6, <2>7
    <3>2. published'[t] + stale'[t] <= 1
      BY <2>1, <2>6, <2>7, <3>1
    <3> QED
      BY <1>i, <2>1, <2>4, <2>7, <3>2
  <2>8. Calm => KnowsPages(j)'
    BY <1>i, <2>1, <2>2, <2>3, <2>4, <2>6 DEF KnowsPages
  <2> QED
    BY <1>0, <1>a, <2>1, <2>2, <2>4, <2>5, <2>7, <2>8, JobSteps
<1>6. ASSUME NEW j \in OnboardJobs, ReportStage(j) PROVE PagesInv'
  BY <1>6, <1>f DEF ReportStage, pageVars, PagesInv, OnboardTypeOK, Calm, OneAtWork, KnowsPages
<1>7. ASSUME NEW t \in Titles, PageGoesStale(t) PROVE PagesInv'
  <2>1. /\ published[t] > 0
        /\ published' = [published EXCEPT ![t] = published[t] - 1]
        /\ stale' = [stale EXCEPT ![t] = stale[t] + 1]
        /\ UNCHANGED <<progress, jobs, jobsOverlapped, storeFailed>>
    BY <1>0, <1>7 DEF PageGoesStale
  <2>2. /\ published' \in [Titles -> Nat] /\ stale' \in [Titles -> Nat]
        /\ \A u \in Titles : /\ published'[u] + stale'[u] = published[u] + stale[u]
                             /\ published[u] = 0 => published'[u] = 0
    BY <1>0, <2>1
  <2>3. OnboardTypeOK'
    BY <2>1, <2>2 DEF PagesInv, OnboardTypeOK
  <2>4. Calm' <=> Calm
    BY <2>1 DEF Calm
  <2>5. Calm => OneAtWork' /\ \A u \in Titles : published'[u] + stale'[u] <= 1
    BY <1>i, <2>1, <2>2 DEF OneAtWork
  <2>6. ASSUME NEW j \in OnboardJobs, Calm PROVE KnowsPages(j)'
    <3>1. KnowsPages(j) /\ jobs'[j] = jobs[j] /\ jobs[j].todo \subseteq Titles
      BY <1>0, <1>i, <2>1, <2>6 DEF JobStates
    <3> QED
      BY <2>2, <3>1 DEF KnowsPages
  <2> QED
    BY <2>3, <2>4, <2>5, <2>6 DEF PagesInv
<1>8. CASE Restart
  <2>1. /\ progress' = "none"
        /\ jobs' = [j \in OnboardJobs |-> IF Active(j) THEN GoneJob ELSE jobs[j]]
        /\ UNCHANGED <<published, stale, jobsOverlapped, storeFailed>>
    BY <1>8 DEF Restart, ProgressAfterRestart, pageVars
  <2>2. /\ jobs' \in [OnboardJobs -> JobStates]
        /\ \A j \in OnboardJobs : jobs'[j].at \in {"idle", "gone"}
    BY <1>0, <2>1, JobStateFields DEF Active
  <2>3. OnboardTypeOK'
    BY <1>0, <2>1, <2>2 DEF OnboardTypeOK, JobStates, Finished
  <2>4. OneAtWork' /\ \A j \in OnboardJobs : KnowsPages(j)'
    BY <2>2 DEF OneAtWork, WorksOnPages, KnowsPages
  <2> QED
    BY <1>i, <2>1, <2>3, <2>4 DEF PagesInv, Calm
<1>9. CASE UNCHANGED onboardVars
  BY <1>9 DEF onboardVars, pageVars, PagesInv, OnboardTypeOK, Calm, OneAtWork, KnowsPages
<1> QED
  BY <1>1, <1>2, <1>3, <1>4, <1>5, <1>6, <1>7, <1>8, <1>9, OffPages DEF OnboardNext

\* However many jobs there are, a title has one page as long as they do not overlap and the
\* store answers and has room (onboarding.go:104-235).
THEOREM OnePagePerTitleHolds == OnboardSpec => []OnePagePerTitle
<1>1. PagesInv => OnePagePerTitle
  BY DEF PagesInv, OnePagePerTitle, Calm
<1> QED
  BY <1>1, PagesInvInit, PagesInvStep, PTL DEF OnboardSpec

\* Both: the progress tells the truth about jobs, and titles have one page each.
THEOREM OnboardingSoundHolds == OnboardSpec => []OnboardingSound
BY NeverLockedOutHolds, OnePagePerTitleHolds, PTL DEF OnboardingSound

-----------------------------------------------------------------------------
(* CodeAnalyst. Contents are numbered as they are written, so that a file   *)
(* that has the content it was hashed with was not written in between,      *)
(* unless that content was restored.                                        *)

IsNewest(f, h) == f \notin restored /\ h = newest[f]

\* What a run holds is about contents the files had, and when the file of its
\* question still has the content that was hashed, that is what was read.
RunOK(r) ==
  LET f == runs[r].score[1]
      h == runs[r].score[2] IN
  /\ runs[r] = RunState(runs[r].at, runs[r].todo, runs[r].score, runs[r].content)
  /\ runs[r].todo \subseteq Scores
  /\ \A score \in runs[r].todo : score[2] <= newest[score[1]]
  /\ runs[r].at \in {"asking", "caching"} =>
       /\ f \in SourceFiles /\ h \in 0 .. MaxVersions /\ h <= newest[f]
       /\ IsNewest(f, h) => runs[r].content = h
  /\ runs[r].at = "caching" => <<f, runs[r].content>> \in analysed

CacheOK(f) ==
  \/ cache[f] = NotCached
  \/ /\ cache[f] \in 0 .. MaxVersions /\ cache[f] <= newest[f]
     /\ IsNewest(f, cache[f]) => <<f, cache[f]>> \in analysed

AnalystInv ==
  /\ newest \in [SourceFiles -> 1 .. MaxVersions]
  /\ disk \in [SourceFiles -> 0 .. MaxVersions]
  /\ \A f \in SourceFiles : /\ disk[f] <= newest[f]
                            /\ f \notin restored => disk[f] \in {NoFile, newest[f]}
  /\ cache = [f \in SourceFiles |-> cache[f]]
  /\ runs = [r \in AnalysisRuns |-> runs[r]]
  /\ \A f \in SourceFiles : CacheOK(f)
  /\ \A r \in AnalysisRuns : RunOK(r)

\* The fields of a run's state.
LEMMA RunStateFields ==
  ASSUME NEW at, NEW todo, NEW score, NEW content, NEW run,
         run = RunState(at, todo, score, content)
  PROVE  /\ run.at = at /\ run.todo = todo /\ run.score = score /\ run.content = content
         /\ run = RunState(run.at, run.todo, run.score, run.content)
         /\ [run EXCEPT !.at = "caching"] = RunState("caching", todo, score, content)
BY DEF RunState

\* A run that holds nothing holds nothing wrong.
LEMMA BareRunOK ==
  ASSUME NEW r, NEW at, at \notin {"asking", "caching"}
  PROVE  /\ runs[r] = Bare(at) => RunOK(r)
         /\ runs'[r] = Bare(at) => RunOK(r)'
<1> DEFINE run == RunState(at, {}, NoScore, NoFile)
<1>1. /\ run.at = at /\ run.todo = {}
      /\ run = RunState(run.at, run.todo, run.score, run.content)
  BY RunStateFields
<1> QED
  BY <1>1 DEF RunOK, Bare

LEMMA AnalystInvInit == AnalystInit => AnalystInv
<1> SUFFICES ASSUME AnalystInit PROVE AnalystInv
  OBVIOUS
<1>1. \A r \in AnalysisRuns : RunOK(r)
  BY BareRunOK DEF AnalystInit
<1> QED
  BY <1>1, AnalystAssumption DEF AnalystInit, AnalystInv, CacheOK, NoFile, NotCached

\* Nothing is wrong with the runs that a step leaves alone, nor with the cache,
\* when no file is written and no answer is lost.
LEMMA OthersStayOK ==
  ASSUME AnalystInv, newest' = newest, analysed \subseteq analysed',
         restored \subseteq restored'
  PROVE  /\ \A r \in AnalysisRuns : runs'[r] = runs[r] => RunOK(r)'
         /\ \A f \in SourceFiles : cache'[f] = cache[f] => CacheOK(f)'
BY DEF AnalystInv, RunOK, CacheOK, IsNewest

LEMMA AnalystInvStep == AnalystInv /\ [AnalystNext]_analystVars => AnalystInv'
<1> SUFFICES ASSUME AnalystInv, [AnalystNext]_analystVars PROVE AnalystInv'
  OBVIOUS
<1> USE AnalystAssumption
<1>0. /\ newest \in [SourceFiles -> 1 .. MaxVersions]
      /\ disk \in [SourceFiles -> 0 .. MaxVersions]
      /\ runs = [r \in AnalysisRuns |-> runs[r]]
      /\ cache = [f \in SourceFiles |-> cache[f]]
      /\ \A r \in AnalysisRuns : RunOK(r)
  BY DEF AnalystInv
<1>1. ASSUME NEW f \in SourceFiles, Rewrite(f)
      PROVE  AnalystInv'
  <2>1. /\ newest' = [newest EXCEPT ![f] = newest[f] + 1]
        /\ newest[f] < MaxVersions
        /\ disk' = [disk EXCEPT ![f] = newest[f] + 1]
        /\ cache' = cache /\ analysed' = analysed /\ runs' = runs
        /\ restored' = restored
    BY <1>0, <1>1 DEF Rewrite
  <2>2. /\ newest' \in [SourceFiles -> 1 .. MaxVersions]
        /\ disk' \in [SourceFiles -> 0 .. MaxVersions]
        /\ \A g \in SourceFiles : /\ disk'[g] <= newest'[g]
                                  /\ g \notin restored' => disk'[g] \in {NoFile, newest'[g]}
    BY <1>0, <2>1 DEF AnalystInv, NoFile
  <2>3. ASSUME NEW g \in SourceFiles PROVE CacheOK(g)'
    <3>1. CacheOK(g)
      BY DEF AnalystInv
    <3> QED
      BY <1>0, <2>1, <3>1 DEF CacheOK, IsNewest
  <2>4. ASSUME NEW r \in AnalysisRuns PROVE RunOK(r)'
    <3>1. ASSUME NEW score \in runs[r].todo PROVE score[2] <= newest'[score[1]]
      <4>1. score \in Scores /\ score[2] <= newest[score[1]]
        BY <1>0, <3>1 DEF RunOK
      <4>2. score[1] \in SourceFiles /\ score[2] \in 0 .. MaxVersions
        BY <4>1 DEF Scores
      <4> QED
        BY <1>0, <2>1, <4>1, <4>2
    <3> QED
      BY <1>0, <2>1, <3>1 DEF RunOK, IsNewest
  <2> QED
    BY <1>0, <2>1, <2>2, <2>3, <2>4 DEF AnalystInv
<1>2. ASSUME NEW f \in SourceFiles, DeleteFile(f)
      PROVE  AnalystInv'
  BY <1>0, <1>2, OthersStayOK DEF DeleteFile, AnalystInv, NoFile
<1>2a. ASSUME NEW f \in SourceFiles, NEW v \in 1 .. MaxVersions, RestoreContent(f, v)
       PROVE  AnalystInv'
  <2>1. /\ v <= newest[f] /\ disk' = [disk EXCEPT ![f] = v]
        /\ restored' = restored \union {f}
        /\ newest' = newest /\ analysed' = analysed /\ cache' = cache /\ runs' = runs
    BY <1>2a DEF RestoreContent
  <2>2. /\ disk' \in [SourceFiles -> 0 .. MaxVersions]
        /\ \A g \in SourceFiles :
             /\ disk'[g] <= newest'[g]
             /\ g \notin restored' => disk'[g] \in {NoFile, newest'[g]}
    BY <1>0, <2>1 DEF AnalystInv, NoFile
  <2> QED
    BY <1>0, <2>1, <2>2, OthersStayOK DEF AnalystInv
<1> DEFINE Quiet == /\ newest' = newest /\ disk' = disk /\ restored' = restored
                    /\ analysed \subseteq analysed'
           Goes(r, new) == /\ runs' = [runs EXCEPT ![r] = new]
                            /\ RunOK(r)'
                            /\ Quiet /\ cache' = cache
<1>3. ASSUME NEW r \in AnalysisRuns, NEW new, Goes(r, new)
      PROVE  AnalystInv'
  <2>1. \A q \in AnalysisRuns : RunOK(q)'
    BY <1>0, <1>3, OthersStayOK
  <2>2. \A f \in SourceFiles : CacheOK(f)'
    BY <1>3, OthersStayOK
  <2> QED
    BY <1>0, <1>3, <2>1, <2>2 DEF AnalystInv
<1>4. ASSUME NEW r \in AnalysisRuns,
             \/ BeginRun(r) \/ SaveRun(r) \/ SaveRunFails(r) \/ CloseRun(r) \/ FreeEngine(r)
      PROVE  AnalystInv'
  <2>1. PICK at \in {"over", "starting", "collecting", "freeing"} :
          runs' = [runs EXCEPT ![r] = Bare(at)]
    BY <1>4 DEF BeginRun, SaveRun, SaveRunFails, CloseRun, FreeEngine
  <2>2. Quiet /\ cache' = cache
    BY <1>4 DEF BeginRun, SaveRun, SaveRunFails, CloseRun, FreeEngine, fileVars
  <2>3. RunOK(r)'
    BY <1>0, <2>1, BareRunOK
  <2> QED
    BY <1>3, <2>1, <2>2, <2>3
<1>5. ASSUME NEW r \in AnalysisRuns, NEW ranked \in SUBSET SourceFiles,
             NEW again \in SUBSET ranked, CollectAndFilter(r, ranked, again)
      PROVE  AnalystInv'
  <2> DEFINE todo == {<<f, disk[f]>> : f \in Changed(ranked, again)}
  <2>1. runs' = [runs EXCEPT ![r] = RunState("files", todo, NoScore, NoFile)]
    BY <1>5 DEF CollectAndFilter
  <2>2. Quiet /\ cache' = cache
    BY <1>5 DEF CollectAndFilter, fileVars
  <2>3. todo \subseteq Scores
    BY <1>0 DEF Changed, Scores
  <2>4. \A score \in todo : score[2] <= newest[score[1]]
    BY <1>0 DEF Changed, AnalystInv, NoFile
  <2>5. runs'[r] = RunState("files", todo, NoScore, NoFile)
    BY <1>0, <2>1
  <2> HIDE DEF todo
  <2>6. RunOK(r)'
    BY <2>2, <2>3, <2>4, <2>5 DEF RunOK, RunState
  <2> QED
    BY <1>3, <2>1, <2>2, <2>6
<1>6. ASSUME NEW r \in AnalysisRuns, NEW score \in runs[r].todo, ReadSource(r, score)
      PROVE  AnalystInv'
  <2> DEFINE f == score[1]
             h == score[2]
             todo == runs[r].todo \ {score}
  <2>1. Quiet /\ cache' = cache
    BY <1>6 DEF ReadSource, fileVars
  <2>2. /\ score \in Scores /\ h <= newest[f]
        /\ todo \subseteq Scores /\ \A s \in todo : s[2] <= newest[s[1]]
    BY <1>0 DEF RunOK
  <2>3. f \in SourceFiles /\ h \in 0 .. MaxVersions
    BY <2>2 DEF Scores
  <2>4. CASE disk[f] = NoFile
    <3>1. runs' = [runs EXCEPT ![r] = RunState("files", todo, NoScore, NoFile)]
      BY <1>6, <2>4 DEF ReadSource, NextFile
    <3>2. runs'[r] = RunState("files", todo, NoScore, NoFile)
      BY <1>0, <3>1
    <3>3. RunOK(r)'
      BY <2>1, <2>2, <3>2 DEF RunOK, RunState
    <3> QED
      BY <1>3, <2>1, <3>1, <3>3
  <2>5. CASE disk[f] # NoFile
    <3>1. runs' = [runs EXCEPT ![r] = RunState("asking", todo, score, disk[f])]
      BY <1>6, <2>5 DEF ReadSource
    <3>2. runs'[r] = RunState("asking", todo, score, disk[f])
      BY <1>0, <3>1
    <3>3. f \notin restored => disk[f] = newest[f]
      BY <2>3, <2>5 DEF AnalystInv
    <3>4. RunOK(r)'
      BY <2>1, <2>2, <2>3, <3>2, <3>3 DEF RunOK, RunState, IsNewest
    <3> QED
      BY <1>3, <2>1, <3>1, <3>4
  <2> QED
    BY <2>4, <2>5
<1>7. ASSUME NEW r \in AnalysisRuns, AnswerComes(r)
      PROVE  AnalystInv'
  <2>1. /\ runs[r].at = "asking"
        /\ runs' = [runs EXCEPT ![r].at = "caching"]
        /\ analysed' = analysed \union {<<runs[r].score[1], runs[r].content>>}
        /\ Quiet /\ cache' = cache
    BY <1>7 DEF AnswerComes, fileVars
  <2>2. runs' = [runs EXCEPT ![r] = [runs[r] EXCEPT !.at = "caching"]]
    BY <2>1
  <2> DEFINE old == runs[r]
             new == runs'[r]
  <2>3. old = RunState(old.at, old.todo, old.score, old.content) /\ RunOK(r)
    BY <1>0 DEF RunOK
  <2>4. new = RunState("caching", old.todo, old.score, old.content)
    <3> HIDE DEF old
    <3>1. [old EXCEPT !.at = "caching"]
            = RunState("caching", old.todo, old.score, old.content)
      BY <2>3, RunStateFields
    <3> QED
      BY <1>0, <2>2, <3>1 DEF old
  <2>5. /\ new.at = "caching" /\ new.todo = old.todo /\ new.score = old.score
        /\ new.content = old.content
        /\ new = RunState(new.at, new.todo, new.score, new.content)
    <3> HIDE DEF old, new
    <3> QED
      BY <2>4 DEF RunState
  <2>6. RunOK(r)'
    BY <2>1, <2>3, <2>5 DEF RunOK, IsNewest
  <2> QED
    BY <1>3, <2>1, <2>2, <2>6
<1>8. ASSUME NEW r \in AnalysisRuns, AnswerFails(r) \/ UpdateCache(r)
      PROVE  AnalystInv'
  <2>1. runs' = [runs EXCEPT ![r] = RunState("files", runs[r].todo, NoScore, NoFile)]
    BY <1>8 DEF AnswerFails, UpdateCache, NextFile
  <2>2. Quiet
    BY <1>8 DEF AnswerFails, UpdateCache, fileVars
  <2> DEFINE new == runs'[r]
  <2>3. new = RunState("files", runs[r].todo, NoScore, NoFile)
    BY <1>0, <2>1
  <2>4. RunOK(r)'
    <3>1. /\ new.at = "files" /\ new.todo = runs[r].todo
          /\ new = RunState(new.at, new.todo, new.score, new.content)
      <4> HIDE DEF new
      <4> QED
        BY <2>3 DEF RunState
    <3> QED
      BY <1>0, <2>2, <3>1 DEF RunOK
  <2>5. CASE cache' = cache
    BY <1>3, <2>1, <2>2, <2>4, <2>5
  <2>6. CASE UpdateCache(r) /\ cache' # cache
    <3> DEFINE f == runs[r].score[1]
               h == runs[r].score[2]
    <3>1. runs[r].at = "caching" /\ cache' = [cache EXCEPT ![f] = h]
      BY <2>6 DEF UpdateCache, CachedHash
    <3>2. /\ f \in SourceFiles /\ h \in 0 .. MaxVersions /\ h <= newest[f]
          /\ IsNewest(f, h) => <<f, h>> \in analysed
      BY <1>0, <3>1 DEF RunOK
    <3>3. \A g \in SourceFiles : CacheOK(g)'
      BY <1>0, <2>2, <3>1, <3>2, OthersStayOK DEF CacheOK, IsNewest
    <3>4. \A q \in AnalysisRuns : RunOK(q)'
      BY <1>0, <2>1, <2>2, <2>4, OthersStayOK
    <3> QED
      BY <1>0, <2>1, <2>2, <3>1, <3>3, <3>4 DEF AnalystInv
  <2> QED
    BY <1>8, <2>5, <2>6 DEF AnswerFails
<1>9. CASE KillEngine
  <2>1. Quiet /\ cache' = cache
    BY <1>9 DEF KillEngine, fileVars
  <2>2. /\ runs' = [r \in AnalysisRuns |-> runs'[r]]
        /\ \A r \in AnalysisRuns : runs'[r] = Bare("over") \/ runs'[r] = runs[r]
    BY <1>9 DEF KillEngine
  <2>3. \A r \in AnalysisRuns : RunOK(r)'
    BY <2>1, <2>2, OthersStayOK, BareRunOK
  <2>4. \A f \in SourceFiles : CacheOK(f)'
    BY <2>1, OthersStayOK
  <2> QED
    BY <1>0, <2>1, <2>2, <2>3, <2>4 DEF AnalystInv
<1>10. CASE UNCHANGED analystVars
  BY <1>10, OthersStayOK DEF analystVars, AnalystInv
<1> QED
  BY <1>1, <1>2, <1>2a, <1>4, <1>5, <1>6, <1>7, <1>8, <1>9, <1>10 DEF AnalystNext

\* A file that the cache would skip was analysed with the content it has now, unless
\* an earlier content of it was restored; for any number of files, contents and runs,
\* also when the process dies in between (code_analyst/engine.go:264-354,
\* dedup.go:42-107).
THEOREM SkippedWasAnalysedHolds == AnalystSpec => []SkippedWasAnalysed
<1>1. AnalystInv => SkippedWasAnalysed
  BY AnalystAssumption
  DEF AnalystInv, SkippedWasAnalysed, CacheOK, IsNewest, NotCached, NoFile
<1> QED
  BY <1>1, AnalystInvInit, AnalystInvStep, PTL DEF AnalystSpec

-----------------------------------------------------------------------------
(* EvolutionCycle. The flag is set whenever a cycle is under way, so there  *)
(* is one; and what its transaction adds when it commits are the ideas and  *)
(* the pages of those that had no row, since nothing is committed besides.  *)

EvoCycleType == [at : {"idle", "refused", "start", "build", "score", "write", "commit",
                       "failed", "ended"}, todo : SUBSET Ideas]

FlagIsSet == \A c \in Cycles : InCycle(c) => evoRunning

NoRowYet ==
  \A c \in Cycles : cycles[c].at \in {"idle", "refused", "start"} => runRows[c] = "none"

HasIdea == \A c \in Cycles : cycles[c].at \in {"write", "commit"} => cycles[c].todo # {}

CommitsPages ==
  \A c \in Cycles : cycles[c].at = "commit" =>
    txn.pages = (txn.rows \intersect FeatureIdeas) \ proposals

EvoInv ==
  /\ EvoTypeOK
  /\ FlagIsSet /\ OneCycleAtATime /\ NoRowYet /\ RunningRunsRun
  /\ HasIdea /\ CommitsPages /\ FeaturesHavePages

LEMMA EvoInvInit == EvoInit => EvoInv
<1> SUFFICES ASSUME EvoInit PROVE EvoInv
  OBVIOUS
<1>1. EvoTypeOK
  BY DEF EvoInit, EvoTypeOK, Cycle, NoTxn, Txn
<1>2. \A c \in Cycles : cycles[c].at = "idle" /\ runRows[c] = "none"
  BY DEF EvoInit, Cycle
<1>3. proposals = {} /\ ideaPages = {}
  BY DEF EvoInit
<1> QED
  BY <1>1, <1>2, <1>3
  DEF EvoInv, FlagIsSet, OneCycleAtATime, NoRowYet, RunningRunsRun, HasIdea, CommitsPages,
      FeaturesHavePages, InCycle

\* A step that moves cycle c from one stage of its work to the next, or to its end.
LEMMA CycleMoves ==
  ASSUME EvoInv, NEW c \in Cycles, NEW new \in EvoCycleType,
         cycles' = [cycles EXCEPT ![c] = new], cycles[c].at \notin {"idle", "refused"},
         new.at \in {"build", "score", "write", "commit", "failed", "ended"},
         InCycle(c),
         \/ new.at # "ended" /\ evoRunning' = evoRunning
         \/ new.at = "ended" /\ evoRunning' = FALSE,
         new.at \in {"write", "commit"} => new.todo # {}
  PROVE  /\ cycles' \in [Cycles -> EvoCycleType] /\ evoRunning' \in BOOLEAN
         /\ FlagIsSet' /\ OneCycleAtATime' /\ HasIdea'
         /\ \A d \in Cycles \ {c} : cycles'[d] = cycles[d] /\ ~InCycle(d)
         /\ cycles'[c] = new
<1>1. /\ cycles \in [Cycles -> EvoCycleType] /\ evoRunning \in BOOLEAN
  BY DEF EvoInv, EvoTypeOK, EvoCycleType
<1>2. cycles' \in [Cycles -> EvoCycleType] /\ cycles'[c] = new /\ evoRunning' \in BOOLEAN
      /\ \A d \in Cycles \ {c} : cycles'[d] = cycles[d]
  BY <1>1
<1>3. \A d \in Cycles \ {c} : ~InCycle(d)
  BY DEF EvoInv, OneCycleAtATime
<1>4. \A d \in Cycles : InCycle(d)' => d = c /\ new.at # "ended"
  BY <1>2, <1>3 DEF InCycle
<1>5. evoRunning
  BY DEF EvoInv, FlagIsSet
<1>6. FlagIsSet' /\ OneCycleAtATime'
  BY <1>4, <1>5 DEF FlagIsSet, OneCycleAtATime
<1>7. HasIdea'
  BY <1>2 DEF EvoInv, HasIdea
<1> QED
  BY <1>2, <1>3, <1>6, <1>7

\* The idea whose turn it is, and the cycle without it.
LEMMA IdeaLeft ==
  ASSUME EvoInv, NEW c \in Cycles
  PROVE  /\ WithoutIdea(c) \in EvoCycleType /\ WithoutIdea(c).at = "score"
         /\ cycles[c].todo # {} => NextIdea(c) \in Ideas
         /\ cycles[c] \in EvoCycleType
BY DEF EvoInv, EvoTypeOK, EvoCycleType, WithoutIdea, NextIdea, Cycle

LEMMA EvoInvStep == EvoInv /\ [EvoNext]_evoVars => EvoInv'
<1> SUFFICES ASSUME EvoInv, [EvoNext]_evoVars PROVE EvoInv'
  OBVIOUS
<1>0. /\ cycles \in [Cycles -> EvoCycleType] /\ evoRunning \in BOOLEAN
      /\ expired \subseteq Cycles /\ evoExcused \subseteq Cycles
      /\ runRows \in [Cycles -> {"none", "running", "completed", "failed"}]
      /\ proposals \subseteq Ideas /\ ideaPages \subseteq Ideas
      /\ txn \in [open : BOOLEAN, rows : SUBSET Ideas, pages : SUBSET Ideas]
  BY DEF EvoInv, EvoTypeOK, EvoCycleType
<1>i. /\ FlagIsSet /\ OneCycleAtATime /\ NoRowYet /\ RunningRunsRun
      /\ HasIdea /\ CommitsPages /\ FeaturesHavePages
  BY DEF EvoInv
<1>t. ASSUME NEW at \in {"idle", "refused", "start", "build", "score", "write", "commit",
                         "failed", "ended"}, NEW todo \in SUBSET Ideas
      PROVE  Cycle(at, todo) \in EvoCycleType /\ Cycle(at, todo).at = at
             /\ Cycle(at, todo).todo = todo
  BY DEF Cycle, EvoCycleType
<1>ended. Cycle("ended", {}) \in EvoCycleType /\ Cycle("ended", {}).at = "ended"
  BY DEF Cycle, EvoCycleType
<1>1. ASSUME NEW c \in Cycles, RunTargetCycle(c) PROVE EvoInv'
  <2>1. /\ cycles[c].at = "idle"
        /\ UNCHANGED <<expired, runRows, proposals, ideaPages, txn, evoExcused>>
    BY <1>1 DEF RunTargetCycle
  <2>2. PICK at \in {"refused", "start"} :
          /\ cycles' = [cycles EXCEPT ![c] = Cycle(at, {})]
          /\ evoRunning' = TRUE /\ (at = "refused" \/ (at = "start" /\ ~evoRunning))
    BY <1>0, <1>1 DEF RunTargetCycle
  <2>3. /\ cycles' \in [Cycles -> EvoCycleType] /\ cycles'[c].at = at
        /\ \A d \in Cycles \ {c} : cycles'[d] = cycles[d]
    BY <1>0, <1>t, <2>2
  <2>4. EvoTypeOK'
    BY <1>0, <2>1, <2>2, <2>3 DEF EvoTypeOK, EvoCycleType
  <2>5. \A d \in Cycles : InCycle(d)' => \/ d # c /\ InCycle(d)
                                         \/ d = c /\ at = "start"
    BY <2>3 DEF InCycle
  <2>6. \A d \in Cycles : InCycle(d) => evoRunning /\ d # c /\ InCycle(d)'
    BY <1>i, <2>1, <2>3 DEF FlagIsSet, InCycle
  <2>7. FlagIsSet' /\ OneCycleAtATime'
    BY <1>i, <2>2, <2>5, <2>6 DEF FlagIsSet, OneCycleAtATime
  <2>8. NoRowYet' /\ HasIdea' /\ CommitsPages'
    BY <1>i, <2>1, <2>2, <2>3 DEF NoRowYet, HasIdea, CommitsPages
  <2>9. RunningRunsRun' /\ FeaturesHavePages'
    BY <1>i, <2>1, <2>6 DEF RunningRunsRun, FeaturesHavePages
  <2> QED
    BY <2>4, <2>7, <2>8, <2>9 DEF EvoInv
<1>2. ASSUME NEW c \in Cycles, SaveCycle(c) PROVE EvoInv'
  <2>1. /\ cycles[c].at = "start" /\ evoRunning' = evoRunning
        /\ runRows' = [runRows EXCEPT ![c] = "running"]
        /\ cycles' = [cycles EXCEPT ![c] = Cycle("build", {})]
        /\ UNCHANGED <<expired, proposals, ideaPages, txn, evoExcused>>
    BY <1>2 DEF SaveCycle
  <2>2. InCycle(c) /\ cycles[c].at \notin {"idle", "refused"}
    BY <2>1 DEF InCycle
  <2>a. Cycle("build", {}) \in EvoCycleType /\ Cycle("build", {}).at = "build"
    BY DEF Cycle, EvoCycleType
  <2>3. /\ cycles' \in [Cycles -> EvoCycleType] /\ evoRunning' \in BOOLEAN
        /\ FlagIsSet' /\ OneCycleAtATime' /\ HasIdea'
        /\ \A d \in Cycles \ {c} : cycles'[d] = cycles[d] /\ ~InCycle(d)
        /\ cycles'[c] = Cycle("build", {}) /\ cycles'[c].at = "build"
    BY <2>1, <2>2, <2>a, CycleMoves
  <2>4. EvoTypeOK'
    BY <1>0, <2>1, <2>3 DEF EvoTypeOK, EvoCycleType
  <2>5. NoRowYet' /\ RunningRunsRun' /\ CommitsPages' /\ FeaturesHavePages'
    BY <1>0, <1>i, <2>1, <2>3
    DEF NoRowYet, RunningRunsRun, CommitsPages, FeaturesHavePages, InCycle
  <2> QED
    BY <2>3, <2>4, <2>5 DEF EvoInv
<1>3. ASSUME NEW c \in Cycles, SaveCycleFails(c) PROVE EvoInv'
  <2>1. /\ cycles[c].at = "start" /\ evoRunning' = FALSE
        /\ cycles' = [cycles EXCEPT ![c] = Cycle("ended", {})]
        /\ UNCHANGED <<expired, runRows, proposals, ideaPages, txn, evoExcused>>
    BY <1>3 DEF SaveCycleFails
  <2>2. InCycle(c) /\ cycles[c].at \notin {"idle", "refused"}
    BY <2>1 DEF InCycle
  <2>3. /\ cycles' \in [Cycles -> EvoCycleType] /\ evoRunning' \in BOOLEAN
        /\ FlagIsSet' /\ OneCycleAtATime' /\ HasIdea'
        /\ \A d \in Cycles \ {c} : cycles'[d] = cycles[d] /\ ~InCycle(d)
        /\ cycles'[c] = Cycle("ended", {}) /\ cycles'[c].at = "ended"
    BY <2>1, <2>2, <1>ended, CycleMoves
  <2>4. EvoTypeOK'
    BY <1>0, <2>1, <2>3 DEF EvoTypeOK, EvoCycleType
  <2>5. runRows[c] = "none"
    BY <1>i, <2>1 DEF NoRowYet
  <2>6. NoRowYet' /\ RunningRunsRun' /\ CommitsPages' /\ FeaturesHavePages'
    BY <1>0, <1>i, <2>1, <2>3, <2>5
    DEF NoRowYet, RunningRunsRun, CommitsPages, FeaturesHavePages, InCycle
  <2> QED
    BY <2>3, <2>4, <2>6 DEF EvoInv
<1>4. ASSUME NEW c \in Cycles, TimesOut(c) PROVE EvoInv'
  BY <1>4 DEF TimesOut, EvoInv, EvoTypeOK, FlagIsSet, OneCycleAtATime, NoRowYet,
              RunningRunsRun, HasIdea, CommitsPages, FeaturesHavePages, InCycle
\* Steps that leave rows, pages and proposals as they are.
<1>5. ASSUME NEW c \in Cycles, NEW new \in EvoCycleType, InCycle(c), cycles[c].at # "start",
             new.at \in {"build", "score", "write", "failed"}, new.at = "write" => new.todo # {},
             cycles' = [cycles EXCEPT ![c] = new],
             txn' \in [open : BOOLEAN, rows : SUBSET Ideas, pages : SUBSET Ideas],
             UNCHANGED <<evoRunning, expired, runRows, proposals, ideaPages, evoExcused>>
      PROVE  EvoInv'
  <2>1. cycles[c].at \notin {"idle", "refused"}
    BY <1>5 DEF InCycle
  <2>2. /\ cycles' \in [Cycles -> EvoCycleType] /\ evoRunning' \in BOOLEAN
        /\ FlagIsSet' /\ OneCycleAtATime' /\ HasIdea'
        /\ \A d \in Cycles \ {c} : cycles'[d] = cycles[d] /\ ~InCycle(d)
        /\ cycles'[c] = new
    BY <1>5, <2>1, CycleMoves
  <2>3. EvoTypeOK'
    BY <1>0, <1>5, <2>2 DEF EvoTypeOK, EvoCycleType
  <2>4. NoRowYet' /\ RunningRunsRun' /\ FeaturesHavePages'
    BY <1>i, <1>5, <2>2 DEF NoRowYet, RunningRunsRun, FeaturesHavePages, InCycle
  <2>5. CommitsPages'
    BY <1>5, <2>2 DEF CommitsPages, InCycle
  <2> QED
    BY <2>2, <2>3, <2>4, <2>5 DEF EvoInv
<1>6. ASSUME NEW c \in Cycles, NEW found \in SUBSET Ideas, Generate(c, found) PROVE EvoInv'
  <2>1. /\ cycles[c].at = "build" /\ cycles' = [cycles EXCEPT ![c] = Cycle("score", found)]
        /\ UNCHANGED <<evoRunning, expired, runRows, proposals, ideaPages, txn, evoExcused>>
    BY <1>6 DEF Generate
  <2>2. Cycle("score", found) \in EvoCycleType /\ Cycle("score", found).at = "score"
    BY DEF Cycle, EvoCycleType
  <2>3. InCycle(c) /\ cycles[c].at # "start"
    BY <2>1 DEF InCycle
  <2> QED
    BY <1>0, <1>5, <2>1, <2>2, <2>3
<1>7. ASSUME NEW c \in Cycles, BuildFails(c) PROVE EvoInv'
  <2>1. /\ cycles[c].at = "build" /\ cycles' = [cycles EXCEPT ![c] = Cycle("failed", {})]
        /\ UNCHANGED <<evoRunning, expired, runRows, proposals, ideaPages, txn, evoExcused>>
    BY <1>7 DEF BuildFails
  <2>2. Cycle("failed", {}) \in EvoCycleType /\ Cycle("failed", {}).at = "failed"
    BY DEF Cycle, EvoCycleType
  <2>3. InCycle(c) /\ cycles[c].at # "start"
    BY <2>1 DEF InCycle
  <2> QED
    BY <1>0, <1>5, <2>1, <2>2, <2>3
<1>8. ASSUME NEW c \in Cycles, BeginImmediate(c) PROVE EvoInv'
  <2>0. /\ cycles[c].at = "score" /\ cycles[c].todo # {} /\ txn' = Txn(TRUE, {}, {})
        /\ cycles' = [cycles EXCEPT ![c] = [cycles[c] EXCEPT !.at = "write"]]
        /\ UNCHANGED <<evoRunning, expired, runRows, proposals, ideaPages, evoExcused>>
    BY <1>8 DEF BeginImmediate
  <2>1. /\ [cycles[c] EXCEPT !.at = "write"] \in EvoCycleType
        /\ [cycles[c] EXCEPT !.at = "write"].at = "write"
        /\ [cycles[c] EXCEPT !.at = "write"].todo = cycles[c].todo
    BY <1>0 DEF EvoCycleType
  <2>3. InCycle(c) /\ cycles[c].at # "start"
    BY <2>0 DEF InCycle
  <2>2. Txn(TRUE, {}, {}) \in [open : BOOLEAN, rows : SUBSET Ideas, pages : SUBSET Ideas]
    BY DEF Txn
  <2> QED
    BY <1>5, <2>0, <2>1, <2>2, <2>3
<1>9. ASSUME NEW c \in Cycles, BeginFails(c) \/ CommitTimesOut(c) PROVE EvoInv'
  BY <1>0, <1>5, <1>9, IdeaLeft DEF BeginFails, CommitTimesOut, InCycle
<1>10. ASSUME NEW c \in Cycles, WriteRollsBack(c) PROVE EvoInv'
  <2>1. NoTxn \in [open : BOOLEAN, rows : SUBSET Ideas, pages : SUBSET Ideas]
    BY DEF NoTxn, Txn
  <2> QED
    BY <1>0, <1>5, <1>10, <2>1, IdeaLeft DEF WriteRollsBack, InCycle
<1>11. ASSUME NEW c \in Cycles, WriteInTx(c) PROVE EvoInv'
  <2>1. /\ cycles[c].at = "write"
        /\ txn' = Txn(TRUE, {NextIdea(c)}, PagesFor(NextIdea(c)))
        /\ cycles' = [cycles EXCEPT ![c] = [cycles[c] EXCEPT !.at = "commit"]]
        /\ UNCHANGED <<evoRunning, expired, runRows, proposals, ideaPages, evoExcused>>
    BY <1>11 DEF WriteInTx
  <2>2. /\ [cycles[c] EXCEPT !.at = "commit"] \in EvoCycleType
        /\ [cycles[c] EXCEPT !.at = "commit"].at = "commit"
        /\ [cycles[c] EXCEPT !.at = "commit"].todo = cycles[c].todo
    BY <1>0 DEF EvoCycleType
  <2>a. /\ cycles[c].todo # {} /\ NextIdea(c) \in Ideas /\ InCycle(c)
        /\ cycles[c].at \notin {"idle", "refused"}
    BY <1>i, <2>1, IdeaLeft DEF HasIdea, InCycle
  <2>3. /\ cycles' \in [Cycles -> EvoCycleType] /\ evoRunning' \in BOOLEAN
        /\ FlagIsSet' /\ OneCycleAtATime' /\ HasIdea'
        /\ \A d \in Cycles \ {c} : cycles'[d] = cycles[d] /\ ~InCycle(d)
        /\ cycles'[c] = [cycles[c] EXCEPT !.at = "commit"] /\ cycles'[c].at = "commit"
    BY <2>1, <2>2, <2>a, CycleMoves
  <2>4. EvoTypeOK'
    BY <1>0, <2>1, <2>a, <2>3, FeatureAssumption DEF EvoTypeOK, EvoCycleType, Txn, PagesFor
  <2>5. NoRowYet' /\ RunningRunsRun' /\ FeaturesHavePages'
    BY <1>i, <2>1, <2>3 DEF NoRowYet, RunningRunsRun, FeaturesHavePages, InCycle
  <2>6. CommitsPages'
    BY <2>1 DEF CommitsPages, Txn, PagesFor
  <2> QED
    BY <2>3, <2>4, <2>5, <2>6 DEF EvoInv
<1>12. ASSUME NEW c \in Cycles, CommitIdea(c) PROVE EvoInv'
  <2>1. /\ cycles[c].at = "commit"
        /\ proposals' = proposals \union txn.rows /\ ideaPages' = ideaPages \union txn.pages
        /\ txn' = NoTxn
        /\ cycles' = [cycles EXCEPT ![c] = WithoutIdea(c)]
        /\ UNCHANGED <<evoRunning, expired, runRows, evoExcused>>
    BY <1>12 DEF CommitIdea
  <2>2. InCycle(c) /\ cycles[c].at \notin {"idle", "refused"}
    BY <2>1 DEF InCycle
  <2>3. /\ cycles' \in [Cycles -> EvoCycleType] /\ evoRunning' \in BOOLEAN
        /\ FlagIsSet' /\ OneCycleAtATime' /\ HasIdea'
        /\ \A d \in Cycles \ {c} : cycles'[d] = cycles[d] /\ ~InCycle(d)
        /\ cycles'[c] = WithoutIdea(c) /\ cycles'[c].at = "score"
    BY <2>1, <2>2, IdeaLeft, CycleMoves
  <2>4. EvoTypeOK'
    BY <1>0, <2>1, <2>3 DEF EvoTypeOK, EvoCycleType, NoTxn, Txn
  <2>5. NoRowYet' /\ RunningRunsRun'
    BY <1>i, <2>1, <2>3 DEF NoRowYet, RunningRunsRun, InCycle
  <2>6. FeaturesHavePages'
    BY <1>i, <2>1 DEF FeaturesHavePages, CommitsPages
  <2>7. CommitsPages'
    BY <2>3 DEF CommitsPages, InCycle
  <2> QED
    BY <2>3, <2>4, <2>5, <2>6, <2>7 DEF EvoInv
<1>13. ASSUME NEW c \in Cycles, FinishRun(c) \/ FinishUnsaved(c) PROVE EvoInv'
  <2>1. /\ cycles[c].at \in {"failed", "score"} /\ evoRunning' = FALSE
        /\ cycles' = [cycles EXCEPT ![c] = Cycle("ended", {})]
        /\ UNCHANGED <<expired, proposals, ideaPages, txn>>
    BY <1>13 DEF FinishRun, FinishUnsaved, MayFinish
  <2>2. InCycle(c) /\ cycles[c].at \notin {"idle", "refused"}
    BY <2>1 DEF InCycle
  <2>3. /\ cycles' \in [Cycles -> EvoCycleType] /\ evoRunning' \in BOOLEAN
        /\ FlagIsSet' /\ OneCycleAtATime' /\ HasIdea'
        /\ \A d \in Cycles \ {c} : cycles'[d] = cycles[d] /\ ~InCycle(d)
        /\ cycles'[c] = Cycle("ended", {}) /\ cycles'[c].at = "ended"
    BY <2>1, <2>2, <1>ended, CycleMoves
  <2>4. CommitsPages' /\ FeaturesHavePages'
    BY <1>i, <2>1, <2>3 DEF CommitsPages, FeaturesHavePages
  <2>5. /\ runRows' \in [Cycles -> {"none", "running", "completed", "failed"}]
        /\ evoExcused' \subseteq Cycles /\ evoExcused \subseteq evoExcused'
        /\ \A d \in Cycles \ {c} : runRows'[d] = runRows[d]
        /\ runRows'[c] = "running" => c \in evoExcused'
    BY <1>0, <1>13 DEF FinishRun, FinishUnsaved, Final
  <2>6. NoRowYet' /\ RunningRunsRun'
    BY <1>i, <2>3, <2>5 DEF NoRowYet, RunningRunsRun, InCycle
  <2>7. EvoTypeOK'
    BY <1>0, <2>1, <2>3, <2>5 DEF EvoTypeOK, EvoCycleType
  <2> QED
    BY <2>3, <2>4, <2>6, <2>7 DEF EvoInv
<1>14. CASE CrashInCycle
  <2>1. /\ evoExcused' = evoExcused \union {c \in Cycles : InCycle(c)}
        /\ cycles' = [c \in Cycles |-> IF InCycle(c) THEN Cycle("ended", {}) ELSE cycles[c]]
        /\ evoRunning' = FALSE /\ txn' = NoTxn
        /\ UNCHANGED <<expired, runRows, proposals, ideaPages>>
    BY <1>14 DEF CrashInCycle
  <2>2. cycles' \in [Cycles -> EvoCycleType]
        /\ \A c \in Cycles : \/ cycles'[c].at = "ended" /\ InCycle(c)
                             \/ cycles'[c] = cycles[c] /\ ~InCycle(c)
    BY <1>0, <1>t, <2>1
  <2>3. \A c \in Cycles : ~InCycle(c)'
    BY <2>2 DEF InCycle
  <2>4. EvoTypeOK'
    BY <1>0, <2>1, <2>2 DEF EvoTypeOK, EvoCycleType, NoTxn, Txn
  <2>5. FlagIsSet' /\ OneCycleAtATime' /\ HasIdea' /\ CommitsPages'
    BY <2>3 DEF FlagIsSet, OneCycleAtATime, HasIdea, CommitsPages, InCycle
  <2>6. NoRowYet' /\ RunningRunsRun' /\ FeaturesHavePages'
    BY <1>i, <2>1, <2>2 DEF NoRowYet, RunningRunsRun, FeaturesHavePages
  <2> QED
    BY <2>4, <2>5, <2>6 DEF EvoInv
<1>15. CASE UNCHANGED evoVars
  BY <1>15 DEF evoVars, EvoInv, EvoTypeOK, FlagIsSet, OneCycleAtATime, NoRowYet,
               RunningRunsRun, HasIdea, CommitsPages, FeaturesHavePages, InCycle
<1> QED
  BY <1>1, <1>2, <1>3, <1>4, <1>6, <1>7, <1>8, <1>9, <1>10, <1>11, <1>12, <1>13, <1>14, <1>15
  DEF EvoNext

\* Flag, rows and pages agree for any number of cycles and ideas, whatever times out,
\* fails or crashes (run_target_cycle.go:24-116, proposal_writer.go:163-260).
THEOREM EvolutionSettlesHolds == EvoSpec => []EvolutionSettles
<1>1. EvoInv => EvolutionSettles
  BY DEF EvoInv, EvolutionSettles
<1> QED
  BY <1>1, EvoInvInit, EvoInvStep, PTL DEF EvoSpec

-----------------------------------------------------------------------------
(* ProposalReview. A request that nothing overlapped finds the row as it    *)
(* left it, so what it read says whether the file was there before; as long *)
(* as nothing went wrong, no other request is under way.                    *)

UnderWay == [pc : {"update", "look", "create", "back"},
             from : ProposalStatus, to : ProposalStatus]

\* Past the update of the row only an approval goes on.
AfterUpdate(r) == reviews[r].pc \in {"look", "create", "back"}

Agree == /\ proposal = "approved" => asset = "proposed"
         /\ asset = "proposed" => proposal \in {"approved", "archived"}

StepsAreValid ==
  \A r \in Busy : ValidStep(reviews[r].from, reviews[r].to)
                  /\ (AfterUpdate(r) => reviews[r].to = "approved")

\* At most one request is alone, and then it is the only one.
AloneIsOnly == \A r \in alone : Busy = {r} /\ (AfterUpdate(r) => proposal = "approved")

\* Of the file's state when the request read the row, "from" keeps what matters.
FromTellsFile ==
  \A r \in Busy :
    /\ reviews[r].pc = "update" => Agree /\ proposal = reviews[r].from
    /\ AfterUpdate(r) => (reviews[r].from = "approved" <=> asset = "proposed")
    /\ reviews[r].pc = "create" => asset # "proposed"

ReviewInv ==
  /\ proposal \in ProposalStatus
  /\ asset \in {"none", "proposed", "torn", "other"}
  /\ reviews \in [Reviews -> UnderWay \union {NoReview}]
  /\ alone \subseteq Reviews /\ unsettled \in BOOLEAN
  /\ StepsAreValid /\ AloneIsOnly
  /\ ~unsettled => /\ Busy = alone /\ FromTellsFile
                   /\ Busy = {} => Agree

\* A request is busy as long as it is somewhere.
LEMMA BusyHasStep ==
  ASSUME ReviewInv, NEW r \in Reviews
  PROVE  /\ r \in Busy <=> reviews[r].pc \in {"update", "look", "create", "back"}
         /\ r \in Busy => reviews[r] \in UnderWay
         /\ reviews[r].pc # "idle" => r \in Busy
<1>1. reviews[r] \in UnderWay \union {NoReview}
  BY DEF ReviewInv
<1>2. CASE reviews[r] = NoReview
  BY <1>2 DEF Busy, NoReview
<1>3. CASE reviews[r] \in UnderWay
  BY <1>3 DEF Busy, NoReview, UnderWay
<1> QED
  BY <1>1, <1>2, <1>3

\* A request that goes on within its work.
LEMMA ReviewMoves ==
  ASSUME ReviewInv, NEW r \in Busy, NEW from \in {"update", "look", "create"},
         NEW to \in {"look", "create", "back"}, Moves(r, from, to)
  PROVE  /\ reviews' \in [Reviews -> UnderWay \union {NoReview}]
         /\ Busy' = Busy
         /\ \A x \in Reviews \ {r} : reviews'[x] = reviews[x]
         /\ reviews[r].pc = from /\ reviews'[r].pc = to
         /\ reviews'[r].from = reviews[r].from /\ reviews'[r].to = reviews[r].to
<1>1. r \in Reviews /\ reviews[r] \in UnderWay
  BY BusyHasStep DEF Busy
<1>2. reviews[r].pc = from
      /\ reviews' = [reviews EXCEPT ![r] = [reviews[r] EXCEPT !.pc = to]]
  BY DEF Moves
<1>3. [reviews[r] EXCEPT !.pc = to] \in UnderWay
  BY <1>1 DEF UnderWay
<1>4. /\ [reviews[r] EXCEPT !.pc = to].pc = to
      /\ [reviews[r] EXCEPT !.pc = to].from = reviews[r].from
      /\ [reviews[r] EXCEPT !.pc = to].to = reviews[r].to
      /\ [reviews[r] EXCEPT !.pc = to] # NoReview
  BY <1>1 DEF UnderWay, NoReview
<1>5. reviews \in [Reviews -> UnderWay \union {NoReview}]
  BY DEF ReviewInv
<1>6. reviews' \in [Reviews -> UnderWay \union {NoReview}]
      /\ reviews'[r] = [reviews[r] EXCEPT !.pc = to]
      /\ \A x \in Reviews \ {r} : reviews'[x] = reviews[x]
  BY <1>1, <1>2, <1>3, <1>5
<1>7. Busy' = Busy
  BY <1>1, <1>4, <1>6 DEF Busy
<1> QED
  BY <1>2, <1>4, <1>6, <1>7

\* A request that is over.
LEMMA ReviewOver ==
  ASSUME ReviewInv, NEW r \in Reviews, ReviewEnds(r)
  PROVE  /\ reviews' \in [Reviews -> UnderWay \union {NoReview}]
         /\ Busy' = Busy \ {r} /\ alone' = alone \ {r}
         /\ \A x \in Busy' : reviews'[x] = reviews[x]
         /\ r \in alone => Busy' = {}
         /\ StepsAreValid'
         /\ (\A x \in alone' : proposal' = proposal) => AloneIsOnly'
         /\ (~unsettled /\ r \in Busy) => Busy' = {} /\ alone' = {}
<1>1. reviews' = [reviews EXCEPT ![r] = NoReview] /\ alone' = alone \ {r}
      /\ reviews \in [Reviews -> UnderWay \union {NoReview}]
  BY DEF ReviewEnds, ReviewInv
<1>2. reviews' \in [Reviews -> UnderWay \union {NoReview}]
      /\ Busy' = Busy \ {r} /\ \A x \in Busy' : reviews'[x] = reviews[x]
  BY <1>1 DEF Busy
<1>3. StepsAreValid'
  BY <1>2 DEF ReviewInv, StepsAreValid, AfterUpdate
<1>4. r \in alone => Busy' = {}
  BY <1>2 DEF ReviewInv, AloneIsOnly
<1>5. ASSUME \A x \in alone' : proposal' = proposal PROVE AloneIsOnly'
  <2> SUFFICES ASSUME NEW x \in alone'
               PROVE  Busy' = {x} /\ (AfterUpdate(x)' => proposal' = "approved")
    BY DEF AloneIsOnly
  <2>1. x \in alone /\ x # r /\ Busy = {x} /\ (AfterUpdate(x) => proposal = "approved")
    BY <1>1 DEF ReviewInv, AloneIsOnly
  <2>2. Busy' = {x} /\ reviews'[x] = reviews[x]
    BY <1>2, <2>1
  <2> QED
    BY <1>5, <2>1, <2>2 DEF AfterUpdate
<1>6. (~unsettled /\ r \in Busy) => Busy' = {} /\ alone' = {}
  BY <1>1, <1>2 DEF ReviewInv, AloneIsOnly
<1> QED
  BY <1>1, <1>2, <1>3, <1>4, <1>5, <1>6

LEMMA ReviewInvInit == ReviewInit => ReviewInv
<1> SUFFICES ASSUME ReviewInit PROVE ReviewInv
  OBVIOUS
<1>1. Busy = {} /\ alone = {}
  BY DEF ReviewInit, Busy
<1> QED
  BY <1>1 DEF ReviewInit, ReviewInv, ProposalStatus, StepsAreValid, AloneIsOnly,
              FromTellsFile, Agree

LEMMA ReviewInvStep == ReviewInv /\ [ReviewNext]_reviewVars => ReviewInv'
<1> SUFFICES ASSUME ReviewInv, [ReviewNext]_reviewVars PROVE ReviewInv'
  OBVIOUS
<1>0. /\ proposal \in ProposalStatus /\ asset \in {"none", "proposed", "torn", "other"}
      /\ reviews \in [Reviews -> UnderWay \union {NoReview}]
      /\ alone \subseteq Reviews /\ unsettled \in BOOLEAN
      /\ StepsAreValid /\ AloneIsOnly
      /\ ~unsettled => Busy = alone /\ FromTellsFile /\ (Busy = {} => Agree)
  BY DEF ReviewInv
<1>1. ASSUME NEW r \in Reviews, NEW to \in ProposalStatus, ReadAndValidate(r, to)
      PROVE  ReviewInv'
  <2> DEFINE new == [pc |-> "update", from |-> proposal, to |-> to]
  <2>1. /\ reviews[r] = NoReview /\ ValidStep(proposal, to)
        /\ reviews' = [reviews EXCEPT ![r] = new]
        /\ alone' = IF Busy = {} THEN {r} ELSE {}
        /\ unsettled' = (unsettled \/ Busy # {})
        /\ UNCHANGED <<proposal, asset>>
    BY <1>1 DEF ReadAndValidate
  <2>2. new \in UnderWay /\ new # NoReview /\ new.pc = "update" /\ new.from = proposal
        /\ new.to = to
    BY <1>0 DEF UnderWay, NoReview
  <2> HIDE DEF new
  <2>3. /\ reviews' \in [Reviews -> UnderWay \union {NoReview}] /\ reviews'[r] = new
        /\ \A x \in Reviews \ {r} : reviews'[x] = reviews[x]
        /\ Busy' = Busy \union {r}
    BY <1>0, <2>1, <2>2 DEF Busy
  <2>4. Busy \subseteq Reviews /\ r \notin Busy
    BY <2>1 DEF Busy
  <2>5. StepsAreValid'
    BY <1>0, <2>1, <2>2, <2>3, <2>4 DEF StepsAreValid, AfterUpdate
  <2>6. AloneIsOnly'
    BY <2>1, <2>2, <2>3 DEF AloneIsOnly, AfterUpdate
  <2>7. ~unsettled' => Busy' = alone' /\ FromTellsFile' /\ Busy' # {}
    <3> SUFFICES ASSUME ~unsettled' PROVE Busy' = alone' /\ FromTellsFile' /\ Busy' # {}
      OBVIOUS
    <3>1. Busy = {} /\ ~unsettled /\ Agree
      BY <1>0, <2>1
    <3>2. Busy' = {r} /\ alone' = {r}
      BY <2>1, <2>3, <3>1
    <3> QED
      BY <2>1, <2>2, <2>3, <3>1, <3>2 DEF FromTellsFile, AfterUpdate, Agree
  <2>8. unsettled' \in BOOLEAN
    BY <1>0, <2>1
  <2> QED
    BY <1>0, <2>1, <2>3, <2>5, <2>6, <2>7, <2>8 DEF ReviewInv
<1>2. ASSUME NEW r \in Reviews, WriteStatus(r) PROVE ReviewInv'
  <2>1. reviews[r].pc = "update" /\ proposal' = reviews[r].to
        /\ UNCHANGED <<asset, unsettled>>
    BY <1>2 DEF WriteStatus
  <2>2. r \in Busy /\ reviews[r] \in UnderWay
    BY <2>1, BusyHasStep
  <2>3. proposal' \in ProposalStatus
    BY <2>1, <2>2 DEF UnderWay
  <2>4. ValidStep(reviews[r].from, reviews[r].to)
    BY <1>0, <2>2 DEF StepsAreValid
  <2>5. ASSUME ~unsettled PROVE Agree /\ proposal = reviews[r].from /\ Busy = {r} /\ alone = {r}
    BY <1>0, <2>1, <2>2, <2>5 DEF FromTellsFile, AloneIsOnly
  <2>6. CASE reviews[r].to = "approved"
    <3>1. Moves(r, "update", "look") /\ alone' = alone
      BY <1>2, <2>6 DEF WriteStatus
    <3>2. /\ reviews' \in [Reviews -> UnderWay \union {NoReview}]
          /\ Busy' = Busy
          /\ \A x \in Reviews \ {r} : reviews'[x] = reviews[x]
          /\ reviews'[r].pc = "look"
          /\ reviews'[r].from = reviews[r].from /\ reviews'[r].to = reviews[r].to
      BY <2>2, <3>1, ReviewMoves
    <3>3. StepsAreValid'
      BY <1>0, <2>6, <3>2 DEF StepsAreValid, AfterUpdate, Busy
    <3>4. AloneIsOnly'
      BY <1>0, <2>1, <2>6, <3>1, <3>2 DEF AloneIsOnly
    <3>5. ~unsettled' => Busy' = alone' /\ FromTellsFile' /\ Busy' # {}
      BY <2>1, <2>4, <2>5, <2>6, <3>1, <3>2
      DEF FromTellsFile, AfterUpdate, Agree, ValidStep, ProposalTransitions
    <3> QED
      BY <1>0, <2>1, <2>3, <3>1, <3>2, <3>3, <3>4, <3>5 DEF ReviewInv
  <2>7. CASE reviews[r].to # "approved"
    <3>1. ReviewEnds(r)
      BY <1>2, <2>7 DEF WriteStatus
    <3>2. /\ reviews' \in [Reviews -> UnderWay \union {NoReview}]
          /\ alone' = alone \ {r} /\ Busy' = Busy \ {r} /\ StepsAreValid'
      BY <3>1, ReviewOver
    <3>3. alone' = {}
      BY <1>0, <2>2, <3>2 DEF AloneIsOnly
    <3>4. AloneIsOnly'
      BY <3>3 DEF AloneIsOnly
    <3>5. ~unsettled' => Busy' = alone' /\ Busy' = {} /\ Agree'
      BY <2>1, <2>4, <2>5, <2>7, <3>2, <3>3 DEF Agree, ValidStep, ProposalTransitions
    <3> QED
      BY <1>0, <2>1, <2>3, <3>2, <3>4, <3>5 DEF ReviewInv, FromTellsFile
  <2> QED
    BY <2>6, <2>7
<1>3. ASSUME NEW r \in Reviews, WriteStatusFails(r) PROVE ReviewInv'
  <2>1. reviews[r].pc = "update" /\ ReviewEnds(r) /\ UNCHANGED <<proposal, asset, unsettled>>
    BY <1>3 DEF WriteStatusFails
  <2>2. r \in Busy
    BY <2>1, BusyHasStep
  <2>3. /\ reviews' \in [Reviews -> UnderWay \union {NoReview}]
        /\ alone' = alone \ {r} /\ StepsAreValid' /\ AloneIsOnly'
        /\ ~unsettled => Busy' = {} /\ alone' = {}
    BY <2>1, <2>2, ReviewOver
  <2>4. ~unsettled => Agree
    BY <1>0, <2>1, <2>2 DEF FromTellsFile
  <2> QED
    BY <1>0, <2>1, <2>3, <2>4 DEF ReviewInv, FromTellsFile, Agree
<1>4. ASSUME NEW r \in Reviews, LookForFile(r) PROVE ReviewInv'
  <2>1. PICK to \in {"create", "back"} :
          Moves(r, "look", to) /\ (to = "create" => asset = "none")
    BY <1>4 DEF LookForFile, MayCreate
  <2>2. r \in Busy
    BY <2>1, BusyHasStep DEF Moves
  <2>3. /\ reviews' \in [Reviews -> UnderWay \union {NoReview}]
        /\ Busy' = Busy
        /\ \A x \in Reviews \ {r} : reviews'[x] = reviews[x]
        /\ reviews[r].pc = "look" /\ reviews'[r].pc = to
        /\ reviews'[r].from = reviews[r].from /\ reviews'[r].to = reviews[r].to
    BY <2>1, <2>2, ReviewMoves
  <2>4. UNCHANGED <<proposal, asset, alone, unsettled>>
    BY <1>4 DEF LookForFile
  <2>5. StepsAreValid' /\ AloneIsOnly'
    BY <1>0, <2>2, <2>3, <2>4 DEF StepsAreValid, AloneIsOnly, AfterUpdate, Busy
  <2>6. ~unsettled => FromTellsFile'
    BY <1>0, <2>1, <2>2, <2>3, <2>4 DEF FromTellsFile, AfterUpdate, Agree, Busy
  <2> QED
    BY <1>0, <2>2, <2>3, <2>4, <2>5, <2>6 DEF ReviewInv
<1>5. ASSUME NEW r \in Reviews, CreateFile(r) PROVE ReviewInv'
  <2>1. /\ reviews[r].pc = "create" /\ asset' = "proposed"
        /\ unsettled' = (unsettled /\ r \notin alone)
        /\ ReviewEnds(r) /\ proposal' = proposal
    BY <1>5 DEF CreateFile
  <2>2. r \in Busy /\ AfterUpdate(r)
    BY <2>1, BusyHasStep DEF AfterUpdate
  <2>3. /\ reviews' \in [Reviews -> UnderWay \union {NoReview}]
        /\ alone' = alone \ {r} /\ Busy' = Busy \ {r} /\ StepsAreValid' /\ AloneIsOnly'
    BY <2>1, ReviewOver
  <2>4. ASSUME ~unsettled' PROVE r \in alone
    BY <1>0, <2>1, <2>2, <2>4
  <2>5. ASSUME ~unsettled' PROVE Busy' = {} /\ alone' = {} /\ proposal' = "approved"
    BY <1>0, <2>1, <2>2, <2>3, <2>4, <2>5 DEF AloneIsOnly
  <2>6. unsettled' \in BOOLEAN
    BY <1>0, <2>1
  <2> QED
    BY <1>0, <2>1, <2>3, <2>5, <2>6 DEF ReviewInv, FromTellsFile, Agree
<1>6. ASSUME NEW r \in Reviews, CreateFileFails(r) PROVE ReviewInv'
  <2>1. Moves(r, "create", "back") /\ asset' \in {asset, "torn"}
        /\ UNCHANGED <<proposal, alone, unsettled>>
    BY <1>6 DEF CreateFileFails
  <2>2. r \in Busy
    BY <2>1, BusyHasStep DEF Moves
  <2>3. /\ reviews' \in [Reviews -> UnderWay \union {NoReview}]
        /\ Busy' = Busy
        /\ \A x \in Reviews \ {r} : reviews'[x] = reviews[x]
        /\ reviews[r].pc = "create" /\ reviews'[r].pc = "back"
        /\ reviews'[r].from = reviews[r].from /\ reviews'[r].to = reviews[r].to
    BY <2>1, <2>2, ReviewMoves
  <2>4. StepsAreValid' /\ AloneIsOnly'
    BY <1>0, <2>1, <2>2, <2>3 DEF StepsAreValid, AloneIsOnly, AfterUpdate, Busy
  <2>5. ~unsettled => FromTellsFile'
    <3> SUFFICES ASSUME ~unsettled PROVE FromTellsFile'
      OBVIOUS
    <3>1. Busy = {r} /\ asset # "proposed" /\ reviews[r].from # "approved"
      BY <1>0, <2>2, <2>3 DEF AloneIsOnly, FromTellsFile, AfterUpdate
    <3> QED
      BY <2>1, <2>3, <3>1 DEF FromTellsFile, AfterUpdate
  <2>6. asset' \in {"none", "proposed", "torn", "other"}
    BY <1>0, <2>1
  <2> QED
    BY <1>0, <2>1, <2>2, <2>3, <2>4, <2>5, <2>6 DEF ReviewInv
<1>7. ASSUME NEW r \in Reviews, RollBack(r) PROVE ReviewInv'
  <2>1. reviews[r].pc = "back" /\ proposal' = reviews[r].from /\ ReviewEnds(r)
        /\ UNCHANGED <<asset, unsettled>>
    BY <1>7 DEF RollBack, RolledBack
  <2>2. r \in Busy /\ AfterUpdate(r) /\ reviews[r] \in UnderWay
    BY <2>1, BusyHasStep DEF AfterUpdate
  <2>3. /\ reviews' \in [Reviews -> UnderWay \union {NoReview}]
        /\ alone' = alone \ {r} /\ Busy' = Busy \ {r} /\ StepsAreValid'
        /\ ~unsettled => Busy' = {} /\ alone' = {}
    BY <2>1, <2>2, ReviewOver
  <2>4. alone' = {}
    BY <1>0, <2>2, <2>3 DEF AloneIsOnly
  <2>5. proposal' \in ProposalStatus /\ AloneIsOnly'
    BY <2>1, <2>2, <2>4 DEF UnderWay, AloneIsOnly
  <2>6. ValidStep(reviews[r].from, "approved")
    BY <1>0, <2>2 DEF StepsAreValid
  <2>7. ~unsettled => (reviews[r].from = "approved" <=> asset = "proposed")
    BY <1>0, <2>2 DEF FromTellsFile
  <2>8. ~unsettled => Agree'
    BY <2>1, <2>7 DEF Agree
  <2> QED
    BY <1>0, <2>1, <2>3, <2>5, <2>8 DEF ReviewInv, FromTellsFile
<1>8. ASSUME NEW r \in Reviews, RollBackFails(r) PROVE ReviewInv'
  <2>1. unsettled' = TRUE /\ ReviewEnds(r) /\ UNCHANGED <<proposal, asset>>
    BY <1>8 DEF RollBackFails
  <2>2. /\ reviews' \in [Reviews -> UnderWay \union {NoReview}]
        /\ alone' = alone \ {r} /\ StepsAreValid' /\ AloneIsOnly'
    BY <2>1, ReviewOver
  <2> QED
    BY <1>0, <2>1, <2>2 DEF ReviewInv
<1>9. CASE ReviewServerStops
  <2>1. /\ asset' \in {asset, "torn"} /\ reviews' = [r \in Reviews |-> NoReview]
        /\ alone' = {} /\ unsettled' = TRUE /\ proposal' = proposal
    BY <1>9 DEF ReviewServerStops
  <2>2. Busy' = {}
    BY <2>1 DEF Busy
  <2> QED
    BY <1>0, <2>1, <2>2 DEF ReviewInv, StepsAreValid, AloneIsOnly
<1>10. CASE FileAppears
  <2>1. asset = "none" /\ asset' = "other" /\ Busy' = Busy
        /\ UNCHANGED <<proposal, reviews, alone, unsettled>>
    BY <1>10 DEF FileAppears, Busy
  <2>2. StepsAreValid' /\ AloneIsOnly' /\ (~unsettled => FromTellsFile' /\ (Busy = {} => Agree'))
    BY <1>0, <2>1 DEF StepsAreValid, AloneIsOnly, FromTellsFile, AfterUpdate, Agree
  <2> QED
    BY <1>0, <2>1, <2>2 DEF ReviewInv
<1>11. CASE UNCHANGED reviewVars
  BY <1>0, <1>11 DEF reviewVars, ReviewInv, StepsAreValid, AloneIsOnly, FromTellsFile,
                     AfterUpdate, Agree, Busy
<1> QED
  BY <1>1, <1>2, <1>3, <1>4, <1>5, <1>6, <1>7, <1>8, <1>9, <1>10, <1>11 DEF ReviewNext

\* For any number of requests that overlap, fail and are cut short, an approval that
\* goes through and was not disturbed has its file (routes_insight.go:357-440).
THEOREM ApprovedIsAppliedHolds == ReviewSpec => []ApprovedIsApplied
<1>1. ReviewInv => ApprovedIsApplied
  BY DEF ReviewInv, ApprovedIsApplied, Agree
<1> QED
  BY <1>1, ReviewInvInit, ReviewInvStep, PTL DEF ReviewSpec
================================================================================
