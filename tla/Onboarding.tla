------------------------------- MODULE Onboarding ------------------------------
(* Onboarding jobs: a request starts a goroutine unless the shared progress says *)
(* that one is running; the goroutine scans the project, plans one wiki page per *)
(* title, and generates the pages that are not there. The progress is one        *)
(* pointer for all jobs, and the last report of a job is not its last write.     *)
EXTENDS Naturals, FiniteSets

CONSTANTS MaxJobs,      \* bound of the model: jobs that start
          Titles,       \* titles of the planned pages
          ListLimit,    \* rows ListPages returns when no limit is asked for
          MaxPages      \* bound of the model: pages there are or are being asked for

ASSUME OnboardAssumption == IsFiniteSet(Titles) /\ ListLimit \in Nat /\ MaxPages \in Nat

OnboardJobs == 1 .. MaxJobs   \* in the order they start

VARIABLES progress,     \* the status of s.onboardingProgress
          jobs,         \* where each job is
          published,    \* number of published pages of each title
          stale,        \* number of stale pages of each title
          jobsOverlapped,   \* two jobs have been at work on pages at once
          storeFailed   \* a listing or a deletion has failed, which is only logged

pageVars    == <<published, stale, jobsOverlapped, storeFailed>>
onboardVars == <<progress, jobs, pageVars>>

Absent == [t \in Titles |-> "absent"]
NoTitle == "no title"
Job(at, todo, seen, page) == [at |-> at, todo |-> todo, seen |-> seen, page |-> page]
IdleJob == Job("idle", {}, Absent, NoTitle)
GoneJob == Job("gone", {}, Absent, NoTitle)

Active(j)     == jobs[j].at \notin {"idle", "gone"}
Generating(j) == jobs[j].at \in {"list", "pages", "asking"}
Finished      == {"none", "complete", "failed"}

OnboardInit ==
  /\ progress = "none"
  /\ jobs = [j \in OnboardJobs |-> IdleJob]
  /\ published = [t \in Titles |-> 0]
  /\ stale = [t \in Titles |-> 0]
  /\ jobsOverlapped = FALSE /\ storeFailed = FALSE

-----------------------------------------------------------------------------
MayStart == progress \in Finished

StartJob(j) ==
  /\ jobs[j] = IdleJob /\ \A i \in 1 .. j - 1 : jobs[i] # IdleJob
  /\ MayStart
  /\ progress' = "scanning"
  /\ jobs' = [jobs EXCEPT ![j] = Job("scan", Titles, Absent, NoTitle)]
  /\ UNCHANGED pageVars

\* The scan, or making the client, fails; the status goes to whatever progress
\* the pointer holds now.
JobFails(j) ==
  /\ jobs[j].at \in {"scan", "prepare"}
  /\ progress' = "failed"
  /\ jobs' = [jobs EXCEPT ![j] = GoneJob]
  /\ UNCHANGED pageVars

ScanDone(j) ==
  /\ jobs[j].at = "scan"
  /\ progress' = "generating"
  /\ jobs' = [jobs EXCEPT ![j].at = "prepare"]
  /\ UNCHANGED pageVars

Plan(j) ==
  /\ jobs[j].at = "prepare"
  /\ progress' = "scanning"
  /\ jobs' = [jobs EXCEPT ![j].at = "list"]
  /\ jobsOverlapped' = (jobsOverlapped \/ \E o \in OnboardJobs \ {j} : Generating(o))
  /\ UNCHANGED <<published, stale, storeFailed>>

\* existingByTitle keeps one page per title, of the rows ListPages returns: all of
\* them, or any ListLimit of them when there are more, or none when it fails.
PageRows == UNION {{t} \X (1 .. published[t] + stale[t]) : t \in Titles}
Rows     == Cardinality(PageRows)

ListedAs(t) ==
  {k \in {"published", "stale", "absent"} :
     \/ k = "published" /\ published[t] > 0
     \/ k = "stale" /\ stale[t] > 0
     \/ k = "absent" /\ (published[t] + stale[t] = 0 \/ Rows > ListLimit)}

ListExisting(j) ==
  /\ jobs[j].at = "list"
  /\ \E seen \in [Titles -> {"published", "stale", "absent"}] :
       /\ \/ (\A t \in Titles : seen[t] \in ListedAs(t)) /\ UNCHANGED storeFailed
          \/ seen = Absent /\ storeFailed' = TRUE
       /\ jobs' = [jobs EXCEPT ![j].at = "pages", ![j].seen = seen]
  /\ UNCHANGED <<progress, published, stale, jobsOverlapped>>

Skips(j, t) == jobs[j].seen[t] = "published"

SkipPage(j, t) ==
  /\ jobs[j].at = "pages" /\ t \in jobs[j].todo
  /\ Skips(j, t)
  /\ progress' = "generating"
  /\ jobs' = [jobs EXCEPT ![j].todo = @ \ {t}]
  /\ UNCHANGED pageVars

\* A stale page is deleted before its successor is asked for.
BeginPage(j, t) ==
  /\ jobs[j].at = "pages" /\ t \in jobs[j].todo
  /\ ~Skips(j, t)
  /\ Rows + Cardinality({i \in OnboardJobs : jobs[i].at = "asking"}) < MaxPages
  /\ progress' = "generating"
  /\ jobs' = [jobs EXCEPT ![j].at = "asking", ![j].todo = @ \ {t}, ![j].page = t]
  /\ \/ /\ jobs[j].seen[t] = "stale" /\ stale[t] > 0
        /\ stale' = [stale EXCEPT ![t] = @ - 1] /\ UNCHANGED storeFailed
     \/ jobs[j].seen[t] = "stale" /\ storeFailed' = TRUE /\ UNCHANGED stale
     \/ jobs[j].seen[t] # "stale" /\ UNCHANGED <<stale, storeFailed>>
  /\ UNCHANGED <<published, jobsOverlapped>>

\* The answer is saved, or there is none and the page is counted as failed.
EndPage(j) ==
  LET t == jobs[j].page IN
  /\ jobs[j].at = "asking"
  /\ jobs' = [jobs EXCEPT ![j].at = "pages", ![j].page = NoTitle]
  /\ published' \in {published, [published EXCEPT ![t] = @ + 1]}
  /\ UNCHANGED <<progress, stale, jobsOverlapped, storeFailed>>

\* Links and the vault follow, each with a report ("linking", "syncing") that
\* says like "generating" that the job goes on.
ReportStage(j) ==
  /\ jobs[j].at = "pages"
  /\ progress' = "generating"
  /\ UNCHANGED <<jobs, pageVars>>

\* All pages are through, or the token budget is. The last report says "complete";
\* the goroutine is not over.
ReportComplete(j) ==
  /\ jobs[j].at = "pages"
  /\ progress' = "complete"
  /\ jobs' = [jobs EXCEPT ![j] = Job("finish", {}, Absent, NoTitle)]
  /\ UNCHANGED pageVars

\* The goroutine's own last write, to whatever progress the pointer holds now.
FinishJob(j) ==
  /\ jobs[j].at = "finish"
  /\ progress' = "complete"
  /\ jobs' = [jobs EXCEPT ![j] = GoneJob]
  /\ UNCHANGED pageVars

-----------------------------------------------------------------------------
\* Maintenance marks a page stale.
PageGoesStale(t) ==
  /\ published[t] > 0
  /\ published' = [published EXCEPT ![t] = @ - 1]
  /\ stale' = [stale EXCEPT ![t] = @ + 1]
  /\ UNCHANGED <<progress, jobs, jobsOverlapped, storeFailed>>

\* Mutant of ProgressAfterRestart: the progress is stored.
ProgressKept == progress

ProgressAfterRestart == "none"

\* The server stops and starts again: the pages stay, the progress does not.
Restart ==
  /\ \E j \in OnboardJobs : Active(j)
  /\ progress' = ProgressAfterRestart
  /\ jobs' = [j \in OnboardJobs |-> IF Active(j) THEN GoneJob ELSE jobs[j]]
  /\ UNCHANGED pageVars

OnboardNext ==
  \/ \E j \in OnboardJobs :
       \/ StartJob(j) \/ JobFails(j) \/ ScanDone(j) \/ Plan(j) \/ ListExisting(j)
       \/ EndPage(j) \/ ReportStage(j) \/ ReportComplete(j) \/ FinishJob(j)
       \/ \E t \in Titles : SkipPage(j, t) \/ BeginPage(j, t)
  \/ \E t \in Titles : PageGoesStale(t)
  \/ Restart

OnboardSpec == OnboardInit /\ [][OnboardNext]_onboardVars

-----------------------------------------------------------------------------
OnboardTypeOK ==
  /\ progress \in Finished \union {"scanning", "generating"}
  /\ jobs \in [OnboardJobs ->
       [at : {"idle", "scan", "prepare", "list", "pages", "asking", "finish", "gone"},
        todo : SUBSET Titles, seen : [Titles -> {"published", "stale", "absent"}],
        page : Titles \union {NoTitle}]]
  /\ published \in [Titles -> Nat] /\ stale \in [Titles -> Nat]
  /\ jobsOverlapped \in BOOLEAN /\ storeFailed \in BOOLEAN

\* Onboarding again, after a crash too, makes no second page of a title, as long
\* as the jobs did not overlap, the listing and the deletion of stale pages did
\* not fail, and the pages fit the rows of one listing
\* (internal/insight/onboarding/orchestrator.go:122-185: pages are saved one by
\* one and looked up by title).
OnePagePerTitle ==
  ~jobsOverlapped /\ ~storeFailed /\ Cardinality(Titles) <= ListLimit
    => \A t \in Titles : published[t] + stale[t] <= 1

\* The progress never says that a job is running when none is, which would lock
\* onboarding out for good; it may say the contrary
\* (api/routes_onboarding.go:74-97, 192-200, 224-233: jobs write each other's
\* progress).
NeverLockedOut == progress \notin Finished => \E j \in OnboardJobs : Active(j)

\* Repeated jobs make no second page of a title, and none is refused for ever
\* (api/routes_onboarding.go:106-258).
OnboardingSound == OnePagePerTitle /\ NeverLockedOut
=============================================================================
