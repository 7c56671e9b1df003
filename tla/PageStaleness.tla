------------------------------ MODULE PageStaleness ------------------------------
(* How a page of the wiki gets stale: the check at start, which raises the score    *)
(* of a page whose source file changed since the commit it noted last               *)
(* (insight/engine.go), and the maintenance, which computes the score anew          *)
(* (wiki_engine/engine.go). Both read a row and write a score later, beside each    *)
(* other and beside the analysis that writes the page anew (db/wiki.go).            *)
(* One page, one source file. Scores are in tenths, ages in units of ten days.      *)
EXTENDS Naturals, FiniteSets

CONSTANTS MaxCommits,   \* bound: commits of the project
          MaxStarts     \* bound: starts of the server

ASSUME PageAssumption == MaxCommits \in Nat \ {0} /\ MaxStarts \in Nat

StoreThreshold == 7
FullAge == 3

VARIABLES head,        \* commits of the project so far
          touching,    \* those that change the source file
          knownHead,   \* baseline wiki_last_head_sha, 0 when there is none
          page,        \* row of the page
          startup,     \* where the check of this start is: its two commits and its score
          upkeep,      \* the score maintenance is about to write, or that it rests
          starts,      \* starts of the server so far
          raised,      \* changes of the file for which the score was raised
          givenUp      \* changes no check acts upon: older than the first one, or it failed

stalenessVars == <<head, touching, knownHead, page, startup, upkeep, starts, raised, givenUp>>

NotStarted == [pc |-> "down", from |-> 0, to |-> 0, score |-> 0]

Resting == 99

PageInit ==
  /\ head = 1 /\ touching = {} /\ knownHead = 0
  /\ page \in [score : {0}, age : {0}, first : {TRUE}, linked : BOOLEAN,
               status : {"published", "draft"}]
  /\ startup = NotStarted /\ upkeep = Resting /\ starts = 0
  /\ raised = {} /\ givenUp = {}

Between(from, to) == {c \in touching : from < c /\ c <= to}

-----------------------------------------------------------------------------
(* UpdateWikiPageStaleness: the status follows from the score alone, and the page    *)
(* counts as updated.                                                               *)
Scored(score) ==
  [page EXCEPT !.score = score, !.age = 0,
               !.status = IF score > StoreThreshold THEN "stale" ELSE "published"]

\* The project goes on.
CommitToProject(touches) ==
  /\ head < MaxCommits
  /\ head' = head + 1
  /\ touching' = IF touches THEN touching \union {head + 1} ELSE touching
  /\ UNCHANGED <<knownHead, page, startup, upkeep, starts, raised, givenUp>>

\* The server starts, and the check with it; git says where HEAD is, or it does not.
ServerStarts ==
  /\ startup.pc = "down" /\ starts < MaxStarts
  /\ starts' = starts + 1
  /\ \/ startup' = [NotStarted EXCEPT !.pc = "known", !.to = head]
     \/ startup' = [NotStarted EXCEPT !.pc = "done"]
  /\ UNCHANGED <<head, touching, knownHead, page, upkeep, raised, givenUp>>

\* A baseline that cannot be read is none; with none, there is nothing to compare with.
ReadKnownHead ==
  /\ startup.pc = "known"
  /\ \E from \in {knownHead, 0} :
       /\ startup' = [startup EXCEPT !.from = from,
                        !.pc = IF from \in {0, startup.to} THEN "note" ELSE "diff"]
       /\ givenUp' = IF from = 0 THEN givenUp \union Between(0, startup.to) ELSE givenUp
  /\ UNCHANGED <<head, touching, knownHead, page, upkeep, starts, raised>>

ChangesToActUpon == Between(startup.from, startup.to)

\* A check that a failure stops, at the diff, the search for pages, or the page itself.
GivesUp ==
  /\ startup.pc \in {"diff", "page", "raise"}
  /\ startup' = [startup EXCEPT !.pc = "note"]
  /\ givenUp' = givenUp \union ChangesToActUpon
  /\ UNCHANGED <<head, touching, knownHead, page, upkeep, starts, raised>>

DiffAndFindPages ==
  /\ startup.pc = "diff"
  /\ startup' = [startup EXCEPT !.pc = IF ChangesToActUpon = {} THEN "note" ELSE "page"]
  /\ UNCHANGED <<head, touching, knownHead, page, upkeep, starts, raised, givenUp>>

ReadPageScore ==
  /\ startup.pc = "page"
  /\ startup' = [startup EXCEPT !.pc = "raise", !.score = page.score]
  /\ UNCHANGED <<head, touching, knownHead, page, upkeep, starts, raised, givenUp>>

RaiseScore ==
  /\ startup.pc = "raise"
  /\ page' = Scored(IF startup.score + 3 > 10 THEN 10 ELSE startup.score + 3)
  /\ raised' = raised \union ChangesToActUpon
  /\ startup' = [startup EXCEPT !.pc = "note"]
  /\ UNCHANGED <<head, touching, knownHead, upkeep, starts, givenUp>>

\* Mutant of Noted: where HEAD is now.
NotedNow == head

\* The commit that is noted: where HEAD was when the check began.
Noted == startup.to

\* Deferred, so it comes last on every path; when it fails, the old one stays.
NoteHead ==
  /\ startup.pc = "note"
  /\ knownHead' \in {Noted, knownHead}
  /\ startup' = [startup EXCEPT !.pc = "done"]
  /\ UNCHANGED <<head, touching, page, upkeep, starts, raised, givenUp>>

\* The process ends, in the middle of anything.
ServerStops ==
  /\ startup.pc # "down"
  /\ startup' = NotStarted /\ upkeep' = Resting
  /\ UNCHANGED <<head, touching, knownHead, page, starts, raised, givenUp>>

\* computeStaleness.
Staleness ==
  page.age + (IF page.first THEN 2 ELSE 0) + (IF page.linked THEN 0 ELSE 2)

\* Maintenance lists the published pages and computes from what it listed.
UpkeepComputes ==
  /\ startup.pc # "down" /\ upkeep = Resting
  /\ page.status = "published"
  /\ upkeep' = Staleness
  /\ UNCHANGED <<head, touching, knownHead, page, startup, starts, raised, givenUp>>

UpkeepScores ==
  /\ upkeep # Resting
  /\ page' = Scored(upkeep)
  /\ upkeep' = Resting
  /\ UNCHANGED <<head, touching, knownHead, startup, starts, raised, givenUp>>

\* The query or the update fails; the page is left out.
UpkeepSkips ==
  /\ upkeep # Resting /\ upkeep' = Resting
  /\ UNCHANGED <<head, touching, knownHead, page, startup, starts, raised, givenUp>>

\* The analysis writes the page anew.
WritePage ==
  /\ startup.pc # "down"
  /\ page' = [page EXCEPT !.score = 0, !.age = 0, !.first = FALSE, !.status = "published"]
  /\ UNCHANGED <<head, touching, knownHead, startup, upkeep, starts, raised, givenUp>>

TenDaysPass ==
  /\ page.age < FullAge
  /\ startup.pc \in {"down", "done"} /\ upkeep = Resting
  /\ page' = [page EXCEPT !.age = @ + 1]
  /\ UNCHANGED <<head, touching, knownHead, startup, upkeep, starts, raised, givenUp>>

PageNext ==
  \/ \E touches \in BOOLEAN : CommitToProject(touches)
  \/ ServerStarts \/ ReadKnownHead \/ GivesUp \/ DiffAndFindPages \/ ReadPageScore
  \/ RaiseScore \/ NoteHead \/ ServerStops
  \/ UpkeepComputes \/ UpkeepScores \/ UpkeepSkips
  \/ WritePage \/ TenDaysPass

PageSpec == PageInit /\ [][PageNext]_stalenessVars

-----------------------------------------------------------------------------
PageTypeOK ==
  /\ head \in 1..MaxCommits /\ touching \subseteq 2..head
  /\ knownHead \in 0..head
  /\ page \in [score : 0..10, age : 0..FullAge, first : BOOLEAN, linked : BOOLEAN,
               status : {"published", "draft", "stale"}]
  /\ startup \in [pc : {"down", "known", "diff", "page", "raise", "note", "done"},
                  from : 0..head, to : 0..head, score : 0..10]
  /\ upkeep \in 0..10 \union {Resting}
  /\ starts \in 0..MaxStarts
  /\ raised \subseteq touching /\ givenUp \subseteq touching

\* insight/engine.go:657-742: a change of the source file that lies behind the noted
\* commit was acted upon or given up, whatever is committed while the check runs and
\* wherever the server is stopped: none slips between two starts.
ChangesAreNoticed ==
  Between(0, knownHead) \subseteq raised \union givenUp
=============================================================================
