------------------------------ MODULE InboxWatcher -----------------------------
(* The inbox of the vault, for one path: a write makes an event, an event arms a *)
(* timer or resets the one in the map, a timer that fires starts a goroutine that *)
(* takes its entry out of the map, ingests the file, which takes long, and moves  *)
(* it to the archive. Timers and goroutines do not know each other: two may be on *)
(* one file.                                                                      *)
EXTENDS Naturals, FiniteSets

CONSTANTS Timers,      \* timers that exist at once
          Ingests,     \* goroutines that exist at once
          MaxWrites    \* bound of the model: writes of the file

ASSUME InboxAssumption == MaxWrites \in Nat

NoTimer == "no timer"
NoText  == 0

VARIABLES inbox,      \* the version of the file in the inbox, or NoText
          written,    \* the last version that was written
          noticed,    \* every write so far had its event taken out of the channel
          pending,    \* w.pending[path], or NoTimer
          armed,      \* timers that will fire
          ingests,    \* where each goroutine is and what it read
          rawPages,   \* versions saved as a raw page
          archived,   \* versions in the archive
          excused     \* versions nobody has to see to any more

inboxVars == <<inbox, written, noticed, pending, armed, ingests, rawPages, archived,
               excused>>

Ingest(at, text) == [at |-> at, text |-> text]
NoIngest == Ingest("idle", NoText)

InboxInit ==
  /\ inbox = NoText /\ written = 0 /\ noticed = TRUE
  /\ pending = NoTimer /\ armed = {}
  /\ ingests = [g \in Ingests |-> NoIngest]
  /\ rawPages = {} /\ archived = {} /\ excused = {}

Reading(g)   == ingests[g].at \in {"forget", "read"}
Ingesting(g) == ingests[g].at \in {"save", "archive"}

-----------------------------------------------------------------------------
WriteFile ==
  /\ written < MaxWrites
  /\ written' = written + 1
  /\ inbox' = written'
  /\ noticed' = FALSE
  /\ UNCHANGED <<pending, armed, ingests, rawPages, archived, excused>>

\* scheduleIngest: Reset arms a timer again even if it has just fired and its
\* goroutine waits for the lock.
Rearm(t) == armed' = armed \union {t}

NoticeEvent ==
  /\ ~noticed
  /\ noticed' = TRUE
  /\ \/ pending # NoTimer /\ Rearm(pending) /\ UNCHANGED pending
     \/ /\ pending = NoTimer
        /\ \E t \in Timers \ armed :
             armed' = armed \union {t} /\ pending' = t
  /\ UNCHANGED <<inbox, written, ingests, rawPages, archived, excused>>

TimerFires(t, g) ==
  /\ t \in armed
  /\ ingests[g] = NoIngest
  /\ armed' = armed \ {t}
  /\ ingests' = [ingests EXCEPT ![g] = Ingest("forget", NoText)]
  /\ UNCHANGED <<inbox, written, noticed, pending, rawPages, archived, excused>>

\* The closure deletes the entry of the path, whichever timer is there now.
ForgetTimer(g) ==
  /\ ingests[g].at = "forget"
  /\ pending' = NoTimer
  /\ ingests' = [ingests EXCEPT ![g].at = "read"]
  /\ UNCHANGED <<inbox, written, noticed, armed, rawPages, archived, excused>>

\* Mutant of NothingToRead: a file that somebody ingests is left to him.
NothingToReadTwice(g) ==
  inbox = NoText \/ \E o \in Ingests \ {g} : Ingesting(o)

NothingToRead(g) == inbox = NoText

\* A file that is gone is left alone.
ReadInbox(g) ==
  /\ ingests[g].at = "read"
  /\ ingests' = [ingests EXCEPT ![g] =
                   IF NothingToRead(g) THEN NoIngest ELSE Ingest("save", inbox)]
  /\ UNCHANGED <<inbox, written, noticed, pending, armed, rawPages, archived, excused>>

SaveRawPage(g) ==
  /\ ingests[g].at = "save"
  /\ rawPages' = rawPages \union {ingests[g].text}
  /\ ingests' = [ingests EXCEPT ![g].at = "archive"]
  /\ UNCHANGED <<inbox, written, noticed, pending, armed, archived, excused>>

\* The text cannot be extracted or saved: the file stays, and nobody tries again
\* until it is written again.
IngestFails(g) ==
  /\ ingests[g].at = "save"
  /\ ingests' = [ingests EXCEPT ![g] = NoIngest]
  /\ excused' = excused \union {ingests[g].text}
  /\ UNCHANGED <<inbox, written, noticed, pending, armed, rawPages, archived>>

\* The rename moves what is there by now, and may fail.
ArchiveFile(g) ==
  /\ ingests[g].at = "archive"
  /\ ingests' = [ingests EXCEPT ![g] = NoIngest]
  /\ \/ /\ inbox # NoText
        /\ archived' = archived \union {inbox} /\ inbox' = NoText
     \/ UNCHANGED <<archived, inbox>>
  /\ UNCHANGED <<written, noticed, pending, armed, rawPages, excused>>

\* The server stops; the watcher that starts later looks at no file that is there
\* already.
RestartWatcher ==
  /\ \/ armed # {} \/ ~noticed \/ \E g \in Ingests : ingests[g] # NoIngest
  /\ noticed' = TRUE
  /\ pending' = NoTimer /\ armed' = {}
  /\ ingests' = [g \in Ingests |-> NoIngest]
  /\ excused' = excused \union {inbox}
  /\ UNCHANGED <<inbox, written, rawPages, archived>>

InboxNext ==
  \/ WriteFile \/ NoticeEvent \/ RestartWatcher
  \/ \E g \in Ingests :
       \/ \E t \in Timers : TimerFires(t, g)
       \/ ForgetTimer(g) \/ ReadInbox(g) \/ SaveRawPage(g) \/ IngestFails(g)
       \/ ArchiveFile(g)

InboxSpec == InboxInit /\ [][InboxNext]_inboxVars

-----------------------------------------------------------------------------
InboxTypeOK ==
  /\ inbox \in 0 .. MaxWrites /\ written \in 0 .. MaxWrites
  /\ noticed \in BOOLEAN
  /\ pending \in Timers \union {NoTimer} /\ armed \subseteq Timers
  /\ ingests \in [Ingests -> [at : {"idle", "forget", "read", "save", "archive"},
                              text : 0 .. MaxWrites]]
  /\ rawPages \subseteq 1 .. MaxWrites /\ archived \subseteq 1 .. MaxWrites
  /\ excused \subseteq 0 .. MaxWrites

\* A file in the inbox is not forgotten: its text is a page, or somebody has yet
\* to read it or to save it; only a failure and a restart leave it there for good.
\* Timers that fire twice and entries that another's goroutine deletes do no harm
\* (wiki_engine/inbox_watcher.go:112-150).
InboxNotForgotten ==
  inbox # NoText /\ inbox \notin rawPages \union excused =>
    \/ ~noticed \/ armed # {}
    \/ \E g \in Ingests : Reading(g) \/ (ingests[g].at = "save" /\ ingests[g].text = inbox)

\* A text that was archived without being a page was written while an ingest of
\* an older one was under way, and then the archiving goroutine's own text is
\* older (wiki_engine/inbox_watcher.go:131-165: read, ask, move).
ArchivedIsPageOrOvertook ==
  \A v \in archived' \ archived :
    v \in rawPages \/ \E g \in Ingests : Ingesting(g) /\ ingests[g].text < v

\* No step forgets a file of the inbox or archives one in vain.
InboxKept == [][ArchivedIsPageOrOvertook /\ InboxNotForgotten']_inboxVars
=============================================================================
