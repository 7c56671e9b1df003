-------------------------------- MODULE Signals --------------------------------
(* Signals between workers: rows of a table, direct or to everyone, each with   *)
(* one read flag. A poll selects what is unread and marks it in a transaction   *)
(* that holds a snapshot; the database refuses to write through a snapshot that *)
(* is stale. Polls of one worker may overlap (a client that asks again).        *)
EXTENDS Naturals, FiniteSets

CONSTANTS SignalIds,   \* primary keys of the signals table
          Receivers,   \* workers that poll
          SignalPolls  \* polls in progress at once

Everyone == "*"
Nobody   == "nobody"

ASSUME SignalsAssumption ==
  Nobody \notin SignalPolls /\ Receivers \intersect {Everyone, Nobody} = {}

VARIABLES table,     \* the rows: recipient and read flag, or NoRow
          polls,     \* the transaction of each poll
          writer,    \* the poll that holds the write lock
          answered   \* how many committed polls held each signal

signalVars == <<table, polls, writer, answered>>

NoRow  == [to |-> Nobody, read |-> FALSE]
NoPoll == [at |-> "closed", worker |-> Nobody, seen |-> {}, stale |-> FALSE]

SignalsInit ==
  /\ table = [s \in SignalIds |-> NoRow]
  /\ polls = [p \in SignalPolls |-> NoPoll]
  /\ writer = Nobody
  /\ answered = [s \in SignalIds |-> 0]

Unread(w) == {s \in SignalIds : table[s].to \in {w, Everyone} /\ ~table[s].read}

\* What a commit does to the snapshots of the other transactions.
Outdated(p) == [q \in SignalPolls |->
  IF q # p /\ polls[q].at = "selected" THEN [polls[q] EXCEPT !.stale = TRUE] ELSE polls[q]]

-----------------------------------------------------------------------------
\* CreateSignal; an id that is there already is refused, which is how the
\* guardian's second timeout of a ticket is lost.
CreateSignal(s, to) ==
  /\ writer = Nobody
  /\ table[s] = NoRow
  /\ table' = [table EXCEPT ![s] = [to |-> to, read |-> FALSE]]
  /\ polls' = Outdated(Nobody)
  /\ UNCHANGED <<writer, answered>>

\* Any other write of the database: a heartbeat, a claim, an alert.
OtherWrite ==
  /\ writer = Nobody
  /\ polls' = Outdated(Nobody)
  /\ UNCHANGED <<table, writer, answered>>

PollSelects(p, w) ==
  /\ polls[p] = NoPoll
  /\ polls' = [polls EXCEPT ![p] = [at |-> "selected", worker |-> w,
                                    seen |-> Unread(w), stale |-> FALSE]]
  /\ UNCHANGED <<table, writer, answered>>

Refused(p) == polls[p].stale

\* The UPDATE takes the write lock; nobody else sees it before the commit.
PollMarks(p) ==
  /\ polls[p].at = "selected" /\ polls[p].seen # {}
  /\ writer = Nobody
  /\ ~Refused(p)
  /\ writer' = p
  /\ polls' = [polls EXCEPT ![p].at = "marked"]
  /\ UNCHANGED <<table, answered>>

Answer(p) ==
  answered' = [s \in SignalIds |->
                 IF s \in polls[p].seen THEN answered[s] + 1 ELSE answered[s]]

\* Mutant of PollFails: the error of the UPDATE is not looked at.
PollFailsUnnoticed(p) ==
  /\ polls[p].at = "selected" /\ polls[p].seen # {}
  /\ Refused(p)
  /\ polls' = [polls EXCEPT ![p] = NoPoll]
  /\ Answer(p)
  /\ UNCHANGED <<table, writer>>

PollFails(p) ==
  /\ polls[p].at = "selected" /\ polls[p].seen # {}
  /\ Refused(p)
  /\ polls' = [polls EXCEPT ![p] = NoPoll]
  /\ UNCHANGED <<table, writer, answered>>

\* The UPDATE repeats the condition of the SELECT, not its rows.
PollCommits(p) ==
  /\ polls[p].at = "marked"
  /\ table' = [s \in SignalIds |->
                 IF s \in Unread(polls[p].worker) THEN [table[s] EXCEPT !.read = TRUE]
                                                  ELSE table[s]]
  /\ polls' = [Outdated(p) EXCEPT ![p] = NoPoll]
  /\ writer' = Nobody
  /\ Answer(p)

PollFindsNothing(p) ==
  /\ polls[p].at = "selected" /\ polls[p].seen = {}
  /\ polls' = [polls EXCEPT ![p] = NoPoll]
  /\ UNCHANGED <<table, writer, answered>>

SignalsNext ==
  \/ \E s \in SignalIds, to \in Receivers \union {Everyone} : CreateSignal(s, to)
  \/ OtherWrite
  \/ \E p \in SignalPolls :
       \/ \E w \in Receivers : PollSelects(p, w)
       \/ PollMarks(p) \/ PollFails(p) \/ PollCommits(p) \/ PollFindsNothing(p)

\* A poll that began goes on. Worker w, when it has unread signals, polls again and
\* again, and again and again no other write comes between the two statements.
SignalsFairness(w) ==
  /\ \A p \in SignalPolls :
       WF_signalVars(PollMarks(p) \/ PollFails(p) \/ PollCommits(p) \/ PollFindsNothing(p))
  /\ SF_signalVars(Unread(w) # {} /\ \E p \in SignalPolls : PollSelects(p, w))
  /\ SF_signalVars(\E p \in SignalPolls : polls[p].worker = w /\ PollMarks(p))

SignalsSpec == SignalsInit /\ [][SignalsNext]_signalVars /\ \A w \in Receivers : SignalsFairness(w)

-----------------------------------------------------------------------------
SignalsTypeOK ==
  /\ table \in [SignalIds -> [to : Receivers \union {Everyone, Nobody}, read : BOOLEAN]]
  /\ polls \in [SignalPolls -> [at : {"closed", "selected", "marked"},
                                worker : Receivers \union {Nobody},
                                seen : SUBSET SignalIds, stale : BOOLEAN]]
  /\ writer \in SignalPolls \union {Nobody}
  /\ answered \in [SignalIds -> Nat]

\* A signal is marked read exactly when one poll handed it out, and never twice:
\* the UPDATE marks rows by condition, and no row comes in between the SELECT and
\* it (db/swarm.go:629-660).
ReadMeansHandedOutOnce ==
  \A s \in SignalIds : answered[s] = IF table[s].read THEN 1 ELSE 0

\* A direct signal reaches a worker that keeps polling, whatever other workers, other
\* writers and overlapping polls do (db/swarm.go:629-660).
DirectSignalsHandedOut(w) ==
  \A s \in SignalIds : table[s].to = w ~> answered[s] > 0
=============================================================================
