-------------------------------- MODULE Terminal -------------------------------
(* Terminals in the browser: a connection creates a session, which is a shell on  *)
(* a pty, and the manager's table finds sessions by the id the client chose. A    *)
(* watcher of each session waits for its shell and forgets the id; a reader       *)
(* streams the output and ends the connection it was started for.                 *)
EXTENDS Naturals

CONSTANTS TermConns,   \* WebSocket connections
          TermIds,     \* ids of sessions
          MaxShells    \* sessions, numbered in the order in which they are created

ASSUME TerminalAssumption == MaxShells \in Nat

VARIABLES conns,     \* each connection: its handler, the session it types into
          shells,    \* each session: its shell, its pty, its goroutines
          byId       \* the session of each id, NoShell if there is none

termVars == <<conns, shells, byId>>

Sessions == 1 .. MaxShells
NoShell == 0

\* rivals: the sessions of the same id whose watchers were still to come when it was entered.
NoSession == [proc |-> "none", ptmx |-> "none", id |-> "none", reads |-> FALSE, conn |-> "none",
              rivals |-> {}]

TermInit ==
  /\ conns = [c \in TermConns |-> [at |-> "serving", left |-> FALSE, cancelled |-> FALSE,
                                   active |-> NoShell, wants |-> "none"]]
  /\ shells = [s \in Sessions |-> NoSession]
  /\ byId = [i \in TermIds |-> NoShell]

Unused(s) == shells[s] = NoSession /\ \A t \in 1 .. s - 1 : shells[t] # NoSession

-----------------------------------------------------------------------------
\* Close kills the shell, if it still runs, and closes the pty.
Closed(c) ==
  [s \in Sessions |->
     IF s # conns[c].active THEN shells[s]
     ELSE [shells[s] EXCEPT !.proc = IF @ = "running" THEN "exited" ELSE @,
                            !.ptmx = "closed"]]

CreateCloses(c, i) ==
  /\ conns[c].at = "serving"
  /\ shells' = Closed(c)
  /\ conns' = [conns EXCEPT ![c].at = "creating", ![c].active = NoShell, ![c].wants = i]
  /\ UNCHANGED byId

\* Mutant of Entered: an id that is in use keeps its session.
EnteredIfFree(i, s) == IF byId[i] = NoShell THEN [byId EXCEPT ![i] = s] ELSE byId

Entered(i, s) == [byId EXCEPT ![i] = s]

Rivals(i) == {t \in Sessions : shells[t].id = i /\ shells[t].proc # "gone"}

\* The shell is started, entered under its id whoever is there, and watched.
CreateEnters(c, s) ==
  /\ conns[c].at = "creating" /\ Unused(s)
  /\ shells' = [shells EXCEPT ![s] = [proc |-> "running", ptmx |-> "open",
                                      id |-> conns[c].wants, reads |-> TRUE, conn |-> c,
                                      rivals |-> Rivals(conns[c].wants)]]
  /\ byId' = Entered(conns[c].wants, s)
  /\ conns' = [conns EXCEPT ![c].at = "serving", ![c].active = s, ![c].wants = "none"]

CreateFails(c) ==
  /\ conns[c].at = "creating"
  /\ conns' = [conns EXCEPT ![c].at = "serving", ![c].wants = "none"]
  /\ UNCHANGED <<shells, byId>>

ShellExits(s) ==
  /\ shells[s].proc = "running"
  /\ shells' = [shells EXCEPT ![s].proc = "exited"]
  /\ UNCHANGED <<conns, byId>>

Forgotten(i) == [byId EXCEPT ![i] = NoShell]

WatcherForgets(s) ==
  /\ shells[s].proc = "exited"
  /\ byId' = Forgotten(shells[s].id)
  /\ shells' = [shells EXCEPT ![s].proc = "gone"]
  /\ UNCHANGED conns

\* The end of the output is the end of the connection.
ReaderEnds(s) ==
  /\ shells[s].reads
  /\ shells[s].ptmx = "closed" \/ shells[s].proc # "running"
  /\ shells' = [shells EXCEPT ![s].reads = FALSE]
  /\ conns' = [conns EXCEPT ![shells[s].conn].cancelled = TRUE]
  /\ UNCHANGED byId

ClientLeaves(c) ==
  /\ ~conns[c].left
  /\ conns' = [conns EXCEPT ![c].left = TRUE]
  /\ UNCHANGED <<shells, byId>>

\* The handler returns and leaves its session as it is.
ServeReturns(c) ==
  /\ conns[c].at = "serving" /\ (conns[c].left \/ conns[c].cancelled)
  /\ conns' = [conns EXCEPT ![c].at = "closed"]
  /\ UNCHANGED <<shells, byId>>

TermNext ==
  \/ \E c \in TermConns :
       \/ \E i \in TermIds : CreateCloses(c, i)
       \/ \E s \in Sessions : CreateEnters(c, s)
       \/ CreateFails(c) \/ ClientLeaves(c) \/ ServeReturns(c)
  \/ \E s \in Sessions : ShellExits(s) \/ WatcherForgets(s) \/ ReaderEnds(s)

\* The goroutines of a session go on.
TermFairness ==
  \A s \in Sessions : WF_termVars(WatcherForgets(s)) /\ WF_termVars(ReaderEnds(s))

TermSpec == TermInit /\ [][TermNext]_termVars /\ TermFairness

-----------------------------------------------------------------------------
TermTypeOK ==
  /\ conns \in [TermConns -> [at : {"serving", "creating", "closed"}, left : BOOLEAN,
                              cancelled : BOOLEAN, active : Sessions \union {NoShell},
                              wants : TermIds \union {"none"}]]
  /\ shells \in [Sessions -> [proc : {"none", "running", "exited", "gone"},
                              ptmx : {"none", "open", "closed"}, reads : BOOLEAN,
                              id : TermIds \union {"none"}, conn : TermConns \union {"none"},
                              rivals : SUBSET Sessions]]
  /\ byId \in [TermIds -> Sessions \union {NoShell}]

\* A connection has one open pty at most, however often it creates a session and
\* whichever of these creations fail (terminal/ws_terminal.go:89-99).
OnePtyPerConnection ==
  \A s, t \in Sessions :
    shells[s].ptmx = "open" /\ shells[t].ptmx = "open" /\ shells[s].conn = shells[t].conn => s = t

\* The newest session of an id is found while its shell runs, whatever ended before it
\* was entered. Only the watcher of an older session that was still to come then takes
\* the id from it (terminal/pty.go:55-66); the id leads nowhere from then on, and never
\* to a session that was replaced.
NewestIsFound ==
  /\ \A s \in Sessions :
       /\ shells[s].proc = "running"
       /\ \A t \in Sessions : t # s /\ shells[t].id = shells[s].id => t < s
       /\ \A t \in shells[s].rivals : shells[t].proc # "gone"
       => byId[shells[s].id] = s
  /\ \A i \in TermIds, s \in Sessions :
       byId[i] # NoShell /\ shells[s].proc # "none" /\ shells[s].id = i => s <= byId[i]

\* A session whose shell was killed or has exited is not found for ever
\* (terminal/pty.go:59-66).
DeadAreForgotten ==
  \A s \in Sessions : shells[s].proc = "exited" ~> \A i \in TermIds : byId[i] # s

\* Ptys do not pile up, and what runs is found.
TerminalsKept == OnePtyPerConnection /\ NewestIsFound
=============================================================================
