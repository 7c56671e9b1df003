---------------------------------- MODULE Hub ----------------------------------
(* The hub that sends what happens to every connected browser. A broadcast holds  *)
(* the read lock for its whole loop and skips a client whose channel is full; the *)
(* handler of a connection takes the write lock to enter and to leave. A lock     *)
(* that is waited for keeps new broadcasts out, so one that blocked would stop    *)
(* everything.                                                                    *)
EXTENDS Naturals

CONSTANTS HubClients,   \* connections, each once
          Broadcasters, \* goroutines that broadcast, over and over
          SendBuffer    \* capacity of a client's channel

ASSUME HubAssumption == SendBuffer \in Nat \ {0}

VARIABLES registered,   \* clients in the hub's map
          queued,       \* messages in each client's channel
          handlers,     \* where the handler, which reads, of each client is
          writers,      \* where the goroutine is that writes to each client
          hubCancelled, \* clients whose context is cancelled
          sending       \* the clients each broadcast has still to send to

hubVars == <<registered, queued, handlers, writers, hubCancelled, sending>>

HubInit ==
  /\ registered = {} /\ hubCancelled = {}
  /\ queued = [c \in HubClients |-> 0]
  /\ handlers = [c \in HubClients |-> "none"]
  /\ writers = [c \in HubClients |-> "none"]
  /\ sending = [b \in Broadcasters |-> {}]

LockIsWaitedFor == \E c \in HubClients : handlers[c] \in {"entering", "leaving"}

LockIsFree == \A b \in Broadcasters : sending[b] = {}

-----------------------------------------------------------------------------
Connect(c) ==
  /\ handlers[c] = "none"
  /\ handlers' = [handlers EXCEPT ![c] = "entering"]
  /\ UNCHANGED <<registered, queued, writers, hubCancelled, sending>>

Register(c) ==
  /\ handlers[c] = "entering" /\ LockIsFree
  /\ registered' = registered \union {c}
  /\ handlers' = [handlers EXCEPT ![c] = "reading"]
  /\ writers' = [writers EXCEPT ![c] = "waiting"]
  /\ UNCHANGED <<queued, hubCancelled, sending>>

\* The client is gone, or the context is cancelled.
ReadFails(c) ==
  /\ handlers[c] = "reading"
  /\ handlers' = [handlers EXCEPT ![c] = "leaving"]
  /\ UNCHANGED <<registered, queued, writers, hubCancelled, sending>>

Unregister(c) ==
  /\ handlers[c] = "leaving" /\ LockIsFree
  /\ registered' = registered \ {c}
  /\ hubCancelled' = hubCancelled \union {c}
  /\ handlers' = [handlers EXCEPT ![c] = "done"]
  /\ UNCHANGED <<queued, writers, sending>>

TakeMessage(c) ==
  /\ writers[c] = "waiting" /\ queued[c] > 0
  /\ queued' = [queued EXCEPT ![c] = @ - 1]
  /\ writers' = [writers EXCEPT ![c] = "writing"]
  /\ UNCHANGED <<registered, handlers, hubCancelled, sending>>

WriteMessage(c) ==
  /\ writers[c] = "writing" /\ c \notin hubCancelled
  /\ writers' = [writers EXCEPT ![c] = "waiting"]
  /\ UNCHANGED <<registered, queued, handlers, hubCancelled, sending>>

AfterWriter(c) == hubCancelled \union {c}

\* A write fails, at any time, or the context is cancelled.
WriterEnds(c) ==
  /\ writers[c] = "writing" \/ (writers[c] = "waiting" /\ c \in hubCancelled)
  /\ writers' = [writers EXCEPT ![c] = "done"]
  /\ hubCancelled' = AfterWriter(c)
  /\ UNCHANGED <<registered, queued, handlers, sending>>

-----------------------------------------------------------------------------
BroadcastBegins(b) ==
  /\ sending[b] = {} /\ registered # {} /\ ~LockIsWaitedFor
  /\ sending' = [sending EXCEPT ![b] = registered]
  /\ UNCHANGED <<registered, queued, handlers, writers, hubCancelled>>

\* Mutant of Sendable: a full channel is waited for.
SendableIfRoom(c) == queued[c] < SendBuffer

Sendable(c) == TRUE

\* Sent, or skipped when the buffer is full.
SendOrSkip(b, c) ==
  /\ c \in sending[b] /\ Sendable(c)
  /\ queued' = IF queued[c] < SendBuffer THEN [queued EXCEPT ![c] = @ + 1] ELSE queued
  /\ sending' = [sending EXCEPT ![b] = @ \ {c}]
  /\ UNCHANGED <<registered, handlers, writers, hubCancelled>>

HubNext ==
  \/ \E c \in HubClients :
       \/ Connect(c) \/ Register(c) \/ ReadFails(c) \/ Unregister(c)
       \/ TakeMessage(c) \/ WriteMessage(c) \/ WriterEnds(c)
  \/ \E b \in Broadcasters :
       BroadcastBegins(b) \/ \E c \in HubClients : SendOrSkip(b, c)

\* A broadcast goes on, a lock that stays free is taken, and a read with a cancelled
\* context fails. A write to a browser may take for ever.
HubFairness ==
  /\ \A b \in Broadcasters, c \in HubClients : WF_hubVars(SendOrSkip(b, c))
  /\ \A c \in HubClients :
       /\ WF_hubVars(Register(c)) /\ WF_hubVars(Unregister(c))
       /\ WF_hubVars(c \in hubCancelled /\ ReadFails(c))

HubSpec == HubInit /\ [][HubNext]_hubVars /\ HubFairness

-----------------------------------------------------------------------------
HubTypeOK ==
  /\ registered \subseteq HubClients /\ hubCancelled \subseteq HubClients
  /\ queued \in [HubClients -> 0 .. SendBuffer]
  /\ handlers \in [HubClients -> {"none", "entering", "reading", "leaving", "done"}]
  /\ writers \in [HubClients -> {"none", "waiting", "writing", "done"}]
  /\ sending \in [Broadcasters -> SUBSET HubClients]

\* A broadcast sends to clients that are still registered only, although clients come
\* and go during it (api/ws_hub.go:37-47, 69-71, 107-109).
SentToRegistered ==
  \A b \in Broadcasters : sending[b] \subseteq registered

\* Every broadcast ends, also when a browser takes its messages no more and its
\* channel is full, while others connect and leave (api/ws_hub.go:37-47).
BroadcastsEnd ==
  \A b \in Broadcasters : sending[b] # {} ~> sending[b] = {}

\* A client that cannot be written to is taken out of the hub, under a stream of
\* broadcasts (api/ws_hub.go:76-110).
FailedClientsLeave ==
  \A c \in HubClients : writers[c] = "done" ~> c \notin registered
=============================================================================
