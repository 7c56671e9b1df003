------------------------------- MODULE EventBus -------------------------------
(* The in-memory event bus: publishers put events into a bounded channel, one  *)
(* goroutine takes them out and starts a goroutine per handler, and Close may  *)
(* come at any moment (the server calls it while requests are still served).   *)
EXTENDS Naturals, Sequences, FiniteSets, SequencesExt

CONSTANTS BusEvents,    \* events; each is published by one call of Publish
          BusHandlers,  \* handlers; each is subscribed at most once
          BusCapacity   \* size of the channel

ASSUME BusAssumption == BusCapacity \in Nat \ {0}

VARIABLES publishing,   \* state of the call of Publish for each event
          buffer,       \* the channel
          subscribed,   \* handlers in the bus's map
          closing,      \* how far Close has come
          dispatcher,   \* the event being delivered and the handlers it still has
          started,      \* goroutines <<handler, event>> that have not run yet
          ran           \* <<handler, event>> of the goroutines that ran

busVars == <<publishing, buffer, subscribed, closing, dispatcher, started, ran>>

\* Closing is a sequence of four effects; each name tells what happened so far.
ClosingSteps == {"open", "flagged", "cancelled", "closed", "returned"}
closed      == closing # "open"
ctxDone     == closing \in {"cancelled", "closed", "returned"}
chanClosed  == closing \in {"closed", "returned"}

Waiting   == [at |-> "waiting"]
Exited    == [at |-> "exited"]
Delivering(e, rest) == [at |-> "delivering", event |-> e, rest |-> rest]

BusInit ==
  /\ publishing = [e \in BusEvents |-> "idle"]
  /\ buffer = <<>>
  /\ subscribed = {}
  /\ closing = "open"
  /\ dispatcher = Waiting
  /\ started = {}
  /\ ran = {}

-----------------------------------------------------------------------------
(* Publish tests closed, and then sends; the two are not one step. *)
PublishBegins(e) ==
  /\ publishing[e] = "idle"
  /\ publishing' = [publishing EXCEPT ![e] = IF closed THEN "refused" ELSE "sending"]
  /\ UNCHANGED <<buffer, subscribed, closing, dispatcher, started, ran>>

PublishSends(e) ==
  /\ publishing[e] = "sending"
  /\ ~chanClosed /\ Len(buffer) < BusCapacity
  /\ publishing' = [publishing EXCEPT ![e] = "accepted"]
  /\ buffer' = Append(buffer, e)
  /\ UNCHANGED <<subscribed, closing, dispatcher, started, ran>>

\* A send on a closed channel is a ready case of the select, and panics.
PublishPanics(e) ==
  /\ publishing[e] = "sending"
  /\ chanClosed
  /\ publishing' = [publishing EXCEPT ![e] = "panicked"]
  /\ UNCHANGED <<buffer, subscribed, closing, dispatcher, started, ran>>

\* The caller's context ends, or the bus's.
PublishGivesUp(e) ==
  /\ publishing[e] = "sending"
  /\ publishing' = [publishing EXCEPT ![e] = "refused"]
  /\ UNCHANGED <<buffer, subscribed, closing, dispatcher, started, ran>>

Subscribe(h) ==
  /\ h \notin subscribed
  /\ subscribed' = subscribed \union {h}
  /\ UNCHANGED <<publishing, buffer, closing, dispatcher, started, ran>>

Unsubscribe(h) ==
  /\ h \in subscribed
  /\ subscribed' = subscribed \ {h}
  /\ UNCHANGED <<publishing, buffer, closing, dispatcher, started, ran>>

-----------------------------------------------------------------------------
(* dispatch: what is in the channel when the context ends may be left there. *)
DispatchTakes ==
  /\ dispatcher = Waiting
  /\ buffer # <<>>
  /\ dispatcher' = Delivering(Head(buffer), subscribed)
  /\ buffer' = Tail(buffer)
  /\ UNCHANGED <<publishing, subscribed, closing, started, ran>>

DispatchEnds ==
  /\ dispatcher = Waiting
  /\ ctxDone
  /\ dispatcher' = Exited
  /\ UNCHANGED <<publishing, buffer, subscribed, closing, started, ran>>

\* Mutant of Unserved: the handlers of an event that are still to be started
\* are looked up in the map again.
UnservedAgain(h) == subscribed

Unserved(h) == dispatcher.rest \ {h}

\* deliver starts a goroutine for one more handler of its snapshot, in any
\* order (they come out of a map), unless the bus was closed meanwhile.
DeliverStarts(h) ==
  /\ dispatcher.at = "delivering"
  /\ h \in dispatcher.rest
  /\ ~closed
  /\ started' = started \union {<<h, dispatcher.event>>}
  /\ dispatcher' = Delivering(dispatcher.event, Unserved(h))
  /\ UNCHANGED <<publishing, buffer, subscribed, closing, ran>>

DeliveryIsOver == dispatcher.rest = {} \/ closed

DeliverReturns ==
  /\ dispatcher.at = "delivering"
  /\ DeliveryIsOver
  /\ dispatcher' = Waiting
  /\ UNCHANGED <<publishing, buffer, subscribed, closing, started, ran>>

\* A goroutine runs its handler (and recovers when it panics).
HandlerRuns(p) ==
  /\ p \in started
  /\ started' = started \ {p}
  /\ ran' = ran \union {p}
  /\ UNCHANGED <<publishing, buffer, subscribed, closing, dispatcher>>

-----------------------------------------------------------------------------
(* Close, one effect at a time. *)
CloseBegins ==
  /\ closing = "open"
  /\ closing' = "flagged"
  /\ UNCHANGED <<publishing, buffer, subscribed, dispatcher, started, ran>>

CloseGoesOn ==
  /\ \/ closing = "flagged"   /\ closing' = "cancelled"
     \/ closing = "cancelled" /\ closing' = "closed"
     \/ closing = "closed"    /\ dispatcher = Exited /\ closing' = "returned"
  /\ UNCHANGED <<publishing, buffer, subscribed, dispatcher, started, ran>>

Dispatch == \/ DispatchTakes \/ DispatchEnds \/ DeliverReturns
            \/ \E h \in BusHandlers : DeliverStarts(h)

BusNext ==
  \/ \E e \in BusEvents : \/ PublishBegins(e) \/ PublishSends(e)
                          \/ PublishPanics(e) \/ PublishGivesUp(e)
  \/ \E h \in BusHandlers : Subscribe(h) \/ Unsubscribe(h) \/ DeliverStarts(h)
  \/ DispatchTakes \/ DispatchEnds \/ DeliverReturns
  \/ \E p \in started : HandlerRuns(p)
  \/ CloseBegins \/ CloseGoesOn

\* The dispatching goroutine, the handlers' goroutines and a Close that began
\* run; nobody is bound to publish, to subscribe or to close.
BusFairness ==
  /\ WF_busVars(Dispatch)
  /\ \A p \in BusHandlers \X BusEvents : WF_busVars(HandlerRuns(p))
  /\ WF_busVars(CloseGoesOn)

BusSpec == BusInit /\ [][BusNext]_busVars /\ BusFairness

-----------------------------------------------------------------------------
BusTypeOK ==
  /\ publishing \in [BusEvents -> {"idle", "sending", "accepted", "refused", "panicked"}]
  /\ buffer \in Seq(BusEvents) /\ Len(buffer) <= BusCapacity
  /\ subscribed \subseteq BusHandlers
  /\ closing \in ClosingSteps
  /\ dispatcher \in {Waiting, Exited}
        \union [at : {"delivering"}, event : BusEvents, rest : SUBSET BusHandlers]
  /\ started \subseteq BusHandlers \X BusEvents
  /\ ran \subseteq BusHandlers \X BusEvents

Undelivered == IF dispatcher.at = "delivering"
               THEN dispatcher.rest \X {dispatcher.event} ELSE {}

\* The bus is a Deliveries: it loses events only by closing, and hands an event
\* to a handler at most once, however publishing, unsubscribing and Close
\* interleave with the dispatching goroutine (events/bus.go:97-132).
Accepted == {e \in BusEvents : publishing[e] = "accepted"}
Promise == INSTANCE Deliveries WITH
  Events   <- BusEvents,
  Handlers <- BusHandlers,
  accepted <- Accepted,
  offered  <- Accepted \ ToSet(buffer),
  due      <- Undelivered \union started,
  handled  <- ran

BusImplementsDeliveries == Promise!Spec

\* An event that was accepted while a handler was subscribed reaches it, unless
\* the handler unsubscribes or the bus is closed (events/bus.go:97-132).
SubscribersServed ==
  \A e \in BusEvents, h \in BusHandlers :
    publishing[e] = "accepted" /\ e \in ToSet(buffer) /\ h \in subscribed
      ~> <<h, e>> \in ran \/ h \notin subscribed \/ closed

\* Close returns, whatever is published, full or being delivered
\* (events/bus.go:88-95 waits for the dispatching goroutine).
CloseReturns == closing = "flagged" ~> closing = "returned"
=============================================================================
