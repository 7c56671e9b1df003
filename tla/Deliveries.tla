------------------------------ MODULE Deliveries ------------------------------
(* What an event bus promises, whatever it is built from: an event is offered  *)
(* at most once, after it was accepted, to handlers chosen at that moment, and *)
(* each handler it was offered to runs for it at most once.                    *)
CONSTANTS Events, Handlers

VARIABLES accepted,  \* events whose publisher was told they were taken
          offered,   \* events that were handed out
          due,       \* <<handler, event>> that may still run
          handled    \* <<handler, event>> that did run

vars == <<accepted, offered, due, handled>>

Init == accepted = {} /\ offered = {} /\ due = {} /\ handled = {}

Accept(e) ==
  /\ e \notin accepted
  /\ accepted' = accepted \union {e}
  /\ UNCHANGED <<offered, due, handled>>

Offer(e, to) ==
  /\ e \in accepted \ offered
  /\ offered' = offered \union {e}
  /\ due' = due \union (to \X {e})
  /\ UNCHANGED <<accepted, handled>>

Handle(p) ==
  /\ p \in due
  /\ due' = due \ {p}
  /\ handled' = handled \union {p}
  /\ UNCHANGED <<accepted, offered>>

\* A bus that closes gives up what it did not start.
Withdraw(gone) ==
  /\ gone \subseteq due
  /\ due' = due \ gone
  /\ UNCHANGED <<accepted, offered, handled>>

Next ==
  \/ \E e \in Events : Accept(e) \/ \E to \in SUBSET Handlers : Offer(e, to)
  \/ \E p \in due : Handle(p)
  \/ \E gone \in SUBSET due : Withdraw(gone)

Spec == Init /\ [][Next]_vars
=============================================================================
