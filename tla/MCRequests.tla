------------------------------ MODULE MCRequests ------------------------------
(* Requests that overlap, in the parts of the program that share no state with *)
(* each other: reservations of files and the workflow coordinator. Each        *)
(* behaviour is a behaviour of one of them, with constants of its own, while   *)
(* the other rests in its initial state.                                       *)
EXTENDS FileReservations, Coordinator, TLC

CONSTANTS w1, w2, m1, m2, b1, b2, c1, c2

VARIABLE part       \* the part that runs

-----------------------------------------------------------------------------
(* Two workers of one mission; the other mission is only named in requests.     *)
(* Patterns: a directory, a file below it, and a directory beside them.         *)
src  == [base |-> <<"src">>, glob |-> "/**"]
api  == [base |-> <<"src", "api">>, glob |-> ""]
docs == [base |-> <<"docs">>, glob |-> "/*"]

TheMissions       == w1 :> m1 @@ w2 :> m1
DirectoryPatterns == {src, api, docs}
DirectoryRequests == {{}, {src}, {api, docs}, {docs}}
TheFiles          == {<<"src", "main.go">>, <<"src", "api", "server.go">>,
                      <<"docs", "README.md">>}

-----------------------------------------------------------------------------
RequestsInit ==
  /\ part \in {"reservations", "workflow"}
  /\ ReservationsInit /\ Init

RequestsNext ==
  /\ UNCHANGED part
  /\ \/ part = "reservations" /\ ReservationsNext
     \/ part = "workflow"     /\ Next
  /\ part # "reservations" => UNCHANGED reservationVars
  /\ part # "workflow"     => UNCHANGED vars

RequestsSpec ==
  RequestsInit /\ [][RequestsNext]_<<part, reservationVars, vars>>

\* Every variable of either part keeps to its type, and no reservation is empty.
RequestsTypeOK == ReservationsTypeOK /\ TypeOK

\* Reserving requests are interchangeable, and so are the requests on the workflow.
RequestSymmetry == Permutations({b1, b2}) \cup Permutations({c1, c2})
=============================================================================
