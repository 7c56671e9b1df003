-------------------------- MODULE MCFileReservations --------------------------
(* The instance of FileReservations with a pattern that covers everything.     *)
EXTENDS FileReservations, TLC

CONSTANTS w1, w2, m1, m2

src == [base |-> <<"src">>, glob |-> "/**"]
all == [base |-> <<>>, glob |-> "**"]

AnyPattern  == {src, all}
AnyRequests == {{src}, {all}}

\* Two workers of one mission; the other mission is only named in requests.
TheMissions == w1 :> m1 @@ w2 :> m1

TheFiles == {<<"src", "main.go">>, <<"src", "api", "server.go">>,
             <<"docs", "README.md">>}
=============================================================================
