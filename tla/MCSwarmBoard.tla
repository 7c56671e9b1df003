----------------------------- MODULE MCSwarmBoard -----------------------------
(* The instances of SwarmBoard that TLC checks.                                *)
EXTENDS SwarmBoard, TLC

CONSTANTS t1, t2, w1

api == [base |-> <<"api">>, glob |-> "/**"]
db  == [base |-> <<"db">>, glob |-> ""]

\* t2 depends on t1.
PairRank   == t1 :> 1 @@ t2 :> 2
PairFiles  == t1 :> {api} @@ t2 :> {db}
PairDependencies == t1 :> <<>> @@ t2 :> <<t1>>
PairDomain == t1 :> "backend" @@ t2 :> "backend"

\* One ticket.
OneTicketRank   == t1 :> 1
OneFiles        == t1 :> {api}
OneDependencies == t1 :> <<>>
OneTicketDomain == t1 :> "backend"

\* One backend worker.
OneRank   == w1 :> 1
OneDomain == w1 :> "backend"
=============================================================================
