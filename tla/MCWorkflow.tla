------------------------------ MODULE MCWorkflow ------------------------------
(* One client on a workflow in a git directory; and, in behaviours of their own,   *)
(* two decisions that are taken while rows change: the dispatch of tickets, and    *)
(* the hooks' answers. They share no state, and the others rest meanwhile.         *)
EXTENDS Coordinator, SwarmBoard, HookGuards, TLC

CONSTANTS t1, t2, t3, n1, n2

VARIABLE part       \* the part that runs

-----------------------------------------------------------------------------
(* t1 and t3 touch different files; t2 touches files of both and is listed last. *)
api    == [base |-> <<"api">>, glob |-> "/**"]
routes == [base |-> <<"api", "routes.go">>, glob |-> ""]
db     == [base |-> <<"db">>, glob |-> ""]

ChainRank         == t1 :> 1 @@ t3 :> 2 @@ t2 :> 3
ChainDomain       == t1 :> "backend" @@ t2 :> "general" @@ t3 :> "backend"
ChainDependencies == t1 :> <<>> @@ t2 :> <<>> @@ t3 :> <<>>
ChainFiles        == t1 :> {routes} @@ t2 :> {api, db} @@ t3 :> {db}

PairRank   == n1 :> 1 @@ n2 :> 2
PairDomain == n1 :> "backend" @@ n2 :> "backend"

-----------------------------------------------------------------------------
PartsInit ==
  /\ part \in {"workflow", "dispatch", "hooks"}
  /\ Init /\ BoardInit /\ HooksInit

PartsNext ==
  /\ UNCHANGED part
  /\ \/ part = "workflow" /\ Next
     \/ part = "dispatch" /\ BoardNext
     \/ part = "hooks"    /\ HooksNext
  /\ part # "workflow" => UNCHANGED vars
  /\ part # "dispatch" => UNCHANGED boardVars
  /\ part # "hooks"    => UNCHANGED hookVars

PartsSpec == PartsInit /\ [][PartsNext]_<<part, vars, boardVars, hookVars>>

\* Every variable of every part keeps to its type.
PartsTypeOK == TypeOK /\ BoardTypeOK /\ HooksTypeOK
=============================================================================
