------------------------------ MODULE ProposalReview -----------------------------
(* The review of a proposal that would add a file to the project (an "asset.*"      *)
(* proposal): a request reads the row, validates the step it read, writes the new   *)
(* status and, when that is "approved", creates the file, or else writes the status *)
(* back that it had read (api/routes_insight.go, db/lifecycle.go). Nothing holds    *)
(* two requests apart. One proposal.                                                *)
CONSTANTS Reviews,      \* requests that may be in progress at once
          NoStatus      \* a request that asks for nothing

VARIABLES proposal,     \* status of the row
          asset,        \* the file: none, as proposed, torn by a write that failed, or another
          reviews,      \* where each request is, the status it read and the one it asks for
          alone,        \* requests that nothing has overlapped
          unsettled     \* a crash, an overlap or a lost roll-back since an approval last
                        \* went through

reviewVars == <<proposal, asset, reviews, alone, unsettled>>

ProposalStatus == {"detected", "drafted", "approved", "rejected", "archived"}

ProposalTransitions ==
  {<<"detected", "drafted">>, <<"drafted", "approved">>, <<"drafted", "rejected">>,
   <<"approved", "archived">>, <<"rejected", "archived">>}

\* To stay is always allowed.
ValidStep(from, to) == from = to \/ <<from, to>> \in ProposalTransitions

NoReview == [pc |-> "idle", from |-> NoStatus, to |-> NoStatus]

ReviewInit ==
  /\ proposal = "detected"
  /\ asset = "none"
  /\ reviews = [r \in Reviews |-> NoReview]
  /\ alone = {} /\ unsettled = FALSE

Busy == {r \in Reviews : reviews[r] # NoReview}

ReviewEnds(r) == /\ reviews' = [reviews EXCEPT ![r] = NoReview]
           /\ alone' = alone \ {r}

Moves(r, from, to) == reviews[r].pc = from /\ reviews' = [reviews EXCEPT ![r].pc = to]

-----------------------------------------------------------------------------
\* A request whose step is not valid returns, and is no step here.
ReadAndValidate(r, to) ==
  /\ reviews[r] = NoReview
  /\ ValidStep(proposal, to)
  /\ reviews' = [reviews EXCEPT ![r] = [pc |-> "update", from |-> proposal, to |-> to]]
  /\ alone' = IF Busy = {} THEN {r} ELSE {}
  /\ unsettled' = (unsettled \/ Busy # {})
  /\ UNCHANGED <<proposal, asset>>

WriteStatus(r) ==
  /\ reviews[r].pc = "update"
  /\ proposal' = reviews[r].to
  /\ IF reviews[r].to = "approved"
     THEN Moves(r, "update", "look") /\ UNCHANGED alone
     ELSE ReviewEnds(r)
  /\ UNCHANGED <<asset, unsettled>>

WriteStatusFails(r) ==
  /\ reviews[r].pc = "update" /\ ReviewEnds(r)
  /\ UNCHANGED <<proposal, asset, unsettled>>

\* Existing files are never overwritten.
MayCreate == asset = "none"

LookForFile(r) ==
  /\ Moves(r, "look", IF MayCreate THEN "create" ELSE "back")
  /\ UNCHANGED <<proposal, asset, alone, unsettled>>

\* The file is truncated and written, by every request that came so far.
CreateFile(r) ==
  /\ reviews[r].pc = "create"
  /\ asset' = "proposed"
  /\ unsettled' = (unsettled /\ r \notin alone)
  /\ ReviewEnds(r)
  /\ UNCHANGED proposal

\* The directory cannot be made, or the write breaks off.
CreateFileFails(r) ==
  /\ Moves(r, "create", "back")
  /\ asset' \in {asset, "torn"}
  /\ UNCHANGED <<proposal, alone, unsettled>>

\* Mutant of RolledBack: to where every approval comes from.
RolledBackToDraft(r) == "drafted"

RolledBack(r) == reviews[r].from

RollBack(r) ==
  /\ reviews[r].pc = "back"
  /\ proposal' = RolledBack(r)
  /\ ReviewEnds(r)
  /\ UNCHANGED <<asset, unsettled>>

\* The error is ignored.
RollBackFails(r) ==
  /\ reviews[r].pc = "back"
  /\ unsettled' = TRUE
  /\ ReviewEnds(r)
  /\ UNCHANGED <<proposal, asset>>

\* The server stops; a file that is being written may be torn.
ReviewServerStops ==
  /\ Busy # {}
  /\ asset' \in IF \E r \in Busy : reviews[r].pc = "create" THEN {asset, "torn"} ELSE {asset}
  /\ reviews' = [r \in Reviews |-> NoReview]
  /\ alone' = {} /\ unsettled' = TRUE
  /\ UNCHANGED proposal

\* Somebody else puts a file there.
FileAppears ==
  /\ asset = "none" /\ asset' = "other"
  /\ UNCHANGED <<proposal, reviews, alone, unsettled>>

ReviewNext ==
  \/ \E r \in Reviews :
       \/ \E to \in ProposalStatus : ReadAndValidate(r, to)
       \/ WriteStatus(r) \/ WriteStatusFails(r) \/ LookForFile(r) \/ CreateFile(r)
       \/ CreateFileFails(r) \/ RollBack(r) \/ RollBackFails(r)
  \/ ReviewServerStops \/ FileAppears

ReviewSpec == ReviewInit /\ [][ReviewNext]_reviewVars

-----------------------------------------------------------------------------
ReviewTypeOK ==
  /\ proposal \in ProposalStatus
  /\ asset \in {"none", "proposed", "torn", "other"}
  /\ \A r \in Reviews : reviews[r] = NoReview \/
       reviews[r] \in [pc : {"update", "look", "create", "back"},
                       from : ProposalStatus, to : ProposalStatus]
  /\ alone \subseteq Reviews /\ unsettled \in BOOLEAN

\* api/routes_insight.go:357-440: between requests, a proposal is approved or archived
\* exactly when its file was created, through failures of the update and of the file,
\* until requests overlap, the server stops in one, or a roll-back is lost; and the
\* approval that goes through by itself mends what those left.
ApprovedIsApplied ==
  Busy = {} /\ ~unsettled =>
    /\ proposal = "approved" => asset = "proposed"
    /\ asset = "proposed" => proposal \in {"approved", "archived"}
=============================================================================
