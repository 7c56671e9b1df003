------------------------------ MODULE ForgeProofs ------------------------------
(* What is proved about the branches and worktrees of the workers. The forge: *)
(* an entry that says "merged" is merged, for any number of entries,          *)
(* overlapping calls and crashes; and while nothing disturbs the calls, blame *)
(* is just and uncommitted edits return. Worktrees: none is left that nobody  *)
(* knows. The preview: no branch is lost from sight.                          *)
EXTENDS Forge, Worktrees, PreviewMerge, WellFoundedInduction, TLAPS

-----------------------------------------------------------------------------
ForgeOutcomes == {"none", "merged", "conflict", "failed"}

ForgeCallStates ==
  [at : {"idle", "stash", "merge", "list", "abort", "pop", "record", "done", "dead"},
   todo : SUBSET ForgeEntries, stashed : BOOLEAN, outcome : [ForgeEntries -> ForgeOutcomes]]

AtWork == {"stash", "merge", "list", "abort", "pop"}

\* The integration branch holds what the branch of e had when e was submitted.
IsIn(e) == integrated[e] >= submittedTip[e]

\* A call knows only entries that were submitted, has one to deal with while it
\* is at work, and found no branch merged that is not in.
CallOK(c) ==
  /\ calls[c].at \in AtWork => calls[c].todo # {}
  /\ \A e \in calls[c].todo : status[e] # "absent"
  /\ \A e \in ForgeEntries :
       calls[c].outcome[e] = "merged" => status[e] # "absent" /\ IsIn(e)

ForgeInv ==
  /\ tip \in [ForgeEntries -> Nat] /\ integrated \in [ForgeEntries -> Nat]
  /\ submittedTip \in [ForgeEntries -> Nat]
  /\ status \in [ForgeEntries -> {"absent", "pending", "merged", "conflict", "failed"}]
  /\ calls \in [ForgeCalls -> ForgeCallStates]
  /\ \A e \in ForgeEntries : submittedTip[e] <= tip[e]
  /\ \A c \in ForgeCalls : CallOK(c)
  /\ MergedIsIntegrated

\* Among the entries a call still has, one is the first.
LEMMA CurrentInTodo ==
  ASSUME ForgeInv, NEW c \in ForgeCalls, calls[c].at \in AtWork
  PROVE  Current(c) \in calls[c].todo /\ Current(c) \in ForgeEntries
<1> DEFINE T == calls[c].todo
           R == OpToRel(<, Nat)
<1>1. T \subseteq ForgeEntries /\ T # {}
  BY DEF ForgeInv, CallOK, ForgeCallStates
<1>2. T \subseteq Nat
  BY <1>1, ForgeAssumption DEF ForgeEntries
<1>3. \A x, y \in Nat : <<y, x>> \in R <=> y < x
  BY DEF OpToRel
<1>4. IsWellFoundedOn(R, Nat)
  BY NatLessThanWellFounded
<1> HIDE DEF R, T
<1>5. PICK x \in T : \A y \in T : ~(<<y, x>> \in R)
  BY <1>1, <1>2, <1>4, WFMin
<1>6. ASSUME NEW y \in T PROVE x <= y
  <2>1. x \in Nat /\ y \in Nat
    BY <1>2
  <2>2. ~(y < x)
    BY <1>3, <1>5, <2>1
  <2> QED
    BY <2>1, <2>2
<1>7. \E e \in T : \A d \in T : e <= d
  BY <1>6
<1> QED
  BY <1>1, <1>7 DEF Current, T

LEMMA ForgeInvInit == ForgeInit => ForgeInv
<1> SUFFICES ASSUME ForgeInit PROVE ForgeInv
  OBVIOUS
<1>1. /\ IdleCall \in ForgeCallStates /\ IdleCall.at = "idle" /\ IdleCall.todo = {}
      /\ \A e \in ForgeEntries : IdleCall.outcome[e] = "none"
  BY DEF IdleCall, Call, NoOutcome, ForgeCallStates, ForgeOutcomes
<1> QED
  BY <1>1 DEF ForgeInit, ForgeInv, CallOK, AtWork, MergedIsIntegrated

\* Entries and branches stay: what the calls know stays true.
LEMMA CallsStayOK ==
  ASSUME ForgeInv, UNCHANGED calls,
         \A e \in ForgeEntries : status[e] # "absent" => status'[e] # "absent"
                                                     /\ (IsIn(e) => IsIn(e)')
  PROVE  \A c \in ForgeCalls : CallOK(c)'
BY DEF ForgeInv, CallOK, ForgeCallStates

\* One call moves, and the entries and branches stay.
LEMMA CallMoves ==
  ASSUME ForgeInv, NEW c \in ForgeCalls, NEW new \in ForgeCallStates,
         calls' = [calls EXCEPT ![c] = new], CallOK(c)',
         UNCHANGED <<tip, integrated, submittedTip, status>>
  PROVE  ForgeInv'
<1>1. calls' \in [ForgeCalls -> ForgeCallStates]
  BY DEF ForgeInv
<1>2. \A d \in ForgeCalls : CallOK(d)'
  BY DEF ForgeInv, CallOK, IsIn
<1> QED
  BY <1>1, <1>2 DEF ForgeInv, MergedIsIntegrated

LEMMA ForgeInvStep == ForgeInv /\ [ForgeNext]_forgeVars => ForgeInv'
<1> SUFFICES ASSUME ForgeInv, [ForgeNext]_forgeVars PROVE ForgeInv'
  OBVIOUS
<1>0. /\ tip \in [ForgeEntries -> Nat] /\ integrated \in [ForgeEntries -> Nat]
      /\ submittedTip \in [ForgeEntries -> Nat]
      /\ status \in [ForgeEntries -> {"absent", "pending", "merged", "conflict", "failed"}]
      /\ calls \in [ForgeCalls -> ForgeCallStates]
      /\ \A e \in ForgeEntries : submittedTip[e] <= tip[e]
      /\ \A c \in ForgeCalls : CallOK(c)
      /\ MergedIsIntegrated
  BY DEF ForgeInv
<1>1. ASSUME NEW e \in ForgeEntries, Commit(e) PROVE ForgeInv'
  <2>1. tip' = [tip EXCEPT ![e] = tip[e] + 1]
        /\ UNCHANGED <<integrated, submittedTip, status, calls>>
    BY <1>1 DEF Commit, entryVars
  <2>2. \A c \in ForgeCalls : CallOK(c)'
    BY <2>1, CallsStayOK DEF IsIn
  <2> QED
    BY <1>0, <2>1, <2>2 DEF ForgeInv, MergedIsIntegrated
<1>2. ASSUME NEW e \in ForgeEntries, SubmitToForge(e) PROVE ForgeInv'
  <2>1. /\ status[e] = "absent" /\ status' = [status EXCEPT ![e] = "pending"]
        /\ submittedTip' = [submittedTip EXCEPT ![e] = tip[e]]
        /\ UNCHANGED <<tip, integrated, calls>>
    BY <1>2 DEF SubmitToForge, gitVars
  <2>2. \A c \in ForgeCalls : CallOK(c)'
    BY <1>0, <2>1, CallsStayOK DEF IsIn
  <2> QED
    BY <1>0, <2>1, <2>2 DEF ForgeInv, MergedIsIntegrated
<1>3. ASSUME NEW e \in ForgeEntries, Retry(e) PROVE ForgeInv'
  <2>1. /\ status[e] \in {"conflict", "failed"} /\ status' = [status EXCEPT ![e] = "pending"]
        /\ UNCHANGED <<tip, integrated, submittedTip, calls>>
    BY <1>3 DEF Retry, gitVars
  <2>2. \A c \in ForgeCalls : CallOK(c)'
    BY <1>0, <2>1, CallsStayOK DEF IsIn
  <2> QED
    BY <1>0, <2>1, <2>2 DEF ForgeInv, MergedIsIntegrated
<1>4. ASSUME EditWorktree \/ \E e \in ForgeEntries : RemoveBranch(e) PROVE ForgeInv'
  <2>1. UNCHANGED <<tip, integrated, submittedTip, status, calls>>
    BY <1>4 DEF EditWorktree, RemoveBranch, entryVars
  <2>2. \A c \in ForgeCalls : CallOK(c)'
    BY <2>1, CallsStayOK DEF IsIn
  <2> QED
    BY <1>0, <2>1, <2>2 DEF ForgeInv, MergedIsIntegrated
<1>5. CASE Crash
  <2> DEFINE dead == Call("dead", {}, FALSE, NoOutcome)
  <2>1. /\ calls' = [c \in ForgeCalls |-> IF Running(c) THEN dead ELSE calls[c]]
        /\ UNCHANGED <<tip, integrated, submittedTip, status>>
    BY <1>5 DEF Crash, gitVars, entryVars
  <2>2. /\ dead \in ForgeCallStates /\ dead.at = "dead" /\ dead.todo = {}
        /\ \A e \in ForgeEntries : dead.outcome[e] = "none"
    BY DEF Call, NoOutcome, ForgeCallStates, ForgeOutcomes
  <2> HIDE DEF dead
  <2>3. \A c \in ForgeCalls : CallOK(c)'
    BY <1>0, <2>1, <2>2 DEF CallOK, AtWork, IsIn
  <2> QED
    BY <1>0, <2>1, <2>2, <2>3 DEF ForgeInv, MergedIsIntegrated
<1>6. ASSUME NEW c \in ForgeCalls, Snapshot(c) PROVE ForgeInv'
  <2> DEFINE new == Call("stash", Pending, FALSE, NoOutcome)
  <2>1. /\ calls' = [calls EXCEPT ![c] = new] /\ Pending # {}
        /\ UNCHANGED <<tip, integrated, submittedTip, status>>
    BY <1>6 DEF Snapshot, gitVars, entryVars
  <2>2. /\ new \in ForgeCallStates /\ new.todo = Pending
        /\ \A e \in ForgeEntries : new.outcome[e] = "none"
    BY DEF Call, NoOutcome, ForgeCallStates, ForgeOutcomes, Pending
  <2> HIDE DEF new
  <2>3. CallOK(c)'
    BY <1>0, <2>1, <2>2 DEF CallOK, Pending
  <2> QED
    BY <2>1, <2>2, <2>3, CallMoves
<1>7. ASSUME NEW c \in ForgeCalls, Stash(c) PROVE ForgeInv'
  <2>1. PICK s \in BOOLEAN : calls' = [calls EXCEPT ![c].at = "merge", ![c].stashed = s]
    BY <1>7 DEF Stash
  <2>2. calls[c].at = "stash" /\ UNCHANGED <<tip, integrated, submittedTip, status>>
    BY <1>7 DEF Stash, entryVars
  <2> DEFINE new == [calls[c] EXCEPT !.at = "merge", !.stashed = s]
  <2>3. /\ new \in ForgeCallStates /\ new.todo = calls[c].todo /\ new.outcome = calls[c].outcome
        /\ calls' = [calls EXCEPT ![c] = new]
    BY <1>0, <2>1 DEF ForgeCallStates
  <2> HIDE DEF new
  <2>4. CallOK(c)'
    BY <1>0, <2>2, <2>3 DEF CallOK, AtWork, IsIn
  <2> QED
    BY <2>2, <2>3, <2>4, CallMoves
<1>8. ASSUME NEW c \in ForgeCalls, Merge(c) PROVE ForgeInv'
  <2>0. PICK e \in ForgeEntries : e = Current(c) /\ e \in calls[c].todo
    BY <1>8, CurrentInTodo DEF Merge, AtWork
  <2>1. calls[c].at = "merge" /\ UNCHANGED <<tip, submittedTip, status>>
    BY <1>8 DEF Merge, entryVars
  <2>2. CASE /\ integrated' = [integrated EXCEPT ![e] = tip[e]]
             /\ calls' = [calls EXCEPT ![c].at = "pop", ![c].outcome[e] = "merged"]
    <3> DEFINE old == calls[c]
               new == [old EXCEPT !.at = "pop", !.outcome = [old.outcome EXCEPT ![e] = "merged"]]
    <3>1. calls' = [calls EXCEPT ![c] = new]
      BY <2>2
    <3>2. /\ new \in ForgeCallStates /\ new.todo = old.todo
          /\ new.outcome = [old.outcome EXCEPT ![e] = "merged"]
          /\ old.outcome \in [ForgeEntries -> ForgeOutcomes]
      <4>1. old \in ForgeCallStates
        BY <1>0
      <4> HIDE DEF old
      <4> QED
        BY <2>1, <4>1 DEF ForgeCallStates, ForgeOutcomes
    <3> HIDE DEF new
    <3>3. \A d \in ForgeEntries : IsIn(d) => IsIn(d)'
      BY <1>0, <2>1, <2>2 DEF IsIn
    <3>4. IsIn(e)'
      BY <1>0, <2>1, <2>2 DEF IsIn
    <3>5. CallOK(c)'
      BY <1>0, <2>0, <2>1, <3>1, <3>2, <3>3, <3>4 DEF CallOK
    <3>6. ASSUME NEW d \in ForgeCalls, d # c PROVE CallOK(d)'
      BY <1>0, <2>1, <3>1, <3>3, <3>6 DEF CallOK
    <3>7. /\ calls' \in [ForgeCalls -> ForgeCallStates]
          /\ integrated' \in [ForgeEntries -> Nat]
      <4>1. calls' \in [ForgeCalls -> ForgeCallStates]
        BY <1>0, <3>1, <3>2
      <4>2. tip[e] \in Nat
        BY <1>0, <2>0
      <4>3. integrated' \in [ForgeEntries -> Nat]
        BY <1>0, <2>2, <4>2
      <4> QED
        BY <4>1, <4>3
    <3>8. MergedIsIntegrated'
      BY <1>0, <2>1, <3>3 DEF MergedIsIntegrated, IsIn
    <3> QED
      BY <1>0, <2>1, <3>5, <3>6, <3>7, <3>8 DEF ForgeInv
  <2>3. CASE integrated' = integrated /\ calls' = [calls EXCEPT ![c].at = "list"]
    <3> DEFINE new == [calls[c] EXCEPT !.at = "list"]
    <3>1. /\ new \in ForgeCallStates /\ new.todo = calls[c].todo /\ new.outcome = calls[c].outcome
          /\ calls' = [calls EXCEPT ![c] = new]
      BY <1>0, <2>3 DEF ForgeCallStates
    <3> HIDE DEF new
    <3>2. CallOK(c)'
      BY <1>0, <2>1, <2>3, <3>1 DEF CallOK, IsIn, AtWork
    <3> QED
      BY <2>1, <2>3, <3>1, <3>2, CallMoves
  <2> QED
    BY <1>8, <2>0, <2>2, <2>3 DEF Merge, Merged
<1>9. ASSUME NEW c \in ForgeCalls, ListConflicts(c) PROVE ForgeInv'
  <2> DEFINE e == Current(c)
             old == calls[c]
             new == [old EXCEPT !.at = "abort", !.outcome = [old.outcome EXCEPT ![e] = Verdict]]
  <2>1. /\ old.at = "list" /\ e \in old.todo /\ e \in ForgeEntries
        /\ calls' = [calls EXCEPT ![c] = new]
        /\ UNCHANGED <<tip, integrated, submittedTip, status>>
    BY <1>9, CurrentInTodo DEF ListConflicts, gitVars, entryVars, AtWork
  <2>2. Verdict \in {"failed", "conflict"}
    BY DEF Verdict
  <2>3. /\ new \in ForgeCallStates /\ new.todo = old.todo
        /\ new.outcome = [old.outcome EXCEPT ![e] = Verdict]
        /\ old.outcome \in [ForgeEntries -> ForgeOutcomes]
    <3>1. old \in ForgeCallStates
      BY <1>0
    <3> HIDE DEF old, e
    <3> QED
      BY <2>2, <3>1 DEF ForgeCallStates, ForgeOutcomes
  <2> HIDE DEF new, e
  <2>4. CallOK(c)'
    BY <1>0, <2>1, <2>2, <2>3 DEF CallOK, IsIn
  <2> QED
    BY <2>1, <2>3, <2>4, CallMoves
<1>10. ASSUME NEW c \in ForgeCalls, Abort(c) PROVE ForgeInv'
  <2> DEFINE new == [calls[c] EXCEPT !.at = "pop"]
  <2>1. calls[c].at = "abort" /\ UNCHANGED <<tip, integrated, submittedTip, status>>
    BY <1>10 DEF Abort, entryVars
  <2>2. /\ new \in ForgeCallStates /\ new.todo = calls[c].todo /\ new.outcome = calls[c].outcome
        /\ calls' = [calls EXCEPT ![c] = new]
    BY <1>0, <1>10 DEF Abort, AfterAbort, ForgeCallStates
  <2> HIDE DEF new
  <2>3. CallOK(c)'
    BY <1>0, <2>1, <2>2 DEF CallOK, AtWork, IsIn
  <2> QED
    BY <2>1, <2>2, <2>3, CallMoves
<1>11. ASSUME NEW c \in ForgeCalls, Pop(c) PROVE ForgeInv'
  <2> DEFINE e == Current(c)
             rest == calls[c].todo \ {e}
             to == IF calls[c].todo = {e} THEN "record" ELSE "stash"
             new == [calls[c] EXCEPT !.todo = rest, !.stashed = FALSE, !.at = to]
  <2>1. /\ calls[c].at = "pop" /\ e \in calls[c].todo
        /\ calls' = [calls EXCEPT ![c] = new]
        /\ UNCHANGED <<tip, integrated, submittedTip, status>>
    BY <1>11, CurrentInTodo DEF Pop, NextEntry, entryVars, AtWork
  <2>2. to = "record" \/ (to = "stash" /\ rest # {})
    BY <2>1
  <2>3. /\ new \in ForgeCallStates /\ new.todo = rest /\ new.at = to
        /\ new.outcome = calls[c].outcome
    <3>1. rest \in SUBSET ForgeEntries /\ calls[c] \in ForgeCallStates
      BY <1>0 DEF ForgeCallStates
    <3>2. to \in {"record", "stash"}
      BY <2>2
    <3> HIDE DEF rest, to
    <3> QED
      BY <3>1, <3>2 DEF ForgeCallStates
  <2>4. \A d \in rest : status[d] # "absent"
    BY <1>0 DEF CallOK
  <2> HIDE DEF new, to, rest
  <2>5. CallOK(c)'
    BY <1>0, <2>1, <2>2, <2>3, <2>4 DEF CallOK, AtWork, IsIn
  <2> QED
    BY <2>1, <2>3, <2>5, CallMoves
<1>12. ASSUME NEW c \in ForgeCalls, NEW e \in ForgeEntries, Record(c, e) PROVE ForgeInv'
  <2> DEFINE old == calls[c]
             to == IF Decided(c) = {e} THEN "done" ELSE "record"
             new == [old EXCEPT !.outcome = [old.outcome EXCEPT ![e] = "none"], !.at = to]
  <2>1. /\ old.outcome[e] # "none"
        /\ status' = [status EXCEPT ![e] = old.outcome[e]]
        /\ calls' = [calls EXCEPT ![c] = new]
        /\ UNCHANGED <<tip, integrated, submittedTip>>
    BY <1>12 DEF Record, Decided, gitVars
  <2>2. to \in {"done", "record"}
    OBVIOUS
  <2>3. /\ new \in ForgeCallStates /\ new.todo = old.todo /\ new.at = to
        /\ new.outcome = [old.outcome EXCEPT ![e] = "none"]
        /\ old.outcome \in [ForgeEntries -> ForgeOutcomes]
    <3>1. old \in ForgeCallStates
      BY <1>0
    <3> HIDE DEF old, to
    <3> QED
      BY <2>2, <3>1 DEF ForgeCallStates, ForgeOutcomes
  <2> HIDE DEF new, to
  <2>4. old.outcome[e] \in {"merged", "conflict", "failed"}
    BY <2>1, <2>3 DEF ForgeOutcomes
  <2>5. /\ status' \in [ForgeEntries -> {"absent", "pending", "merged", "conflict", "failed"}]
        /\ \A d \in ForgeEntries : status[d] # "absent" => status'[d] # "absent"
    BY <1>0, <2>1, <2>4
  <2>6. \A d \in ForgeEntries : IsIn(d)' <=> IsIn(d)
    BY <2>1 DEF IsIn
  <2>7. CallOK(c)'
    BY <1>0, <2>1, <2>2, <2>3, <2>5, <2>6 DEF CallOK, AtWork, ForgeCallStates
  <2>8. ASSUME NEW d \in ForgeCalls, d # c PROVE CallOK(d)'
    BY <1>0, <2>1, <2>5, <2>6, <2>8 DEF CallOK, ForgeCallStates
  <2>9. old.outcome[e] = "merged" => IsIn(e)
    BY <1>0 DEF CallOK
  <2>10. MergedIsIntegrated'
    BY <1>0, <2>1, <2>9 DEF MergedIsIntegrated, IsIn
  <2>11. calls' \in [ForgeCalls -> ForgeCallStates]
    BY <1>0, <2>1, <2>3
  <2> QED
    BY <1>0, <2>1, <2>5, <2>7, <2>8, <2>10, <2>11 DEF ForgeInv
<1>13. CASE UNCHANGED forgeVars
  BY <1>13 DEF forgeVars, ForgeInv, CallOK, IsIn, MergedIsIntegrated
<1> QED
  BY <1>1, <1>2, <1>3, <1>4, <1>5, <1>6, <1>7, <1>8, <1>9, <1>10, <1>11, <1>12, <1>13
  DEF ForgeNext

\* An entry says "merged" only when the integration branch holds all its branch had
\* when it was submitted, for any number of entries and of calls that overlap, fail
\* and crash (swarm/forge.go:47-80, 183-197).
THEOREM MergedIsIntegratedHolds == ForgeSpec => []MergedIsIntegrated
<1>1. ForgeInv => MergedIsIntegrated
  BY DEF ForgeInv
<1> QED
  BY <1>1, ForgeInvInit, ForgeInvStep, PTL DEF ForgeSpec

-----------------------------------------------------------------------------
(* What holds as long as nothing disturbs the calls: one runs at a time.    *)

First(T) == CHOOSE e \in T : \A d \in T : e <= d

\* A call that runs finds the worktree as it left it, deals with entries that are
\* still pending, and has a reason for each outcome.
QuietCall(k) ==
  /\ k.at \in AtWork => \A e \in k.todo : status[e] = "pending"
  /\ k.at \in {"stash", "merge", "list"} => \A e \in k.todo : k.outcome[e] = "none"
  /\ k.at \in {"abort", "pop"} =>
       \A e \in k.todo \ {First(k.todo)} : k.outcome[e] = "none"
  /\ k.at \in {"stash", "record"} => stashes = 0
  /\ k.at \in {"merge", "list", "abort", "pop"} =>
       local = FALSE /\ stashes = IF k.stashed THEN 1 ELSE 0
  /\ k.at \in {"stash", "merge", "pop", "record"} => gitIndex = "clean"
  /\ k.at = "list" => \/ gitIndex = "merging" /\ Clashes(First(k.todo))
                      \/ gitIndex = "clean" /\ hasBranch[First(k.todo)] = FALSE
  /\ k.at = "abort" => gitIndex \in {"clean", "merging"}
  /\ \A e \in ForgeEntries :
       /\ k.outcome[e] = "conflict" => Clashes(e)
       /\ k.outcome[e] = "failed"   => hasBranch[e] = FALSE

Blame(e) ==
  /\ status[e] = "conflict" => Clashes(e)
  /\ status[e] = "failed"   => hasBranch[e] = FALSE

Quiet ==
  /\ \A c, d \in ForgeCalls : Running(c) /\ Running(d) => c = d
  /\ \A c \in ForgeCalls : Running(c) => QuietCall(calls[c])
  /\ (\A c \in ForgeCalls : ~Running(c)) => gitIndex = "clean" /\ stashes = 0
  /\ \A e \in ForgeEntries : Blame(e)

BranchesOK ==
  /\ hasBranch \in [ForgeEntries -> BOOLEAN] /\ local \in BOOLEAN
  /\ \A e \in ForgeEntries : tip[e] >= 1

QuietInv == ForgeInv /\ BranchesOK /\ (undisturbed = TRUE => Quiet)

LEMMA CurrentIsFirst ==
  ASSUME NEW c
  PROVE  Current(c) = First(calls[c].todo)
BY DEF Current, First

\* What others do to branches and entries while no call moves.
LEMMA OthersQuiet ==
  ASSUME Quiet, ForgeInv, UNCHANGED <<calls, gitIndex, local, stashes>>,
         \A e \in ForgeEntries :
           /\ status[e] = "pending" => status'[e] = "pending"
           /\ status'[e] \in {"conflict", "failed"} => status'[e] = status[e]
           /\ Clashes(e) => Clashes(e)'
           /\ hasBranch[e] = FALSE => hasBranch'[e] = FALSE
  PROVE  Quiet'
<1>1. \A c \in ForgeCalls : Running(c)' <=> Running(c)
  BY DEF Running
<1>2. \A e \in ForgeEntries : Blame(e)'
  BY DEF Quiet, Blame
<1>3. ASSUME NEW c \in ForgeCalls, Running(c)
      PROVE  QuietCall(calls[c])'
  <2> DEFINE k == calls[c]
             e == First(k.todo)
  <2>1. QuietCall(k) /\ calls' = calls
    BY <1>3 DEF Quiet
  <2>2. k \in ForgeCallStates /\ (k.at = "list" => e \in k.todo /\ e \in ForgeEntries)
    BY CurrentInTodo, CurrentIsFirst DEF ForgeInv, AtWork
  <2>3. k.todo \in SUBSET ForgeEntries
    BY <2>2 DEF ForgeCallStates
  <2> QED
    BY <2>1, <2>2, <2>3 DEF QuietCall
<1> QED
  BY <1>1, <1>2, <1>3 DEF Quiet

\* The one call that runs moves.
LEMMA CallQuiet ==
  ASSUME ForgeInv, NEW c \in ForgeCalls, \A d \in ForgeCalls \ {c} : ~Running(d),
         NEW new \in ForgeCallStates, calls' = [calls EXCEPT ![c] = new],
         IF new.at \in {"idle", "done", "dead"}
           THEN gitIndex' = "clean" /\ stashes' = 0
           ELSE QuietCall(new)',
         \A e \in ForgeEntries : Blame(e)'
  PROVE  Quiet'
<1>1. calls'[c] = new /\ \A d \in ForgeCalls \ {c} : calls'[d] = calls[d]
  BY DEF ForgeInv
<1>2. /\ Running(c)' <=> new.at \notin {"idle", "done", "dead"}
      /\ \A d \in ForgeCalls \ {c} : ~Running(d)'
  BY <1>1 DEF Running
<1> QED
  BY <1>1, <1>2 DEF Quiet

LEMMA QuietInit == ForgeInit => QuietInv
<1> SUFFICES ASSUME ForgeInit PROVE QuietInv
  OBVIOUS
<1>1. IdleCall.at = "idle"
  BY DEF IdleCall, Call
<1>2. BranchesOK
  <2>1. hasBranch \in [ForgeEntries -> BOOLEAN] /\ local \in BOOLEAN
    BY Zenon DEF ForgeInit
  <2>2. \A e \in ForgeEntries : tip[e] >= 1
    BY DEF ForgeInit
  <2> QED
    BY <2>1, <2>2 DEF BranchesOK
<1>3. \A c \in ForgeCalls : ~Running(c)
  BY <1>1 DEF ForgeInit, Running
<1>4. Quiet
  BY <1>3 DEF ForgeInit, Quiet, Blame
<1> QED
  BY <1>2, <1>4, ForgeInvInit DEF QuietInv

LEMMA BranchesStep ==
  ASSUME ForgeInv, BranchesOK, [ForgeNext]_forgeVars
  PROVE  BranchesOK'
<1>1. ASSUME NEW e \in ForgeEntries, Commit(e) PROVE BranchesOK'
  BY <1>1 DEF Commit, BranchesOK, ForgeInv
<1>2. ASSUME NEW e \in ForgeEntries, RemoveBranch(e) PROVE BranchesOK'
  BY <1>2 DEF RemoveBranch, BranchesOK
<1>3. CASE UNCHANGED <<tip, hasBranch>> /\ local' \in BOOLEAN
  BY <1>3 DEF BranchesOK
<1>4. ASSUME NEW c \in ForgeCalls, Stash(c)
      PROVE  UNCHANGED <<tip, hasBranch>> /\ local' \in BOOLEAN
  BY <1>4 DEF Stash, BranchesOK
<1>5. ASSUME NEW c \in ForgeCalls, Pop(c)
      PROVE  UNCHANGED <<tip, hasBranch>> /\ local' \in BOOLEAN
  BY <1>5 DEF Pop, BranchesOK
<1>6. ASSUME NEW c \in ForgeCalls,
             \/ Snapshot(c) \/ Merge(c) \/ ListConflicts(c) \/ Abort(c)
             \/ \E e \in ForgeEntries : Record(c, e)
      PROVE  UNCHANGED <<tip, hasBranch, local>>
  BY <1>6 DEF Snapshot, Merge, ListConflicts, Abort, Record, gitVars
<1>7. ASSUME \/ EditWorktree \/ Crash
             \/ \E e \in ForgeEntries : SubmitToForge(e) \/ Retry(e)
      PROVE  UNCHANGED <<tip, hasBranch>> /\ local' \in {local, TRUE}
  BY <1>7 DEF EditWorktree, Crash, SubmitToForge, Retry, gitVars
<1>8. local \in BOOLEAN
  BY DEF BranchesOK
<1> QED
  BY <1>1, <1>2, <1>3, <1>4, <1>5, <1>6, <1>7, <1>8, Zenon
     DEF ForgeNext, forgeVars

\* Commits, submissions, retries and removals.
LEMMA UsersQuiet ==
  ASSUME ForgeInv, BranchesOK, Quiet, NEW e \in ForgeEntries,
         Commit(e) \/ SubmitToForge(e) \/ Retry(e) \/ RemoveBranch(e)
  PROVE  Quiet'
<1>0. /\ tip \in [ForgeEntries -> Nat] /\ integrated \in [ForgeEntries -> Nat]
      /\ hasBranch \in [ForgeEntries -> BOOLEAN]
      /\ status \in [ForgeEntries -> {"absent", "pending", "merged", "conflict", "failed"}]
  BY DEF ForgeInv, BranchesOK
<1>1. CASE Commit(e)
  <2>1. tip' = [tip EXCEPT ![e] = tip[e] + 1]
        /\ UNCHANGED <<calls, gitIndex, local, stashes, status, integrated, hasBranch>>
    BY <1>1 DEF Commit, entryVars
  <2>2. \A d \in ForgeEntries : tip'[d] >= tip[d]
    BY <1>0, <2>1
  <2>3. \A d \in ForgeEntries : Clashes(d) => Clashes(d)'
    BY <1>0, <2>1, <2>2 DEF Clashes
  <2> QED
    BY <2>1, <2>3, OthersQuiet
<1>2. CASE SubmitToForge(e)
  <2>1. status' = [status EXCEPT ![e] = "pending"]
        /\ UNCHANGED <<calls, gitIndex, local, stashes, tip, integrated, hasBranch>>
    BY <1>2 DEF SubmitToForge, gitVars
  <2>2. \A d \in ForgeEntries : Clashes(d) => Clashes(d)'
    BY <2>1 DEF Clashes
  <2> QED
    BY <1>0, <2>1, <2>2, OthersQuiet
<1>3. CASE Retry(e)
  <2>1. status' = [status EXCEPT ![e] = "pending"]
        /\ UNCHANGED <<calls, gitIndex, local, stashes, tip, integrated, hasBranch>>
    BY <1>3 DEF Retry, gitVars
  <2>2. \A d \in ForgeEntries : Clashes(d) => Clashes(d)'
    BY <2>1 DEF Clashes
  <2> QED
    BY <1>0, <2>1, <2>2, OthersQuiet
<1>4. CASE RemoveBranch(e)
  <2>1. hasBranch' = [hasBranch EXCEPT ![e] = FALSE]
        /\ UNCHANGED <<calls, gitIndex, local, stashes, tip, integrated, status>>
    BY <1>4 DEF RemoveBranch, entryVars
  <2>2. \A d \in ForgeEntries : Clashes(d) => Clashes(d)'
    BY <2>1 DEF Clashes
  <2>3. \A d \in ForgeEntries : hasBranch[d] = FALSE => hasBranch'[d] = FALSE
    BY <1>0, <2>1
  <2> QED
    BY <2>1, <2>2, <2>3, OthersQuiet
<1> QED
  BY <1>1, <1>2, <1>3, <1>4

\* An edit is no disturbance only when no call runs.
LEMMA EditQuiet ==
  ASSUME ForgeInv, undisturbed = TRUE => Quiet, undisturbed' = TRUE, EditWorktree
  PROVE  Quiet'
<1>1. undisturbed = TRUE /\ \A c \in ForgeCalls : ~Running(c)
  BY DEF EditWorktree
<1>2. UNCHANGED <<calls, gitIndex, stashes, tip, integrated, hasBranch, status>>
  BY DEF EditWorktree, entryVars
<1>3. \A c \in ForgeCalls : ~Running(c)'
  BY <1>1, <1>2 DEF Running
<1>4. \A e \in ForgeEntries : Blame(e)'
  BY <1>1, <1>2 DEF Quiet, Blame, Clashes
<1> QED
  BY <1>1, <1>2, <1>3, <1>4 DEF Quiet

\* Entries and branches that stay keep their blame.
LEMMA BlameStays ==
  ASSUME Quiet, UNCHANGED <<tip, integrated, hasBranch, status>>
  PROVE  /\ \A e \in ForgeEntries : Blame(e)'
         /\ \A e \in ForgeEntries : Clashes(e)' <=> Clashes(e)
BY DEF Quiet, Blame, Clashes

LEMMA SnapshotQuiet ==
  ASSUME ForgeInv, Quiet, NEW c \in ForgeCalls, Snapshot(c), ~Contended(c)
  PROVE  Quiet'
<1>1. /\ calls' = [calls EXCEPT ![c] = Call("stash", Pending, FALSE, NoOutcome)]
      /\ calls[c].at = "idle"
      /\ UNCHANGED <<tip, integrated, hasBranch, status, gitIndex, local, stashes>>
  BY DEF Snapshot, gitVars, entryVars
<1>2. \A d \in ForgeCalls : ~Running(d)
  BY <1>1 DEF Contended, Running
<1>3. gitIndex = "clean" /\ stashes = 0
  BY <1>2 DEF Quiet
<1>4. PICK new \in ForgeCallStates :
        /\ calls' = [calls EXCEPT ![c] = new] /\ new.at = "stash" /\ new.todo = Pending
        /\ \A e \in ForgeEntries : new.outcome[e] = "none"
  <2> DEFINE n == Call("stash", Pending, FALSE, NoOutcome)
  <2>1. /\ calls' = [calls EXCEPT ![c] = n]
        /\ n \in ForgeCallStates /\ n.at = "stash" /\ n.todo = Pending
        /\ \A e \in ForgeEntries : n.outcome[e] = "none"
    BY <1>1 DEF Call, NoOutcome, ForgeCallStates, ForgeOutcomes, Pending
  <2> HIDE DEF n
  <2> QED
    BY <2>1
<1>5. QuietCall(new)'
  BY <1>1, <1>3, <1>4 DEF QuietCall, Pending, AtWork
<1> QED
  BY <1>1, <1>2, <1>4, <1>5, BlameStays, CallQuiet

\* What is known of a call that runs.
LEMMA RunningQuiet ==
  ASSUME ForgeInv, Quiet, NEW c \in ForgeCalls, Running(c)
  PROVE  /\ QuietCall(calls[c]) /\ calls[c] \in ForgeCallStates
         /\ \A d \in ForgeCalls \ {c} : ~Running(d)
         /\ ~Contended(c)
BY DEF Quiet, ForgeInv, Contended

LEMMA StashQuiet ==
  ASSUME ForgeInv, BranchesOK, Quiet, NEW c \in ForgeCalls, Stash(c)
  PROVE  Quiet'
<1> DEFINE k == calls[c]
<1>1. k.at = "stash" /\ UNCHANGED <<tip, integrated, hasBranch, status, gitIndex>>
  BY DEF Stash, entryVars
<1>2. /\ QuietCall(k) /\ k \in ForgeCallStates /\ ~Contended(c)
      /\ \A d \in ForgeCalls \ {c} : ~Running(d)
  BY <1>1, RunningQuiet DEF Running
<1>3. stashes = 0 /\ gitIndex = "clean"
  BY <1>1, <1>2 DEF QuietCall
<1>4. PICK s \in BOOLEAN :
        /\ calls' = [calls EXCEPT ![c].at = "merge", ![c].stashed = s]
        /\ local' = FALSE /\ stashes' = IF s THEN 1 ELSE 0
  <2>1. CASE local = TRUE
    <3>1. CanStash
      BY <1>3, <2>1, Zenon DEF CanStash
    <3>2. calls' = [calls EXCEPT ![c].at = "merge", ![c].stashed = TRUE]
          /\ local' = FALSE /\ stashes' = stashes + 1
      BY <1>2, <3>1, Zenon DEF Stash
    <3>3. stashes' = IF TRUE THEN 1 ELSE 0
      BY <1>3, <3>2
    <3> QED
      BY <3>2, <3>3
  <2>2. CASE local = FALSE
    <3>1. ~CanStash
      BY <2>2, Zenon DEF CanStash
    <3>2. calls' = [calls EXCEPT ![c].at = "merge", ![c].stashed = FALSE]
          /\ UNCHANGED <<local, stashes>>
      BY <3>1, Zenon DEF Stash
    <3> QED
      BY <1>3, <2>2, <3>2
  <2> QED
    BY <2>1, <2>2 DEF BranchesOK
<1>5. PICK new \in ForgeCallStates :
        /\ calls' = [calls EXCEPT ![c] = new]
        /\ new.at = "merge" /\ new.stashed = s /\ new.todo = k.todo
        /\ new.outcome = k.outcome
  <2> DEFINE n == [k EXCEPT !.at = "merge", !.stashed = s]
  <2>1. /\ n \in ForgeCallStates /\ calls' = [calls EXCEPT ![c] = n]
        /\ n.at = "merge" /\ n.stashed = s /\ n.todo = k.todo
        /\ n.outcome = k.outcome
    BY <1>2, <1>4 DEF ForgeCallStates, ForgeInv
  <2> HIDE DEF n
  <2> QED
    BY <2>1
<1>6. QuietCall(new)'
  BY <1>1, <1>2, <1>3, <1>4, <1>5, BlameStays DEF QuietCall, AtWork
<1> QED
  BY <1>1, <1>2, <1>5, <1>6, BlameStays, CallQuiet

\* The merge of the entry e whose turn it is: what becomes of the call.
LEMMA MergeQuiet ==
  ASSUME ForgeInv, BranchesOK, Quiet, NEW c \in ForgeCalls, Merge(c)
  PROVE  Quiet'
<1> DEFINE k == calls[c]
<1>1. k.at = "merge" /\ UNCHANGED <<tip, hasBranch, status, local, stashes>>
  BY DEF Merge, entryVars
<1>2. /\ QuietCall(k) /\ k \in ForgeCallStates /\ ~Contended(c)
      /\ \A d \in ForgeCalls \ {c} : ~Running(d)
  BY <1>1, RunningQuiet DEF Running
<1>3. PICK e \in ForgeEntries : e = Current(c) /\ e = First(k.todo) /\ e \in k.todo
  BY <1>1, CurrentInTodo, CurrentIsFirst DEF AtWork
<1>4. /\ gitIndex = "clean" /\ local = FALSE /\ status[e] = "pending"
      /\ stashes = IF k.stashed THEN 1 ELSE 0
      /\ \A d \in k.todo : status[d] = "pending" /\ k.outcome[d] = "none"
  BY <1>1, <1>2, <1>3 DEF QuietCall, AtWork
<1>5. /\ tip \in [ForgeEntries -> Nat] /\ integrated \in [ForgeEntries -> Nat]
      /\ calls \in [ForgeCalls -> ForgeCallStates] /\ tip[e] > 0
      /\ k.todo \in SUBSET ForgeEntries
  BY <1>2 DEF ForgeInv, BranchesOK, ForgeCallStates
<1>6. CASE /\ integrated' = [integrated EXCEPT ![e] = tip[e]] /\ gitIndex' = gitIndex
           /\ calls' = [calls EXCEPT ![c].at = "pop", ![c].outcome[e] = "merged"]
  <2>1. PICK new \in ForgeCallStates :
          /\ calls' = [calls EXCEPT ![c] = new]
          /\ new.at = "pop" /\ new.stashed = k.stashed /\ new.todo = k.todo
          /\ new.outcome = [k.outcome EXCEPT ![e] = "merged"]
    <3> DEFINE n == [k EXCEPT !.at = "pop", !.outcome = [k.outcome EXCEPT ![e] = "merged"]]
    <3>1. calls' = [calls EXCEPT ![c] = n]
      BY <1>6
    <3>2. /\ n \in ForgeCallStates /\ n.at = "pop" /\ n.stashed = k.stashed
          /\ n.todo = k.todo /\ n.outcome = [k.outcome EXCEPT ![e] = "merged"]
      <4> HIDE DEF k
      <4> QED
        BY <1>2, <1>3 DEF ForgeCallStates, ForgeOutcomes
    <3> HIDE DEF n
    <3> QED
      BY <3>1, <3>2
  <2>2. \A d \in ForgeEntries \ {e} : Clashes(d) => Clashes(d)'
    <3>1. \A d \in ForgeEntries : integrated[d] > 0 => integrated'[d] > 0
      BY <1>5, <1>6
    <3>2. \A d \in ForgeEntries \ {e} : integrated'[d] = integrated[d]
      BY <1>5, <1>6
    <3> QED
      BY <1>1, <3>1, <3>2 DEF Clashes
  <2>3. \A d \in ForgeEntries : Blame(d)'
    BY <1>1, <1>4, <2>2 DEF Quiet, Blame
  <2>4. k.outcome \in [ForgeEntries -> ForgeOutcomes]
    BY <1>2 DEF ForgeCallStates
  <2>5. /\ new.outcome[e] = "merged"
        /\ \A d \in ForgeEntries \ {e} : new.outcome[d] = k.outcome[d]
    BY <2>1, <2>4
  <2>6. QuietCall(new)'
    BY <1>1, <1>2, <1>3, <1>4, <1>5, <1>6, <2>1, <2>2, <2>5 DEF QuietCall, AtWork
  <2> QED
    BY <1>2, <2>1, <2>3, <2>6, CallQuiet
<1>7. ASSUME integrated' = integrated, calls' = [calls EXCEPT ![c].at = "list"],
             \/ gitIndex' = "merging" /\ Clashes(e)
             \/ gitIndex' = "clean" /\ hasBranch[e] = FALSE
      PROVE  Quiet'
  <2>1. PICK new \in ForgeCallStates :
          /\ calls' = [calls EXCEPT ![c] = new]
          /\ new.at = "list" /\ new.stashed = k.stashed /\ new.todo = k.todo
          /\ new.outcome = k.outcome
    <3> DEFINE n == [k EXCEPT !.at = "list"]
    <3>1. /\ n \in ForgeCallStates /\ calls' = [calls EXCEPT ![c] = n]
          /\ n.at = "list" /\ n.stashed = k.stashed /\ n.todo = k.todo
          /\ n.outcome = k.outcome
      BY <1>2, <1>5, <1>7 DEF ForgeCallStates
    <3> HIDE DEF n
    <3> QED
      BY <3>1
  <2>2. /\ \A d \in ForgeEntries : Blame(d)'
        /\ \A d \in ForgeEntries : Clashes(d)' <=> Clashes(d)
    BY <1>1, <1>7, BlameStays
  <2>3. QuietCall(new)'
    BY <1>1, <1>2, <1>3, <1>4, <1>7, <2>1, <2>2 DEF QuietCall, AtWork
  <2> QED
    BY <1>2, <2>1, <2>2, <2>3, CallQuiet
<1>8. hasBranch[e] \in BOOLEAN
  BY DEF BranchesOK
<1>9. CASE CanMerge(e)
  BY <1>2, <1>3, <1>4, <1>6, <1>7, <1>9 DEF Merge, Merged
<1>10. CASE ~CanMerge(e)
  <2>1. hasBranch[e] = FALSE
    BY <1>4, <1>8, <1>10, Zenon DEF CanMerge
  <2> QED
    BY <1>3, <1>4, <1>7, <1>10, <2>1 DEF Merge
<1> QED
  BY <1>9, <1>10

\* The outcome: without unmerged paths the branch was not there.
LEMMA ListQuiet ==
  ASSUME ForgeInv, Quiet, NEW c \in ForgeCalls, ListConflicts(c)
  PROVE  Quiet'
<1> DEFINE k == calls[c]
<1>1. k.at = "list"
      /\ UNCHANGED <<tip, integrated, hasBranch, status, gitIndex, local, stashes>>
  BY DEF ListConflicts, entryVars, gitVars
<1>2. /\ QuietCall(k) /\ k \in ForgeCallStates
      /\ \A d \in ForgeCalls \ {c} : ~Running(d)
  BY <1>1, RunningQuiet DEF Running
<1>3. PICK e \in ForgeEntries : e = Current(c) /\ e = First(k.todo) /\ e \in k.todo
  BY <1>1, CurrentInTodo, CurrentIsFirst DEF AtWork
<1>4. /\ gitIndex \in {"clean", "merging"} /\ Verdict \in {"conflict", "failed"}
      /\ Verdict = "conflict" => Clashes(e)
      /\ Verdict = "failed" => hasBranch[e] = FALSE
  BY <1>1, <1>2, <1>3 DEF QuietCall, Verdict
<1>5. PICK v \in {"conflict", "failed"} : v = Verdict
  BY <1>4
<1>6. PICK new \in ForgeCallStates :
        /\ calls' = [calls EXCEPT ![c] = new]
        /\ new.at = "abort" /\ new.stashed = k.stashed /\ new.todo = k.todo
        /\ new.outcome = [k.outcome EXCEPT ![e] = v]
  <2> DEFINE n == [k EXCEPT !.at = "abort", !.outcome = [k.outcome EXCEPT ![e] = v]]
  <2>1. calls' = [calls EXCEPT ![c] = n]
    BY <1>3, <1>5 DEF ListConflicts
  <2>2. /\ n \in ForgeCallStates /\ n.at = "abort" /\ n.stashed = k.stashed
        /\ n.todo = k.todo /\ n.outcome = [k.outcome EXCEPT ![e] = v]
    <3> HIDE DEF k
    <3> QED
      BY <1>2, <1>3, <1>5 DEF ForgeCallStates, ForgeOutcomes
  <2> HIDE DEF n
  <2> QED
    BY <2>1, <2>2
<1>7. /\ new.outcome[e] = v
      /\ \A d \in ForgeEntries \ {e} : new.outcome[d] = k.outcome[d]
      /\ k.todo \in SUBSET ForgeEntries
  BY <1>2, <1>6 DEF ForgeCallStates
<1>8. /\ \A d \in ForgeEntries : Blame(d)'
      /\ \A d \in ForgeEntries : Clashes(d)' <=> Clashes(d)
  BY <1>1, BlameStays
<1>9. QuietCall(new)'
  <2>1. /\ \A d \in k.todo : status[d] = "pending" /\ k.outcome[d] = "none"
        /\ local = FALSE /\ stashes = IF k.stashed THEN 1 ELSE 0
        /\ \A d \in ForgeEntries :
             /\ k.outcome[d] = "conflict" => Clashes(d)
             /\ k.outcome[d] = "failed"   => hasBranch[d] = FALSE
    BY <1>1, <1>2 DEF QuietCall, AtWork
  <2> QED
    BY <1>1, <1>3, <1>4, <1>5, <1>6, <1>7, <1>8, <2>1 DEF QuietCall, AtWork
<1> QED
  BY <1>2, <1>6, <1>8, <1>9, CallQuiet

LEMMA AbortQuiet ==
  ASSUME ForgeInv, Quiet, NEW c \in ForgeCalls, Abort(c)
  PROVE  Quiet'
<1> DEFINE k == calls[c]
<1>1. k.at = "abort"
      /\ UNCHANGED <<tip, integrated, hasBranch, status, local, stashes>>
  BY DEF Abort, entryVars
<1>2. /\ QuietCall(k) /\ k \in ForgeCallStates /\ ~Contended(c)
      /\ \A d \in ForgeCalls \ {c} : ~Running(d)
  BY <1>1, RunningQuiet DEF Running
<1>3. gitIndex' = "clean"
  BY <1>1, <1>2 DEF Abort, IndexAfterAbort, QuietCall
<1>4. PICK new \in ForgeCallStates :
        /\ calls' = [calls EXCEPT ![c] = new]
        /\ new.at = "pop" /\ new.stashed = k.stashed /\ new.todo = k.todo
        /\ new.outcome = k.outcome
  <2> DEFINE n == [k EXCEPT !.at = "pop"]
  <2>1. /\ n \in ForgeCallStates /\ calls' = [calls EXCEPT ![c] = n]
        /\ n.at = "pop" /\ n.stashed = k.stashed /\ n.todo = k.todo
        /\ n.outcome = k.outcome
    BY <1>2 DEF ForgeCallStates, ForgeInv, Abort, AfterAbort
  <2> HIDE DEF n
  <2> QED
    BY <2>1
<1>5. /\ \A d \in ForgeEntries : Blame(d)'
      /\ \A d \in ForgeEntries : Clashes(d)' <=> Clashes(d)
  BY <1>1, BlameStays
<1>6. QuietCall(new)'
  BY <1>1, <1>2, <1>3, <1>4, <1>5 DEF QuietCall, AtWork
<1> QED
  BY <1>2, <1>4, <1>5, <1>6, CallQuiet

\* The pop puts back what the call stashed; one that clashes is a disturbance.
LEMMA PopQuiet ==
  ASSUME ForgeInv, Quiet, undisturbed' = TRUE, NEW c \in ForgeCalls, Pop(c)
  PROVE  Quiet'
<1> DEFINE k == calls[c]
<1>1. k.at = "pop" /\ UNCHANGED <<tip, integrated, hasBranch, status>>
  BY DEF Pop, entryVars
<1>2. /\ QuietCall(k) /\ k \in ForgeCallStates /\ ~Contended(c)
      /\ \A d \in ForgeCalls \ {c} : ~Running(d)
  BY <1>1, RunningQuiet DEF Running
<1>3. PICK e \in ForgeEntries : e = Current(c) /\ e = First(k.todo) /\ e \in k.todo
  BY <1>1, CurrentInTodo, CurrentIsFirst DEF AtWork
<1>4. /\ gitIndex = "clean" /\ local = FALSE /\ k.stashed \in BOOLEAN
      /\ stashes = IF k.stashed THEN 1 ELSE 0
      /\ \A d \in k.todo : status[d] = "pending"
      /\ \A d \in k.todo \ {e} : k.outcome[d] = "none"
  BY <1>1, <1>2, <1>3 DEF QuietCall, AtWork, ForgeCallStates
<1>5. gitIndex' = "clean" /\ stashes' = 0
  <2>1. CASE k.stashed = TRUE
    <3>1. stashes = 1
      BY <1>4, <2>1
    <3>2. gitIndex' = gitIndex /\ stashes' = stashes - 1
      <4>1. ~(~k.stashed \/ stashes = 0 \/ gitIndex # "clean" \/ local \/ Contended(c))
        BY <1>2, <1>4, <2>1, <3>1
      <4>2. ~(undisturbed' = FALSE)
        OBVIOUS
      <4> QED
        BY <4>1, <4>2 DEF Pop
    <3> QED
      BY <1>4, <3>1, <3>2
  <2>2. CASE k.stashed = FALSE
    BY <1>4, <2>2 DEF Pop
  <2> QED
    BY <1>4, <2>1, <2>2
<1>6. PICK new \in ForgeCallStates :
        /\ calls' = [calls EXCEPT ![c] = new]
        /\ new.at \in {"record", "stash"} /\ new.todo = k.todo \ {e}
        /\ new.outcome = k.outcome
  <2> DEFINE to == IF k.todo = {e} THEN "record" ELSE "stash"
             n == [k EXCEPT !.todo = k.todo \ {e}, !.stashed = FALSE, !.at = to]
  <2>1. calls' = [calls EXCEPT ![c] = n]
    BY <1>3 DEF Pop, NextEntry
  <2>2. to \in {"record", "stash"}
    OBVIOUS
  <2>3. k.todo \ {e} \in SUBSET ForgeEntries
    BY <1>2 DEF ForgeCallStates
  <2> HIDE DEF to
  <2>4. /\ n \in ForgeCallStates /\ n.at = to /\ n.todo = k.todo \ {e}
        /\ n.outcome = k.outcome
    <3> HIDE DEF k
    <3> QED
      BY <1>2, <2>2, <2>3 DEF ForgeCallStates
  <2> HIDE DEF n
  <2> QED
    BY <2>1, <2>2, <2>4
<1>7. /\ \A d \in ForgeEntries : Blame(d)'
      /\ \A d \in ForgeEntries : Clashes(d)' <=> Clashes(d)
  BY <1>1, BlameStays
<1>8. QuietCall(new)'
  <2>1. \A d \in ForgeEntries :
          /\ k.outcome[d] = "conflict" => Clashes(d)
          /\ k.outcome[d] = "failed"   => hasBranch[d] = FALSE
    BY <1>2 DEF QuietCall
  <2> QED
    BY <1>1, <1>4, <1>5, <1>6, <1>7, <2>1 DEF QuietCall, AtWork
<1> QED
  BY <1>2, <1>6, <1>7, <1>8, CallQuiet

\* An outcome is recorded with the reason the call had for it.
LEMMA RecordQuiet ==
  ASSUME ForgeInv, Quiet, NEW c \in ForgeCalls, NEW e \in ForgeEntries, Record(c, e)
  PROVE  Quiet'
<1> DEFINE k == calls[c]
<1>1. /\ k.at = "record" /\ status' = [status EXCEPT ![e] = k.outcome[e]]
      /\ UNCHANGED <<tip, integrated, hasBranch, gitIndex, local, stashes>>
  BY DEF Record, gitVars
<1>2. /\ QuietCall(k) /\ k \in ForgeCallStates
      /\ \A d \in ForgeCalls \ {c} : ~Running(d)
  BY <1>1, RunningQuiet DEF Running
<1>3. /\ gitIndex = "clean" /\ stashes = 0
      /\ \A d \in ForgeEntries :
           /\ k.outcome[d] = "conflict" => Clashes(d)
           /\ k.outcome[d] = "failed"   => hasBranch[d] = FALSE
  BY <1>1, <1>2 DEF QuietCall
<1>4. PICK new \in ForgeCallStates :
        /\ calls' = [calls EXCEPT ![c] = new]
        /\ new.at \in {"done", "record"} /\ new.todo = k.todo
        /\ new.outcome = [k.outcome EXCEPT ![e] = "none"]
  <2> DEFINE to == IF Decided(c) = {e} THEN "done" ELSE "record"
             n == [k EXCEPT !.outcome = [k.outcome EXCEPT ![e] = "none"], !.at = to]
  <2>1. calls' = [calls EXCEPT ![c] = n]
    BY DEF Record
  <2>2. to \in {"done", "record"}
    OBVIOUS
  <2> HIDE DEF to
  <2>3. /\ n \in ForgeCallStates /\ n.at = to /\ n.todo = k.todo
        /\ n.outcome = [k.outcome EXCEPT ![e] = "none"]
    <3> HIDE DEF k
    <3> QED
      BY <1>2, <2>2 DEF ForgeCallStates, ForgeOutcomes
  <2> HIDE DEF n
  <2> QED
    BY <2>1, <2>2, <2>3
<1>5. \A d \in ForgeEntries : Clashes(d)' <=> Clashes(d)
  BY <1>1 DEF Clashes
<1>6. \A d \in ForgeEntries : Blame(d)'
  <2>1. \A d \in ForgeEntries \ {e} : status'[d] = status[d]
    BY <1>1 DEF ForgeInv
  <2>2. status'[e] = k.outcome[e]
    BY <1>1 DEF ForgeInv
  <2> QED
    BY <1>1, <1>3, <1>5, <2>1, <2>2 DEF Quiet, Blame
<1>7. /\ new.outcome[e] = "none"
      /\ \A d \in ForgeEntries \ {e} : new.outcome[d] = k.outcome[d]
  BY <1>2, <1>4 DEF ForgeCallStates
<1>8. new.at = "record" => QuietCall(new)'
  BY <1>1, <1>3, <1>5, <1>7 DEF QuietCall, AtWork
<1> QED
  BY <1>1, <1>2, <1>3, <1>4, <1>6, <1>8, CallQuiet

LEMMA QuietStep == QuietInv /\ [ForgeNext]_forgeVars => QuietInv'
<1> SUFFICES ASSUME QuietInv, [ForgeNext]_forgeVars PROVE QuietInv'
  OBVIOUS
<1>1. ForgeInv /\ BranchesOK /\ ForgeInv' /\ BranchesOK'
  BY ForgeInvStep, BranchesStep DEF QuietInv
<1>2. SUFFICES ASSUME undisturbed' = TRUE PROVE Quiet'
  BY <1>1, Zenon DEF QuietInv
<1>3. CASE EditWorktree
  BY <1>1, <1>2, <1>3, EditQuiet, Zenon DEF QuietInv
<1>4. CASE Crash
  BY <1>2, <1>4 DEF Crash
<1>5. ASSUME NEW e \in ForgeEntries,
             Commit(e) \/ SubmitToForge(e) \/ Retry(e) \/ RemoveBranch(e)
      PROVE  Quiet'
  <2>1. undisturbed' = undisturbed
    BY <1>5 DEF Commit, SubmitToForge, Retry, RemoveBranch
  <2> QED
    BY <1>1, <1>2, <1>5, <2>1, UsersQuiet DEF QuietInv
<1>6. ASSUME NEW c \in ForgeCalls, Snapshot(c) PROVE Quiet'
  <2>1. ~Contended(c) /\ undisturbed' = undisturbed
    BY <1>2, <1>6 DEF Snapshot
  <2> QED
    BY <1>1, <1>2, <1>6, <2>1, SnapshotQuiet DEF QuietInv
<1>7. ASSUME NEW c \in ForgeCalls,
             \/ Stash(c) \/ Merge(c) \/ ListConflicts(c) \/ Abort(c)
             \/ \E e \in ForgeEntries : Record(c, e)
      PROVE  Quiet'
  <2>1. undisturbed' = undisturbed
    BY <1>7 DEF Stash, Merge, ListConflicts, Abort, Record
  <2> QED
    BY <1>1, <1>2, <1>7, <2>1, StashQuiet, MergeQuiet, ListQuiet, AbortQuiet,
       RecordQuiet DEF QuietInv
<1>8. ASSUME NEW c \in ForgeCalls, Pop(c) PROVE Quiet'
  <2>1. undisturbed' = undisturbed
    BY <1>2, <1>8 DEF Pop
  <2> QED
    BY <1>1, <1>2, <1>8, <2>1, PopQuiet DEF QuietInv
<1>9. CASE UNCHANGED forgeVars
  <2>1. undisturbed' = undisturbed
        /\ UNCHANGED <<calls, gitIndex, local, stashes, status, tip, integrated, hasBranch>>
    BY <1>9 DEF forgeVars
  <2>2. \A e \in ForgeEntries : Clashes(e) => Clashes(e)'
    BY <2>1 DEF Clashes
  <2> QED
    BY <1>1, <1>2, <2>1, <2>2, OthersQuiet DEF QuietInv
<1> QED
  BY <1>3, <1>4, <1>5, <1>6, <1>7, <1>8, <1>9 DEF ForgeNext

\* As long as nothing disturbs the calls, a branch is blamed only for its own
\* trouble, for any number of entries (swarm/forge.go:50-51, 66-69).
THEOREM BlameIsJustHolds == ForgeSpec => []BlameIsJust
<1>1. QuietInv => BlameIsJust
  BY DEF QuietInv, Quiet, Blame, BlameIsJust
<1> QED
  BY <1>1, QuietInit, QuietStep, PTL DEF ForgeSpec

\* As long as nothing disturbs the calls, no stash entry is left when none runs
\* (swarm/forge.go:50-51, 83-99).
THEOREM EditsComeBackHolds == ForgeSpec => []EditsComeBack
<1>1. QuietInv => EditsComeBack
  BY DEF QuietInv, Quiet, EditsComeBack
<1> QED
  BY <1>1, QuietInit, QuietStep, PTL DEF ForgeSpec

\* Both, for any number of entries and calls (swarm/forge.go:50-99).
THEOREM UndisturbedForgeHolds == ForgeSpec => []UndisturbedForge
BY BlameIsJustHolds, EditsComeBackHolds, PTL DEF UndisturbedForge

-----------------------------------------------------------------------------
(* Worktrees. A worktree that exists is accounted for by its row, by its    *)
(* worker's creation that goes on, or by what spared it; whatever takes one *)
(* of the three away removes the worktree or spares it. A removal that      *)
(* deletes the rows has been through all workers it listed, and none of     *)
(* these makes a worktree again.                                            *)

\* Every step keeps to the types.
LEMMA TreesTypeStep == TreesTypeOK /\ [TreesNext]_treeVars => TreesTypeOK'
<1> SUFFICES ASSUME TreesTypeOK, [TreesNext]_treeVars PROVE TreesTypeOK'
  OBVIOUS
<1> USE DEF TreesTypeOK
<1> DEFINE RemovalType == [kind : {"none", "end", "cleanup"},
                           at : {"idle", "list", "remove", "delete", "done", "dead"},
                           listed : SUBSET TreeWorkers, todo : SUBSET TreeWorkers]
<1>1. ASSUME NEW w \in TreeWorkers,
             SpawnAddsTree(w) \/ SpawnSavesRow(w) \/ SpawnFails(w) PROVE TreesTypeOK'
  BY <1>1 DEF SpawnAddsTree, SpawnSavesRow, SpawnFails
<1>2. ASSUME NEW w \in TreeWorkers, SpawnCleansUp(w) PROVE TreesTypeOK'
  BY <1>2 DEF SpawnCleansUp, UndoTree, GitRemoves
<1>3. ASSUME NEW r \in Removals, EndMission(r) \/ CleanupMission(r) PROVE TreesTypeOK'
  BY <1>3 DEF EndMission, CleanupMission, Removal
<1>4. ASSUME NEW kind \in {"none", "end", "cleanup"}, NEW all \in SUBSET TreeWorkers,
             NEW todo \in SUBSET TreeWorkers
      PROVE  Standing(kind, all, todo) \in RemovalType
  BY DEF Standing, Removal
<1>5. ASSUME NEW r \in Removals, ListWorkersOf(r) PROVE TreesTypeOK'
  BY <1>4, <1>5 DEF ListWorkersOf
<1>6. ASSUME NEW r \in Removals, NEW w \in TreeWorkers, RemoveTree(r, w) PROVE TreesTypeOK'
  BY <1>4, <1>6 DEF RemoveTree, LeftAfter, GitRemoves
<1>7. ASSUME NEW r \in Removals, DeleteMission(r) PROVE TreesTypeOK'
  BY <1>7 DEF DeleteMission, Removal
<1>10. ASSUME NEW r \in Removals, RemovalFails(r) PROVE TreesTypeOK'
  BY <1>10 DEF RemovalFails, Removal
<1>8. CASE CrashTrees
  <2>1. removals' \in [Removals -> RemovalType]
    BY <1>8 DEF CrashTrees
  <2> QED
    BY <1>8, <2>1 DEF CrashTrees
<1>9. CASE UNCHANGED treeVars
  BY <1>9 DEF treeVars
<1> QED
  BY <1>1, <1>2, <1>3, <1>5, <1>6, <1>7, <1>8, <1>9, <1>10 DEF TreesNext

\* The worktree of a worker with a row is made, and those a removal is done with are gone.
ListedDone ==
  /\ \A w \in workerRows : making[w] = "done"
  /\ \A r \in Removals :
       /\ \A w \in removals[r].listed : making[w] = "done"
       /\ \A w \in removals[r].listed \ removals[r].todo : w \in trees => w \in spared
       /\ removals[r].at = "delete" => removals[r].todo = {}

TreesInv == TreesTypeOK /\ TreesAccountedFor /\ ListedDone

LEMMA TreesInvInit == TreesInit => TreesInv
<1> SUFFICES ASSUME TreesInit PROVE TreesInv
  OBVIOUS
<1>1. NoRemoval \in [kind : {"none", "end", "cleanup"},
                     at : {"idle", "list", "remove", "delete", "done", "dead"},
                     listed : SUBSET TreeWorkers, todo : SUBSET TreeWorkers]
  BY DEF NoRemoval, Removal
<1>2. NoRemoval.listed = {} /\ NoRemoval.at = "idle"
  BY DEF NoRemoval, Removal
<1>3. ListedDone
  BY <1>2 DEF TreesInit, ListedDone
<1> QED
  BY <1>1, <1>3 DEF TreesInit, TreesInv, TreesTypeOK, TreesAccountedFor

\* The record of one removal becomes "new".
LEMMA RemovalMoves ==
  ASSUME TreesInv, NEW r \in Removals, NEW new,
         removals' = [removals EXCEPT ![r] = new],
         making' = making, workerRows' \subseteq workerRows,
         trees' \subseteq trees, spared \subseteq spared',
         \A w \in new.listed : making[w] = "done",
         \A w \in new.listed \ new.todo : w \in trees' => w \in spared',
         new.at = "delete" => new.todo = {}
  PROVE  ListedDone'
<1>1. \A q \in Removals : removals'[q] = IF q = r THEN new ELSE removals[q]
  BY DEF TreesInv, TreesTypeOK
<1> QED
  BY <1>1 DEF TreesInv, ListedDone

LEMMA TreesInvStep == TreesInv /\ [TreesNext]_treeVars => TreesInv'
<1> SUFFICES ASSUME TreesInv, [TreesNext]_treeVars PROVE TreesAccountedFor' /\ ListedDone'
  BY TreesTypeStep DEF TreesInv
<1> DEFINE Good == TreesAccountedFor /\ ListedDone
<1>0. TreesTypeOK /\ TreesAccountedFor /\ ListedDone
  BY DEF TreesInv
<1>1. ASSUME NEW w \in TreeWorkers, SpawnAddsTree(w) PROVE Good'
  BY <1>0, <1>1 DEF SpawnAddsTree, TreesTypeOK, TreesAccountedFor, ListedDone, InTheMaking
<1>2. ASSUME NEW w \in TreeWorkers, SpawnSavesRow(w) PROVE Good'
  BY <1>0, <1>2 DEF SpawnSavesRow, TreesTypeOK, TreesAccountedFor, ListedDone, InTheMaking
<1>3. ASSUME NEW w \in TreeWorkers, SpawnFails(w) PROVE Good'
  BY <1>0, <1>3 DEF SpawnFails, TreesTypeOK, TreesAccountedFor, ListedDone, InTheMaking
<1>4. ASSUME NEW w \in TreeWorkers, SpawnCleansUp(w) PROVE Good'
  BY <1>0, <1>4 DEF SpawnCleansUp, UndoTree, GitRemoves, TreesTypeOK, TreesAccountedFor,
                    ListedDone, InTheMaking
<1>5. ASSUME NEW r \in Removals, EndMission(r) \/ CleanupMission(r) PROVE Good'
  <2>1. /\ UNCHANGED <<workerRows, trees, making, spared>>
        /\ \E kind \in {"end", "cleanup"} :
             removals' = [removals EXCEPT ![r] = Removal(kind, "list", {}, {})]
    BY <1>5 DEF EndMission, CleanupMission
  <2>2. \A kind : Removal(kind, "list", {}, {}).listed = {} /\
                  Removal(kind, "list", {}, {}).at = "list"
    BY DEF Removal
  <2>3. ListedDone'
    BY <1>0, <2>1, <2>2, RemovalMoves
  <2> QED
    BY <1>0, <2>1, <2>3 DEF TreesAccountedFor, InTheMaking
<1>6. ASSUME NEW r \in Removals, ListWorkersOf(r) PROVE Good'
  <2> DEFINE new == Standing(removals[r].kind, workerRows, workerRows)
  <2>1. /\ UNCHANGED <<workerRows, trees, making, spared>>
        /\ removals' = [removals EXCEPT ![r] = new]
    BY <1>6 DEF ListWorkersOf
  <2>2. /\ new.listed = workerRows /\ new.todo = workerRows
        /\ new.at = "delete" => new.todo = {}
    BY DEF Standing, Removal
  <2> HIDE DEF new
  <2>3. \A w \in workerRows : making[w] = "done"
    BY <1>0 DEF ListedDone
  <2>4. ListedDone'
    BY <1>0, <2>1, <2>2, <2>3, RemovalMoves
  <2> QED
    BY <1>0, <2>1, <2>4 DEF TreesAccountedFor, InTheMaking
<1>7. ASSUME NEW r \in Removals, NEW w \in TreeWorkers, RemoveTree(r, w) PROVE Good'
  <2> DEFINE new == Standing(removals[r].kind, removals[r].listed, removals[r].todo \ {w})
  <2>1. /\ UNCHANGED <<workerRows, making>> /\ GitRemoves(w)
        /\ removals' = [removals EXCEPT ![r] = new]
    BY <1>7 DEF RemoveTree, LeftAfter
  <2>2. /\ new.listed = removals[r].listed /\ new.todo = removals[r].todo \ {w}
        /\ new.at = "delete" => new.todo = {}
    BY DEF Standing, Removal
  <2> HIDE DEF new
  <2>3. /\ trees' \subseteq trees /\ spared \subseteq spared'
        /\ w \in trees' => w \in spared'
    BY <2>1 DEF GitRemoves
  <2>4. /\ \A v \in new.listed : making[v] = "done"
        /\ \A v \in new.listed \ new.todo : v \in trees' => v \in spared'
    BY <1>0, <2>2, <2>3 DEF ListedDone
  <2>5. ListedDone'
    BY <1>0, <2>1, <2>2, <2>3, <2>4, RemovalMoves
  <2>6. TreesAccountedFor'
    BY <1>0, <2>1, <2>3 DEF TreesAccountedFor, InTheMaking
  <2> QED
    BY <2>5, <2>6
<1>8. ASSUME NEW r \in Removals, DeleteMission(r) PROVE Good'
  <2> DEFINE new == Removal("cleanup", "done", removals[r].listed, {})
  <2>1. /\ removals[r].at = "delete" /\ trees' = trees /\ making' = making /\ workerRows' = {}
        /\ spared' = spared \union ((workerRows \intersect trees) \ removals[r].listed)
        /\ removals' = [removals EXCEPT ![r] = new]
    BY <1>8 DEF DeleteMission
  <2>2. new.listed = removals[r].listed /\ new.todo = {} /\ new.at = "done"
    BY DEF Removal
  <2> HIDE DEF new
  <2>3. \A w \in removals[r].listed : making[w] = "done" /\ (w \in trees => w \in spared)
    BY <1>0, <2>1 DEF ListedDone
  <2>4. ListedDone'
    BY <1>0, <2>1, <2>2, <2>3, RemovalMoves
  <2>5. TreesAccountedFor'
    BY <1>0, <2>1, <2>3 DEF TreesAccountedFor, InTheMaking
  <2> QED
    BY <2>4, <2>5
<1>11. ASSUME NEW r \in Removals, RemovalFails(r) PROVE Good'
  <2> DEFINE new == Removal(removals[r].kind, "dead", removals[r].listed, removals[r].todo)
  <2>1. /\ UNCHANGED <<workerRows, trees, making, spared>>
        /\ removals' = [removals EXCEPT ![r] = new]
    BY <1>11 DEF RemovalFails
  <2>2. /\ new.listed = removals[r].listed /\ new.todo = removals[r].todo
        /\ new.at = "dead"
    BY DEF Removal
  <2> HIDE DEF new
  <2>3. /\ \A w \in new.listed : making[w] = "done"
        /\ \A w \in new.listed \ new.todo : w \in trees => w \in spared
    BY <1>0, <2>2 DEF ListedDone
  <2>4. ListedDone'
    BY <1>0, <2>1, <2>2, <2>3, RemovalMoves
  <2> QED
    BY <1>0, <2>1, <2>4 DEF TreesAccountedFor, InTheMaking
<1>9. CASE CrashTrees
  <2>1. /\ UNCHANGED <<workerRows, trees>>
        /\ spared' = spared \union {t \in trees : InTheMaking(t)}
        /\ \A t \in TreeWorkers : making'[t] = IF InTheMaking(t) THEN "done" ELSE making[t]
        /\ \A r \in Removals :
             /\ removals'[r].listed = removals[r].listed
             /\ removals'[r].todo = removals[r].todo
             /\ removals'[r].at = "delete" => removals[r].at = "delete"
    BY <1>0, <1>9 DEF CrashTrees, TreesTypeOK
  <2>2. TreesAccountedFor'
    BY <1>0, <2>1 DEF TreesAccountedFor, TreesTypeOK
  <2>3. \A t \in TreeWorkers : making[t] = "done" => making'[t] = "done"
    BY <2>1
  <2>4. \A w \in workerRows : making'[w] = "done"
    BY <1>0, <2>3 DEF ListedDone, TreesTypeOK
  <2>5. ASSUME NEW r \in Removals
        PROVE  /\ \A w \in removals'[r].listed : making'[w] = "done"
               /\ \A w \in removals'[r].listed \ removals'[r].todo : w \in trees' => w \in spared'
               /\ removals'[r].at = "delete" => removals'[r].todo = {}
    <3>1. removals[r].listed \subseteq TreeWorkers
      BY <1>0 DEF TreesTypeOK
    <3>2. /\ \A w \in removals[r].listed : making[w] = "done"
          /\ \A w \in removals[r].listed \ removals[r].todo : w \in trees => w \in spared
          /\ removals[r].at = "delete" => removals[r].todo = {}
      BY <1>0 DEF ListedDone
    <3>3. /\ removals'[r].listed = removals[r].listed /\ removals'[r].todo = removals[r].todo
          /\ removals'[r].at = "delete" => removals[r].at = "delete"
      BY <2>1
    <3>4. \A w \in removals'[r].listed : making'[w] = "done"
      BY <2>3, <3>1, <3>2, <3>3
    <3>5. \A w \in removals'[r].listed \ removals'[r].todo : w \in trees' => w \in spared'
      BY <2>1, <3>2, <3>3
    <3> QED
      BY <3>2, <3>3, <3>4, <3>5
  <2>6. ListedDone'
    BY <2>1, <2>4, <2>5 DEF ListedDone
  <2> QED
    BY <2>2, <2>6
<1>10. CASE UNCHANGED treeVars
  BY <1>0, <1>10 DEF treeVars, TreesAccountedFor, ListedDone, InTheMaking
<1> QED
  BY <1>1, <1>2, <1>3, <1>4, <1>5, <1>6, <1>7, <1>8, <1>9, <1>10, <1>11 DEF TreesNext

\* No order of spawns, failures, ends, deletions and crashes leaves a worktree that nobody
\* knows, unless git failed on it, the crash came while it was made, or its worker got
\* its row after a deletion of the mission had listed the workers (swarm/store.go:64-112).
THEOREM TreesAccountedForHolds == TreesSpec => []TreesAccountedFor
<1>1. TreesInv => TreesAccountedFor
  BY DEF TreesInv
<1> QED
  BY <1>1, TreesInvInit, TreesInvStep, PTL DEF TreesSpec

-----------------------------------------------------------------------------
(* PreviewMerge. Only one call at a time is at work, unless two overlapped, *)
(* so that nothing is taken from a preview but by the call that begins it   *)
(* anew.                                                                    *)

PreviewType == [at : {"idle", "clear", "add", "merge", "abort", "done", "error"},
                todo : SUBSET PreviewBranches, failed : SUBSET PreviewBranches]

OneMerging == ~overlapped => \A c, d \in PreviewCalls : Merging(c) /\ Merging(d) => c = d

HasTurn == \A c \in PreviewCalls : previews[c].at \in {"merge", "abort"} => previews[c].todo # {}

PreviewInv == PreviewTypeOK /\ OneMerging /\ HasTurn

\* The branch whose turn it is is one that is to be merged.
LEMMA TurnIsListed ==
  ASSUME PreviewTypeOK, NEW c \in PreviewCalls, previews[c].todo # {}
  PROVE  Turn(c) \in previews[c].todo
<1>1. previews[c].todo \subseteq PreviewBranches /\ PreviewBranches \subseteq Nat
  BY PreviewAssumption DEF PreviewTypeOK
<1> DEFINE Less == {pair \in Nat \X Nat : pair[1] < pair[2]}
<1>2. IsWellFoundedOn(Less, Nat)
  BY NatLessThanWellFounded DEF OpToRel
<1>2a. \A d, b \in Nat : d < b => <<d, b>> \in Less
  OBVIOUS
<1> HIDE DEF Less
<1>3. PICK b \in previews[c].todo : \A d \in previews[c].todo : ~(<<d, b>> \in Less)
  BY <1>1, <1>2, WFMin
<1>4. \A d \in previews[c].todo : b <= d
  <2> SUFFICES ASSUME NEW d \in previews[c].todo PROVE b <= d
    OBVIOUS
  <2>1. d \in Nat /\ b \in Nat
    BY <1>1
  <2>2. ~(d < b)
    BY <1>2a, <1>3, <2>1
  <2> QED
    BY <2>1, <2>2
<1> QED
  BY <1>4 DEF Turn

\* A call that goes on to the next branch keeps what it took and reported.
LEMMA GoesOn ==
  ASSUME PreviewInv, NEW c \in PreviewCalls, previews[c].todo # {},
         NEW failed \in SUBSET PreviewBranches
  PROVE  /\ GoOn(c, failed) \in PreviewType
         /\ GoOn(c, failed).at \in {"merge", "done"}
         /\ GoOn(c, failed).at = "merge" => GoOn(c, failed).todo # {}
         /\ GoOn(c, failed).todo = previews[c].todo \ {Turn(c)}
         /\ GoOn(c, failed).failed = failed
BY DEF GoOn, Preview, PreviewType, PreviewInv, PreviewTypeOK

\* A step of one call, whose state becomes "new".
LEMMA PreviewMoves ==
  ASSUME PreviewInv, NEW c \in PreviewCalls, NEW new \in PreviewType,
         previews' = [previews EXCEPT ![c] = new],
         previewTree' \in {"absent", "clean", "merging"}, previewHas' \subseteq PreviewBranches,
         projectMerge' \in BOOLEAN, existing' = existing,
         \/ Merging(c) /\ overlapped' = overlapped
         \/ overlapped' = (overlapped \/ NotAlone(c)),
         new.at \in {"merge", "abort"} => new.todo # {}
  PROVE  /\ PreviewInv' /\ previews'[c] = new
         /\ \A d \in PreviewCalls \ {c} : previews'[d] = previews[d]
<1>1. previews \in [PreviewCalls -> PreviewType] /\ overlapped \in BOOLEAN
  BY DEF PreviewInv, PreviewTypeOK, PreviewType
<1>2. /\ previews' \in [PreviewCalls -> PreviewType] /\ previews'[c] = new
      /\ \A d \in PreviewCalls \ {c} : previews'[d] = previews[d]
  BY <1>1
<1>3. overlapped' \in BOOLEAN /\ (overlapped => overlapped')
  BY <1>1
<1>4. PreviewTypeOK'
  BY <1>2, <1>3 DEF PreviewInv, PreviewTypeOK, PreviewType
<1>5. ASSUME ~overlapped'
      PROVE  \A d \in PreviewCalls \ {c} : ~Merging(d) \/ ~Merging(c)'
  BY <1>3, <1>5 DEF PreviewInv, OneMerging, NotAlone
<1>6. OneMerging'
  BY <1>2, <1>3, <1>5 DEF PreviewInv, OneMerging, Merging
<1>7. HasTurn'
  BY <1>2 DEF PreviewInv, HasTurn
<1> QED
  BY <1>2, <1>4, <1>6, <1>7 DEF PreviewInv

LEMMA PreviewInvInit == PreviewInit => PreviewInv
<1> SUFFICES ASSUME PreviewInit PROVE PreviewInv
  OBVIOUS
<1>1. NoPreview \in PreviewType /\ NoPreview.at = "idle"
  BY DEF NoPreview, Preview, PreviewType
<1>2. \A c \in PreviewCalls : previews[c].at = "idle"
  BY <1>1 DEF PreviewInit
<1>3. PreviewTypeOK
  BY <1>1 DEF PreviewInit, PreviewTypeOK, PreviewType
<1> QED
  BY <1>2, <1>3 DEF PreviewInv, OneMerging, HasTurn, Merging

\* What a call took is known as long as it is at work: in the preview, reported as
\* failed, or still to be merged.
Known(c) == previews[c].todo \union previews[c].failed \union previewHas

KeepsKnown ==
  \A c \in PreviewCalls :
    Merging(c) /\ ~overlapped' /\ previews[c].at # "clear" => Known(c) \subseteq Known(c)'

LEMMA PreviewInvStep ==
  PreviewInv /\ [PreviewNext]_previewVars => PreviewInv' /\ KeepsKnown
<1> SUFFICES ASSUME PreviewInv, [PreviewNext]_previewVars PROVE PreviewInv' /\ KeepsKnown
  OBVIOUS
<1>0. /\ existing \subseteq PreviewBranches
      /\ previewTree \in {"absent", "clean", "merging"}
      /\ previewHas \subseteq PreviewBranches
      /\ projectMerge \in BOOLEAN /\ overlapped \in BOOLEAN
      /\ previews \in [PreviewCalls -> PreviewType]
  BY DEF PreviewInv, PreviewTypeOK, PreviewType
<1>1. CASE UserMerges \/ (\E b \in PreviewBranches : DeleteBranch(b)) \/ UNCHANGED previewVars
  <2>1. /\ UNCHANGED <<previewTree, previewHas, previews, overlapped>>
        /\ existing' \subseteq existing /\ projectMerge' \in BOOLEAN
    BY <1>0, <1>1 DEF UserMerges, DeleteBranch, previewVars
  <2> QED
    BY <1>0, <2>1
    DEF PreviewInv, PreviewTypeOK, OneMerging, HasTurn, Merging, KeepsKnown, Known
<1>2. ASSUME NEW c \in PreviewCalls, NEW listed \in SUBSET PreviewBranches,
             PreviewBegins(c, listed)
      PROVE  PreviewInv' /\ KeepsKnown
  <2>1. /\ previews[c] = NoPreview
        /\ previews' = [previews EXCEPT ![c] = Preview("clear", listed, {})]
        /\ overlapped' = (overlapped \/ NotAlone(c))
        /\ UNCHANGED <<existing, previewTree, previewHas, projectMerge>>
    BY <1>2 DEF PreviewBegins
  <2>2. /\ Preview("clear", listed, {}) \in PreviewType
        /\ Preview("clear", listed, {}).at = "clear"
    BY DEF Preview, PreviewType
  <2>3. PreviewInv' /\ \A d \in PreviewCalls \ {c} : previews'[d] = previews[d]
    BY <1>0, <2>1, <2>2, PreviewMoves
  <2>4. ~Merging(c)
    BY <2>1 DEF Merging, NoPreview, Preview
  <2> QED
    BY <2>1, <2>3, <2>4 DEF KeepsKnown, Known
<1>3. ASSUME NEW c \in PreviewCalls, ClearPreview(c) PROVE PreviewInv' /\ KeepsKnown
  <2> DEFINE new == [previews[c] EXCEPT !.at = "add"]
  <2>1. /\ previews[c].at = "clear" /\ previews' = [previews EXCEPT ![c] = new]
        /\ previewTree' \in {"absent", "clean", "merging"}
        /\ previewHas' \subseteq PreviewBranches
        /\ UNCHANGED <<existing, projectMerge, overlapped>>
    BY <1>0, <1>3 DEF ClearPreview
  <2>2. new \in PreviewType /\ new.at = "add"
    BY <1>0 DEF PreviewType
  <2> HIDE DEF new
  <2>3. Merging(c)
    BY <2>1 DEF Merging
  <2>4. PreviewInv'
    BY <1>0, <2>1, <2>2, <2>3, PreviewMoves
  <2>5. ASSUME ~overlapped' PROVE \A d \in PreviewCalls \ {c} : ~Merging(d)
    BY <2>1, <2>3, <2>5 DEF PreviewInv, OneMerging
  <2> QED
    BY <2>1, <2>4, <2>5 DEF KeepsKnown
\* Steps that leave what is in the preview, and what the call has to do.
<1>4. ASSUME NEW c \in PreviewCalls, Merging(c), NEW at \in {"add", "merge", "abort", "done", "error"},
             previews' = [previews EXCEPT ![c] = [previews[c] EXCEPT !.at = at]],
             at \in {"merge", "abort"} => previews[c].todo # {},
             previewTree' \in {"absent", "clean", "merging"},
             UNCHANGED <<existing, previewHas, projectMerge, overlapped>>
      PROVE  PreviewInv' /\ KeepsKnown
  <2> DEFINE new == [previews[c] EXCEPT !.at = at]
  <2>1. /\ new \in PreviewType /\ new.at = at /\ new.todo = previews[c].todo
        /\ new.failed = previews[c].failed
    BY <1>0 DEF PreviewType
  <2>2. previews' = [previews EXCEPT ![c] = new]
    BY <1>4
  <2> HIDE DEF new
  <2>3. /\ PreviewInv' /\ previews'[c] = new
        /\ \A d \in PreviewCalls \ {c} : previews'[d] = previews[d]
    BY <1>0, <1>4, <2>1, <2>2, PreviewMoves
  <2> QED
    BY <1>4, <2>1, <2>3 DEF KeepsKnown, Known
<1>5. ASSUME NEW c \in PreviewCalls, AddPreview(c) PROVE PreviewInv' /\ KeepsKnown
  <2>1. Merging(c) /\ UNCHANGED <<existing, previewHas, projectMerge, overlapped>>
        /\ previewTree' \in {"absent", "clean", "merging"}
    BY <1>0, <1>5 DEF AddPreview, Merging
  <2>2. PICK at \in {"add", "merge", "abort", "done", "error"} :
          /\ previews' = [previews EXCEPT ![c] = [previews[c] EXCEPT !.at = at]]
          /\ at \in {"merge", "abort"} => previews[c].todo # {}
    BY <1>0, <1>5 DEF AddPreview
  <2> QED
    BY <1>4, <2>1, <2>2
<1>6. ASSUME NEW c \in PreviewCalls, MergeIntoPreview(c) PROVE PreviewInv' /\ KeepsKnown
  <2>1. Merging(c) /\ previews[c].at = "merge" /\ previews[c].todo # {}
        /\ UNCHANGED <<existing, projectMerge, overlapped>>
    BY <1>6 DEF MergeIntoPreview, Merging, PreviewInv, HasTurn
  <2>2. CASE /\ previewTree' \in {"absent", "clean", "merging"} /\ UNCHANGED previewHas
             /\ previews' = [previews EXCEPT ![c].at = "abort"]
    <3>1. previews' = [previews EXCEPT ![c] = [previews[c] EXCEPT !.at = "abort"]]
      BY <1>0, <2>2
    <3>2. "abort" \in {"add", "merge", "abort", "done", "error"}
      OBVIOUS
    <3> QED
      BY <1>4, <2>1, <2>2, <3>1, <3>2
  <2>3. CASE /\ previewHas' = previewHas \union {Turn(c)} /\ UNCHANGED previewTree
             /\ previews' = [previews EXCEPT ![c] = GoOn(c, previews[c].failed)]
    <3>1. previews[c].failed \in SUBSET PreviewBranches /\ previews[c].todo \subseteq PreviewBranches
      BY <1>0 DEF PreviewType
    <3> DEFINE new == GoOn(c, previews[c].failed)
    <3>2. /\ new \in PreviewType /\ (new.at = "merge" => new.todo # {})
          /\ new.at \in {"merge", "done"}
          /\ new.todo = previews[c].todo \ {Turn(c)} /\ new.failed = previews[c].failed
      BY <2>1, <3>1, GoesOn
    <3>3. previewHas' \subseteq PreviewBranches
      BY <1>0, <2>1, <2>3, <3>1, TurnIsListed DEF PreviewInv
    <3>3a. previews' = [previews EXCEPT ![c] = new]
      BY <2>3
    <3> HIDE DEF new
    <3>4. /\ PreviewInv' /\ previews'[c] = new
          /\ \A d \in PreviewCalls \ {c} : previews'[d] = previews[d]
      BY <1>0, <2>1, <2>3, <3>2, <3>3, <3>3a, PreviewMoves
    <3> QED
      BY <2>3, <3>2, <3>4 DEF KeepsKnown, Known
  <2> QED
    BY <1>0, <1>6, <2>2, <2>3 DEF MergeIntoPreview
<1>7. ASSUME NEW c \in PreviewCalls, AbortPreviewMerge(c) PROVE PreviewInv' /\ KeepsKnown
  <2> DEFINE new == GoOn(c, Reported(c))
  <2>1. /\ Merging(c) /\ previews[c].todo # {}
        /\ projectMerge' = FALSE /\ previews' = [previews EXCEPT ![c] = new]
        /\ UNCHANGED <<existing, previewTree, previewHas, overlapped>>
    BY <1>7 DEF AbortPreviewMerge, Merging, PreviewInv, HasTurn
  <2>2. /\ previews[c].failed \in SUBSET PreviewBranches
        /\ previews[c].todo \in SUBSET PreviewBranches
    BY <1>0 DEF PreviewType
  <2>3. Reported(c) = previews[c].failed \union {Turn(c)} /\ Reported(c) \in SUBSET PreviewBranches
    BY <2>1, <2>2, TurnIsListed DEF Reported, PreviewInv
  <2>4. /\ new \in PreviewType /\ (new.at = "merge" => new.todo # {})
        /\ new.at \in {"merge", "done"}
        /\ new.todo = previews[c].todo \ {Turn(c)} /\ new.failed = Reported(c)
    BY <2>1, <2>3, GoesOn
  <2> HIDE DEF new
  <2>5. /\ PreviewInv' /\ previews'[c] = new
        /\ \A d \in PreviewCalls \ {c} : previews'[d] = previews[d]
    BY <1>0, <2>1, <2>4, PreviewMoves
  <2> QED
    BY <2>1, <2>3, <2>4, <2>5 DEF KeepsKnown, Known
<1> QED
  BY <1>1, <1>2, <1>3, <1>5, <1>6, <1>7 DEF PreviewNext

\* While the preview has no conflict in it, only deleted branches were reported.
JustReports ==
  ~overlapped => \A c \in PreviewCalls : Merging(c) =>
    /\ previews[c].at \in {"clear", "add"} => previews[c].failed = {}
    /\ previewTree = "clean" =>
         /\ previews[c].failed \intersect existing = {}
         /\ previews[c].at = "abort" => Turn(c) \notin existing

JustStep ==
  ~overlapped' => \A c \in PreviewCalls :
    Merging(c) /\ previewTree' = "clean" => previews'[c].failed \intersect existing' = {}

LEMMA JustReportsStep ==
  PreviewInv /\ JustReports /\ [PreviewNext]_previewVars => JustReports' /\ JustStep
<1> SUFFICES ASSUME PreviewInv, JustReports, [PreviewNext]_previewVars, ~overlapped'
             PROVE  JustReports' /\ JustStep
  BY DEF JustReports, JustStep
<1>0. previews \in [PreviewCalls -> PreviewType]
  BY DEF PreviewInv, PreviewTypeOK, PreviewType
<1>a. ~overlapped
  BY DEF PreviewNext, UserMerges, DeleteBranch, PreviewBegins, ClearPreview, AddPreview,
         MergeIntoPreview, AbortPreviewMerge, previewVars
<1>b. \A c, d \in PreviewCalls : Merging(c) /\ Merging(d) => c = d
  BY <1>a DEF PreviewInv, OneMerging
\* A step of the only call that is at work.
<1>1. ASSUME NEW c \in PreviewCalls, \A d \in PreviewCalls \ {c} : ~Merging(d),
             NEW new, previews' = [previews EXCEPT ![c] = new],
             new.at \in {"clear", "add"} => new.failed = {},
             previewTree' = "clean" => new.failed \intersect existing' = {},
             previewTree' = "clean" /\ new.at = "abort" => Turn(c)' \notin existing'
      PROVE  JustReports' /\ JustStep
  <2>1. previews'[c] = new /\ \A d \in PreviewCalls \ {c} : previews'[d] = previews[d]
    BY <1>0, <1>1
  <2>2. \A d \in PreviewCalls \ {c} : ~Merging(d)'
    BY <1>1, <2>1 DEF Merging
  <2> QED
    BY <1>1, <2>1, <2>2 DEF JustReports, JustStep
<1>2. CASE UserMerges \/ (\E b \in PreviewBranches : DeleteBranch(b)) \/ UNCHANGED previewVars
  <2>1. UNCHANGED <<previewTree, previews>> /\ existing' \subseteq existing
    BY <1>2 DEF UserMerges, DeleteBranch, previewVars
  <2>2. \A c \in PreviewCalls : Turn(c)' = Turn(c) /\ (Merging(c)' <=> Merging(c))
    BY <2>1 DEF Turn, Merging
  <2> QED
    BY <1>a, <2>1, <2>2 DEF JustReports, JustStep
<1>3. ASSUME NEW c \in PreviewCalls, NEW taken \in SUBSET PreviewBranches,
             PreviewBegins(c, taken)
      PROVE  JustReports' /\ JustStep
  <2>1. /\ \A d \in PreviewCalls \ {c} : ~Merging(d)
        /\ previews' = [previews EXCEPT ![c] = Preview("clear", taken, {})]
    BY <1>3 DEF PreviewBegins, NotAlone
  <2>2. Preview("clear", taken, {}).failed = {} /\ Preview("clear", taken, {}).at = "clear"
    BY DEF Preview
  <2> QED
    BY <1>1, <2>1, <2>2
<1>4. ASSUME NEW c \in PreviewCalls, Merging(c)
      PROVE  /\ \A d \in PreviewCalls \ {c} : ~Merging(d)
             /\ previews[c] \in PreviewType
             /\ previews[c].at \in {"clear", "add"} => previews[c].failed = {}
             /\ previewTree = "clean" => previews[c].failed \intersect existing = {}
             /\ previewTree = "clean" /\ previews[c].at = "abort" => Turn(c) \notin existing
  BY <1>0, <1>a, <1>b, <1>4 DEF JustReports
<1>5. ASSUME NEW c \in PreviewCalls, ClearPreview(c) \/ AddPreview(c)
      PROVE  JustReports' /\ JustStep
  <2>1. Merging(c) /\ previews[c].at \in {"clear", "add"}
    BY <1>5 DEF ClearPreview, AddPreview, Merging
  <2>2. PICK at \in {"add", "done", "merge", "error"} :
          previews' = [previews EXCEPT ![c] = [previews[c] EXCEPT !.at = at]]
    BY <1>0, <1>5 DEF ClearPreview, AddPreview
  <2> DEFINE new == [previews[c] EXCEPT !.at = at]
  <2>3. new.failed = {} /\ new.at # "abort"
    BY <1>4, <2>1 DEF PreviewType
  <2>4. previews' = [previews EXCEPT ![c] = new]
    BY <2>2
  <2>5. \A d \in PreviewCalls \ {c} : ~Merging(d)
    BY <1>4, <2>1
  <2> HIDE DEF new
  <2> QED
    BY <1>1, <2>3, <2>4, <2>5
<1>6. ASSUME NEW c \in PreviewCalls, MergeIntoPreview(c) PROVE JustReports' /\ JustStep
  <2>1. Merging(c) /\ existing' = existing /\ ~NotAlone(c)
    <3>1. Merging(c) /\ existing' = existing
      BY <1>6 DEF MergeIntoPreview, Merging
    <3> QED
      BY <1>4, <3>1 DEF NotAlone
  <2>2. CASE /\ previewTree' = previewTree
             /\ previews' = [previews EXCEPT ![c] = GoOn(c, previews[c].failed)]
    <3> DEFINE new == GoOn(c, previews[c].failed)
    <3>1. new.failed = previews[c].failed /\ new.at \in {"merge", "done"}
      BY DEF GoOn, Preview
    <3>2. previews' = [previews EXCEPT ![c] = new]
      BY <2>2
    <3> HIDE DEF new
    <3> QED
      BY <1>1, <1>4, <2>1, <2>2, <3>1, <3>2
  <2>3. CASE /\ previewTree' # "clean" \/ (previewTree' = previewTree /\ ~CanMergeInto(Turn(c)))
             /\ previews' = [previews EXCEPT ![c].at = "abort"]
    <3> DEFINE new == [previews[c] EXCEPT !.at = "abort"]
    <3>1. /\ new.failed = previews[c].failed /\ new.at = "abort"
          /\ new.todo = previews[c].todo
      BY <1>4, <2>1 DEF PreviewType
    <3>2. previews' = [previews EXCEPT ![c] = new]
      BY <2>3
    <3> HIDE DEF new
    <3>3. previews'[c] = new
      BY <1>0, <3>2
    <3>4. Turn(c)' = Turn(c)
      BY <3>1, <3>3 DEF Turn
    <3>5. previewTree' = "clean" => previewTree = "clean" /\ Turn(c) \notin existing
      BY <2>3 DEF CanMergeInto
    <3> QED
      BY <1>1, <1>4, <2>1, <3>1, <3>2, <3>4, <3>5
  <2> QED
    BY <1>6, <2>1, <2>2, <2>3 DEF MergeIntoPreview
<1>7. ASSUME NEW c \in PreviewCalls, AbortPreviewMerge(c) PROVE JustReports' /\ JustStep
  <2> DEFINE new == GoOn(c, Reported(c))
  <2>1. /\ Merging(c) /\ previews[c].at = "abort" /\ existing' = existing
        /\ previewTree' = previewTree /\ previews' = [previews EXCEPT ![c] = new]
    BY <1>7 DEF AbortPreviewMerge, Merging
  <2>2. new.failed = previews[c].failed \union {Turn(c)} /\ new.at \in {"merge", "done"}
    BY DEF GoOn, Preview, Reported
  <2> HIDE DEF new
  <2> QED
    BY <1>1, <1>4, <2>1, <2>2
<1> QED
  BY <1>2, <1>3, <1>5, <1>6, <1>7 DEF PreviewNext

\* However many previews of however many branches are made, with conflicts and deleted
\* branches, no branch is lost from sight, and none that exists is reported before the
\* first conflict (swarm/worktree.go:121-132).
THEOREM PreviewOrReportedHolds == PreviewSpec => PreviewOrReported
<1>1. PreviewInit => PreviewInv /\ JustReports
  <2>1. ASSUME PreviewInit PROVE \A c \in PreviewCalls : ~Merging(c)
    BY <2>1 DEF PreviewInit, NoPreview, Preview, Merging
  <2> QED
    BY <2>1, PreviewInvInit DEF JustReports
<1>2. PreviewInv /\ JustReports /\ [PreviewNext]_previewVars =>
        /\ PreviewInv' /\ JustReports'
        /\ \A c \in PreviewCalls :
             Merging(c) /\ ~overlapped' /\ previews[c].at # "clear" =>
               /\ LET known(p, has) == p.todo \union p.failed \union has
                  IN known(previews[c], previewHas) \subseteq known(previews'[c], previewHas')
               /\ previewTree' = "clean" => previews'[c].failed \intersect existing' = {}
  BY PreviewInvStep, JustReportsStep DEF KeepsKnown, Known, JustStep
<1> QED
  BY <1>1, <1>2, PTL DEF PreviewSpec, PreviewOrReported
================================================================================
