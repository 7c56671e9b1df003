------------------------------ MODULE PreviewMerge -----------------------------
(* A preview of a mission: a worktree on a branch of its own into which the      *)
(* workers' branches are merged one after the other. All previews of a mission   *)
(* share one path. The last line of a failed merge, git merge --abort, is run    *)
(* without a directory: in the server's, which is the project's, not the         *)
(* preview's.                                                                    *)
EXTENDS Naturals

CONSTANTS PreviewBranches,   \* workers' branches, numbered as their entries are listed
          ConflictingPairs,  \* two-element sets of branches that do not merge
          PreviewCalls       \* calls of CreatePreviewMerge

ASSUME PreviewAssumption == PreviewBranches \subseteq Nat

VARIABLES existing,      \* branches that were not deleted
          previewTree,   \* "absent", "clean" or in a conflicting "merging"
          previewHas,    \* branches that are merged into it
          projectMerge,  \* a merge of somebody's is going on in the project's directory
          previews,      \* where each call is
          overlapped     \* two calls ran at once

previewVars == <<existing, previewTree, previewHas, projectMerge, previews, overlapped>>

Preview(at, todo, failed) == [at |-> at, todo |-> todo, failed |-> failed]
NoPreview == Preview("idle", {}, {})

PreviewInit ==
  /\ existing = PreviewBranches
  /\ previewTree = "absent" /\ previewHas = {}
  /\ projectMerge = FALSE /\ overlapped = FALSE
  /\ previews = [c \in PreviewCalls |-> NoPreview]

Merging(c)  == previews[c].at \notin {"idle", "done", "error"}
NotAlone(c) == \E d \in PreviewCalls \ {c} : Merging(d)

\* The branch whose turn it is, and the call when it is done with it.
Turn(c) == CHOOSE b \in previews[c].todo : \A d \in previews[c].todo : b <= d

\* Mutant of GoOn: the merge of a branch that fails ends the loop.
GoOnNot(c, failed) == Preview("done", {}, failed)

GoOn(c, failed) ==
  LET rest == previews[c].todo \ {Turn(c)} IN
  Preview(IF rest = {} THEN "done" ELSE "merge", rest, failed)

ClashesInPreview(b) == \E d \in previewHas : {b, d} \in ConflictingPairs

-----------------------------------------------------------------------------
DeleteBranch(b) ==
  /\ b \in existing
  /\ existing' = existing \ {b}
  /\ UNCHANGED <<previewTree, previewHas, projectMerge, previews, overlapped>>

UserMerges ==
  /\ projectMerge' = ~projectMerge
  /\ UNCHANGED <<existing, previewTree, previewHas, previews, overlapped>>

\* CreatePreviewWorktree takes the branches of the pending and merged entries.
PreviewBegins(c, listed) ==
  /\ previews[c] = NoPreview
  /\ previews' = [previews EXCEPT ![c] = Preview("clear", listed, {})]
  /\ overlapped' = (overlapped \/ NotAlone(c))
  /\ UNCHANGED <<existing, previewTree, previewHas, projectMerge>>

\* What a previous run left is removed; nobody looks whether git did it.
ClearPreview(c) ==
  /\ previews[c].at = "clear"
  /\ \/ previewTree' = "absent" /\ previewHas' = {}
     \/ UNCHANGED <<previewTree, previewHas>>
  /\ previews' = [previews EXCEPT ![c].at = "add"]
  /\ UNCHANGED <<existing, projectMerge, overlapped>>

AddPreview(c) ==
  /\ previews[c].at = "add"
  /\ \/ /\ previewTree = "absent"
        /\ previewTree' = "clean"
        /\ previews' = [previews EXCEPT ![c].at = IF previews[c].todo = {} THEN "done" ELSE "merge"]
     \/ /\ previewTree # "absent"
        /\ previews' = [previews EXCEPT ![c].at = "error"]
        /\ UNCHANGED previewTree
  /\ UNCHANGED <<existing, previewHas, projectMerge, overlapped>>

CanMergeInto(b) == previewTree = "clean" /\ b \in existing

MergeIntoPreview(c) ==
  LET b == Turn(c) IN
  /\ previews[c].at = "merge"
  /\ \/ /\ CanMergeInto(b) /\ ~ClashesInPreview(b)
        /\ previewHas' = previewHas \union {b}
        /\ previews' = [previews EXCEPT ![c] = GoOn(c, @.failed)]
        /\ UNCHANGED previewTree
     \/ /\ CanMergeInto(b) /\ ClashesInPreview(b)
        /\ previewTree' = "merging"
        /\ previews' = [previews EXCEPT ![c].at = "abort"]
        /\ UNCHANGED previewHas
     \/ /\ ~CanMergeInto(b) \/ NotAlone(c)
        /\ previews' = [previews EXCEPT ![c].at = "abort"]
        /\ UNCHANGED <<previewTree, previewHas>>
  /\ UNCHANGED <<existing, projectMerge, overlapped>>

Reported(c) == previews[c].failed \union {Turn(c)}

AbortPreviewMerge(c) ==
  /\ previews[c].at = "abort"
  /\ projectMerge' = FALSE
  /\ previews' = [previews EXCEPT ![c] = GoOn(c, Reported(c))]
  /\ UNCHANGED <<existing, previewTree, previewHas, overlapped>>

PreviewNext ==
  \/ UserMerges
  \/ \E b \in PreviewBranches : DeleteBranch(b)
  \/ \E c \in PreviewCalls :
       \/ \E listed \in SUBSET PreviewBranches : PreviewBegins(c, listed)
       \/ ClearPreview(c) \/ AddPreview(c) \/ MergeIntoPreview(c) \/ AbortPreviewMerge(c)

PreviewSpec == PreviewInit /\ [][PreviewNext]_previewVars

-----------------------------------------------------------------------------
PreviewTypeOK ==
  /\ existing \subseteq PreviewBranches
  /\ previewTree \in {"absent", "clean", "merging"}
  /\ previewHas \subseteq PreviewBranches
  /\ projectMerge \in BOOLEAN /\ overlapped \in BOOLEAN
  /\ previews \in [PreviewCalls -> [at : {"idle", "clear", "add", "merge", "abort", "done", "error"},
                                    todo : SUBSET PreviewBranches,
                                    failed : SUBSET PreviewBranches]]

\* A reviewer is not shown less than he is told: while a preview is made, each branch
\* that was taken is in the worktree, reported as failed, or still to be merged, also
\* after a conflict and while branches are deleted, unless another preview of the
\* mission is made at the same time (swarm/worktree.go:121-132). The abort that misses
\* the preview's directory makes all later branches fail, so that a report is no
\* evidence against a branch from the first conflict on; before it, only branches that
\* were deleted are reported, whatever merge the user has going on in the project.
PreviewOrReported ==
  [][\A c \in PreviewCalls :
       Merging(c) /\ ~overlapped' /\ previews[c].at # "clear" =>
         /\ LET known(p, has) == p.todo \union p.failed \union has
            IN known(previews[c], previewHas) \subseteq known(previews'[c], previewHas')
         /\ previewTree' = "clean" => previews'[c].failed \intersect existing' = {}]_previewVars
=============================================================================
