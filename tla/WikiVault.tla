-------------------------------- MODULE WikiVault ------------------------------
(* The pages of the wiki and their files in a vault that people edit. A sync      *)
(* writes the pages of a listing over their files; a pull writes a file that      *)
(* differs over its page, or keeps a copy when the page was updated since. Users  *)
(* leave the front matter of a file alone, so its updated_at is never later than  *)
(* the page's and its version alone decides.                                      *)
EXTENDS Naturals

CONSTANTS WikiPages,    \* ids of published pages, each with a file of its own
          Pulls,        \* goroutines that pull, over and over
          MaxVaultEdits,\* edits, of a page by the server or of a file by a user
          MaxHeadings   \* title headings on top of each other that are told apart

ASSUME VaultAssumption == MaxVaultEdits \in Nat /\ MaxHeadings \in Nat

VARIABLES pages,        \* the row of each page
          files,        \* the file of each page
          listed,       \* rows the running sync has listed and not yet written
          pulls,        \* each pull: the file it has read and the row it has found
          kept,         \* texts of each page that are in _conflicts
          serverEdits, userEdits,
          deletions,    \* how far the deletion of each page is
          raced         \* pages a sync or a pull worked on during their deletion, or whose
                        \* file could not be removed

vaultVars == <<pages, files, listed, pulls, kept, serverEdits, userEdits,
               deletions, raced>>

VaultEdits == 1 .. MaxVaultEdits

\* A text is known by the edits that went into it and the headings it got.
Text(by, headings) == [by |-> by, headings |-> headings]
Copy(text, version) == [there |-> TRUE, text |-> text, version |-> version]
NoCopy == [there |-> FALSE, text |-> Text({}, 0), version |-> 0]

Pull(at, page, file, row) == [at |-> at, page |-> page, file |-> file, row |-> row]
NoPull == Pull("idle", "none", NoCopy, NoCopy)

VaultInit ==
  /\ pages = [p \in WikiPages |-> Copy(Text({}, 0), 1)]
  /\ files = [p \in WikiPages |-> NoCopy]
  /\ listed = [p \in WikiPages |-> NoCopy]
  /\ pulls = [l \in Pulls |-> NoPull]
  /\ kept = [p \in WikiPages |-> {}]
  /\ serverEdits = {} /\ userEdits = {}
  /\ deletions = [p \in WikiPages |-> "no"] /\ raced = {}

NextEdit(k) ==
  LET done == serverEdits \union userEdits
  IN  k \in VaultEdits \ done /\ 1 .. k - 1 \subseteq done

Edited(copy, k) == [copy EXCEPT !.text.by = @ \union {k}]

-----------------------------------------------------------------------------
ServerEdits(p, k) ==
  /\ pages[p].there /\ NextEdit(k)
  /\ pages' = [pages EXCEPT ![p] = Copy(Edited(@, k).text, @.version + 1)]
  /\ serverEdits' = serverEdits \union {k}
  /\ UNCHANGED <<files, listed, pulls, kept, userEdits, deletions, raced>>

UserEdits(p, k) ==
  /\ files[p].there /\ NextEdit(k)
  /\ files' = [files EXCEPT ![p] = Edited(@, k)]
  /\ userEdits' = userEdits \union {k}
  /\ UNCHANGED <<pages, listed, pulls, kept, serverEdits, deletions, raced>>

SyncLists ==
  /\ \A p \in WikiPages : ~listed[p].there
  /\ listed' = pages
  /\ UNCHANGED <<pages, files, pulls, kept, serverEdits, userEdits, deletions, raced>>

\* PageToObsidian puts the title on top of the content and makes links of titles in it.
Exported(row) ==
  [row EXCEPT !.text.headings = IF @ < MaxHeadings THEN @ + 1 ELSE @]

SyncWrites(p) ==
  /\ listed[p].there
  /\ files' = [files EXCEPT ![p] = Exported(listed[p])]
  /\ listed' = [listed EXCEPT ![p] = NoCopy]
  /\ UNCHANGED <<pages, pulls, kept, serverEdits, userEdits, deletions, raced>>

-----------------------------------------------------------------------------
PullReads(l, p) ==
  /\ pulls[l] = NoPull /\ files[p].there
  /\ pulls' = [pulls EXCEPT ![l] = Pull("read", p, files[p], NoCopy)]
  /\ raced' = IF deletions[p] = "row" THEN raced \union {p} ELSE raced
  /\ UNCHANGED <<pages, files, listed, kept, serverEdits, userEdits, deletions>>

Stale(file, row) == file.version < row.version

Keeping(p, text) == [kept EXCEPT ![p] = @ \union {text}]

Differs(l) == pulls[l].file.text # pages[pulls[l].page].text

PullFindsSame(l) ==
  /\ pulls[l].at = "read" /\ pages[pulls[l].page].there /\ ~Differs(l)
  /\ pulls' = [pulls EXCEPT ![l] = NoPull]
  /\ UNCHANGED <<pages, files, listed, kept, serverEdits, userEdits, deletions, raced>>

PullFindsConflict(l) ==
  LET p == pulls[l].page
      text == pulls[l].file.text
  IN  /\ pulls[l].at = "read" /\ pages[p].there /\ Differs(l)
      /\ Stale(pulls[l].file, pages[p])
      /\ kept' = Keeping(p, text)
      /\ pulls' = [pulls EXCEPT ![l] = NoPull]
      /\ UNCHANGED <<pages, files, listed, serverEdits, userEdits, deletions, raced>>

PullFindsChange(l) ==
  LET p == pulls[l].page IN
  /\ pulls[l].at = "read"
  /\ pages[p].there => Differs(l) /\ ~Stale(pulls[l].file, pages[p])
  /\ pulls' = [pulls EXCEPT ![l].at = IF pages[p].there THEN "update" ELSE "create",
                            ![l].row = pages[p]]
  /\ UNCHANGED <<pages, files, listed, kept, serverEdits, userEdits, deletions, raced>>

\* The UPDATE meets a row that was deleted, the INSERT one that was created, in vain.
PullWrites(l) ==
  LET p == pulls[l].page IN
  /\ pulls[l].at \in {"update", "create"}
  /\ pages' = IF pages[p].there = (pulls[l].at = "update")
              THEN [pages EXCEPT ![p] = Copy(pulls[l].file.text, @.version + 1)]
              ELSE pages
  /\ pulls' = [pulls EXCEPT ![l] = NoPull]
  /\ UNCHANGED <<files, listed, kept, serverEdits, userEdits, deletions, raced>>

-----------------------------------------------------------------------------
\* handleDeleteWikiPage: the row, then the file.
DeleteRow(p) ==
  /\ deletions[p] = "no"
  /\ pages' = [pages EXCEPT ![p] = NoCopy]
  /\ deletions' = [deletions EXCEPT ![p] = "row"]
  /\ raced' = IF listed[p].there \/ \E l \in Pulls : pulls[l].page = p
              THEN raced \union {p} ELSE raced
  /\ UNCHANGED <<files, listed, pulls, kept, serverEdits, userEdits>>

\* Mutant of WithoutFile: the file stays.
WithoutFileNot(p) == files

WithoutFile(p) == [files EXCEPT ![p] = NoCopy]

RemoveFile(p) ==
  /\ deletions[p] = "row"
  /\ files' = WithoutFile(p)
  /\ deletions' = [deletions EXCEPT ![p] = "done"]
  /\ UNCHANGED <<pages, listed, pulls, kept, serverEdits, userEdits, raced>>

\* The row has gone; that the file cannot be removed is only logged.
RemoveFileFails(p) ==
  /\ deletions[p] = "row"
  /\ deletions' = [deletions EXCEPT ![p] = "done"]
  /\ raced' = raced \union {p}
  /\ UNCHANGED <<pages, files, listed, pulls, kept, serverEdits, userEdits>>

PullStep(l) ==
  PullFindsSame(l) \/ PullFindsConflict(l) \/ PullFindsChange(l) \/ PullWrites(l)

VaultNext ==
  \/ SyncLists
  \/ \E p \in WikiPages :
       \/ \E k \in VaultEdits : ServerEdits(p, k) \/ UserEdits(p, k)
       \/ SyncWrites(p) \/ DeleteRow(p) \/ RemoveFile(p) \/ RemoveFileFails(p)
       \/ \E l \in Pulls : PullReads(l, p)
  \/ \E l \in Pulls : PullFindsSame(l) \/ PullFindsConflict(l) \/ PullFindsChange(l) \/ PullWrites(l)

\* Each pull walks the vault again and again, and comes to every file.
VaultFairness ==
  \A l \in Pulls :
    /\ WF_vaultVars(PullStep(l))
    /\ \A p \in WikiPages : SF_vaultVars(PullReads(l, p))

VaultSpec == VaultInit /\ [][VaultNext]_vaultVars /\ VaultFairness

-----------------------------------------------------------------------------
TextType == [by : SUBSET VaultEdits, headings : 0 .. MaxHeadings]
CopyType == [there : BOOLEAN, text : TextType, version : Nat]

VaultTypeOK ==
  /\ pages \in [WikiPages -> CopyType] /\ files \in [WikiPages -> CopyType]
  /\ listed \in [WikiPages -> CopyType]
  /\ pulls \in [Pulls -> [at : {"idle", "read", "update", "create"},
                          page : WikiPages \union {"none"}, file : CopyType, row : CopyType]]
  /\ kept \in [WikiPages -> SUBSET TextType]
  /\ serverEdits \subseteq VaultEdits /\ userEdits \subseteq VaultEdits
  /\ deletions \in [WikiPages -> {"no", "row", "done"}] /\ raced \subseteq WikiPages

\* A pull does not undo what the server had written when the pull looked at the page,
\* even if the file was exported before: at most what was written between that look and
\* the update is lost, however often the page is written meanwhile, unless the page was
\* deleted (vault_pull.go:119-142).
PullKeepsServerEdits ==
  \A l \in Pulls : LET p == pulls[l].page IN
    pulls[l].at = "update" /\ pulls'[l] = NoPull /\ deletions[p] = "no" =>
      pulls[l].row.text.by \intersect serverEdits \subseteq pages'[p].text.by

\* What a user writes into a file arrives in the page or among the conflicts, unless
\* a sync writes over the file or the page is deleted (vault_pull.go:36-143).
EditsAreNoticed ==
  \A p \in WikiPages, k \in VaultEdits :
    k \in userEdits /\ k \in files[p].text.by ~>
      \/ k \in pages[p].text.by \/ (\E text \in kept[p] : k \in text.by)
      \/ k \notin files[p].text.by \/ deletions[p] # "no"

\* A page that is deleted, with its file, while neither a sync nor a pull is at work on
\* it does not come back by later ones (api/routes_wiki.go:209-224, vault_pull.go:163-185).
DeletedStayDeleted ==
  \A p \in WikiPages \ raced :
    deletions[p] = "done" => ~pages[p].there /\ ~files[p].there

\* No step undoes what the server wrote, or a deletion.
VaultKeepsEdits == [][PullKeepsServerEdits /\ DeletedStayDeleted']_vaultVars
=============================================================================
