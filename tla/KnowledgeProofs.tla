---------------------------- MODULE KnowledgeProofs ----------------------------
(* Theorems about what the server keeps of what it learnt: the pages of the   *)
(* wiki and their copies in the vault, how stale they are, the index of       *)
(* documents, and the artifacts and pages that complete workflows leave.      *)
EXTENDS WikiVault, PageStaleness, DocsIndex, LearnPipeline, FiniteSetTheorems, TLAPS

-----------------------------------------------------------------------------
(* WikiVault. Every change of a page raises its version, so a copy that has *)
(* the version of the page has what the server wrote into it, and so has a  *)
(* file that a pull found not to be older than the row; and whoever could   *)
(* bring a deleted page back made it a raced one.                           *)

VaultDone == serverEdits \union userEdits

PullType == [at : {"idle", "read", "update", "create"},
             page : WikiPages \union {"none"}, file : CopyType, row : CopyType]

\* A copy of page p is older than the page, or has all that the server wrote.
Behind(p, copy) ==
  /\ copy.version <= pages[p].version
  /\ copy.version = pages[p].version =>
       pages[p].text.by \intersect serverEdits \subseteq copy.text.by

PageKept(p) ==
  /\ pages[p].text.by \subseteq VaultDone
  /\ files[p].text.by \subseteq VaultDone
  /\ listed[p].text.by \subseteq VaultDone
  /\ deletions[p] = "no" => /\ pages[p].there /\ pages[p].version > 0
                            /\ Behind(p, files[p]) /\ Behind(p, listed[p])
  /\ deletions[p] # "no" /\ p \notin raced =>
       /\ ~pages[p].there /\ ~listed[p].there
       /\ deletions[p] = "done" => ~files[p].there

PullKept(l) ==
  /\ pulls[l].file.text.by \subseteq VaultDone
  /\ pulls[l].at # "idle" =>
       /\ pulls[l].page \in WikiPages
       /\ deletions[pulls[l].page] = "no" => Behind(pulls[l].page, pulls[l].file)
       /\ deletions[pulls[l].page] # "no" => pulls[l].page \in raced
  /\ pulls[l].at = "update" =>
       /\ pulls[l].row.text.by \subseteq VaultDone
       /\ deletions[pulls[l].page] = "no" =>
            pulls[l].row.text.by \intersect serverEdits \subseteq pulls[l].file.text.by

VaultInv ==
  /\ VaultTypeOK
  /\ \A p \in WikiPages : PageKept(p)
  /\ \A l \in Pulls : PullKept(l)

\* What an edit and an export make of a copy.
LEMMA EditedCopy ==
  ASSUME NEW copy \in CopyType, NEW k \in VaultEdits
  PROVE  /\ Edited(copy, k) \in CopyType
         /\ Edited(copy, k).there = copy.there /\ Edited(copy, k).version = copy.version
         /\ Edited(copy, k).text.by = copy.text.by \union {k}
         /\ Edited(copy, k).text \in TextType
<1>1. /\ copy = [there |-> copy.there, text |-> copy.text, version |-> copy.version]
      /\ copy.there \in BOOLEAN /\ copy.version \in Nat /\ copy.text \in TextType
  BY DEF CopyType
<1>2. /\ copy.text = [by |-> copy.text.by, headings |-> copy.text.headings]
      /\ copy.text.by \subseteq VaultEdits /\ copy.text.headings \in 0 .. MaxHeadings
  BY <1>1 DEF TextType
<1>3. Edited(copy, k) =
        [there |-> copy.there,
         text |-> [by |-> copy.text.by \union {k}, headings |-> copy.text.headings],
         version |-> copy.version]
  BY <1>1, <1>2 DEF Edited
<1>4. [by |-> copy.text.by \union {k}, headings |-> copy.text.headings] \in TextType
  BY <1>2 DEF TextType
<1> DEFINE text == [by |-> copy.text.by \union {k}, headings |-> copy.text.headings]
<1>6. text \in TextType /\ text.by = copy.text.by \union {k}
  BY <1>4
<1> HIDE DEF text
<1>7. [there |-> copy.there, text |-> text, version |-> copy.version] \in CopyType
  BY <1>1, <1>6 DEF CopyType
<1>8. Edited(copy, k) = [there |-> copy.there, text |-> text, version |-> copy.version]
  BY <1>3 DEF text
<1> QED
  BY <1>6, <1>7, <1>8

LEMMA ExportedCopy ==
  ASSUME NEW row \in CopyType
  PROVE  /\ Exported(row) \in CopyType
         /\ Exported(row).there = row.there /\ Exported(row).version = row.version
         /\ Exported(row).text.by = row.text.by
<1>1. /\ row = [there |-> row.there, text |-> row.text, version |-> row.version]
      /\ row.there \in BOOLEAN /\ row.version \in Nat /\ row.text \in TextType
  BY DEF CopyType
<1>2. /\ row.text = [by |-> row.text.by, headings |-> row.text.headings]
      /\ row.text.by \subseteq VaultEdits /\ row.text.headings \in 0 .. MaxHeadings
  BY <1>1 DEF TextType
<1>3. PICK h \in 0 .. MaxHeadings :
        Exported(row) = [there |-> row.there, text |-> [by |-> row.text.by, headings |-> h],
                         version |-> row.version]
  <2> DEFINE h == IF row.text.headings < MaxHeadings THEN row.text.headings + 1
                  ELSE row.text.headings
  <2>1. h \in 0 .. MaxHeadings
    BY <1>2, VaultAssumption
  <2>2. Exported(row) = [there |-> row.there, text |-> [by |-> row.text.by, headings |-> h],
                         version |-> row.version]
    BY <1>1, <1>2 DEF Exported
  <2> QED
    BY <2>1, <2>2
<1>4. [by |-> row.text.by, headings |-> h] \in TextType
  BY <1>2 DEF TextType
<1> QED
  BY <1>1, <1>3, <1>4 DEF CopyType

LEMMA NoCopyType == /\ NoCopy \in CopyType /\ NoCopy.text.by = {} /\ NoCopy.version = 0
                    /\ ~NoCopy.there /\ NoPull \in PullType /\ NoPull.at = "idle"
                    /\ NoPull.file = NoCopy /\ NoPull.row = NoCopy
<1>1. NoCopy \in CopyType /\ NoCopy.text.by = {} /\ NoCopy.version = 0 /\ ~NoCopy.there
  BY VaultAssumption DEF NoCopy, Text, CopyType, TextType
<1> QED
  BY <1>1 DEF NoPull, Pull, PullType

LEMMA VaultInvInit == VaultInit => VaultInv
<1> SUFFICES ASSUME VaultInit PROVE VaultInv
  OBVIOUS
<1> DEFINE first == Copy(Text({}, 0), 1)
<1>1. first \in CopyType /\ first.text.by = {} /\ first.there /\ first.version = 1
  BY VaultAssumption DEF Copy, Text, CopyType, TextType
<1> HIDE DEF first
<1>2. /\ pages = [p \in WikiPages |-> first] /\ files = [p \in WikiPages |-> NoCopy]
      /\ listed = [p \in WikiPages |-> NoCopy] /\ pulls = [l \in Pulls |-> NoPull]
      /\ kept = [p \in WikiPages |-> {}] /\ serverEdits = {} /\ userEdits = {}
      /\ deletions = [p \in WikiPages |-> "no"] /\ raced = {}
  BY DEF VaultInit, first
<1>3. VaultTypeOK
  BY <1>1, <1>2, NoCopyType DEF VaultTypeOK, PullType
<1>4. ASSUME NEW p \in WikiPages PROVE PageKept(p)
  BY <1>1, <1>2, NoCopyType DEF PageKept, Behind, VaultDone
<1>5. ASSUME NEW l \in Pulls PROVE PullKept(l)
  BY <1>2, NoCopyType DEF PullKept, VaultDone
<1> QED
  BY <1>3, <1>4, <1>5 DEF VaultInv

\* The type, in pieces.
LEMMA VaultPieces ==
  ASSUME VaultInv
  PROVE  /\ pages \in [WikiPages -> CopyType] /\ files \in [WikiPages -> CopyType]
         /\ listed \in [WikiPages -> CopyType] /\ pulls \in [Pulls -> PullType]
         /\ kept \in [WikiPages -> SUBSET TextType]
         /\ serverEdits \subseteq VaultEdits /\ userEdits \subseteq VaultEdits
         /\ deletions \in [WikiPages -> {"no", "row", "done"}] /\ raced \subseteq WikiPages
BY DEF VaultInv, VaultTypeOK, PullType

\* A page that gets a new text and a new version leaves all copies of it behind.
LEMMA PageAdvances ==
  ASSUME VaultInv, NEW p \in WikiPages, NEW new \in CopyType,
         pages' = [pages EXCEPT ![p] = new], new.there, new.version = pages[p].version + 1,
         new.text.by \subseteq VaultDone',
         UNCHANGED <<files, listed, userEdits, deletions, raced>>,
         serverEdits \subseteq serverEdits',
         serverEdits' \intersect VaultDone \subseteq serverEdits,
         deletions[p] = "no" \/ p \in raced
  PROVE  /\ pages' \in [WikiPages -> CopyType]
         /\ \A q \in WikiPages : PageKept(q)'
         /\ \A l \in Pulls : pulls'[l] = pulls[l] => PullKept(l)'
<1>0. /\ pages \in [WikiPages -> CopyType] /\ files \in [WikiPages -> CopyType]
      /\ listed \in [WikiPages -> CopyType] /\ pulls \in [Pulls -> PullType]
  BY VaultPieces
<1>1. /\ pages' \in [WikiPages -> CopyType] /\ pages'[p] = new
      /\ \A q \in WikiPages \ {p} : pages'[q] = pages[q]
  BY <1>0
<1>2. VaultDone \subseteq VaultDone'
  BY DEF VaultDone
<1>3. pages[p].version \in Nat
  BY <1>0 DEF CopyType
<1>4. ASSUME NEW q \in WikiPages, NEW copy \in CopyType, Behind(q, copy), PageKept(q)
      PROVE  Behind(q, copy)'
  <2>1. copy.version \in Nat
    BY DEF CopyType
  <2>2. CASE q = p
    BY <1>1, <1>3, <1>4, <2>1, <2>2 DEF Behind
  <2>3. CASE q # p
    <3>1. pages'[q] = pages[q] /\ pages[q].text.by \subseteq VaultDone
      BY <1>1, <1>4, <2>3 DEF PageKept
    <3>2. pages'[q].text.by \intersect serverEdits' \subseteq serverEdits
      BY <3>1
    <3> QED
      BY <1>4, <3>1, <3>2 DEF Behind
  <2> QED
    BY <2>2, <2>3
<1>5. ASSUME NEW q \in WikiPages PROVE PageKept(q)'
  <2>1. PageKept(q) /\ files[q] \in CopyType /\ listed[q] \in CopyType
    BY <1>0 DEF VaultInv
  <2>2. deletions[q] = "no" => Behind(q, files[q])' /\ Behind(q, listed[q])'
    <3> SUFFICES ASSUME deletions[q] = "no" PROVE Behind(q, files[q])' /\ Behind(q, listed[q])'
      OBVIOUS
    <3>1. Behind(q, files[q]) /\ Behind(q, listed[q]) /\ files' = files /\ listed' = listed
      BY <2>1 DEF PageKept
    <3>2. /\ files[q].version <= pages'[q].version
          /\ files[q].version = pages'[q].version =>
               pages'[q].text.by \intersect serverEdits' \subseteq files[q].text.by
      BY <1>4, <2>1, <3>1 DEF Behind
    <3>3. /\ listed[q].version <= pages'[q].version
          /\ listed[q].version = pages'[q].version =>
               pages'[q].text.by \intersect serverEdits' \subseteq listed[q].text.by
      BY <1>4, <2>1, <3>1 DEF Behind
    <3> QED
      BY <3>1, <3>2, <3>3 DEF Behind
  <2>3. deletions'[q] = "no" => pages'[q].there /\ pages'[q].version > 0
    BY <1>1, <1>3, <2>1 DEF PageKept
  <2>4. deletions'[q] # "no" /\ q \notin raced' =>
          /\ ~pages'[q].there /\ ~listed'[q].there
          /\ deletions'[q] = "done" => ~files'[q].there
    BY <1>1, <2>1 DEF PageKept
  <2>5. /\ pages'[q].text.by \subseteq VaultDone'
        /\ files'[q].text.by \subseteq VaultDone' /\ listed'[q].text.by \subseteq VaultDone'
    BY <1>1, <1>2, <2>1 DEF PageKept
  <2> QED
    BY <2>2, <2>3, <2>4, <2>5 DEF PageKept
<1>6. ASSUME NEW l \in Pulls, pulls'[l] = pulls[l] PROVE PullKept(l)'
  <2>1. PullKept(l) /\ pulls[l].file \in CopyType
    BY <1>0 DEF VaultInv, PullType
  <2>2. ASSUME pulls[l].at # "idle", deletions[pulls[l].page] = "no"
        PROVE  Behind(pulls[l].page, pulls[l].file)'
    <3>1. pulls[l].page \in WikiPages /\ Behind(pulls[l].page, pulls[l].file)
          /\ PageKept(pulls[l].page)
      BY <2>1, <2>2 DEF PullKept, VaultInv
    <3>2. /\ pulls[l].file.version <= pages'[pulls[l].page].version
          /\ pulls[l].file.version = pages'[pulls[l].page].version =>
               pages'[pulls[l].page].text.by \intersect serverEdits'
                 \subseteq pulls[l].file.text.by
      BY <1>4, <2>1, <3>1 DEF Behind
    <3> QED
      BY <1>6, <3>2 DEF Behind
  <2>3. ASSUME pulls[l].at = "update"
        PROVE  /\ pulls[l].row.text.by \subseteq VaultDone'
               /\ deletions[pulls[l].page] = "no" =>
                    pulls[l].row.text.by \intersect serverEdits' \subseteq pulls[l].file.text.by
    <3>1. pulls[l].row.text.by \subseteq VaultDone
      BY <2>1, <2>3 DEF PullKept
    <3>2. pulls[l].row.text.by \intersect serverEdits' \subseteq
            pulls[l].row.text.by \intersect serverEdits
      BY <3>1
    <3> QED
      BY <1>2, <2>1, <2>3, <3>1, <3>2 DEF PullKept
  <2> QED
    BY <1>2, <1>6, <2>1, <2>2, <2>3 DEF PullKept
<1> QED
  BY <1>1, <1>5, <1>6

\* A page whose row and edits stay is kept as it was, and so is a pull.
LEMMA PageStays ==
  ASSUME VaultInv, NEW p \in WikiPages, pages'[p] = pages[p], listed'[p] = listed[p],
         files'[p] = files[p], deletions'[p] = deletions[p], raced \subseteq raced',
         serverEdits' = serverEdits, userEdits \subseteq userEdits'
  PROVE  PageKept(p)'
BY DEF VaultInv, PageKept, Behind, VaultDone

LEMMA PullStays ==
  ASSUME VaultInv, NEW l \in Pulls, pages' = pages, pulls'[l] = pulls[l],
         deletions' = deletions, raced \subseteq raced',
         serverEdits' = serverEdits, userEdits \subseteq userEdits'
  PROVE  PullKept(l)'
BY DEF VaultInv, PullKept, Behind, VaultDone

\* A pull that is over, or has not begun, is kept.
LEMMA PullOver ==
  ASSUME VaultInv, NEW l \in Pulls, pulls' = [pulls EXCEPT ![l] = NoPull]
  PROVE  /\ pulls' \in [Pulls -> PullType] /\ PullKept(l)'
         /\ \A x \in Pulls \ {l} : pulls'[x] = pulls[x]
<1>1. pulls \in [Pulls -> PullType]
  BY VaultPieces
<1>2. pulls' \in [Pulls -> PullType] /\ pulls'[l] = NoPull
      /\ \A x \in Pulls \ {l} : pulls'[x] = pulls[x]
  BY <1>1, NoCopyType
<1> QED
  BY <1>2, NoCopyType DEF PullKept

LEMMA VaultInvStep == VaultInv /\ [VaultNext]_vaultVars => VaultInv'
<1> SUFFICES ASSUME VaultInv, [VaultNext]_vaultVars PROVE VaultInv'
  OBVIOUS
<1>0. /\ pages \in [WikiPages -> CopyType] /\ files \in [WikiPages -> CopyType]
      /\ listed \in [WikiPages -> CopyType] /\ pulls \in [Pulls -> PullType]
      /\ kept \in [WikiPages -> SUBSET TextType]
      /\ serverEdits \subseteq VaultEdits /\ userEdits \subseteq VaultEdits
      /\ deletions \in [WikiPages -> {"no", "row", "done"}] /\ raced \subseteq WikiPages
  BY VaultPieces
<1>i. (\A p \in WikiPages : PageKept(p)) /\ (\A l \in Pulls : PullKept(l))
  BY DEF VaultInv
<1>t. ASSUME pages' \in [WikiPages -> CopyType], files' \in [WikiPages -> CopyType],
             listed' \in [WikiPages -> CopyType], pulls' \in [Pulls -> PullType],
             kept' \in [WikiPages -> SUBSET TextType],
             serverEdits' \subseteq VaultEdits, userEdits' \subseteq VaultEdits,
             deletions' \in [WikiPages -> {"no", "row", "done"}], raced' \subseteq WikiPages
      PROVE  VaultTypeOK'
  BY <1>t DEF VaultTypeOK, PullType
<1>1. ASSUME NEW p \in WikiPages, NEW k \in VaultEdits, ServerEdits(p, k) PROVE VaultInv'
  <2> DEFINE new == Copy(Edited(pages[p], k).text, pages[p].version + 1)
  <2>1. /\ pages[p].there /\ k \notin VaultDone
        /\ pages' = [pages EXCEPT ![p] = new]
        /\ serverEdits' = serverEdits \union {k}
        /\ UNCHANGED <<files, listed, pulls, kept, userEdits, deletions, raced>>
    BY <1>1 DEF ServerEdits, NextEdit, VaultDone
  <2>2. /\ new \in CopyType /\ new.there /\ new.version = pages[p].version + 1
        /\ new.text.by = pages[p].text.by \union {k}
    <3>1. pages[p] \in CopyType /\ pages[p].version + 1 \in Nat
      BY <1>0 DEF CopyType
    <3>2. /\ Edited(pages[p], k).text \in TextType
          /\ Edited(pages[p], k).text.by = pages[p].text.by \union {k}
      BY <3>1, EditedCopy
    <3> QED
      BY <3>1, <3>2 DEF Copy, CopyType
  <2> HIDE DEF new
  <2>3. new.text.by \subseteq VaultDone'
    BY <1>i, <2>1, <2>2 DEF PageKept, VaultDone
  <2>4. deletions[p] = "no" \/ p \in raced
    BY <1>i, <2>1 DEF PageKept
  <2>5. serverEdits' \intersect VaultDone \subseteq serverEdits
    BY <2>1
  <2>6. /\ pages' \in [WikiPages -> CopyType]
        /\ \A q \in WikiPages : PageKept(q)'
        /\ \A l \in Pulls : PullKept(l)'
    BY <2>1, <2>2, <2>3, <2>4, <2>5, PageAdvances
  <2> QED
    BY <1>0, <1>t, <2>1, <2>6 DEF VaultInv
<1>2. ASSUME NEW p \in WikiPages, NEW k \in VaultEdits, UserEdits(p, k) PROVE VaultInv'
  <2>1. /\ files[p].there /\ files' = [files EXCEPT ![p] = Edited(files[p], k)]
        /\ userEdits' = userEdits \union {k}
        /\ UNCHANGED <<pages, listed, pulls, kept, serverEdits, deletions, raced>>
    BY <1>0, <1>2 DEF UserEdits
  <2>2. /\ Edited(files[p], k) \in CopyType /\ Edited(files[p], k).there
        /\ Edited(files[p], k).version = files[p].version
        /\ Edited(files[p], k).text.by = files[p].text.by \union {k}
    BY <1>0, <2>1, EditedCopy
  <2>3. /\ files' \in [WikiPages -> CopyType] /\ files'[p] = Edited(files[p], k)
        /\ \A q \in WikiPages \ {p} : files'[q] = files[q]
    BY <1>0, <2>1, <2>2
  <2>4. \A q \in WikiPages \ {p} : PageKept(q)'
    BY <2>1, <2>3, PageStays
  <2>5. PageKept(p)'
    BY <1>i, <2>1, <2>2, <2>3 DEF PageKept, Behind, VaultDone
  <2>6. \A l \in Pulls : PullKept(l)'
    BY <2>1, PullStays
  <2> QED
    BY <1>0, <1>t, <2>1, <2>3, <2>4, <2>5, <2>6 DEF VaultInv
<1>3. CASE SyncLists
  <2>1. listed' = pages
        /\ UNCHANGED <<pages, files, pulls, kept, serverEdits, userEdits, deletions, raced>>
    BY <1>3 DEF SyncLists
  <2>2. \A q \in WikiPages : PageKept(q)'
    <3> SUFFICES ASSUME NEW q \in WikiPages PROVE PageKept(q)'
      OBVIOUS
    <3>1. pages[q].version \in Nat /\ PageKept(q)
      BY <1>0, <1>i DEF CopyType
    <3> QED
      BY <2>1, <3>1 DEF PageKept, Behind, VaultDone
  <2>3. \A l \in Pulls : PullKept(l)'
    BY <2>1, PullStays
  <2> QED
    BY <1>0, <1>t, <2>1, <2>2, <2>3 DEF VaultInv
<1>4. ASSUME NEW p \in WikiPages, SyncWrites(p) PROVE VaultInv'
  <2>1. /\ listed[p].there /\ files' = [files EXCEPT ![p] = Exported(listed[p])]
        /\ listed' = [listed EXCEPT ![p] = NoCopy]
        /\ UNCHANGED <<pages, pulls, kept, serverEdits, userEdits, deletions, raced>>
    BY <1>4 DEF SyncWrites
  <2>2. /\ Exported(listed[p]) \in CopyType
        /\ Exported(listed[p]).version = listed[p].version
        /\ Exported(listed[p]).text.by = listed[p].text.by
    BY <1>0, ExportedCopy
  <2>3. /\ files' \in [WikiPages -> CopyType] /\ files'[p] = Exported(listed[p])
        /\ listed' \in [WikiPages -> CopyType] /\ listed'[p] = NoCopy
        /\ \A q \in WikiPages \ {p} : files'[q] = files[q] /\ listed'[q] = listed[q]
    BY <1>0, <2>1, <2>2, NoCopyType
  <2>4. \A q \in WikiPages \ {p} : PageKept(q)'
    BY <2>1, <2>3, PageStays
  <2>5. PageKept(p)'
    <3>1. PageKept(p) /\ pages[p].version \in Nat
      BY <1>0, <1>i DEF CopyType
    <3>2. deletions[p] = "no" => Behind(p, files[p])' /\ Behind(p, listed[p])'
      BY <2>1, <2>2, <2>3, <3>1, NoCopyType DEF PageKept, Behind
    <3>3. deletions[p] # "no" => p \in raced
      BY <2>1, <3>1 DEF PageKept
    <3> QED
      BY <2>1, <2>2, <2>3, <3>1, <3>2, <3>3, NoCopyType DEF PageKept, VaultDone
  <2>6. \A l \in Pulls : PullKept(l)'
    BY <2>1, PullStays
  <2> QED
    BY <1>0, <1>t, <2>1, <2>3, <2>4, <2>5, <2>6 DEF VaultInv
<1>5. ASSUME NEW l \in Pulls, NEW p \in WikiPages, PullReads(l, p) PROVE VaultInv'
  <2> DEFINE new == Pull("read", p, files[p], NoCopy)
  <2>1. /\ files[p].there /\ pulls' = [pulls EXCEPT ![l] = new]
        /\ raced' = IF deletions[p] = "row" THEN raced \union {p} ELSE raced
        /\ UNCHANGED <<pages, files, listed, kept, serverEdits, userEdits, deletions>>
    BY <1>5 DEF PullReads
  <2>2. new \in PullType /\ new.at = "read" /\ new.page = p /\ new.file = files[p]
    BY <1>0, NoCopyType DEF Pull, PullType
  <2> HIDE DEF new
  <2>3. /\ pulls' \in [Pulls -> PullType] /\ pulls'[l] = new
        /\ \A x \in Pulls \ {l} : pulls'[x] = pulls[x]
        /\ raced \subseteq raced' /\ raced' \subseteq WikiPages
    BY <1>0, <2>1, <2>2
  <2>4. \A q \in WikiPages : PageKept(q)'
    BY <2>1, <2>3, PageStays
  <2>5. \A x \in Pulls \ {l} : PullKept(x)'
    BY <2>1, <2>3, PullStays
  <2>6. deletions[p] # "no" => p \in raced'
    BY <1>0, <1>i, <2>1 DEF PageKept
  <2>7. PullKept(l)'
    BY <1>i, <2>1, <2>2, <2>3, <2>6 DEF PullKept, PageKept, Behind, VaultDone
  <2> QED
    BY <1>0, <1>t, <2>1, <2>3, <2>4, <2>5, <2>7 DEF VaultInv
<1>6. ASSUME NEW l \in Pulls, PullFindsSame(l) \/ PullFindsConflict(l) PROVE VaultInv'
  <2>1. /\ pulls[l].at = "read" /\ pulls' = [pulls EXCEPT ![l] = NoPull]
        /\ UNCHANGED <<pages, files, listed, serverEdits, userEdits, deletions, raced>>
    BY <1>6 DEF PullFindsSame, PullFindsConflict
  <2>2. kept' \in [WikiPages -> SUBSET TextType]
    <3>1. CASE PullFindsSame(l)
      BY <1>0, <3>1 DEF PullFindsSame
    <3>2. CASE PullFindsConflict(l)
      <4>1. pulls[l].page \in WikiPages
        BY <1>i, <2>1 DEF PullKept
      <4>2. pulls[l].file.text \in TextType
        BY <1>0 DEF PullType, CopyType
      <4>3. kept' = [kept EXCEPT ![pulls[l].page] =
                       kept[pulls[l].page] \union {pulls[l].file.text}]
        BY <3>2 DEF PullFindsConflict, Keeping
      <4> QED
        BY <1>0, <4>1, <4>2, <4>3
    <3> QED
      BY <1>6, <3>1, <3>2
  <2>3. /\ pulls' \in [Pulls -> PullType] /\ PullKept(l)'
        /\ \A x \in Pulls \ {l} : pulls'[x] = pulls[x]
    BY <2>1, PullOver
  <2>4. \A q \in WikiPages : PageKept(q)'
    BY <2>1, PageStays
  <2>5. \A x \in Pulls \ {l} : PullKept(x)'
    BY <2>1, <2>3, PullStays
  <2> QED
    BY <1>0, <1>t, <2>1, <2>2, <2>3, <2>4, <2>5 DEF VaultInv
<1>7. ASSUME NEW l \in Pulls, PullFindsChange(l) PROVE VaultInv'
  <2> DEFINE p   == pulls[l].page
             at  == IF pages[p].there THEN "update" ELSE "create"
             new == [pulls[l] EXCEPT !.at = at, !.row = pages[p]]
  <2>1. /\ pulls[l].at = "read" /\ pulls' = [pulls EXCEPT ![l] = new]
        /\ pages[p].there => ~Stale(pulls[l].file, pages[p])
        /\ UNCHANGED <<pages, files, listed, kept, serverEdits, userEdits, deletions, raced>>
    BY <1>0, <1>7 DEF PullFindsChange
  <2>2. p \in WikiPages /\ at \in {"update", "create"}
        /\ (at = "update" => pages[p].there) /\ pages[p] \in CopyType
    BY <1>0, <1>i, <2>1 DEF PullKept
  <2> HIDE DEF at, p
  <2>3. /\ new \in PullType /\ new.at = at /\ new.row = pages[p] /\ new.file = pulls[l].file
        /\ new.page = pulls[l].page /\ pulls[l].file \in CopyType
    BY <1>0, <2>2 DEF PullType
  <2> HIDE DEF new
  <2>4. /\ pulls' \in [Pulls -> PullType] /\ pulls'[l] = new
        /\ \A x \in Pulls \ {l} : pulls'[x] = pulls[x]
    BY <1>0, <2>1, <2>3
  <2>6. PullKept(l) /\ PageKept(p)
    BY <1>i, <2>2
  <2>5. at = "update" =>
          /\ new.row.text.by \subseteq VaultDone
          /\ deletions[p] = "no" => new.row.text.by \intersect serverEdits \subseteq new.file.text.by
    <3>1. new.row.text.by \subseteq VaultDone
      BY <2>3, <2>6 DEF PageKept
    <3>2. ASSUME at = "update", deletions[p] = "no"
          PROVE  new.row.text.by \intersect serverEdits \subseteq new.file.text.by
      <4>1. Behind(p, pulls[l].file)
        BY <2>1, <2>6, <3>2 DEF PullKept, p
      <4>2. /\ pulls[l].file.version \in Nat /\ pages[p].version \in Nat
            /\ ~(pulls[l].file.version < pages[p].version)
        BY <2>1, <2>2, <2>3, <3>2 DEF Stale, CopyType
      <4>3. pulls[l].file.version = pages[p].version
        BY <4>1, <4>2 DEF Behind
      <4> QED
        BY <2>3, <4>1, <4>3 DEF Behind
    <3> QED
      BY <3>1, <3>2
  <2>7. PullKept(l)'
    BY <2>1, <2>2, <2>3, <2>4, <2>5, <2>6 DEF PullKept, Behind, VaultDone, p
  <2>8. \A q \in WikiPages : PageKept(q)'
    BY <2>1, PageStays
  <2>9. \A x \in Pulls \ {l} : PullKept(x)'
    BY <2>1, <2>4, PullStays
  <2> QED
    BY <1>0, <1>t, <2>1, <2>4, <2>7, <2>8, <2>9 DEF VaultInv
<1>8. ASSUME NEW l \in Pulls, PullWrites(l) PROVE VaultInv'
  <2> DEFINE p == pulls[l].page
             new == Copy(pulls[l].file.text, pages[p].version + 1)
  <2>1. /\ pulls[l].at \in {"update", "create"} /\ pulls' = [pulls EXCEPT ![l] = NoPull]
        /\ pages' = pages \/ pages' = [pages EXCEPT ![p] = new]
        /\ UNCHANGED <<files, listed, kept, serverEdits, userEdits, deletions, raced>>
    BY <1>8 DEF PullWrites
  <2>2. /\ p \in WikiPages /\ (deletions[p] = "no" \/ p \in raced)
        /\ pulls[l].file.text.by \subseteq VaultDone
    BY <1>i, <2>1 DEF PullKept
  <2>3. pages[p].version \in Nat /\ pulls[l].file.text \in TextType
    BY <1>0, <2>2 DEF PullType, CopyType
  <2>4. /\ new \in CopyType /\ new.there /\ new.version = pages[p].version + 1
        /\ new.text.by = pulls[l].file.text.by
    BY <2>3 DEF Copy, CopyType
  <2> HIDE DEF p, new
  <2>5. /\ pulls' \in [Pulls -> PullType] /\ PullKept(l)'
        /\ \A x \in Pulls \ {l} : pulls'[x] = pulls[x]
    BY <2>1, PullOver
  <2>6. CASE pages' = pages
    <3>1. \A q \in WikiPages : PageKept(q)'
      BY <2>1, <2>6, PageStays
    <3>2. \A x \in Pulls \ {l} : PullKept(x)'
      BY <2>1, <2>5, <2>6, PullStays
    <3> QED
      BY <1>0, <1>t, <2>1, <2>5, <2>6, <3>1, <3>2 DEF VaultInv
  <2>7. CASE pages' = [pages EXCEPT ![p] = new]
    <3>1. new.text.by \subseteq VaultDone' /\ serverEdits' = serverEdits
      BY <2>1, <2>2, <2>4 DEF VaultDone
    <3>2. /\ pages' \in [WikiPages -> CopyType]
          /\ \A q \in WikiPages : PageKept(q)'
          /\ \A x \in Pulls \ {l} : PullKept(x)'
      BY <2>1, <2>2, <2>4, <2>5, <2>7, <3>1, PageAdvances
    <3> QED
      BY <1>0, <1>t, <2>1, <2>5, <3>2 DEF VaultInv
  <2> QED
    BY <2>1, <2>6, <2>7
<1>9. ASSUME NEW p \in WikiPages, DeleteRow(p) PROVE VaultInv'
  <2>1. /\ deletions[p] = "no" /\ pages' = [pages EXCEPT ![p] = NoCopy]
        /\ deletions' = [deletions EXCEPT ![p] = "row"]
        /\ raced' = IF listed[p].there \/ \E l \in Pulls : pulls[l].page = p
                    THEN raced \union {p} ELSE raced
        /\ UNCHANGED <<files, listed, pulls, kept, serverEdits, userEdits>>
    BY <1>9 DEF DeleteRow
  <2>2. /\ pages' \in [WikiPages -> CopyType] /\ pages'[p] = NoCopy
        /\ deletions' \in [WikiPages -> {"no", "row", "done"}] /\ deletions'[p] = "row"
        /\ \A q \in WikiPages \ {p} : pages'[q] = pages[q] /\ deletions'[q] = deletions[q]
        /\ raced \subseteq raced' /\ raced' \subseteq WikiPages
    BY <1>0, <2>1, NoCopyType
  <2>3. \A q \in WikiPages \ {p} : PageKept(q)'
    BY <2>1, <2>2, PageStays
  <2>4. PageKept(p)'
    BY <1>i, <2>1, <2>2, NoCopyType DEF PageKept, VaultDone
  <2>5. ASSUME NEW l \in Pulls PROVE PullKept(l)'
    <3>1. PullKept(l) /\ pulls' = pulls
      BY <1>i, <2>1
    <3>2. pulls[l].page = p => p \in raced'
      BY <2>1
    <3> QED
      BY <2>1, <2>2, <3>1, <3>2 DEF PullKept, Behind, VaultDone
  <2> QED
    BY <1>0, <1>t, <2>1, <2>2, <2>3, <2>4, <2>5 DEF VaultInv
<1>10. ASSUME NEW p \in WikiPages, RemoveFile(p) PROVE VaultInv'
  <2>1. /\ deletions[p] = "row" /\ files' = [files EXCEPT ![p] = NoCopy]
        /\ deletions' = [deletions EXCEPT ![p] = "done"]
        /\ UNCHANGED <<pages, listed, pulls, kept, serverEdits, userEdits, raced>>
    BY <1>10 DEF RemoveFile, WithoutFile
  <2>2. /\ files' \in [WikiPages -> CopyType] /\ files'[p] = NoCopy
        /\ deletions' \in [WikiPages -> {"no", "row", "done"}] /\ deletions'[p] = "done"
        /\ \A q \in WikiPages \ {p} : files'[q] = files[q] /\ deletions'[q] = deletions[q]
    BY <1>0, <2>1, NoCopyType
  <2>3. \A q \in WikiPages \ {p} : PageKept(q)'
    BY <2>1, <2>2, PageStays
  <2>4. PageKept(p)'
    BY <1>i, <2>1, <2>2, NoCopyType DEF PageKept, VaultDone
  <2>5. ASSUME NEW l \in Pulls PROVE PullKept(l)'
    <3>1. PullKept(l) /\ pulls' = pulls
      BY <1>i, <2>1
    <3> QED
      BY <2>1, <2>2, <3>1 DEF PullKept, Behind, VaultDone
  <2> QED
    BY <1>0, <1>t, <2>1, <2>2, <2>3, <2>4, <2>5 DEF VaultInv
<1>12. ASSUME NEW p \in WikiPages, RemoveFileFails(p) PROVE VaultInv'
  <2>1. /\ deletions[p] = "row" /\ raced' = raced \union {p}
        /\ deletions' = [deletions EXCEPT ![p] = "done"]
        /\ UNCHANGED <<pages, files, listed, pulls, kept, serverEdits, userEdits>>
    BY <1>12 DEF RemoveFileFails
  <2>2. /\ deletions' \in [WikiPages -> {"no", "row", "done"}] /\ deletions'[p] = "done"
        /\ \A q \in WikiPages \ {p} : deletions'[q] = deletions[q]
        /\ raced \subseteq raced' /\ raced' \subseteq WikiPages /\ p \in raced'
    BY <1>0, <2>1
  <2>3. \A q \in WikiPages \ {p} : PageKept(q)'
    BY <2>1, <2>2, PageStays
  <2>4. PageKept(p)'
    BY <1>i, <2>1, <2>2 DEF PageKept, VaultDone
  <2>5. ASSUME NEW l \in Pulls PROVE PullKept(l)'
    <3>1. PullKept(l) /\ pulls' = pulls
      BY <1>i, <2>1
    <3> QED
      BY <2>1, <2>2, <3>1 DEF PullKept, Behind, VaultDone
  <2> QED
    BY <1>0, <1>t, <2>1, <2>2, <2>3, <2>4, <2>5 DEF VaultInv
<1>11. CASE UNCHANGED vaultVars
  BY <1>11 DEF vaultVars, VaultInv, VaultTypeOK, PageKept, PullKept, Behind, VaultDone
<1> QED
  BY <1>1, <1>2, <1>3, <1>4, <1>5, <1>6, <1>7, <1>8, <1>9, <1>10, <1>11, <1>12
  DEF VaultNext

\* What the update of a page writes has what the server had written when it was found.
LEMMA PullKeepsStep == VaultInv /\ [VaultNext]_vaultVars => PullKeepsServerEdits
<1> SUFFICES ASSUME VaultInv, [VaultNext]_vaultVars, NEW l \in Pulls,
                    pulls[l].at = "update", pulls'[l] = NoPull, deletions[pulls[l].page] = "no"
             PROVE  pulls[l].row.text.by \intersect serverEdits
                      \subseteq pages'[pulls[l].page].text.by
  BY DEF PullKeepsServerEdits
<1> DEFINE p == pulls[l].page
<1>0. /\ pages \in [WikiPages -> CopyType] /\ pulls \in [Pulls -> PullType]
      /\ PullKept(l)
  BY VaultPieces DEF VaultInv
<1>1. p \in WikiPages /\ pages[p].there
  BY <1>0 DEF VaultInv, PullKept, PageKept
<1>2. pulls[l].row.text.by \intersect serverEdits \subseteq pulls[l].file.text.by
  BY <1>0 DEF PullKept
<1>3. pulls'[l] # pulls[l]
  BY NoCopyType
<1>4. PullWrites(l)
  <2>1. ASSUME NEW x \in Pulls, PullWrites(x) PROVE x = l
    BY <1>0, <1>3, <2>1 DEF PullWrites
  <2>2. ASSUME NEW x \in Pulls, PullFindsSame(x) \/ PullFindsConflict(x) \/ PullFindsChange(x)
        PROVE  FALSE
    <3>1. pulls[x].at = "read" /\ \A y \in Pulls \ {x} : pulls'[y] = pulls[y]
      BY <1>0, <2>2 DEF PullFindsSame, PullFindsConflict, PullFindsChange
    <3> QED
      BY <1>3, <3>1
  <2>3. ASSUME NEW x \in Pulls, NEW q \in WikiPages, PullReads(x, q) PROVE FALSE
    <3>1. pulls[x].at = "idle" /\ \A y \in Pulls \ {x} : pulls'[y] = pulls[y]
      BY <1>0, <2>3, NoCopyType DEF PullReads
    <3> QED
      BY <1>3, <3>1
  <2> QED
    BY <1>3, <2>1, <2>2, <2>3
    DEF VaultNext, vaultVars, ServerEdits, UserEdits, SyncLists, SyncWrites, DeleteRow,
        RemoveFile, RemoveFileFails
<1>5. pages' = [pages EXCEPT ![p] = Copy(pulls[l].file.text, pages[p].version + 1)]
  BY <1>1, <1>4 DEF PullWrites
<1>6. pages'[p] = Copy(pulls[l].file.text, pages[p].version + 1)
  BY <1>0, <1>1, <1>5
<1> QED
  BY <1>2, <1>6 DEF Copy

\* For any number of pages, pulls and edits: no pull undoes what the server wrote
\* before it looked, and no later sync or pull a deletion (vault_pull.go:119-185).
THEOREM VaultKeepsEditsHolds == VaultSpec => VaultKeepsEdits
<1>1. VaultInv => DeletedStayDeleted
  BY DEF VaultInv, PageKept, DeletedStayDeleted
<1>2. VaultInv /\ [VaultNext]_vaultVars => PullKeepsServerEdits /\ VaultInv'
  BY VaultInvStep, PullKeepsStep
<1> QED
  BY <1>1, <1>2, VaultInvInit, PTL DEF VaultSpec, VaultKeepsEdits

-----------------------------------------------------------------------------
(* PageStaleness. A check takes what lies behind the commit it compares     *)
(* with as settled, and settles what lies between that one and its own;     *)
(* commits that come meanwhile are later than both.                         *)

Settled(c) == Between(0, c) \subseteq raised \union givenUp

StalenessInv ==
  /\ PageTypeOK
  /\ Settled(knownHead)
  /\ startup.pc \in {"diff", "page", "raise"} => Settled(startup.from)
  /\ startup.pc = "note" => Settled(startup.to)

CheckState == [pc : {"down", "known", "diff", "page", "raise", "note", "done"},
               from : 0..head, to : 0..head, score : 0..10]

WikiRow == [score : 0..10, age : 0..FullAge, first : BOOLEAN, linked : BOOLEAN,
            status : {"published", "draft", "stale"}]

\* A page that gets a score is still a page.
LEMMA ScoredRow ==
  ASSUME page \in WikiRow, NEW score \in 0..10
  PROVE  Scored(score) \in WikiRow
<1> DEFINE status == IF score > StoreThreshold THEN "stale" ELSE "published"
<1>1. status \in {"published", "draft", "stale"} /\ 0 \in 0..FullAge
  BY DEF FullAge
<1>2. Scored(score) = [page EXCEPT !.score = score, !.age = 0, !.status = status]
  BY DEF Scored
<1> HIDE DEF status
<1> QED
  BY <1>1, <1>2 DEF WikiRow

LEMMA StalenessInvInit == PageInit => StalenessInv
<1> SUFFICES ASSUME PageInit PROVE StalenessInv
  OBVIOUS
<1>1. /\ head = 1 /\ touching = {} /\ knownHead = 0 /\ upkeep = Resting /\ starts = 0
      /\ raised = {} /\ givenUp = {} /\ startup = NotStarted
  BY DEF PageInit
<1>2. page \in WikiRow
  <2>1. PICK linked \in BOOLEAN, status \in {"published", "draft"} :
          page = [score |-> 0, age |-> 0, first |-> TRUE, linked |-> linked, status |-> status]
    BY DEF PageInit
  <2>2. 0 \in 0..10 /\ 0 \in 0..FullAge /\ status \in {"published", "draft", "stale"}
        /\ TRUE \in BOOLEAN
    BY DEF FullAge
  <2> QED
    BY <2>1, <2>2, Zenon DEF WikiRow
<1>3. NotStarted \in CheckState /\ NotStarted.pc = "down"
  BY <1>1 DEF NotStarted, CheckState
<1>4. PageTypeOK
  BY <1>1, <1>2, <1>3, PageAssumption DEF PageTypeOK, CheckState, WikiRow
<1> QED
  BY <1>1, <1>3, <1>4 DEF StalenessInv, Settled, Between

LEMMA StalenessInvStep == StalenessInv /\ [PageNext]_stalenessVars => StalenessInv'
<1> SUFFICES ASSUME StalenessInv, [PageNext]_stalenessVars PROVE StalenessInv'
  OBVIOUS
<1> USE PageAssumption
<1>0. /\ head \in 1..MaxCommits /\ touching \subseteq 2..head
      /\ knownHead \in 0..head
      /\ page \in WikiRow
      /\ startup \in CheckState
      /\ upkeep \in 0..10 \union {Resting}
      /\ starts \in 0..MaxStarts
      /\ raised \subseteq touching /\ givenUp \subseteq touching
  BY DEF StalenessInv, PageTypeOK, CheckState, WikiRow
<1>i. /\ Settled(knownHead)
      /\ startup.pc \in {"diff", "page", "raise"} => Settled(startup.from)
      /\ startup.pc = "note" => Settled(startup.to)
  BY DEF StalenessInv
<1>n. touching \subseteq Nat /\ knownHead \in Nat /\ startup.from \in Nat /\ startup.to \in Nat
      /\ head \in Nat
  BY <1>0 DEF CheckState
<1>1. ASSUME NEW touches \in BOOLEAN, CommitToProject(touches) PROVE StalenessInv'
  <2>1. /\ head < MaxCommits /\ head' = head + 1
        /\ touching \subseteq touching' /\ touching' \subseteq touching \union {head + 1}
        /\ UNCHANGED <<knownHead, page, startup, upkeep, starts, raised, givenUp>>
    BY <1>1 DEF CommitToProject
  <2>2. PageTypeOK'
    <3>1. head' \in 1..MaxCommits /\ touching' \subseteq 2..head' /\ 0..head \subseteq 0..head'
      BY <1>0, <2>1
    <3>2. startup' \in CheckState'
      BY <1>0, <2>1, <3>1 DEF CheckState
    <3> QED
      BY <1>0, <2>1, <3>1, <3>2 DEF PageTypeOK, CheckState, WikiRow
  <2>3. ASSUME NEW c \in 0..head, NEW new \in touching', new <= c PROVE new \in touching
    BY <1>n, <2>1, <2>3
  <2>4. startup.from \in 0..head /\ startup.to \in 0..head
    BY <1>0 DEF CheckState
  <2>5. Settled(knownHead)'
    BY <1>0, <1>i, <2>1, <2>3 DEF Settled, Between
  <2>6. startup.pc \in {"diff", "page", "raise"} => Settled(startup.from)'
    BY <1>i, <2>1, <2>3, <2>4 DEF Settled, Between
  <2>7. startup.pc = "note" => Settled(startup.to)'
    BY <1>i, <2>1, <2>3, <2>4 DEF Settled, Between
  <2> QED
    BY <2>1, <2>2, <2>5, <2>6, <2>7 DEF StalenessInv
\* Steps that leave the commits, and what is settled, as they are.
<1>2. ASSUME UNCHANGED <<head, touching, knownHead, startup, raised, givenUp>>,
             page' \in WikiRow,
             upkeep' \in 0..10 \union {Resting}, starts' \in 0..MaxStarts
      PROVE  StalenessInv'
  <2>1. PageTypeOK'
    BY <1>0, <1>2 DEF PageTypeOK, CheckState, WikiRow
  <2> QED
    BY <1>i, <1>2, <2>1 DEF StalenessInv, Settled, Between
\* Steps of the check that settle changes, or none.
<1>3. ASSUME UNCHANGED <<head, touching, knownHead, page, upkeep>>, starts' \in 0..MaxStarts,
             startup' \in CheckState,
             raised \subseteq raised', raised' \subseteq touching,
             givenUp \subseteq givenUp', givenUp' \subseteq touching,
             startup'.pc \in {"diff", "page", "raise"} => Settled(startup'.from),
             startup'.pc = "note" => Settled(startup.to)' /\ startup'.to = startup.to
      PROVE  StalenessInv'
  <2>1. PageTypeOK'
    BY <1>0, <1>3 DEF PageTypeOK, CheckState, WikiRow
  <2>2. Settled(knownHead)'
    BY <1>i, <1>3 DEF Settled, Between
  <2>3. startup'.pc \in {"diff", "page", "raise"} => Settled(startup.from)'
    BY <1>3 DEF Settled, Between
  <2> QED
    BY <1>3, <2>1, <2>2, <2>3 DEF StalenessInv
<1>4. CASE ServerStarts
  <2>1. /\ starts' \in 0..MaxStarts
        /\ startup' \in CheckState
        /\ startup'.pc \in {"known", "done"}
    <3>0. 0 \in 0..head /\ head \in 0..head /\ 0 \in 0..10
      BY <1>n
    <3>1. ASSUME NEW pc \in {"known", "done"}, NEW to \in 0..head
          PROVE  [pc |-> pc, from |-> 0, to |-> to, score |-> 0] \in CheckState
      BY <3>0 DEF CheckState
    <3>3. \/ startup' = [pc |-> "known", from |-> 0, to |-> head, score |-> 0]
          \/ startup' = [pc |-> "done", from |-> 0, to |-> 0, score |-> 0]
      BY <1>4 DEF ServerStarts, NotStarted
    <3>4. startup' \in CheckState /\ startup'.pc \in {"known", "done"}
      BY <3>0, <3>1, <3>3
    <3>2. starts' \in 0..MaxStarts
      BY <1>0, <1>4 DEF ServerStarts
    <3>5. head' = head
      BY <1>4 DEF ServerStarts
    <3> QED
      BY <3>2, <3>4, <3>5
  <2>2. UNCHANGED <<head, touching, knownHead, page, upkeep, raised, givenUp>>
    BY <1>4 DEF ServerStarts
  <2> QED
    BY <1>0, <1>3, <2>1, <2>2
<1>5. CASE ReadKnownHead
  <2>1. PICK from \in {knownHead, 0} :
          /\ startup' = [startup EXCEPT !.from = from,
                           !.pc = IF from \in {0, startup.to} THEN "note" ELSE "diff"]
          /\ givenUp' = IF from = 0 THEN givenUp \union Between(0, startup.to) ELSE givenUp
    BY <1>5 DEF ReadKnownHead
  <2>2. UNCHANGED <<head, touching, knownHead, page, upkeep, starts, raised>>
    BY <1>5 DEF ReadKnownHead
  <2>3. /\ startup' \in CheckState
        /\ startup'.from = from /\ startup'.to = startup.to
        /\ startup'.pc \in {"note", "diff"}
        /\ startup'.pc = "note" => from \in {0, startup.to}
        /\ startup'.pc = "diff" => from # 0
    <3> DEFINE pc == IF from \in {0, startup.to} THEN "note" ELSE "diff"
    <3>1. /\ pc \in {"note", "diff"} /\ (pc = "note" => from \in {0, startup.to})
          /\ (pc = "diff" => from # 0)
      OBVIOUS
    <3>2. startup' = [startup EXCEPT !.from = from, !.pc = pc] /\ from \in 0..head
      BY <1>0, <1>n, <2>1
    <3> HIDE DEF pc
    <3> QED
      BY <1>0, <3>1, <3>2 DEF CheckState
  <2>4. givenUp \subseteq givenUp' /\ givenUp' \subseteq touching
    BY <1>0, <2>1 DEF Between
  <2>5. startup'.pc = "diff" => Settled(startup'.from)
    BY <1>i, <2>1, <2>3
  <2>6. startup'.pc = "note" => Settled(startup.to)'
    BY <1>i, <2>1, <2>2, <2>3, <2>4 DEF Settled, Between
  <2> QED
    BY <1>0, <1>3, <2>2, <2>3, <2>4, <2>5, <2>6
<1>6. CASE GivesUp
  <2>1. /\ startup.pc \in {"diff", "page", "raise"}
        /\ startup' = [startup EXCEPT !.pc = "note"]
        /\ givenUp' = givenUp \union Between(startup.from, startup.to)
        /\ UNCHANGED <<head, touching, knownHead, page, upkeep, starts, raised>>
    BY <1>6 DEF GivesUp, ChangesToActUpon
  <2>2. /\ startup' \in CheckState
        /\ startup'.pc = "note" /\ startup'.to = startup.to
    BY <1>0, <2>1 DEF CheckState
  <2>3. givenUp \subseteq givenUp' /\ givenUp' \subseteq touching
    BY <1>0, <2>1 DEF Between
  <2>4. Settled(startup.to)'
    <3>1. Between(startup.from, startup.to) \subseteq raised' \union givenUp' /\ raised \subseteq raised'
      BY <2>1
    <3>2. Between(0, startup.to)' \subseteq raised' \union givenUp'
      BY <1>i, <1>n, <2>1, <2>2, <2>3, <3>1 DEF Settled, Between
    <3> QED
      BY <3>2 DEF Settled
  <2> QED
    BY <1>0, <1>3, <2>1, <2>2, <2>3, <2>4
<1>7. CASE DiffAndFindPages
  <2>1. /\ startup.pc = "diff"
        /\ startup' = [startup EXCEPT !.pc =
                         IF Between(startup.from, startup.to) = {} THEN "note" ELSE "page"]
        /\ UNCHANGED <<head, touching, knownHead, page, upkeep, starts, raised, givenUp>>
    BY <1>7 DEF DiffAndFindPages, ChangesToActUpon
  <2>2. /\ startup' \in CheckState
        /\ startup'.pc \in {"note", "page"}
        /\ startup'.to = startup.to /\ startup'.from = startup.from
        /\ startup'.pc = "note" => Between(startup.from, startup.to) = {}
    BY <1>0, <2>1 DEF CheckState
  <2>3. startup'.pc = "note" => Settled(startup.to)'
    BY <1>i, <1>n, <2>1, <2>2 DEF Settled, Between
  <2> QED
    BY <1>0, <1>i, <1>3, <2>1, <2>2, <2>3
<1>8. CASE ReadPageScore
  <2>1. /\ startup.pc = "page"
        /\ startup' = [startup EXCEPT !.pc = "raise", !.score = page.score]
        /\ UNCHANGED <<head, touching, knownHead, page, upkeep, starts, raised, givenUp>>
    BY <1>8 DEF ReadPageScore
  <2>2. /\ startup' \in CheckState
        /\ startup'.pc = "raise" /\ startup'.from = startup.from
    BY <1>0, <2>1 DEF CheckState, WikiRow
  <2> QED
    BY <1>0, <1>i, <1>3, <2>1, <2>2
<1>9. CASE RaiseScore
  <2>1. /\ startup.pc = "raise"
        /\ page' = Scored(IF startup.score + 3 > 10 THEN 10 ELSE startup.score + 3)
        /\ raised' = raised \union Between(startup.from, startup.to)
        /\ startup' = [startup EXCEPT !.pc = "note"]
        /\ UNCHANGED <<head, touching, knownHead, upkeep, starts, givenUp>>
    BY <1>9 DEF RaiseScore, ChangesToActUpon
  <2>2. /\ startup' \in CheckState
        /\ startup'.pc = "note" /\ startup'.to = startup.to
    BY <1>0, <2>1 DEF CheckState
  <2>3. page' \in WikiRow
    <3>1. (IF startup.score + 3 > 10 THEN 10 ELSE startup.score + 3) \in 0..10
      BY <1>0 DEF CheckState
    <3> QED
      BY <1>0, <2>1, <3>1, ScoredRow
  <2>4. raised' \subseteq touching
    BY <1>0, <2>1 DEF Between
  <2>5. Between(0, startup.to)' \subseteq raised' \union givenUp'
    BY <1>i, <1>n, <2>1, <2>2 DEF Settled, Between
  <2>6. PageTypeOK'
    BY <1>0, <2>1, <2>2, <2>3, <2>4 DEF PageTypeOK, CheckState, WikiRow
  <2>7. Settled(knownHead)'
    BY <1>i, <2>1 DEF Settled, Between
  <2> QED
    BY <2>2, <2>5, <2>6, <2>7 DEF StalenessInv, Settled
<1>10. CASE NoteHead
  <2>1. /\ startup.pc = "note" /\ knownHead' \in {startup.to, knownHead}
        /\ startup' = [startup EXCEPT !.pc = "done"]
        /\ UNCHANGED <<head, touching, page, upkeep, starts, raised, givenUp>>
    BY <1>10 DEF NoteHead, Noted
  <2>2. /\ startup' \in CheckState
        /\ startup'.pc = "done" /\ knownHead' \in 0..head
    BY <1>0, <2>1 DEF CheckState
  <2>3. Settled(knownHead)'
    BY <1>i, <2>1 DEF Settled, Between
  <2> QED
    BY <1>0, <2>1, <2>2, <2>3 DEF StalenessInv, PageTypeOK, CheckState, WikiRow
<1>11. CASE ServerStops
  <2>1. /\ startup' = NotStarted /\ upkeep' = Resting
        /\ UNCHANGED <<head, touching, knownHead, page, starts, raised, givenUp>>
    BY <1>11 DEF ServerStops
  <2>2. /\ NotStarted \in CheckState
        /\ NotStarted.pc = "down"
    BY <1>0 DEF NotStarted, CheckState
  <2> QED
    BY <1>0, <1>i, <2>1, <2>2
    DEF StalenessInv, PageTypeOK, Settled, Between, CheckState, WikiRow
<1>12. CASE UpkeepComputes \/ UpkeepScores \/ UpkeepSkips \/ WritePage \/ TenDaysPass
  <2>1. UNCHANGED <<head, touching, knownHead, startup, starts, raised, givenUp>>
    BY <1>12 DEF UpkeepComputes, UpkeepScores, UpkeepSkips, WritePage, TenDaysPass
  <2>2. upkeep' \in 0..10 \union {Resting}
    <3>1. Staleness \in 0..10
      BY <1>0 DEF Staleness, FullAge, WikiRow
    <3> QED
      BY <1>0, <1>12, <3>1 DEF UpkeepComputes, UpkeepScores, UpkeepSkips, WritePage, TenDaysPass
  <2>3. page' \in WikiRow
    <3>1. CASE UpkeepScores
      <4>1. upkeep \in 0..10
        BY <1>0, <3>1 DEF UpkeepScores
      <4>2. Scored(upkeep) \in WikiRow
        BY <1>0, <4>1, ScoredRow
      <4>3. page' = Scored(upkeep)
        BY <3>1 DEF UpkeepScores
      <4> QED
        BY <4>2, <4>3
    <3>2. CASE WritePage
      <4>1. page' = [page EXCEPT !.score = 0, !.age = 0, !.first = FALSE,
                                 !.status = "published"]
        BY <3>2 DEF WritePage
      <4>2. 0 \in 0..10 /\ 0 \in 0..FullAge /\ FALSE \in BOOLEAN
        BY DEF FullAge
      <4> QED
        BY <1>0, <4>1, <4>2 DEF WikiRow
    <3>3. CASE TenDaysPass
      BY <1>0, <3>3 DEF TenDaysPass, FullAge, WikiRow
    <3> QED
      BY <1>0, <1>12, <3>1, <3>2, <3>3 DEF UpkeepComputes, UpkeepSkips
  <2> QED
    BY <1>0, <1>2, <2>1, <2>2, <2>3
<1>13. CASE UNCHANGED stalenessVars
  BY <1>0, <1>2, <1>13 DEF stalenessVars
<1> QED
  BY <1>1, <1>4, <1>5, <1>6, <1>7, <1>8, <1>9, <1>10, <1>11, <1>12, <1>13 DEF PageNext

\* For any number of commits and starts, no change of the source slips between two starts
\* (insight/engine.go:657-742).
THEOREM ChangesAreNoticedHolds == PageSpec => []ChangesAreNoticed
<1>1. StalenessInv => ChangesAreNoticed
  BY DEF StalenessInv, ChangesAreNoticed, Settled
<1> QED
  BY <1>1, StalenessInvInit, StalenessInvStep, PTL DEF PageSpec

-----------------------------------------------------------------------------
(* DocsIndex. Nothing else runs beside an undisturbed run, so that what it  *)
(* wrote so far is what the rows are; and rows no disturbed run has left    *)
(* are the rows of one text, which the row of its first chunk tells.        *)

RowsOf(n, text, aged) == {[chunk |-> k, text |-> text, aged |-> aged] : k \in 0..n - 1}

IndexerState == [pc : {"idle", "compare", "delete", "insert", "sweep"},
                 text : DocTexts \union {NoDoc}, next : Nat, wrote : BOOLEAN]

\* What an undisturbed run has done so far.
WroteSoFar(run, file, rows) ==
  /\ run.pc # "idle" /\ run.text = file
  /\ run.pc \in {"compare", "delete"} => ~run.wrote
  /\ run.pc = "insert" => run.wrote /\ rows = RowsOf(run.next, run.text, FALSE)
  /\ run.pc = "sweep" /\ run.wrote =>
       run.text \in DocTexts /\ rows = RowsOf(run.text, run.text, FALSE)
  /\ run.pc = "sweep" /\ ~run.wrote /\ file # NoDoc =>
       \E r \in rows : r.chunk = 0 /\ r.text = file

DocsInv ==
  /\ DocsTypeOK
  /\ indexers \in [Indexers -> IndexerState]
  /\ \A i \in Indexers :
       /\ indexers[i].pc \in {"compare", "delete", "insert"} => indexers[i].text \in DocTexts
       /\ indexers[i].pc \in {"compare", "delete"} => indexers[i].next = 0
       /\ indexers[i].pc = "insert" => indexers[i].next < indexers[i].text /\ tainted
  /\ \A i \in undisturbedRuns :
       /\ \A j \in Indexers \ {i} : indexers[j].pc = "idle"
       /\ WroteSoFar(indexers[i], docFile, docRows)
  /\ ~tainted => \E t \in Nat, aged \in BOOLEAN : docRows = RowsOf(t, t, aged)
  /\ docsInOrder =>
       docFile \in DocTexts /\ \E aged \in BOOLEAN : docRows = RowsOf(docFile, docFile, aged)

LEMMA DocsInvInit == DocsInit => DocsInv
<1> SUFFICES ASSUME DocsInit PROVE DocsInv
  OBVIOUS
<1>1. /\ docFile \in DocTexts /\ docRows = {} /\ docEdits = 0 /\ undisturbedRuns = {}
      /\ ~tainted /\ ~docsInOrder /\ tainted \in BOOLEAN /\ docsInOrder \in BOOLEAN
      /\ indexers = [i \in Indexers |-> RestingIndexer]
  BY DEF DocsInit
<1>2. RestingIndexer \in IndexerState /\ RestingIndexer.pc = "idle"
  BY DEF RestingIndexer, IndexerState
<1>3. /\ indexers \in [Indexers -> IndexerState]
      /\ \A i \in Indexers : indexers[i] \in IndexerState /\ indexers[i].pc = "idle"
  BY <1>1, <1>2
<1>4. DocsTypeOK
  BY <1>1, <1>3, DocsAssumption DEF DocsTypeOK, IndexerState
<1>5. docRows = RowsOf(0, 0, FALSE)
  BY <1>1 DEF RowsOf
<1> QED
  BY <1>1, <1>3, <1>4, <1>5 DEF DocsInv

\* A run takes a step that changes the rows or not; disturbed runs promise nothing.
LEMMA RunMoves ==
  ASSUME DocsInv,
         NEW i \in Indexers, NEW next \in IndexerState,
         indexers' = [indexers EXCEPT ![i] = next],
         UNCHANGED <<docFile, docEdits>>,
         docRows' \subseteq DocRowType, \A r, s \in docRows' : r.chunk = s.chunk => r = s,
         \/ undisturbedRuns' \in {undisturbedRuns, undisturbedRuns \ {i}}
            /\ indexers[i].pc # "idle"
         \/ undisturbedRuns' \subseteq {i} /\ \A j \in Indexers : indexers[j].pc = "idle"
         \/ undisturbedRuns' = {},
         i \in undisturbedRuns' => WroteSoFar(next, docFile', docRows'),
         next.pc \in {"compare", "delete", "insert"} => next.text \in DocTexts,
         next.pc \in {"compare", "delete"} => next.next = 0,
         next.pc = "insert" => next.next < next.text /\ tainted',
         tainted' \in BOOLEAN, docsInOrder' \in BOOLEAN,
         tainted => tainted' \/ i \in undisturbedRuns,
         ~tainted' => \E t \in Nat, aged \in BOOLEAN : docRows' = RowsOf(t, t, aged),
         docsInOrder' => docFile \in DocTexts
                         /\ \E aged \in BOOLEAN : docRows' = RowsOf(docFile, docFile, aged)
  PROVE  DocsInv'
<1>0. /\ DocsTypeOK /\ indexers \in [Indexers -> IndexerState]
      /\ undisturbedRuns \subseteq Indexers
      /\ \A k \in undisturbedRuns : \A j \in Indexers \ {k} : indexers[j].pc = "idle"
      /\ \A k \in undisturbedRuns : indexers[k].pc # "idle"
  BY DEF DocsInv, DocsTypeOK, WroteSoFar
<1>1. /\ indexers' \in [Indexers -> IndexerState]
      /\ indexers'[i] = next
      /\ \A j \in Indexers : j # i => indexers'[j] = indexers[j]
  BY <1>0
<1>2. undisturbedRuns' \subseteq Indexers
  BY <1>0
<1>3. DocsTypeOK'
  <2>1. \A j \in Indexers : indexers'[j] \in IndexerState
    BY <1>1
  <2> QED
    BY <1>0, <1>2, <2>1 DEF DocsTypeOK, IndexerState
<1>4. ASSUME NEW k \in undisturbedRuns'
      PROVE  k = i /\ \A j \in Indexers \ {k} : indexers[j].pc = "idle"
  <2>1. CASE k \in undisturbedRuns
    <3>1. indexers[k].pc # "idle" /\ \A j \in Indexers \ {k} : indexers[j].pc = "idle"
      BY <1>0, <2>1
    <3>2. k = i
      BY <1>0, <2>1, <3>1
    <3> QED
      BY <3>1, <3>2
  <2>2. CASE k \notin undisturbedRuns
    BY <2>2
  <2> QED
    BY <2>1, <2>2
<1>5. ASSUME NEW k \in undisturbedRuns'
      PROVE  /\ \A j \in Indexers \ {k} : indexers'[j].pc = "idle"
             /\ WroteSoFar(indexers'[k], docFile', docRows')
  BY <1>1, <1>4
<1>6. ASSUME NEW j \in Indexers
      PROVE  /\ indexers'[j].pc \in {"compare", "delete", "insert"} =>
                  indexers'[j].text \in DocTexts
             /\ indexers'[j].pc \in {"compare", "delete"} => indexers'[j].next = 0
             /\ indexers'[j].pc = "insert" =>
                  indexers'[j].next < indexers'[j].text /\ tainted'
  <2>1. CASE j = i
    BY <1>1, <2>1
  <2>2. CASE j # i
    <3>1. indexers'[j] = indexers[j]
      BY <1>1, <2>2
    <3>2. /\ indexers[j].pc \in {"compare", "delete", "insert"} => indexers[j].text \in DocTexts
          /\ indexers[j].pc \in {"compare", "delete"} => indexers[j].next = 0
          /\ indexers[j].pc = "insert" => indexers[j].next < indexers[j].text /\ tainted
      BY DEF DocsInv
    <3>3. indexers[j].pc = "insert" => i \notin undisturbedRuns
      BY <1>0, <2>2
    <3> QED
      BY <3>1, <3>2, <3>3
  <2> QED
    BY <2>1, <2>2
<1> QED
  BY <1>1, <1>3, <1>5, <1>6 DEF DocsInv

\* The rows of a text, and those a sweep or the days leave of them.
LEMMA RowsOfText ==
  ASSUME NEW n \in Nat, NEW t, NEW a \in BOOLEAN
  PROVE  /\ {r \in RowsOf(n, t, a) : ~r.aged} = IF a THEN RowsOf(0, 0, FALSE) ELSE RowsOf(n, t, a)
         /\ {[r EXCEPT !.aged = TRUE] : r \in RowsOf(n, t, a)} = RowsOf(n, t, TRUE)
<1> DEFINE R(k, b) == [chunk |-> k, text |-> t, aged |-> b]
<1>1. RowsOf(0, 0, FALSE) = {}
  BY DEF RowsOf
<1>2. {r \in RowsOf(n, t, a) : ~r.aged} = IF a THEN RowsOf(0, 0, FALSE) ELSE RowsOf(n, t, a)
  <2>1. CASE a
    BY <1>1, <2>1 DEF RowsOf
  <2>2. CASE ~a
    BY <2>2 DEF RowsOf
  <2> QED
    BY <2>1, <2>2
<1>r. ASSUME NEW r \in [chunk : Nat, text : {t}, aged : BOOLEAN]
      PROVE  [r EXCEPT !.aged = TRUE] = [chunk |-> r.chunk, text |-> r.text, aged |-> TRUE]
  <2> DEFINE x == [r EXCEPT !.aged = TRUE]
  <2>1. /\ x \in [chunk : Nat, text : {t}, aged : BOOLEAN]
        /\ x.chunk = r.chunk /\ x.text = r.text /\ x.aged = TRUE
    OBVIOUS
  <2> HIDE DEF x
  <2> QED
    BY <2>1
<1>3. ASSUME NEW k \in 0..n - 1 PROVE [R(k, a) EXCEPT !.aged = TRUE] = R(k, TRUE)
  <2>1. R(k, a) \in [chunk : Nat, text : {t}, aged : BOOLEAN]
    OBVIOUS
  <2>2. R(k, a).chunk = k /\ R(k, a).text = t
    OBVIOUS
  <2> HIDE DEF R
  <2>3. [R(k, a) EXCEPT !.aged = TRUE] =
          [chunk |-> R(k, a).chunk, text |-> R(k, a).text, aged |-> TRUE]
    BY <1>r, <2>1
  <2> QED
    BY <2>2, <2>3 DEF R
<1>5. {[r EXCEPT !.aged = TRUE] : r \in RowsOf(n, t, a)} = RowsOf(n, t, TRUE)
  <2>1. ASSUME NEW x \in {[r EXCEPT !.aged = TRUE] : r \in RowsOf(n, t, a)}
        PROVE  x \in RowsOf(n, t, TRUE)
    <3>1. PICK r \in RowsOf(n, t, a) : x = [r EXCEPT !.aged = TRUE]
      OBVIOUS
    <3>2. PICK k \in 0..n - 1 : r = R(k, a)
      BY DEF RowsOf
    <3>3. x = R(k, TRUE)
      BY <1>3, <3>1, <3>2, Zenon
    <3> QED
      BY <3>3 DEF RowsOf
  <2>2. ASSUME NEW x \in RowsOf(n, t, TRUE)
        PROVE  x \in {[r EXCEPT !.aged = TRUE] : r \in RowsOf(n, t, a)}
    <3>1. PICK k \in 0..n - 1 : x = R(k, TRUE)
      BY DEF RowsOf
    <3>2. R(k, a) \in RowsOf(n, t, a)
      BY DEF RowsOf
    <3>3. x = [R(k, a) EXCEPT !.aged = TRUE]
      BY <1>3, <3>1, Zenon
    <3> HIDE DEF R
    <3> QED
      BY <3>2, <3>3
  <2> QED
    BY <2>1, <2>2
<1> QED
  BY <1>2, <1>5

\* One more row.
LEMMA NextRow ==
  ASSUME NEW n \in Nat, NEW t
  PROVE  {r \in RowsOf(n, t, FALSE) : r.chunk # n} \union {Row(n, t)} = RowsOf(n + 1, t, FALSE)
<1>1. {r \in RowsOf(n, t, FALSE) : r.chunk # n} = RowsOf(n, t, FALSE)
  BY DEF RowsOf
<1>2. RowsOf(n + 1, t, FALSE) = RowsOf(n, t, FALSE) \union {Row(n, t)}
  <2>1. 0..(n + 1) - 1 = 0..n - 1 \union {n}
    OBVIOUS
  <2> QED
    BY <2>1 DEF RowsOf, Row
<1> QED
  BY <1>1, <1>2

LEMMA RowsOfItsText ==
  ASSUME NEW text \in DocTexts, NEW t \in Nat, NEW a \in BOOLEAN,
         docRows = RowsOf(t, t, a), Unchanged(text)
  PROVE  t = text
BY DEF RowsOf, Unchanged

LEMMA DocsInvStep == DocsInv /\ [DocsNext]_docsVars => DocsInv'
<1> SUFFICES ASSUME DocsInv, [DocsNext]_docsVars PROVE DocsInv'
  OBVIOUS
<1> USE DocsAssumption
<1>0. /\ indexers \in [Indexers -> IndexerState]
      /\ docRows \subseteq DocRowType /\ \A r, s \in docRows : r.chunk = s.chunk => r = s
      /\ docFile \in DocTexts \union {NoDoc} /\ undisturbedRuns \subseteq Indexers
      /\ tainted \in BOOLEAN /\ docsInOrder \in BOOLEAN /\ docEdits \in 0..MaxDocEdits
      /\ RestingIndexer \in IndexerState /\ RestingIndexer.pc = "idle"
  BY DEF DocsInv, DocsTypeOK, RestingIndexer, IndexerState
<1>r. /\ ~tainted => \E t \in Nat, aged \in BOOLEAN : docRows = RowsOf(t, t, aged)
      /\ docsInOrder => docFile \in DocTexts
                        /\ \E aged \in BOOLEAN : docRows = RowsOf(docFile, docFile, aged)
  BY DEF DocsInv
<1>1. ASSUME NEW i \in Indexers,
             \/ BeginIndex(i) \/ SkipUnchanged(i) \/ FindsChanged(i) \/ DeleteChunks(i)
             \/ InsertChunk(i) \/ InsertChunkFails(i) \/ Sweep(i) \/ IndexerDies(i)
      PROVE  DocsInv'
  <2>0. /\ indexers[i] \in IndexerState
        /\ indexers[i].pc \in {"compare", "delete", "insert"} => indexers[i].text \in DocTexts
        /\ indexers[i].pc \in {"compare", "delete"} => indexers[i].next = 0
        /\ indexers[i].pc = "insert" => indexers[i].next < indexers[i].text /\ tainted
        /\ i \in undisturbedRuns => WroteSoFar(indexers[i], docFile, docRows)
    BY <1>0 DEF DocsInv
  \* Steps that leave the rows as they are.
  <2>m. ASSUME NEW next \in IndexerState, indexers' = [indexers EXCEPT ![i] = next],
               UNCHANGED <<docFile, docRows, docEdits, tainted, docsInOrder>>,
               \/ undisturbedRuns' \in {undisturbedRuns, undisturbedRuns \ {i}}
                  /\ indexers[i].pc # "idle"
               \/ undisturbedRuns' \subseteq {i} /\ \A j \in Indexers : indexers[j].pc = "idle"
               \/ undisturbedRuns' = {},
               i \in undisturbedRuns' => WroteSoFar(next, docFile, docRows),
               next.pc \in {"compare", "delete", "insert"} => next.text \in DocTexts,
         next.pc \in {"compare", "delete"} => next.next = 0,
               next.pc # "insert"
        PROVE  DocsInv'
    <3>1. i \in undisturbedRuns' => WroteSoFar(next, docFile', docRows')
      BY <2>m DEF WroteSoFar, Unchanged
    <3>2. /\ docRows' \subseteq DocRowType /\ \A r, s \in docRows' : r.chunk = s.chunk => r = s
          /\ tainted' \in BOOLEAN /\ docsInOrder' \in BOOLEAN
          /\ tainted => tainted'
          /\ ~tainted' => \E t \in Nat, aged \in BOOLEAN : docRows' = RowsOf(t, t, aged)
          /\ docsInOrder' => docFile \in DocTexts
                 /\ \E aged \in BOOLEAN : docRows' = RowsOf(docFile, docFile, aged)
      BY <1>0, <1>r, <2>m
    <3> QED
      BY <2>m, <3>1, <3>2, RunMoves
  <2>1. CASE BeginIndex(i)
    <3> DEFINE pc == IF docFile = NoDoc THEN "sweep" ELSE "compare"
               next == [RestingIndexer EXCEPT !.pc = pc, !.text = docFile]
    <3>1. indexers' = [indexers EXCEPT ![i] = next]
      BY <2>1 DEF BeginIndex
    <3>2. /\ pc \in {"sweep", "compare"} /\ (pc = "compare" => docFile \in DocTexts)
          /\ (pc = "sweep" => docFile = NoDoc)
      BY <1>0
    <3> HIDE DEF pc
    <3>3. /\ next \in IndexerState /\ next.pc = pc /\ next.text = docFile
          /\ next.next = 0 /\ ~next.wrote
      BY <1>0, <3>2 DEF IndexerState, RestingIndexer
    <3> HIDE DEF next
    <3>4. WroteSoFar(next, docFile, docRows)
      BY <3>2, <3>3 DEF WroteSoFar
    <3>5. /\ UNCHANGED <<docFile, docRows, docEdits, tainted, docsInOrder>>
          /\ \/ undisturbedRuns' \subseteq {i} /\ \A j \in Indexers : indexers[j].pc = "idle"
             \/ undisturbedRuns' = {}
      BY <2>1 DEF BeginIndex
    <3> QED
      BY <2>m, <3>1, <3>2, <3>3, <3>4, <3>5
  \* Steps that only move on.
  <2>g. ASSUME NEW pc \in {"sweep", "delete"}, IndexerGoes(i, indexers[i].pc, pc),
               UNCHANGED <<docFile, docRows, docEdits, tainted, docsInOrder>>,
               undisturbedRuns' \in {undisturbedRuns, undisturbedRuns \ {i}},
               indexers[i].pc \in {"compare", "insert"},
               pc = "delete" => indexers[i].pc = "compare",
               pc = "sweep" /\ i \in undisturbedRuns' =>
                 indexers[i].pc = "compare" /\ Unchanged(indexers[i].text)
        PROVE  DocsInv'
    <3> DEFINE next == [indexers[i] EXCEPT !.pc = pc]
    <3>1. indexers' = [indexers EXCEPT ![i] = next]
      BY <2>g DEF IndexerGoes
    <3>2. /\ next \in IndexerState /\ next.pc = pc /\ next.text = indexers[i].text
          /\ next.next = indexers[i].next /\ (next.wrote <=> indexers[i].wrote)
      BY <2>0 DEF IndexerState
    <3> HIDE DEF next
    <3>3. ASSUME i \in undisturbedRuns' PROVE WroteSoFar(next, docFile, docRows)
      <4>1. i \in undisturbedRuns /\ WroteSoFar(indexers[i], docFile, docRows)
        BY <2>0, <2>g, <3>3
      <4>2. CASE pc = "delete"
        BY <2>g, <3>2, <4>1, <4>2 DEF WroteSoFar
      <4>3. CASE pc = "sweep"
        BY <2>g, <3>2, <3>3, <4>1, <4>3 DEF WroteSoFar, Unchanged
      <4> QED
        BY <4>2, <4>3
    <3> QED
      BY <2>0, <2>g, <2>m, <3>1, <3>2, <3>3
  <2>2. CASE SkipUnchanged(i)
    <3>1. indexers[i].pc = "compare" /\ Unchanged(indexers[i].text)
          /\ IndexerGoes(i, indexers[i].pc, "sweep")
          /\ UNCHANGED <<docFile, docRows, docEdits, undisturbedRuns, tainted, docsInOrder>>
      BY <2>2 DEF SkipUnchanged, IndexerGoes
    <3> QED
      BY <2>g, <3>1
  <2>3. CASE FindsChanged(i)
    <3>1. indexers[i].pc = "compare" /\ IndexerGoes(i, indexers[i].pc, "delete")
          /\ undisturbedRuns' \in {undisturbedRuns, undisturbedRuns \ {i}}
          /\ UNCHANGED <<docFile, docRows, docEdits, tainted, docsInOrder>>
      BY <2>3 DEF FindsChanged, IndexerGoes
    <3> QED
      BY <2>g, <3>1
  <2>4. CASE InsertChunkFails(i)
    <3>1. indexers[i].pc = "insert" /\ IndexerGoes(i, indexers[i].pc, "sweep")
          /\ undisturbedRuns' = undisturbedRuns \ {i}
          /\ UNCHANGED <<docFile, docRows, docEdits, tainted, docsInOrder>>
      BY <2>4 DEF InsertChunkFails, IndexerGoes
    <3> QED
      BY <2>g, <3>1
  <2>5. CASE IndexerDies(i)
    <3>1. indexers' = [indexers EXCEPT ![i] = RestingIndexer] /\ indexers[i].pc # "idle"
          /\ undisturbedRuns' = undisturbedRuns \ {i}
          /\ UNCHANGED <<docFile, docRows, docEdits, tainted, docsInOrder>>
      BY <2>5 DEF IndexerDies
    <3> QED
      BY <1>0, <2>m, <3>1
  <2>6. CASE DeleteChunks(i)
    <3> DEFINE pc == IF indexers[i].text = 0 THEN "sweep" ELSE "insert"
               next == [indexers[i] EXCEPT !.wrote = TRUE, !.pc = pc]
    <3>1. indexers' = [indexers EXCEPT ![i] = next] /\ indexers[i].pc = "delete"
      BY <2>6 DEF DeleteChunks
    <3>2. /\ pc \in {"sweep", "insert"} /\ (pc = "sweep" => indexers[i].text = 0)
          /\ (pc = "insert" => indexers[i].text # 0)
      OBVIOUS
    <3> HIDE DEF pc
    <3>3. /\ next \in IndexerState /\ next.pc = pc /\ next.text = indexers[i].text
          /\ next.next = indexers[i].next /\ next.wrote
      BY <2>0, <3>2 DEF IndexerState
    <3> HIDE DEF next
    <3>4. /\ \/ docRows' = {} /\ undisturbedRuns' = undisturbedRuns
             \/ docRows' = docRows /\ undisturbedRuns' = undisturbedRuns \ {i}
          /\ tainted' = TRUE /\ docsInOrder' = FALSE
          /\ UNCHANGED <<docFile, docEdits>>
      BY <2>6 DEF DeleteChunks
    <3>5. /\ next.next = 0
          /\ i \in undisturbedRuns' => docRows' = {} /\ WroteSoFar(indexers[i], docFile, docRows)
      BY <2>0, <3>1, <3>3, <3>4 DEF WroteSoFar
    <3>6. next.text \in DocTexts /\ next.text \in Nat /\ (next.pc = "sweep" => next.text = 0)
          /\ (next.pc = "insert" => next.text # 0)
      BY <2>0, <3>1, <3>2, <3>3
    <3>e. /\ RowsOf(next.next, next.text, FALSE) = {}
          /\ next.pc = "sweep" => RowsOf(next.text, next.text, FALSE) = {}
      BY <3>5, <3>6 DEF RowsOf
    <3>7. ASSUME i \in undisturbedRuns' PROVE WroteSoFar(next, docFile', docRows')
      <4>1. docRows' = {} /\ next.text = docFile
        BY <3>3, <3>5, <3>7 DEF WroteSoFar
      <4> QED
        BY <3>2, <3>3, <3>4, <3>6, <3>e, <4>1 DEF WroteSoFar
    <3>8. next.pc = "insert" => next.next < next.text
      BY <3>5, <3>6
    <3>9. /\ docRows' \subseteq DocRowType /\ \A r, s \in docRows' : r.chunk = s.chunk => r = s
          /\ undisturbedRuns' \in {undisturbedRuns, undisturbedRuns \ {i}}
      BY <1>0, <3>4
    <3> QED
      BY <3>1, <3>2, <3>3, <3>4, <3>6, <3>7, <3>8, <3>9, RunMoves
  <2>7. CASE InsertChunk(i)
    <3> DEFINE pc == IF indexers[i].next + 1 = indexers[i].text THEN "sweep" ELSE "insert"
               n == indexers[i].next + 1
               next == [indexers[i] EXCEPT !.next = n, !.pc = pc]
    <3>1. indexers' = [indexers EXCEPT ![i] = next] /\ indexers[i].pc = "insert"
      BY <2>7 DEF InsertChunk
    <3>2. indexers[i].next \in Nat /\ indexers[i].text \in DocTexts /\ indexers[i].text \in Nat
          /\ indexers[i].next < indexers[i].text /\ tainted
      BY <2>0, <3>1 DEF IndexerState
    <3>3. /\ pc \in {"sweep", "insert"}
          /\ (pc = "sweep" => indexers[i].next + 1 = indexers[i].text)
          /\ (pc = "insert" => indexers[i].next + 1 < indexers[i].text)
      BY <3>2
    <3>n. n \in Nat /\ n = indexers[i].next + 1
      BY <3>2
    <3> HIDE DEF pc, n
    <3>4. /\ next \in IndexerState /\ next.pc = pc /\ next.text = indexers[i].text
          /\ next.next = indexers[i].next + 1 /\ (next.wrote <=> indexers[i].wrote)
      <4>1. /\ next \in IndexerState /\ next.pc = pc /\ next.text = indexers[i].text
            /\ next.next = n /\ (next.wrote <=> indexers[i].wrote)
        BY <2>0, <3>3, <3>n DEF IndexerState
      <4> QED
        BY <3>n, <4>1
    <3> HIDE DEF next
    <3>5. /\ docRows' = {r \in docRows : r.chunk # indexers[i].next}
                         \union {Row(indexers[i].next, indexers[i].text)}
          /\ docsInOrder' = FALSE
          /\ UNCHANGED <<docFile, docEdits, undisturbedRuns, tainted>>
      BY <2>7 DEF InsertChunk
    <3>6. Row(indexers[i].next, indexers[i].text) \in DocRowType
          /\ Row(indexers[i].next, indexers[i].text).chunk = indexers[i].next
      BY <3>2 DEF Row, DocRowType
    <3>7. docRows' \subseteq DocRowType /\ \A r, s \in docRows' : r.chunk = s.chunk => r = s
      BY <1>0, <3>5, <3>6
    <3>8. ASSUME i \in undisturbedRuns' PROVE WroteSoFar(next, docFile', docRows')
      <4>1. /\ indexers[i].text = docFile /\ indexers[i].wrote
            /\ docRows = RowsOf(indexers[i].next, indexers[i].text, FALSE)
        BY <2>0, <3>1, <3>5, <3>8 DEF WroteSoFar
      <4>2. docRows' = RowsOf(next.next, next.text, FALSE)
        BY <3>2, <3>4, <3>5, <4>1, NextRow
      <4>3. next.pc = "sweep" => next.next = next.text
        BY <3>3, <3>4
      <4> QED
        BY <3>2, <3>3, <3>4, <3>5, <4>1, <4>2, <4>3 DEF WroteSoFar
    <3>9. /\ undisturbedRuns' \in {undisturbedRuns, undisturbedRuns \ {i}}
          /\ indexers[i].pc # "idle" /\ next.text \in DocTexts
          /\ next.pc \notin {"compare", "delete"}
          /\ (next.pc = "insert" => next.next < next.text)
      BY <3>1, <3>2, <3>3, <3>4, <3>5
    <3> QED
      BY <1>0, <3>1, <3>2, <3>4, <3>5, <3>7, <3>8, <3>9, RunMoves
  <2>8. CASE Sweep(i)
    <3>1. /\ indexers' = [indexers EXCEPT ![i] = RestingIndexer] /\ indexers[i].pc = "sweep"
          /\ docRows' \in {docRows, {r \in docRows : ~r.aged}}
          /\ undisturbedRuns' = undisturbedRuns \ {i}
          /\ tainted' = (tainted /\ ~(i \in undisturbedRuns /\ indexers[i].wrote))
          /\ docsInOrder' = (i \in undisturbedRuns /\ ~tainted' /\ docRows' = docRows
                              /\ docFile # NoDoc)
          /\ UNCHANGED <<docFile, docEdits>>
      BY <2>8 DEF Sweep
    <3>2. /\ tainted' \in BOOLEAN /\ docsInOrder' \in BOOLEAN
          /\ tainted => tainted' \/ i \in undisturbedRuns
          /\ docRows' \subseteq DocRowType /\ \A r, s \in docRows' : r.chunk = s.chunk => r = s
      BY <1>0, <3>1
    \* What is left are the rows of one text, or none.
    <3>3. ASSUME ~tainted' PROVE \E t \in Nat, aged \in BOOLEAN : docRows' = RowsOf(t, t, aged)
      <4>1. PICK t \in Nat, aged \in BOOLEAN : docRows = RowsOf(t, t, aged)
        <5>1. CASE ~tainted
          BY <1>r, <5>1
        <5>2. CASE i \in undisturbedRuns /\ indexers[i].wrote
          <6>1. indexers[i].text \in Nat
                /\ docRows = RowsOf(indexers[i].text, indexers[i].text, FALSE)
            BY <2>0, <3>1, <5>2 DEF WroteSoFar
          <6> QED
            BY <6>1
        <5> QED
          BY <1>0, <3>1, <3>3, <5>1, <5>2
      <4>2. docRows' \in {docRows, RowsOf(0, 0, FALSE)}
        BY <3>1, <4>1, RowsOfText
      <4> QED
        BY <4>1, <4>2
    <3>4. ASSUME docsInOrder'
          PROVE  docFile \in DocTexts
                 /\ \E aged \in BOOLEAN : docRows' = RowsOf(docFile, docFile, aged)
      <4>1. /\ i \in undisturbedRuns /\ ~tainted' /\ docRows' = docRows
            /\ docFile \in DocTexts /\ indexers[i].text = docFile
        BY <1>0, <2>0, <3>1, <3>4 DEF WroteSoFar
      <4>2. CASE indexers[i].wrote
        BY <2>0, <3>1, <4>1, <4>2 DEF WroteSoFar
      <4>3. CASE ~indexers[i].wrote
        <5>1. PICK t \in Nat, aged \in BOOLEAN : docRows = RowsOf(t, t, aged)
          BY <3>3, <4>1
        <5>2. Unchanged(docFile)
          BY <1>0, <2>0, <3>1, <4>1, <4>3 DEF WroteSoFar, Unchanged
        <5>3. t = docFile
          BY <4>1, <5>1, <5>2, RowsOfItsText
        <5> QED
          BY <4>1, <5>1, <5>3
      <4> QED
        BY <4>2, <4>3
    <3> QED
      BY <1>0, <3>1, <3>2, <3>3, <3>4, RunMoves
  <2> QED
    BY <1>1, <2>1, <2>2, <2>3, <2>4, <2>5, <2>6, <2>7, <2>8
<1>2. ASSUME NEW text \in DocTexts \union {NoDoc}, EditDoc(text) PROVE DocsInv'
  <2>1. /\ docEdits < MaxDocEdits /\ docFile' = text /\ docEdits' = docEdits + 1
        /\ undisturbedRuns' = {} /\ docsInOrder' = FALSE
        /\ UNCHANGED <<docRows, indexers, tainted>>
    BY <1>2 DEF EditDoc
  <2>2. DocsTypeOK'
    <3>1. docEdits' \in 0..MaxDocEdits
      BY <1>0, <2>1
    <3> QED
      BY <1>0, <2>1, <3>1 DEF DocsInv, DocsTypeOK
  <2> QED
    BY <1>r, <2>1, <2>2 DEF DocsInv
<1>3. CASE RowsAge
  <2>1. /\ \A i \in Indexers : indexers[i].pc = "idle"
        /\ docRows' = {[r EXCEPT !.aged = TRUE] : r \in docRows}
        /\ UNCHANGED <<docFile, indexers, docEdits, undisturbedRuns, tainted, docsInOrder>>
    BY <1>3 DEF RowsAge
  <2>2. undisturbedRuns = {}
    BY <1>0, <2>1 DEF DocsInv, WroteSoFar
  <2>3. docRows' \subseteq DocRowType /\ \A r, s \in docRows' : r.chunk = s.chunk => r = s
    <3>1. ASSUME NEW r \in docRows
          PROVE  /\ [r EXCEPT !.aged = TRUE] \in DocRowType
                 /\ [r EXCEPT !.aged = TRUE].chunk = r.chunk
      BY <1>0 DEF DocRowType
    <3>2. docRows' \subseteq DocRowType
      BY <2>1, <3>1
    <3>3. ASSUME NEW x \in docRows', NEW y \in docRows', x.chunk = y.chunk PROVE x = y
      <4>1. PICK r \in docRows : x = [r EXCEPT !.aged = TRUE]
        BY <2>1
      <4>2. PICK s \in docRows : y = [s EXCEPT !.aged = TRUE]
        BY <2>1
      <4>3. x.chunk = r.chunk /\ y.chunk = s.chunk
        BY <3>1, <4>1, <4>2
      <4>4. r = s
        BY <1>0, <3>3, <4>3
      <4> QED
        BY <4>1, <4>2, <4>4
    <3> QED
      BY <3>2, <3>3
  <2>4. DocsTypeOK'
    BY <1>0, <2>1, <2>3 DEF DocsInv, DocsTypeOK
  <2>5. ASSUME NEW t \in Nat, NEW aged \in BOOLEAN, docRows = RowsOf(t, t, aged)
        PROVE  docRows' = RowsOf(t, t, TRUE)
    BY <2>1, <2>5, RowsOfText
  <2>6. ~tainted' => \E t \in Nat, aged \in BOOLEAN : docRows' = RowsOf(t, t, aged)
    BY <1>r, <2>1, <2>5
  <2>7. docsInOrder' => docFile' \in DocTexts
                        /\ \E aged \in BOOLEAN : docRows' = RowsOf(docFile', docFile', aged)
    BY <1>r, <2>1, <2>5
  <2> QED
    BY <2>1, <2>2, <2>4, <2>6, <2>7 DEF DocsInv
<1>4. CASE UNCHANGED docsVars
  BY <1>4 DEF docsVars, DocsInv, DocsTypeOK
<1> QED
  BY <1>1, <1>2, <1>3, <1>4 DEF DocsNext

\* For any number of runs, texts and edits, an undisturbed run leaves exactly the chunks of
\* the document (db/governance.go:88-118).
THEOREM IndexedAsWrittenHolds == DocsSpec => []IndexedAsWritten
<1>1. DocsInv => IndexedAsWritten
  <2> SUFFICES ASSUME DocsInv, docsInOrder
               PROVE  {[chunk |-> r.chunk, text |-> r.text] : r \in docRows} = ChunksOf(docFile)
    BY DEF IndexedAsWritten
  <2>1. PICK aged \in BOOLEAN : docRows = RowsOf(docFile, docFile, aged)
    BY DEF DocsInv
  <2>2. docFile \in Nat
    BY DocsAssumption DEF DocsInv
  <2>3. ASSUME NEW c \in {[chunk |-> r.chunk, text |-> r.text] : r \in docRows}
        PROVE  c \in ChunksOf(docFile)
    <3>1. PICK k \in 0..docFile - 1 : c = [chunk |-> k, text |-> docFile]
      BY <2>1 DEF RowsOf
    <3>2. k + 1 \in 1..docFile /\ k = (k + 1) - 1
      BY <2>2
    <3> QED
      BY <3>1, <3>2 DEF ChunksOf
  <2>4. ASSUME NEW c \in ChunksOf(docFile)
        PROVE  c \in {[chunk |-> r.chunk, text |-> r.text] : r \in docRows}
    <3>1. PICK n \in 1..docFile : c = [chunk |-> n - 1, text |-> docFile]
      BY DEF ChunksOf
    <3>2. n - 1 \in 0..docFile - 1
      BY <2>2
    <3>3. [chunk |-> n - 1, text |-> docFile, aged |-> aged] \in docRows
      BY <2>1, <3>2 DEF RowsOf
    <3> QED
      BY <3>1, <3>3
  <2> QED
    BY <2>3, <2>4
<1> QED
  BY <1>1, DocsInvInit, DocsInvStep, PTL DEF DocsSpec

-----------------------------------------------------------------------------
(* LearnPipeline. The mutex is held from the search for an artifact to the  *)
(* build, so what the search found holds until then; and a pipeline that    *)
(* inserted the page is past inserting, so a page that was found and        *)
(* another that was inserted later are never the same.                      *)

PipelineState ==
  [pc : {"waiting", "build", "lookup", "events", "knowledge", "enrich", "page", "update",
         "reload", "insert", "summary", "ended", "panicked", "dead"},
   artifact : Outcomes, knowledge : Outcomes, autodoc : Outcomes, blind : BOOLEAN,
   found : Pipelines \union {NoPipeline}]

Early == {"waiting", "build", "lookup", "events"}
Building == {"lookup", "events"}
Over == {"summary", "ended", "panicked", "dead"}

Through == {p \in Pipelines : pipelines[p].pc \notin Early}

\* What is so of a pipeline whatever the others do.
Coherent(q) ==
  /\ q.knowledge = "ok" => q.artifact = "ok"
  /\ q.pc = "knowledge" => q.artifact = "ok"
  /\ q.pc \in {"update", "reload"} => q.found # NoPipeline

LearnInv ==
  /\ LearnTypeOK
  /\ artifacts <= Cardinality(Through)
  /\ OneArtifactEach
  /\ SummaryIsTrue
  /\ learntPage # NoPipeline => pipelines[learntPage].pc \in Over
  /\ \A p \in Pipelines :
       /\ Coherent(pipelines[p])
       /\ pipelines[p].pc \in Building => builder = p
       /\ pipelines[p].pc = "events" /\ ~pipelines[p].blind => artifacts = 0
       /\ pipelines[p].artifact = "ok" => artifacts > 0
       /\ pipelines[p].autodoc = "ok" => p \in documented
       /\ pipelines[p].found # NoPipeline => pipelines[pipelines[p].found].pc \in Over
       /\ pipelines[p].pc = "reload" =>
            p \in documented \/ learntPage # pipelines[p].found

LEMMA LearnInvInit == LearnInit => LearnInv
<1> SUFFICES ASSUME LearnInit PROVE LearnInv
  OBVIOUS
<1>1. /\ wired \subseteq {"insight", "wiki"} /\ builder = NoPipeline /\ artifacts = 0
      /\ learntPage = NoPipeline /\ summaries = {} /\ blindBuilds = 0 /\ documented = {}
      /\ pipelines = [p \in Pipelines |-> WaitingPipeline]
  BY DEF LearnInit
<1>2. WaitingPipeline \in PipelineState
  BY DEF WaitingPipeline, PipelineState, Outcomes
<1>3. Cardinality(Pipelines) \in Nat
  BY LearnAssumption, FS_CardinalityType
<1>4. LearnTypeOK
  <2>1. pipelines \in [Pipelines -> PipelineState]
    BY <1>1, <1>2
  <2> QED
    BY <1>1, <1>3, <2>1 DEF LearnTypeOK, PipelineState
<1>5. Through = {}
  BY <1>1 DEF Through, WaitingPipeline, Early
<1>6. artifacts <= Cardinality(Through) /\ OneArtifactEach /\ SummaryIsTrue
  BY <1>1, <1>5, FS_EmptySet DEF OneArtifactEach, SummaryIsTrue
<1>7. ASSUME NEW p \in Pipelines
      PROVE  /\ Coherent(pipelines[p])
             /\ pipelines[p].pc = "waiting" /\ pipelines[p].artifact # "ok"
             /\ pipelines[p].autodoc # "ok" /\ pipelines[p].found = NoPipeline
  BY <1>1 DEF WaitingPipeline, Coherent
<1> QED
  BY <1>1, <1>4, <1>6, <1>7 DEF LearnInv, Building

LEMMA ThroughGrows ==
  ASSUME LearnTypeOK, Through \subseteq Through'
  PROVE  /\ Cardinality(Through) \in Nat /\ Cardinality(Through') \in Nat
         /\ Cardinality(Through) <= Cardinality(Through')
         /\ Cardinality(Through') <= Cardinality(Pipelines)
         /\ Through # Through' => Cardinality(Through) < Cardinality(Through')
<1>1. Through' \subseteq Pipelines /\ IsFiniteSet(Pipelines)
  BY LearnAssumption DEF Through
<1>2. IsFiniteSet(Through')
  BY <1>1, FS_Subset
<1>3. Cardinality(Through') <= Cardinality(Pipelines)
  BY <1>1, FS_Subset
<1>4. /\ IsFiniteSet(Through) /\ Cardinality(Through) <= Cardinality(Through')
      /\ Cardinality(Through) = Cardinality(Through') => Through = Through'
  BY <1>2, FS_Subset
<1> QED
  BY <1>2, <1>3, <1>4, FS_CardinalityType

\* A pipeline takes a step, and what it says of itself stays true.
LEMMA PipelineMoves ==
  ASSUME LearnInv,
         NEW p \in Pipelines, NEW next \in PipelineState,
         pipelines' = [pipelines EXCEPT ![p] = next],
         wired' = wired,
         pipelines[p].pc # "ended",
         \/ summaries' = summaries
         \/ /\ summaries' = summaries \union {SummaryOf(p)} /\ next.pc = "ended"
            /\ next.artifact = pipelines[p].artifact
            /\ next.knowledge = pipelines[p].knowledge /\ next.autodoc = pipelines[p].autodoc,
         documented \subseteq documented', documented' \subseteq documented \union {p},
         \/ artifacts' = artifacts /\ blindBuilds' = blindBuilds
         \/ /\ artifacts' = artifacts + 1 /\ pipelines[p].pc = "events" /\ next.pc \notin Early
            /\ blindBuilds' = IF pipelines[p].blind THEN blindBuilds + 1 ELSE blindBuilds,
         \/ learntPage' = learntPage
         \/ learntPage' = p /\ pipelines[p].pc = "insert" /\ next.pc = "summary",
         \/ builder' = builder
            /\ (next.pc \in Building => pipelines[p].pc \in Building)
         \/ builder' = p /\ builder = NoPipeline
         \/ builder' = NoPipeline /\ pipelines[p].pc \in Building /\ next.pc \notin Building,
         pipelines[p].pc \notin Early => next.pc \notin Early,
         pipelines[p].pc \in Over => next.pc \in Over,
         Coherent(next),
         next.pc = "events" => artifacts' = artifacts,
         next.pc = "events" /\ ~next.blind => artifacts = 0,
         next.artifact = "ok" => artifacts' > 0,
         next.autodoc = "ok" => p \in documented',
         next.found \in {pipelines[p].found, learntPage},
         next.pc = "reload" => p \in documented' \/ learntPage' # next.found
  PROVE  LearnInv'
<1>0. /\ pipelines \in [Pipelines -> PipelineState]
      /\ wired \subseteq {"insight", "wiki"} /\ builder \in Pipelines \union {NoPipeline}
      /\ learntPage \in Pipelines \union {NoPipeline}
      /\ artifacts \in 0..Cardinality(Pipelines) /\ blindBuilds \in 0..artifacts
      /\ summaries \subseteq [pipeline : Pipelines, artifact : Outcomes, knowledge : Outcomes,
                              autodoc : Outcomes]
      /\ documented \subseteq Pipelines
      /\ Cardinality(Pipelines) \in Nat
  <2>1. Cardinality(Pipelines) \in Nat
    BY LearnAssumption, FS_CardinalityType
  <2> QED
    BY <2>1 DEF LearnInv, LearnTypeOK, PipelineState
<1>n. NoPipeline \notin Pipelines
  BY LearnAssumption
<1>1. /\ pipelines' \in [Pipelines -> PipelineState]
      /\ pipelines'[p] = next
      /\ \A q \in Pipelines : q # p => pipelines'[q] = pipelines[q]
  BY <1>0
<1>2. /\ Cardinality(Through) \in Nat /\ Cardinality(Through') \in Nat
      /\ Cardinality(Through) <= Cardinality(Through')
      /\ Cardinality(Through') <= Cardinality(Pipelines)
      /\ Through # Through' => Cardinality(Through) < Cardinality(Through')
  <2>1. Through \subseteq Through'
    BY <1>1 DEF Through
  <2> QED
    BY <2>1, ThroughGrows DEF LearnInv
<1>3. artifacts <= Cardinality(Through) /\ artifacts <= 1 + blindBuilds
      /\ artifacts \in Nat /\ blindBuilds \in Nat /\ blindBuilds <= artifacts
  BY <1>0 DEF LearnInv, OneArtifactEach
<1>4. artifacts' <= Cardinality(Through)' /\ artifacts' \in Nat /\ artifacts <= artifacts'
  <2>1. CASE artifacts' = artifacts
    BY <1>2, <1>3, <2>1
  <2>2. CASE artifacts' = artifacts + 1 /\ pipelines[p].pc = "events" /\ next.pc \notin Early
    <3>1. p \notin Through /\ p \in Through'
      BY <1>1, <2>2 DEF Through, Early
    <3> QED
      BY <1>2, <1>3, <2>2, <3>1
  <2> QED
    BY <2>1, <2>2
<1>5. ASSUME NEW q \in Pipelines PROVE Coherent(pipelines[q])'
  BY <1>1 DEF LearnInv, Coherent
<1>6. artifacts' <= 1 + blindBuilds' /\ blindBuilds' \in 0..artifacts'
  <2>1. CASE artifacts' = artifacts /\ blindBuilds' = blindBuilds
    BY <1>3, <2>1
  <2>2. CASE /\ artifacts' = artifacts + 1 /\ pipelines[p].pc = "events"
             /\ blindBuilds' = IF pipelines[p].blind THEN blindBuilds + 1 ELSE blindBuilds
    <3>1. ~pipelines[p].blind => artifacts = 0
      BY <2>2 DEF LearnInv
    <3> QED
      BY <1>3, <2>2, <3>1
  <2> QED
    BY <2>1, <2>2
<1>7. /\ summaries' \subseteq [pipeline : Pipelines, artifact : Outcomes, knowledge : Outcomes,
                               autodoc : Outcomes]
      /\ SummaryIsTrue'
  <2>1. SummaryOf(p) \in [pipeline : Pipelines, artifact : Outcomes, knowledge : Outcomes,
                          autodoc : Outcomes]
    <3>1. pipelines[p] \in PipelineState
      BY <1>0
    <3> QED
      BY <3>1 DEF SummaryOf, PipelineState
  <2>2. /\ SummaryOf(p).artifact = "ok" => artifacts > 0
        /\ SummaryOf(p).knowledge = "ok" => SummaryOf(p).artifact = "ok"
        /\ SummaryOf(p).autodoc = "ok" => SummaryOf(p).pipeline \in documented
    BY DEF LearnInv, Coherent, SummaryOf
  <2>3. ASSUME NEW s \in summaries'
        PROVE  /\ pipelines'[s.pipeline].pc = "ended" /\ s = SummaryOf(s.pipeline)'
               /\ s.artifact = "ok" => artifacts > 0
               /\ s.knowledge = "ok" => s.artifact = "ok"
               /\ s.autodoc = "ok" => s.pipeline \in documented
    <3>1. CASE s \in summaries
      <4>1. /\ pipelines[s.pipeline].pc = "ended" /\ s = SummaryOf(s.pipeline)
            /\ s.artifact = "ok" => artifacts > 0
            /\ s.knowledge = "ok" => s.artifact = "ok"
            /\ s.autodoc = "ok" => s.pipeline \in documented
        BY <3>1 DEF LearnInv, SummaryIsTrue
      <4>2. s.pipeline \in Pipelines /\ s.pipeline # p
        BY <1>0, <3>1, <4>1
      <4>3. pipelines'[s.pipeline] = pipelines[s.pipeline]
        BY <1>1, <4>2
      <4> QED
        BY <4>1, <4>3 DEF SummaryOf
    <3>2. CASE /\ s = SummaryOf(p) /\ next.pc = "ended"
               /\ next.artifact = pipelines[p].artifact
               /\ next.knowledge = pipelines[p].knowledge
               /\ next.autodoc = pipelines[p].autodoc
      <4>1. s.pipeline = p /\ s = SummaryOf(p)'
        BY <1>1, <3>2 DEF SummaryOf
      <4> QED
        BY <1>1, <2>2, <3>2, <4>1
    <3> QED
      BY <3>1, <3>2
  <2>4. SummaryIsTrue'
    BY <1>3, <1>4, <2>3 DEF SummaryIsTrue
  <2> QED
    BY <1>0, <2>1, <2>4
<1>8. LearnTypeOK'
  <2>1. /\ wired' \subseteq {"insight", "wiki"} /\ builder' \in Pipelines \union {NoPipeline}
        /\ learntPage' \in Pipelines \union {NoPipeline} /\ documented' \subseteq Pipelines
    BY <1>0
  <2>2. artifacts' \in 0..Cardinality(Pipelines)
    BY <1>0, <1>2, <1>4
  <2> QED
    BY <1>1, <1>6, <1>7, <2>1, <2>2 DEF LearnTypeOK, PipelineState
<1>9. learntPage' # NoPipeline => pipelines'[learntPage'].pc \in Over
  <2>1. CASE learntPage' = learntPage
    BY <1>0, <1>1, <2>1 DEF LearnInv
  <2>2. CASE learntPage' = p /\ next.pc = "summary"
    BY <1>1, <2>2 DEF Over
  <2> QED
    BY <2>1, <2>2
<1>10. ASSUME NEW q \in Pipelines
       PROVE  /\ pipelines'[q].pc \in Building => builder' = q
              /\ pipelines'[q].pc = "events" /\ ~pipelines'[q].blind => artifacts' = 0
              /\ pipelines'[q].artifact = "ok" => artifacts' > 0
              /\ pipelines'[q].autodoc = "ok" => q \in documented'
  <2>0. /\ pipelines[q].pc \in Building => builder = q
        /\ pipelines[p].pc \in Building => builder = p
        /\ pipelines[q].pc = "events" /\ ~pipelines[q].blind => artifacts = 0
        /\ pipelines[q].artifact = "ok" => artifacts > 0
        /\ pipelines[q].autodoc = "ok" => q \in documented
    BY DEF LearnInv
  <2>1. CASE q = p
    <3>1. next.pc \in Building => builder' = p
      BY <2>0, <2>1
    <3>2. next.pc = "events" /\ ~next.blind => artifacts' = 0
      BY <1>3
    <3> QED
      BY <1>1, <2>1, <3>1, <3>2
  <2>2. CASE q # p
    <3>1. pipelines'[q] = pipelines[q]
      BY <1>1, <2>2
    <3>2. pipelines[q].pc \in Building => builder' = q
      BY <1>n, <2>0, <2>2
    <3>3. pipelines[q].pc = "events" => artifacts' = artifacts
      BY <2>0, <2>2 DEF Building
    <3> QED
      BY <1>3, <1>4, <2>0, <3>1, <3>2, <3>3
  <2> QED
    BY <2>1, <2>2
<1>11. ASSUME NEW q \in Pipelines
       PROVE  pipelines'[q].found # NoPipeline =>
                pipelines'[pipelines'[q].found].pc \in Over
  <2>1. ASSUME NEW r \in Pipelines, pipelines[r].pc \in Over PROVE pipelines'[r].pc \in Over
    BY <1>1, <2>1
  <2>2. /\ pipelines[q].found # NoPipeline => pipelines[pipelines[q].found].pc \in Over
        /\ learntPage # NoPipeline => pipelines[learntPage].pc \in Over
    BY DEF LearnInv
  <2>3. pipelines'[q].found \in {pipelines[q].found, learntPage}
    BY <1>1
  <2>4. pipelines[q].found \in Pipelines \union {NoPipeline}
    <3>1. pipelines[q] \in PipelineState
      BY <1>0
    <3> QED
      BY <3>1 DEF PipelineState
  <2> QED
    BY <1>0, <2>1, <2>2, <2>3, <2>4
<1>12. ASSUME NEW q \in Pipelines, pipelines'[q].pc = "reload"
       PROVE  q \in documented' \/ learntPage' # pipelines'[q].found
  <2>1. CASE q = p
    BY <1>1, <1>12, <2>1
  <2>2. CASE q # p
    <3>1. pipelines'[q] = pipelines[q] /\ pipelines[q].pc = "reload"
      BY <1>1, <1>12, <2>2
    <3>2. /\ q \in documented \/ learntPage # pipelines[q].found
          /\ pipelines[q].found # NoPipeline => pipelines[pipelines[q].found].pc \in Over
          /\ pipelines[q].found # NoPipeline
      BY <3>1 DEF LearnInv, Coherent
    <3>3. CASE learntPage' = learntPage
      BY <3>1, <3>2, <3>3
    <3>4. CASE learntPage' = p /\ pipelines[p].pc = "insert"
      BY <3>1, <3>2, <3>4 DEF Over
    <3> QED
      BY <3>3, <3>4
  <2> QED
    BY <2>1, <2>2
<1> QED
  BY <1>4, <1>5, <1>6, <1>7, <1>8, <1>9, <1>10, <1>11, <1>12 DEF LearnInv, OneArtifactEach

LEMMA LearnInvStep == LearnInv /\ [LearnNext]_learnVars => LearnInv'
<1> SUFFICES ASSUME LearnInv, [LearnNext]_learnVars PROVE LearnInv'
  OBVIOUS
<1>0. /\ pipelines \in [Pipelines -> PipelineState] /\ artifacts \in Nat
      /\ learntPage \in Pipelines \union {NoPipeline}
  <2>1. Cardinality(Pipelines) \in Nat
    BY LearnAssumption, FS_CardinalityType
  <2> QED
    BY <2>1 DEF LearnInv, LearnTypeOK, PipelineState
<1>w. AfterKnowledge \in {"enrich", "summary"}
  BY DEF AfterKnowledge
<1>1. ASSUME NEW p \in Pipelines, PipelineStarts(p) \/ PipelineStep(p) PROVE LearnInv'
  <2>0. /\ pipelines[p] \in PipelineState /\ Coherent(pipelines[p])
        /\ pipelines[p].pc \in Building => builder = p
        /\ pipelines[p].pc = "events" /\ ~pipelines[p].blind => artifacts = 0
        /\ pipelines[p].artifact = "ok" => artifacts > 0
        /\ pipelines[p].autodoc = "ok" => p \in documented
        /\ pipelines[p].pc = "reload" => p \in documented \/ learntPage # pipelines[p].found
    BY <1>0 DEF LearnInv
  <2> USE DEF Early, Building, Over
  \* A step that only moves on.
  <2>m. ASSUME NEW pc, Proceeds(p, pc),
               UNCHANGED <<wired, artifacts, learntPage, blindBuilds>>,
               pipelines[p].pc # "ended",
               \/ summaries' = summaries
               \/ summaries' = summaries \union {SummaryOf(p)} /\ pc = "ended",
               \/ builder' = builder /\ documented' = documented
                  /\ pc \in {"build", "enrich", "page", "summary", "ended", "panicked"}
               \/ builder' = p /\ builder = NoPipeline /\ documented' = documented
                  /\ pc = "lookup"
               \/ builder' = builder /\ pc = "reload" /\ pipelines[p].pc = "update"
                  /\ documented \subseteq documented' /\ documented' \subseteq documented \union {p}
                  /\ (learntPage = pipelines[p].found => p \in documented'),
               pipelines[p].pc \notin Early => pc \notin Early,
               pipelines[p].pc \in Over => pc \in Over
        PROVE  LearnInv'
    <3> DEFINE next == [pipelines[p] EXCEPT !.pc = pc]
    <3>1. pipelines' = [pipelines EXCEPT ![p] = next]
      BY <2>m DEF Proceeds
    <3>2. /\ next \in PipelineState /\ next.pc = pc /\ next.artifact = pipelines[p].artifact
          /\ next.knowledge = pipelines[p].knowledge /\ next.autodoc = pipelines[p].autodoc
          /\ next.found = pipelines[p].found
      BY <2>0, <2>m DEF PipelineState
    <3>3. Coherent(next)
      BY <2>0, <2>m, <3>2 DEF Coherent
    <3> HIDE DEF next
    <3> QED
      BY <2>0, <2>m, <3>1, <3>2, <3>3, PipelineMoves
  <2>1. CASE PipelineStarts(p)
    <3> DEFINE pc == IF "insight" \in wired THEN "build" ELSE AfterKnowledge
    <3>1. pc \in {"build", "enrich", "summary"}
      BY <1>w
    <3>2. Proceeds(p, pc) /\ pipelines[p].pc = "waiting"
          /\ UNCHANGED <<wired, builder, artifacts, learntPage, summaries, blindBuilds,
                         documented>>
      BY <2>1 DEF PipelineStarts, At
    <3> HIDE DEF pc
    <3> QED
      BY <2>m, <3>1, <3>2
  <2>2. CASE LockBuilder(p)
    BY <2>2, <2>m DEF LockBuilder, At
  <2>3. CASE Enrich(p)
    BY <2>3, <2>m DEF Enrich, At
  <2>4. CASE UpdateLearntPage(p)
    <3>1. /\ pipelines[p].pc = "update" /\ Proceeds(p, "reload")
          /\ documented \subseteq documented' /\ documented' \subseteq documented \union {p}
          /\ learntPage = pipelines[p].found => p \in documented'
          /\ UNCHANGED <<wired, builder, artifacts, learntPage, summaries, blindBuilds>>
      BY <2>4 DEF UpdateLearntPage, At
    <3> QED
      BY <2>m, <3>1
  <2>5. CASE EmitSummary(p)
    <3>1. /\ pipelines[p].pc = "summary" /\ Proceeds(p, "ended")
          /\ summaries' = summaries \/ summaries' = summaries \union {SummaryOf(p)}
          /\ UNCHANGED <<wired, builder, artifacts, learntPage, blindBuilds, documented>>
      BY <2>5 DEF EmitSummary, At
    <3> QED
      BY <2>m, <3>1
  \* The build is over.
  <2>b. ASSUME NEW outcome \in {"ok", "failed", "skipped"}, Built(p, outcome),
               pipelines[p].pc \in Building,
               UNCHANGED <<wired, learntPage, summaries, documented>>,
               \/ artifacts' = artifacts /\ blindBuilds' = blindBuilds
               \/ /\ artifacts' = artifacts + 1 /\ pipelines[p].pc = "events"
                  /\ blindBuilds' = IF pipelines[p].blind THEN blindBuilds + 1
                                    ELSE blindBuilds,
               outcome = "ok" => artifacts' > 0
        PROVE  LearnInv'
    <3> DEFINE knowledge == IF outcome = "ok" THEN pipelines[p].knowledge ELSE "skipped"
               pc == IF outcome = "ok" THEN "knowledge" ELSE AfterKnowledge
               next == [pipelines[p] EXCEPT !.artifact = outcome, !.knowledge = knowledge,
                                            !.pc = pc]
    <3>1. pipelines' = [pipelines EXCEPT ![p] = next] /\ builder' = NoPipeline
      BY <2>b DEF Built
    <3>2. /\ knowledge \in Outcomes /\ (knowledge = "ok" => outcome = "ok")
          /\ pc \in {"knowledge", "enrich", "summary"} /\ (pc = "knowledge" => outcome = "ok")
          /\ outcome \in Outcomes
      BY <1>w, <2>0 DEF PipelineState, Outcomes
    <3> HIDE DEF knowledge, pc
    <3>3. /\ next \in PipelineState /\ next.pc = pc /\ next.artifact = outcome
          /\ next.knowledge = knowledge /\ next.autodoc = pipelines[p].autodoc
          /\ next.found = pipelines[p].found
      BY <2>0, <3>2 DEF PipelineState
    <3>4. Coherent(next)
      BY <3>2, <3>3 DEF Coherent
    <3> HIDE DEF next
    <3> QED
      BY <2>0, <2>b, <3>1, <3>2, <3>3, <3>4, PipelineMoves
  <2>6. CASE FindsArtifact(p)
    BY <2>6, <2>b DEF FindsArtifact, At
  <2>7. CASE BuildsNothing(p)
    <3>1. PICK outcome \in {"failed", "skipped"} : Built(p, outcome)
      BY <2>7 DEF BuildsNothing
    <3> QED
      BY <2>7, <2>b, <3>1 DEF BuildsNothing, At
  <2>8. CASE BuildsArtifact(p)
    <3>1. artifacts' > 0
      BY <1>0, <2>8 DEF BuildsArtifact
    <3> QED
      BY <2>8, <2>b, <3>1 DEF BuildsArtifact, At
  <2>9. CASE FindsNoArtifact(p)
    <3> DEFINE blind == artifacts > 0
               next == [pipelines[p] EXCEPT !.pc = "events", !.blind = blind]
    <3>1. pipelines' = [pipelines EXCEPT ![p] = next] /\ pipelines[p].pc = "lookup"
          /\ UNCHANGED <<wired, builder, artifacts, learntPage, summaries, blindBuilds,
                         documented>>
      BY <2>9 DEF FindsNoArtifact, At
    <3>2. blind \in BOOLEAN /\ (~blind => artifacts = 0)
      BY <1>0
    <3> HIDE DEF blind
    <3>3. /\ next \in PipelineState /\ next.pc = "events" /\ (next.blind <=> blind)
          /\ next.artifact = pipelines[p].artifact
          /\ next.knowledge = pipelines[p].knowledge /\ next.autodoc = pipelines[p].autodoc
          /\ next.found = pipelines[p].found
      BY <2>0, <3>2 DEF PipelineState
    <3>4. Coherent(next)
      BY <2>0, <3>3 DEF Coherent
    <3> HIDE DEF next
    <3> QED
      BY <2>0, <3>1, <3>2, <3>3, <3>4, PipelineMoves
  <2>10. CASE AnalyseKnowledge(p)
    <3>1. PICK outcome \in {"ok", "failed"} :
            pipelines' = [pipelines EXCEPT ![p].knowledge = outcome, ![p].pc = AfterKnowledge]
      BY <2>10 DEF AnalyseKnowledge
    <3> DEFINE next == [pipelines[p] EXCEPT !.knowledge = outcome, !.pc = AfterKnowledge]
    <3>2. pipelines' = [pipelines EXCEPT ![p] = next]
      BY <3>1
    <3>3. /\ next \in PipelineState /\ next.pc = AfterKnowledge
          /\ next.artifact = pipelines[p].artifact
          /\ next.knowledge = outcome /\ next.autodoc = pipelines[p].autodoc
          /\ next.found = pipelines[p].found
      BY <1>w, <2>0 DEF PipelineState, Outcomes
    <3>4. pipelines[p].pc = "knowledge"
          /\ UNCHANGED <<wired, builder, artifacts, learntPage, summaries, blindBuilds,
                         documented>>
      BY <2>10 DEF AnalyseKnowledge, At
    <3>5. Coherent(next)
      BY <1>w, <2>0, <3>3, <3>4 DEF Coherent
    <3> HIDE DEF next
    <3> QED
      BY <1>w, <2>0, <3>2, <3>3, <3>4, <3>5, PipelineMoves
  <2>11. CASE LookUpPage(p)
    <3> DEFINE pc == IF learntPage = NoPipeline THEN "insert" ELSE "update"
               next == [pipelines[p] EXCEPT !.found = learntPage, !.pc = pc]
    <3>1. pipelines' = [pipelines EXCEPT ![p] = next] /\ pipelines[p].pc = "page"
          /\ UNCHANGED <<wired, builder, artifacts, learntPage, summaries, blindBuilds,
                         documented>>
      BY <2>11 DEF LookUpPage, At
    <3>2. pc \in {"insert", "update"} /\ (pc = "update" => learntPage # NoPipeline)
      OBVIOUS
    <3> HIDE DEF pc
    <3>3. /\ next \in PipelineState /\ next.pc = pc
          /\ next.artifact = pipelines[p].artifact
          /\ next.knowledge = pipelines[p].knowledge /\ next.autodoc = pipelines[p].autodoc
          /\ next.found = learntPage
      BY <1>0, <2>0, <3>2 DEF PipelineState
    <3>4. Coherent(next)
      BY <2>0, <3>2, <3>3 DEF Coherent
    <3> HIDE DEF next
    <3> QED
      BY <2>0, <3>1, <3>2, <3>3, <3>4, PipelineMoves
  \* The work on the page is over.
  <2>d. ASSUME NEW outcome \in {"ok", "failed"}, Documents(p, outcome),
               pipelines[p].pc \in {"page", "update", "reload", "insert"},
               UNCHANGED <<wired, builder, artifacts, summaries, blindBuilds>>,
               documented \subseteq documented', documented' \subseteq documented \union {p},
               learntPage' = learntPage \/ (learntPage' = p /\ pipelines[p].pc = "insert"),
               outcome = "ok" => p \in documented'
        PROVE  LearnInv'
    <3> DEFINE next == [pipelines[p] EXCEPT !.autodoc = outcome, !.pc = "summary"]
    <3>1. pipelines' = [pipelines EXCEPT ![p] = next]
      BY <2>d DEF Documents
    <3>2. /\ next \in PipelineState /\ next.pc = "summary"
          /\ next.artifact = pipelines[p].artifact
          /\ next.knowledge = pipelines[p].knowledge /\ next.autodoc = outcome
          /\ next.found = pipelines[p].found
      BY <2>0 DEF PipelineState, Outcomes
    <3>3. Coherent(next)
      BY <2>0, <3>2 DEF Coherent
    <3> HIDE DEF next
    <3> QED
      BY <2>0, <2>d, <3>1, <3>2, <3>3, PipelineMoves
  <2>12. CASE ReloadPage(p)
    <3>1. /\ pipelines[p].pc = "reload" /\ Documents(p, "ok") /\ learntPage = pipelines[p].found
          /\ UNCHANGED <<wired, builder, artifacts, learntPage, summaries, blindBuilds,
                         documented>>
      BY <2>12 DEF ReloadPage, Reloaded, At
    <3>2. p \in documented
      BY <2>0, <3>1
    <3> QED
      BY <2>d, <3>1, <3>2
  <2>13. CASE InsertLearntPage(p)
    <3>1. CASE learntPage = NoPipeline
      BY <2>13, <2>d, <3>1 DEF InsertLearntPage, At
    <3>2. CASE learntPage # NoPipeline
      BY <2>13, <2>d, <3>2 DEF InsertLearntPage, At
    <3> QED
      BY <3>1, <3>2
  <2>14. CASE PageFails(p)
    BY <2>14, <2>d DEF PageFails
  <2>15. CASE ReloadPanics(p)
    <3>1. /\ pipelines[p].pc = "reload" /\ Proceeds(p, "panicked")
          /\ UNCHANGED <<wired, builder, artifacts, learntPage, summaries, blindBuilds,
                         documented>>
      BY <2>15 DEF ReloadPanics, At
    <3> QED
      BY <2>m, <3>1
  <2> QED
    BY <1>1, <2>1, <2>2, <2>3, <2>4, <2>5, <2>6, <2>7, <2>8, <2>9, <2>10, <2>11, <2>12,
       <2>13, <2>14, <2>15 DEF PipelineStep
<1>2. CASE DeleteLearntPage
  <2>1. /\ learntPage' = NoPipeline
        /\ UNCHANGED <<wired, builder, artifacts, pipelines, summaries, blindBuilds, documented>>
    BY <1>2 DEF DeleteLearntPage
  <2>2. LearnTypeOK' /\ Cardinality(Through)' = Cardinality(Through)
        /\ OneArtifactEach' /\ SummaryIsTrue'
    BY <2>1 DEF LearnInv, LearnTypeOK, Through, OneArtifactEach, SummaryIsTrue, SummaryOf
  <2>3. ASSUME NEW p \in Pipelines, pipelines[p].pc = "reload"
        PROVE  NoPipeline # pipelines[p].found
    BY <2>3 DEF LearnInv, Coherent
  <2> QED
    BY <2>1, <2>2, <2>3 DEF LearnInv
<1>3. CASE PipelinesDie
  <2>1. /\ pipelines' = [p \in Pipelines |->
             IF pipelines[p].pc \in {"waiting", "ended", "panicked"} THEN pipelines[p]
             ELSE [pipelines[p] EXCEPT !.pc = "dead"]]
        /\ builder' = NoPipeline
        /\ UNCHANGED <<wired, artifacts, learntPage, summaries, blindBuilds, documented>>
    BY <1>3 DEF PipelinesDie
  <2>2. ASSUME NEW p \in Pipelines
        PROVE  /\ pipelines'[p] \in PipelineState
               /\ pipelines'[p].pc \in {"waiting", "ended", "panicked", "dead"}
               /\ pipelines[p].pc = "ended" => pipelines'[p] = pipelines[p]
               /\ pipelines[p].pc \notin Early => pipelines'[p].pc \notin Early
               /\ pipelines[p].pc \in Over => pipelines'[p].pc \in Over
               /\ pipelines'[p].artifact = pipelines[p].artifact
               /\ pipelines'[p].knowledge = pipelines[p].knowledge
               /\ pipelines'[p].autodoc = pipelines[p].autodoc
               /\ pipelines'[p].found = pipelines[p].found
    <3>1. pipelines[p] \in PipelineState
      BY <1>0
    <3>2. CASE pipelines[p].pc \in {"waiting", "ended", "panicked"}
      BY <2>1, <3>1, <3>2
    <3>3. CASE pipelines[p].pc \notin {"waiting", "ended", "panicked"}
      BY <2>1, <3>1, <3>3 DEF PipelineState, Early, Over
    <3> QED
      BY <3>2, <3>3
  <2>3. /\ Cardinality(Through) \in Nat /\ Cardinality(Through') \in Nat
        /\ Cardinality(Through) <= Cardinality(Through')
    <3>1. Through \subseteq Through'
      BY <2>2 DEF Through
    <3> QED
      BY <3>1, ThroughGrows DEF LearnInv
  <2>4. LearnTypeOK'
    <3>1. pipelines' \in [Pipelines -> PipelineState]
      BY <2>1, <2>2
    <3> QED
      BY <2>1, <3>1 DEF LearnInv, LearnTypeOK, PipelineState
  <2>5. OneArtifactEach' /\ artifacts' <= Cardinality(Through)'
    BY <1>0, <2>1, <2>3 DEF LearnInv, OneArtifactEach
  <2>9. SummaryIsTrue'
    <3>1. ASSUME NEW s \in summaries
          PROVE  /\ s.pipeline \in Pipelines /\ pipelines[s.pipeline].pc = "ended"
                 /\ s = SummaryOf(s.pipeline)
                 /\ s.artifact = "ok" => artifacts > 0
                 /\ s.knowledge = "ok" => s.artifact = "ok"
                 /\ s.autodoc = "ok" => s.pipeline \in documented
      BY DEF LearnInv, LearnTypeOK, SummaryIsTrue
    <3>2. ASSUME NEW s \in summaries
          PROVE  pipelines'[s.pipeline].pc = "ended" /\ s = SummaryOf(s.pipeline)'
      BY <2>2, <3>1 DEF SummaryOf
    <3> QED
      BY <2>1, <3>1, <3>2 DEF SummaryIsTrue
  <2>6. ASSUME NEW p \in Pipelines
        PROVE  /\ Coherent(pipelines[p])'
               /\ pipelines'[p].pc \notin Building \union {"events", "reload"}
               /\ pipelines'[p].artifact = "ok" => artifacts' > 0
               /\ pipelines'[p].autodoc = "ok" => p \in documented'
    BY <2>1, <2>2 DEF LearnInv, Coherent, Building
  <2>7. ASSUME NEW p \in Pipelines
        PROVE  pipelines'[p].found # NoPipeline => pipelines'[pipelines'[p].found].pc \in Over
    <3>1. pipelines[p].found \in Pipelines \union {NoPipeline}
      <4>1. pipelines[p] \in PipelineState
        BY <1>0
      <4> QED
        BY <4>1 DEF PipelineState
    <3> QED
      BY <2>2, <3>1 DEF LearnInv
  <2>8. learntPage' # NoPipeline => pipelines'[learntPage'].pc \in Over
    BY <1>0, <2>1, <2>2 DEF LearnInv
  <2> QED
    BY <2>4, <2>5, <2>6, <2>7, <2>8, <2>9 DEF LearnInv
<1>4. CASE UNCHANGED learnVars
  BY <1>4 DEF learnVars, LearnInv, LearnTypeOK, Through, OneArtifactEach, SummaryIsTrue, SummaryOf
<1> QED
  BY <1>1, <1>2, <1>3, <1>4 DEF LearnNext

\* For any number of pipelines of one workflow that overlap, fail and die, there is one
\* artifact, and one more for each search that failed (artifacts/builder.go:36-75).
THEOREM OneArtifactEachHolds == LearnSpec => []OneArtifactEach
<1>1. LearnInv => OneArtifactEach
  BY DEF LearnInv
<1> QED
  BY <1>1, LearnInvInit, LearnInvStep, PTL DEF LearnSpec

\* For any number of them, whoever has a summary went through every step, what it calls
\* done was done, and the page it speaks of was written by that pipeline; one that
\* panics over a deleted page has none (learn_pipeline.go:70-184, db/wiki.go:619-634).
THEOREM SummaryIsTrueHolds == LearnSpec => []SummaryIsTrue
<1>1. LearnInv => SummaryIsTrue
  BY DEF LearnInv
<1> QED
  BY <1>1, LearnInvInit, LearnInvStep, PTL DEF LearnSpec
================================================================================
