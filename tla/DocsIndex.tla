-------------------------------- MODULE DocsIndex --------------------------------
(* The index of governance documents (db/governance.go): a document is cut into    *)
(* chunks, one row each, and skipped when its first row holds the hash of the file; *)
(* in the end rows indexed long ago are swept. Every statement commits by itself.   *)
(* Runs are started at serve, by "stratus init" and by a request, each on its own.  *)
(* One document; a text is known by the number of its chunks. A row is aged when    *)
(* its indexed_at compares less than the bound of the DELETE.                       *)
EXTENDS Naturals

CONSTANTS DocTexts,     \* texts the document may have, each the number of its chunks
          Indexers,     \* runs of IndexGovernance that may be in progress at once
          NoDoc,        \* there is no such file
          MaxDocEdits   \* bound: changes of the file

ASSUME DocsAssumption ==
  DocTexts \subseteq Nat /\ NoDoc \notin DocTexts /\ MaxDocEdits \in Nat

VARIABLES docFile,      \* the text of the file
          docRows,      \* rows of table docs: chunk of a text, aged or not
          indexers,     \* where each run is, the text it read, the chunk it inserts next
          docEdits,     \* changes of the file so far
          undisturbedRuns,  \* runs nothing has come in the way of
          tainted,      \* the rows were left by a run that was disturbed
          docsInOrder   \* the last event was the end of an undisturbed run that swept no row

docsVars == <<docFile, docRows, indexers, docEdits, undisturbedRuns, tainted, docsInOrder>>

Row(chunk, text) == [chunk |-> chunk, text |-> text, aged |-> FALSE]

RestingIndexer == [pc |-> "idle", text |-> NoDoc, next |-> 0, wrote |-> FALSE]

DocsInit ==
  /\ docFile \in DocTexts
  /\ docRows = {}
  /\ indexers = [i \in Indexers |-> RestingIndexer]
  /\ docEdits = 0
  /\ undisturbedRuns = {} /\ tainted = FALSE /\ docsInOrder = FALSE

IndexerGoes(i, from, to) == indexers[i].pc = from /\ indexers' = [indexers EXCEPT ![i].pc = to]

-----------------------------------------------------------------------------
\* The file is found and read, or it is not there and only the sweep is left to do.
BeginIndex(i) ==
  /\ indexers[i].pc = "idle"
  /\ indexers' = [indexers EXCEPT ![i] =
       [RestingIndexer EXCEPT !.pc = IF docFile = NoDoc THEN "sweep" ELSE "compare",
                              !.text = docFile]]
  /\ undisturbedRuns' = IF \E j \in Indexers : indexers[j].pc # "idle" THEN {} ELSE {i}
  /\ UNCHANGED <<docFile, docRows, docEdits, tainted, docsInOrder>>

Unchanged(text) == \E r \in docRows : r.chunk = 0 /\ r.text = text

\* A row of the first chunk with the same hash: the file is skipped.
SkipUnchanged(i) ==
  /\ Unchanged(indexers[i].text)
  /\ IndexerGoes(i, "compare", "sweep")
  /\ UNCHANGED <<docFile, docRows, docEdits, undisturbedRuns, tainted, docsInOrder>>

\* No such row, or the query failed.
FindsChanged(i) ==
  /\ \/ ~Unchanged(indexers[i].text) /\ UNCHANGED undisturbedRuns
     \/ undisturbedRuns' = undisturbedRuns \ {i}
  /\ IndexerGoes(i, "compare", "delete")
  /\ UNCHANGED <<docFile, docRows, docEdits, tainted, docsInOrder>>

\* All rows of the file go, or the DELETE fails, which is ignored.
DeleteChunks(i) ==
  /\ indexers[i].pc = "delete"
  /\ \/ docRows' = {} /\ UNCHANGED undisturbedRuns
     \/ docRows' = docRows /\ undisturbedRuns' = undisturbedRuns \ {i}
  /\ indexers' = [indexers EXCEPT ![i].wrote = TRUE,
                    ![i].pc = IF indexers[i].text = 0 THEN "sweep" ELSE "insert"]
  /\ tainted' = TRUE /\ docsInOrder' = FALSE
  /\ UNCHANGED <<docFile, docEdits>>

InsertChunk(i) ==
  /\ indexers[i].pc = "insert"
  /\ LET me == indexers[i] IN
     /\ docRows' = {r \in docRows : r.chunk # me.next} \union {Row(me.next, me.text)}
     /\ indexers' = [indexers EXCEPT ![i].next = me.next + 1,
                       ![i].pc = IF me.next + 1 = me.text THEN "sweep" ELSE "insert"]
  /\ docsInOrder' = FALSE
  /\ UNCHANGED <<docFile, docEdits, undisturbedRuns, tainted>>

\* A chunk that cannot be inserted ends the work on the file; nobody hears of it.
InsertChunkFails(i) ==
  /\ IndexerGoes(i, "insert", "sweep")
  /\ undisturbedRuns' = undisturbedRuns \ {i}
  /\ UNCHANGED <<docFile, docRows, docEdits, tainted, docsInOrder>>

\* The DELETE of rows indexed long ago, whose error is ignored too.
Sweep(i) ==
  /\ indexers[i].pc = "sweep"
  /\ docRows' \in {docRows, {r \in docRows : ~r.aged}}
  /\ indexers' = [indexers EXCEPT ![i] = RestingIndexer]
  /\ undisturbedRuns' = undisturbedRuns \ {i}
  /\ tainted' = (tainted /\ ~(i \in undisturbedRuns /\ indexers[i].wrote))
  /\ docsInOrder' = (i \in undisturbedRuns /\ ~tainted' /\ docRows' = docRows /\ docFile # NoDoc)
  /\ UNCHANGED <<docFile, docEdits>>

\* The process that runs it ends.
IndexerDies(i) ==
  /\ indexers[i].pc # "idle"
  /\ indexers' = [indexers EXCEPT ![i] = RestingIndexer]
  /\ undisturbedRuns' = undisturbedRuns \ {i}
  /\ UNCHANGED <<docFile, docRows, docEdits, tainted, docsInOrder>>

EditDoc(text) ==
  /\ docEdits < MaxDocEdits /\ text # docFile
  /\ docFile' = text /\ docEdits' = docEdits + 1
  /\ undisturbedRuns' = {} /\ docsInOrder' = FALSE
  /\ UNCHANGED <<docRows, indexers, tainted>>

\* A run takes no days.
RowsAge ==
  /\ \A i \in Indexers : indexers[i].pc = "idle"
  /\ \E r \in docRows : ~r.aged
  /\ docRows' = {[r EXCEPT !.aged = TRUE] : r \in docRows}
  /\ UNCHANGED <<docFile, indexers, docEdits, undisturbedRuns, tainted, docsInOrder>>

DocsNext ==
  \/ \E i \in Indexers :
       \/ BeginIndex(i) \/ SkipUnchanged(i) \/ FindsChanged(i) \/ DeleteChunks(i)
       \/ InsertChunk(i) \/ InsertChunkFails(i) \/ Sweep(i) \/ IndexerDies(i)
  \/ \E text \in DocTexts \union {NoDoc} : EditDoc(text)
  \/ RowsAge

DocsSpec == DocsInit /\ [][DocsNext]_docsVars

-----------------------------------------------------------------------------
DocRowType ==
  {r \in [chunk : Nat, text : DocTexts, aged : BOOLEAN] : r.chunk < r.text}

DocsTypeOK ==
  /\ docFile \in DocTexts \union {NoDoc}
  /\ docRows \subseteq DocRowType
  /\ \A r, s \in docRows : r.chunk = s.chunk => r = s
  /\ \A i \in Indexers :
       /\ indexers[i].pc \in {"idle", "compare", "delete", "insert", "sweep"}
       /\ indexers[i].text \in DocTexts \union {NoDoc}
       /\ indexers[i].next \in Nat /\ indexers[i].wrote \in BOOLEAN
  /\ docEdits \in 0..MaxDocEdits
  /\ undisturbedRuns \subseteq Indexers
  /\ tainted \in BOOLEAN /\ docsInOrder \in BOOLEAN

ChunksOf(text) == {[chunk |-> n - 1, text |-> text] : n \in 1..text}

\* db/governance.go:88-118: only the hash of the first chunk is compared, and each
\* delete and insert commits by itself; yet a run that nothing disturbed leaves exactly
\* the chunks of the file, however long ago and from whatever text it was indexed
\* before, unless a disturbed run left the rows, or rows were swept.
IndexedAsWritten ==
  docsInOrder => {[chunk |-> r.chunk, text |-> r.text] : r \in docRows} = ChunksOf(docFile)

\* db/governance.go:56, "Remove stale entries": rows of what the file says now are
\* no such entries, and README.md:50 has documents indexed automatically.
SweepsStaleOnly ==
  [][\A i \in Indexers : Sweep(i) =>
       \A r \in docRows \ docRows' : r.text # docFile]_docsVars
=============================================================================
