------------------------------- MODULE Migrations ------------------------------
(* The upgrade of daily_metrics when a process opens a database of an older        *)
(* version: a new table is made and filled, the old one dropped, the new one       *)
(* renamed, each a transaction of its own, and only then the schema is applied.    *)
(* A crash may fall between any two, and "serve" and "onboard" may open at once.   *)
CONSTANTS Openers,      \* processes that open the database, again and again
          MetricDays    \* days with a row in the old table

VARIABLES metrics,      \* table daily_metrics
          metricsNew,   \* table daily_metrics_new
          openers,      \* where each process is in Open
          together,     \* two processes were at it at once
          cutOff        \* a process ended between DROP and RENAME

migrateVars == <<metrics, metricsNew, openers, together, cutOff>>

Table(exists, typed, rows) == [exists |-> exists, typed |-> typed, rows |-> rows]
NoTable == Table(FALSE, FALSE, {})

MigrateInit ==
  /\ metrics = Table(TRUE, FALSE, MetricDays)
  /\ metricsNew = NoTable
  /\ openers = [o \in Openers |-> "closed"]
  /\ together = FALSE /\ cutOff = FALSE

Opening(o) == openers[o] \notin {"closed", "open", "failed"}

Goes(o, from, to) == openers[o] = from /\ openers' = [openers EXCEPT ![o] = to]

-----------------------------------------------------------------------------
OpenBegins(o) ==
  /\ openers[o] \in {"closed", "failed"}
  /\ openers' = [openers EXCEPT ![o] = "count"]
  /\ together' = (together \/ \E q \in Openers \ {o} : openers[q] \notin {"closed", "failed"})
  /\ UNCHANGED <<metrics, metricsNew, cutOff>>

CountTables(o) ==
  /\ Goes(o, "count", IF metrics.exists THEN "columns" ELSE "schema")
  /\ UNCHANGED <<metrics, metricsNew, together, cutOff>>

ReadColumns(o) ==
  /\ Goes(o, "columns", IF metrics.typed THEN "schema" ELSE "create")
  /\ UNCHANGED <<metrics, metricsNew, together, cutOff>>

\* Mutant of Creatable: CREATE TABLE without IF NOT EXISTS.
CreatableOnce == ~metricsNew.exists

Creatable == TRUE

CreateNew(o) ==
  /\ Creatable
  /\ Goes(o, "create", "copy")
  /\ metricsNew' = IF metricsNew.exists THEN metricsNew ELSE Table(TRUE, TRUE, {})
  /\ UNCHANGED <<metrics, together, cutOff>>

Copied == Table(TRUE, TRUE, metricsNew.rows \union metrics.rows)

CopyRows(o) ==
  /\ metrics.exists /\ metricsNew.exists
  /\ Goes(o, "copy", "drop")
  /\ metricsNew' = Copied
  /\ UNCHANGED <<metrics, together, cutOff>>

DropOld(o) ==
  /\ metrics.exists
  /\ Goes(o, "drop", "rename")
  /\ metrics' = NoTable
  /\ UNCHANGED <<metricsNew, together, cutOff>>

RenameNew(o) ==
  /\ metricsNew.exists /\ ~metrics.exists
  /\ Goes(o, "rename", "schema")
  /\ metrics' = metricsNew /\ metricsNew' = NoTable
  /\ UNCHANGED <<together, cutOff>>

\* The schema makes the table if there is none; its index needs the column.
ApplySchema(o) ==
  /\ metrics.exists => metrics.typed
  /\ Goes(o, "schema", "open")
  /\ metrics' = IF metrics.exists THEN metrics ELSE Table(TRUE, TRUE, {})
  /\ UNCHANGED <<metricsNew, together, cutOff>>

StatementFails(o) ==
  /\ \/ openers[o] = "create" /\ ~Creatable
     \/ openers[o] = "copy"   /\ ~(metrics.exists /\ metricsNew.exists)
     \/ openers[o] = "drop"   /\ ~metrics.exists
     \/ openers[o] = "rename" /\ ~(metricsNew.exists /\ ~metrics.exists)
     \/ openers[o] = "schema" /\ metrics.exists /\ ~metrics.typed
  /\ openers' = [openers EXCEPT ![o] = "failed"]
  /\ UNCHANGED <<metrics, metricsNew, together, cutOff>>

\* The process ends, in the middle of Open by a crash or a statement that fails.
ProcessEnds(o) ==
  /\ Opening(o) \/ openers[o] = "open"
  /\ openers' = [openers EXCEPT ![o] = "closed"]
  /\ cutOff' = (cutOff \/ openers[o] = "rename")
  /\ UNCHANGED <<metrics, metricsNew, together>>

MigrateNext ==
  \E o \in Openers :
    \/ OpenBegins(o) \/ CountTables(o) \/ ReadColumns(o) \/ CreateNew(o) \/ CopyRows(o)
    \/ DropOld(o) \/ RenameNew(o) \/ ApplySchema(o) \/ StatementFails(o) \/ ProcessEnds(o)

MigrateSpec == MigrateInit /\ [][MigrateNext]_migrateVars

-----------------------------------------------------------------------------
TableType == [exists : BOOLEAN, typed : BOOLEAN, rows : SUBSET MetricDays]

MigrateTypeOK ==
  /\ metrics \in TableType /\ metricsNew \in TableType
  /\ openers \in [Openers -> {"closed", "failed", "count", "columns", "create", "copy", "drop",
                              "rename", "schema", "open"}]
  /\ together \in BOOLEAN /\ cutOff \in BOOLEAN

\* What a process that has opened the database reads: all metrics of old, wherever the
\* upgrade was interrupted before, with one exception. If that was once between DROP and
\* RENAME (db/db.go:128-129), no opening looks for the new table again (db/db.go:81-83,
\* 107): an empty one takes its place, and the metrics stay where nobody reads them.
MetricsAreRead ==
  ~together => \A o \in Openers : openers[o] = "open" =>
    IF cutOff THEN metrics.rows = {} /\ metricsNew.rows = MetricDays
    ELSE metrics.rows = MetricDays

\* No crash leaves a database behind that cannot be opened again (db/db.go:19-37, 76-141).
AlwaysOpens ==
  ~together => \A o \in Openers : openers[o] # "failed"

\* A crash during the upgrade locks nobody out, and loses the metrics at one point only;
\* there it loses all of them, to every reader and for good.
UpgradeLosesInOnePlace == MetricsAreRead /\ AlwaysOpens
=============================================================================
