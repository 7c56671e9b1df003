--------------------------- MODULE BackgroundProofs ----------------------------
(* Theorems about what runs beside the requests, and about what many requests *)
(* share: those that watch something (the index worker, the guardian, the     *)
(* inbox), those that tell others (the bus, signals, the hub), the counts of  *)
(* the guardrails, the terminals, and the upgrade of the database when the    *)
(* program starts.                                                            *)
EXTENDS IndexWorker, Guardian, InboxWatcher, EventBus, Signals, Hub, Guardrails, Terminal,
        Migrations, FiniteSetTheorems, TLAPS

-----------------------------------------------------------------------------
(* IndexWorker                                                              *)

LEMMA NoLostWakeupInit == IndexInit => NoLostWakeup
BY DEF IndexInit, NoLostWakeup

LEMMA NoLostWakeupStep == NoLostWakeup /\ [IndexNext]_indexVars => NoLostWakeup'
<1> SUFFICES ASSUME NoLostWakeup, [IndexNext]_indexVars PROVE NoLostWakeup'
  OBVIOUS
<1> USE DEF NoLostWakeup
<1>1. ASSUME NEW f \in IndexFiles, Edit(f) PROVE NoLostWakeup'
  BY <1>1 DEF Edit
<1>2. ASSUME NEW c \in IndexCallers, MarkSignals(c) PROVE NoLostWakeup'
  BY <1>2 DEF MarkSignals
<1>3. ASSUME NEW c \in IndexCallers, NEW files \in SUBSET IndexFiles, MarkAdds(c, files)
      PROVE  NoLostWakeup'
  BY <1>3 DEF MarkAdds
<1>4. CASE WorkerWakes
  BY <1>4 DEF WorkerWakes
<1>5. CASE BackoffEnds
  BY <1>5 DEF BackoffEnds, AfterBackoff
<1>6. CASE Resettle
  BY <1>6 DEF Resettle
<1>7. CASE TakeBatch
  BY <1>7 DEF TakeBatch
<1>8. CASE IndexSucceeds \/ IndexFails
  BY <1>8 DEF IndexSucceeds, IndexFails
<1>9. CASE UNCHANGED indexVars
  BY <1>9 DEF indexVars
<1> QED
  BY <1>1, <1>2, <1>3, <1>4, <1>5, <1>6, <1>7, <1>8, <1>9 DEF IndexNext

\* No wake-up of the index worker is lost, for any number of requests and files
\* (api/server.go:168-178, 201-261).
THEOREM NoLostWakeupHolds == IndexSpec => []NoLostWakeup
BY NoLostWakeupInit, NoLostWakeupStep, PTL DEF IndexSpec

\* What was reported is on disk; what is no longer dirty is being indexed, or is
\* indexed unless the last run was bad.
IndexInv ==
  /\ version \in [IndexFiles -> Nat] /\ reported \in [IndexFiles -> Nat]
  /\ reading \in [IndexFiles -> Nat] /\ indexed \in [IndexFiles -> Nat]
  /\ \A f \in IndexFiles : reported[f] <= version[f]
  /\ worker = "indexing" =>
       \A f \in IndexFiles \ dirtyFiles : reported[f] <= reading[f]
  /\ worker # "indexing" /\ lastRunGood =>
       \A f \in IndexFiles \ dirtyFiles : reported[f] <= indexed[f]

LEMMA IndexInvInit == IndexInit => IndexInv
BY DEF IndexInit, IndexInv, None0

LEMMA IndexInvStep == IndexInv /\ [IndexNext]_indexVars => IndexInv'
<1> SUFFICES ASSUME IndexInv, [IndexNext]_indexVars PROVE IndexInv'
  OBVIOUS
<1> USE DEF IndexInv
<1>1. ASSUME NEW f \in IndexFiles, Edit(f) PROVE IndexInv'
  BY <1>1 DEF Edit
<1>2. ASSUME NEW c \in IndexCallers, MarkSignals(c) PROVE IndexInv'
  BY <1>2 DEF MarkSignals
<1>3. ASSUME NEW c \in IndexCallers, NEW files \in SUBSET IndexFiles, MarkAdds(c, files)
      PROVE  IndexInv'
  BY <1>3 DEF MarkAdds
<1>4. CASE WorkerWakes
  BY <1>4 DEF WorkerWakes
<1>5. CASE BackoffEnds
  BY <1>5 DEF BackoffEnds, AfterBackoff
<1>6. CASE Resettle
  BY <1>6 DEF Resettle
<1>7. CASE TakeBatch
  BY <1>7 DEF TakeBatch, Covered
<1>8. CASE IndexSucceeds \/ IndexFails
  BY <1>8 DEF IndexSucceeds, IndexFails
<1>9. CASE UNCHANGED indexVars
  BY <1>9 DEF indexVars
<1> QED
  BY <1>1, <1>2, <1>3, <1>4, <1>5, <1>6, <1>7, <1>8, <1>9 DEF IndexNext

\* After a good run with nothing dirty the index holds every version that was
\* reported, also of files whose batch failed before (vexor/client.go:88).
THEOREM FreshWhenQuietHolds == IndexSpec => []FreshWhenQuiet
<1>1. IndexInv => FreshWhenQuiet
  BY DEF IndexInv, FreshWhenQuiet
<1> QED
  BY <1>1, IndexInvInit, IndexInvStep, PTL DEF IndexSpec

\* No report of a dirty file is forgotten, for any number of files and callers
\* (api/server.go:174-261).
THEOREM IndexKeepsUpHolds == IndexSpec => []IndexKeepsUp
BY NoLostWakeupHolds, FreshWhenQuietHolds, PTL DEF IndexKeepsUp

-----------------------------------------------------------------------------
(* Guardian. A scan that found no alert counts as the alert it may save.    *)

ScanStates == [at : {"idle", "counted", "lower", "look", "save"}, counted : Nat]
Saving     == {s \in Scans : scans[s].at = "save"}

GuardianInv ==
  /\ debt \in Nat /\ baseline \in Nat /\ open \in Nat
  /\ scans \in [Scans -> ScanStates]
  /\ open + Cardinality(Saving) <= Cardinality(Scans)
  /\ ~scansOverlapped =>
       /\ \A s, t \in Scans : Scanning(s) /\ Scanning(t) => s = t
       /\ open <= 1
       /\ Saving # {} => open = 0
  /\ ~scansOverlapped /\ ~misread =>
       \A s \in Scans : scans[s].at = "lower" => Improves(scans[s].counted)

\* Sets of scans are finite.
LEMMA SavingFinite ==
  /\ IsFiniteSet(Saving) /\ Cardinality(Saving) \in Nat
  /\ Cardinality(Scans) \in Nat /\ Cardinality(Saving) <= Cardinality(Scans)
<1>1. Saving \subseteq Scans /\ IsFiniteSet(Scans)
  BY GuardianAssumption DEF Saving
<1> QED
  BY <1>1, FS_Subset, FS_CardinalityType

LEMMA GuardianInvInit == GuardianInit => GuardianInv
<1> SUFFICES ASSUME GuardianInit PROVE GuardianInv
  OBVIOUS
<1>1. Saving = {} /\ \A s \in Scans : ~Scanning(s) /\ scans[s].at = "idle"
  BY DEF GuardianInit, Saving, Scanning, NoScan, Scan
<1>2. Cardinality(Saving) = 0
  BY <1>1, FS_EmptySet
<1>3. scans \in [Scans -> ScanStates] /\ debt \in Nat
  BY GuardianAssumption DEF GuardianInit, NoScan, Scan, ScanStates
<1>4. open = 0 /\ baseline = 0
  BY DEF GuardianInit
<1> QED
  BY <1>1, <1>2, <1>3, <1>4, SavingFinite DEF GuardianInv

\* A scan that ends, or goes on without saving, takes nothing from the others.
LEMMA ScanMoves ==
  ASSUME GuardianInv, NEW s \in Scans, NEW new \in ScanStates,
         scans' = [scans EXCEPT ![s] = new], scans[s].at # "save"
  PROVE  /\ scans' \in [Scans -> ScanStates]
         /\ Saving' = IF new.at = "save" THEN Saving \union {s} ELSE Saving
         /\ \A t \in Scans : Scanning(t)' => Scanning(t) \/ t = s
BY DEF GuardianInv, Saving, Scanning

LEMMA GuardianInvStep == GuardianInv /\ [GuardianNext]_guardianVars => GuardianInv'
<1> SUFFICES ASSUME GuardianInv, [GuardianNext]_guardianVars PROVE GuardianInv'
  OBVIOUS
<1> USE GuardianAssumption
<1>0. /\ debt \in Nat /\ baseline \in Nat /\ open \in Nat
      /\ scans \in [Scans -> ScanStates]
      /\ NoScan \in ScanStates /\ NoScan.at = "idle"
  BY DEF GuardianInv, NoScan, Scan, ScanStates
<1>1. ASSUME NEW n \in 0 .. MaxDebt, DebtChanges(n) PROVE GuardianInv'
  BY <1>1 DEF DebtChanges, disturbances, GuardianInv, Saving, Scanning, Improves
<1>2. CASE StartGuardian
  BY <1>2 DEF StartGuardian, disturbances, GuardianInv, Saving, Scanning, Improves
<1>3. CASE AlertGoesAway
  <2>1. open' \in Nat /\ open' <= open
    BY <1>0, <1>3 DEF AlertGoesAway
  <2>2. /\ debt' = debt /\ baseline' = baseline /\ scans' = scans
        /\ scansOverlapped' = scansOverlapped /\ misread' = misread
    BY <1>3 DEF AlertGoesAway, disturbances
  <2>3. Saving' = Saving
    BY <2>2 DEF Saving
  <2> QED
    BY <1>0, <2>1, <2>2, <2>3, SavingFinite DEF GuardianInv, Scanning, Improves
<1>4. ASSUME NEW s \in Scans, Measure(s) PROVE GuardianInv'
  <2>1. /\ scans[s] = NoScan /\ scans' = [scans EXCEPT ![s] = Scan("counted", debt)]
        /\ scansOverlapped' = (scansOverlapped \/ \E o \in Scans \ {s} : Scanning(o))
        /\ debt' = debt /\ baseline' = baseline /\ open' = open /\ misread' = misread
    BY <1>4 DEF Measure
  <2>2. Scan("counted", debt) \in ScanStates /\ Scan("counted", debt).at = "counted"
    BY <1>0 DEF Scan, ScanStates
  <2>3. /\ scans' \in [Scans -> ScanStates] /\ Saving' = Saving
        /\ \A t \in Scans : Scanning(t)' => Scanning(t) \/ t = s
    BY <1>0, <2>1, <2>2, ScanMoves
  <2>4. \A t \in Scans : scans'[t].at = "lower" => scans[t] = scans'[t]
    BY <1>0, <2>1, <2>2
  <2> QED
    BY <1>0, <2>1, <2>3, <2>4 DEF GuardianInv, Improves
<1>5. ASSUME NEW s \in Scans,
             Compare(s) \/ MisreadBaseline(s) \/ SetBaseline(s) \/ LookForAlert(s)
      PROVE  GuardianInv'
  <2>1. PICK new \in ScanStates :
          /\ scans' = [scans EXCEPT ![s] = new]
          /\ new.at = "lower" => (misread' \/ Improves(new.counted)) /\ baseline' = baseline
          /\ new.at = "save" => open = 0
    <3>1. CASE Compare(s)
      <4> DEFINE n == scans[s].counted
      <4>1. n \in Nat
        BY <1>0 DEF ScanStates
      <4>2. \A at \in {"lower", "look"} :
              Scan(at, n) \in ScanStates /\ Scan(at, n).at = at /\ Scan(at, n).counted = n
        BY <4>1 DEF Scan, ScanStates
      <4>3. baseline' = baseline
        BY <3>1 DEF Compare
      <4>4. \/ scans' = [scans EXCEPT ![s] = NoScan]
            \/ Improves(n) /\ scans' = [scans EXCEPT ![s] = Scan("lower", n)]
            \/ scans' = [scans EXCEPT ![s] = Scan("look", n)]
        BY <3>1 DEF Compare
      <4> QED
        BY <1>0, <4>2, <4>3, <4>4
    <3>1a. CASE MisreadBaseline(s)
      <4>1. [scans[s] EXCEPT !.at = "lower"] \in ScanStates
        BY <1>0 DEF ScanStates
      <4>2. [scans[s] EXCEPT !.at = "lower"].at = "lower"
        BY <1>0 DEF ScanStates
      <4> QED
        BY <3>1a, <4>1, <4>2 DEF MisreadBaseline
    <3>2. CASE SetBaseline(s)
      BY <1>0, <3>2 DEF SetBaseline
    <3>3. CASE LookForAlert(s)
      <4>1. [scans[s] EXCEPT !.at = "save"] \in ScanStates
        BY <1>0 DEF ScanStates
      <4>2. [scans[s] EXCEPT !.at = "save"].at = "save"
        BY <1>0 DEF ScanStates
      <4>3. CASE AlreadyOpen
        BY <1>0, <3>3, <4>3 DEF LookForAlert
      <4>4. CASE ~AlreadyOpen
        <5>1. scans' = [scans EXCEPT ![s] = [scans[s] EXCEPT !.at = "save"]]
          BY <3>3, <4>4 DEF LookForAlert
        <5>2. open = 0
          BY <1>0, <4>4 DEF AlreadyOpen
        <5> QED
          BY <4>1, <4>2, <5>1, <5>2
      <4> QED
        BY <4>3, <4>4
    <3> QED
      BY <1>5, <3>1, <3>1a, <3>2, <3>3
  <2>2. /\ debt' = debt /\ open' = open /\ scansOverlapped' = scansOverlapped
        /\ scans[s].at \in {"counted", "lower", "look"}
        /\ baseline' = baseline
             \/ (scans[s].at = "lower" /\ baseline' = scans[s].counted)
        /\ misread => misread'
    BY <1>5 DEF Compare, MisreadBaseline, SetBaseline, LookForAlert, disturbances
  <2>3. /\ scans' \in [Scans -> ScanStates]
        /\ Saving' = IF new.at = "save" THEN Saving \union {s} ELSE Saving
        /\ \A t \in Scans : Scanning(t)' => Scanning(t) \/ t = s
    BY <2>1, <2>2, ScanMoves
  <2>4. Scanning(s)
    BY <2>2 DEF Scanning
  <2>5. baseline' \in Nat
    BY <1>0, <2>2 DEF ScanStates
  <2>6. open' + Cardinality(Saving') <= Cardinality(Scans)
    <3>1. CASE new.at # "save"
      BY <2>2, <2>3, <3>1 DEF GuardianInv
    <3>2. CASE new.at = "save"
      <4>1. Saving' \subseteq Scans /\ open' = 0
        BY <2>1, <2>2, <3>2 DEF Saving
      <4>2. Cardinality(Saving') <= Cardinality(Scans) /\ Cardinality(Saving') \in Nat
        BY <4>1, FS_Subset, FS_CardinalityType
      <4> QED
        BY <4>1, <4>2
    <3> QED
      BY <3>1, <3>2
  <2>7. ASSUME ~scansOverlapped
        PROVE  /\ \A q, t \in Scans : Scanning(q)' /\ Scanning(t)' => q = t
               /\ open' <= 1
               /\ Saving' # {} => open' = 0
               /\ misread' \/ (\A q \in Scans : scans[q].at = "lower" => Improves(scans[q].counted))'
    <3>1. \A t \in Scans : Scanning(t) => t = s
      BY <2>4, <2>7 DEF GuardianInv
    <3>2. \A t \in Scans : Scanning(t)' => t = s
      BY <2>3, <3>1
    <3>3. \A t \in Scans : scans'[t].at = "lower" => t = s
      BY <3>2 DEF Scanning
    <3>4. scans'[s] = new
      BY <1>0, <2>1
    <3>5. open' <= 1 /\ (Saving' # {} => open' = 0)
      BY <2>1, <2>2, <2>3, <2>7 DEF GuardianInv
    <3>6. misread' \/ (\A q \in Scans : scans[q].at = "lower" => Improves(scans[q].counted))'
      BY <2>1, <3>3, <3>4 DEF Improves
    <3> QED
      BY <3>2, <3>5, <3>6
  <2> QED
    BY <1>0, <2>2, <2>3, <2>5, <2>6, <2>7 DEF GuardianInv
<1>6. ASSUME NEW s \in Scans, SaveAlert(s) PROVE GuardianInv'
  <2>1. /\ scans[s].at = "save" /\ open' = open + 1
        /\ scans' = [scans EXCEPT ![s] = NoScan]
        /\ debt' = debt /\ baseline' = baseline
        /\ scansOverlapped' = scansOverlapped /\ misread' = misread
    BY <1>6 DEF SaveAlert, disturbances
  <2>2. s \in Saving /\ Saving' = Saving \ {s}
    BY <1>0, <2>1 DEF Saving
  <2>3. Cardinality(Saving') = Cardinality(Saving) - 1
    BY <2>2, SavingFinite, FS_RemoveElement
  <2>4. open' + Cardinality(Saving') <= Cardinality(Scans)
    BY <1>0, <2>1, <2>3, SavingFinite DEF GuardianInv
  <2>5. scans' \in [Scans -> ScanStates]
    BY <1>0, <2>1
  <2>6. ASSUME ~scansOverlapped
        PROVE  /\ \A t \in Scans : ~Scanning(t)'
               /\ Saving' = {} /\ open' <= 1
               /\ \A t \in Scans : scans'[t].at # "lower"
    <3>1. \A t \in Scans : Scanning(t) => t = s
      BY <2>1, <2>6 DEF GuardianInv, Scanning
    <3>2. \A t \in Scans : ~Scanning(t)'
      BY <1>0, <2>1, <3>1 DEF Scanning
    <3>3. open = 0
      BY <2>2, <2>6 DEF GuardianInv
    <3> QED
      BY <2>1, <3>2, <3>3 DEF Scanning, Saving
  <2> QED
    BY <1>0, <2>1, <2>4, <2>5, <2>6 DEF GuardianInv
<1>6a. ASSUME NEW s \in Scans, DbFails(s) PROVE GuardianInv'
  <2>1. /\ scans[s].at # "idle" /\ open' = open
        /\ scans' = [scans EXCEPT ![s] = NoScan]
        /\ debt' = debt /\ baseline' = baseline
        /\ scansOverlapped' = scansOverlapped /\ misread' = misread
    BY <1>6a DEF DbFails, disturbances
  <2>2. scans' \in [Scans -> ScanStates] /\ Saving' \subseteq Saving
    BY <1>0, <2>1 DEF Saving
  <2>3. Cardinality(Saving') <= Cardinality(Saving) /\ Cardinality(Saving') \in Nat
    BY <2>2, SavingFinite, FS_Subset, FS_CardinalityType
  <2>4. \A t \in Scans : /\ Scanning(t)' => Scanning(t)
                         /\ scans'[t].at = "lower" => scans'[t] = scans[t]
    BY <1>0, <2>1 DEF Scanning
  <2>5. open' + Cardinality(Saving') <= Cardinality(Scans)
    BY <1>0, <2>1, <2>3, SavingFinite DEF GuardianInv
  <2> QED
    BY <1>0, <2>1, <2>2, <2>4, <2>5 DEF GuardianInv, Improves
<1>7. CASE UNCHANGED guardianVars
  BY <1>7 DEF guardianVars, disturbances, GuardianInv, Saving, Scanning, Improves
<1> QED
  BY <1>1, <1>2, <1>3, <1>4, <1>5, <1>6, <1>6a, <1>7 DEF GuardianNext

\* What each step keeps, given the invariant before and after it.
LEMMA GuardianKeptStep ==
  GuardianInv /\ GuardianInv' /\ [GuardianNext]_guardianVars
    => [BaselineFalls /\ DuplicatesBounded']_guardianVars
<1>1. GuardianInv => DuplicatesBounded
  BY SavingFinite DEF GuardianInv, DuplicatesBounded
<1>2. GuardianInv /\ [GuardianNext]_guardianVars => [BaselineFalls]_guardianVars
  <2> SUFFICES ASSUME GuardianInv, GuardianNext, baseline # 0, ~scansOverlapped, ~misread
               PROVE  baseline' <= baseline
    BY DEF BaselineFalls
  <2>0. baseline \in Nat /\ scans \in [Scans -> ScanStates]
    BY DEF GuardianInv
  <2>1. \/ baseline' = baseline
        \/ \E s \in Scans : scans[s].at = "lower" /\ baseline' = scans[s].counted
    BY DEF GuardianNext, DebtChanges, StartGuardian, AlertGoesAway, Measure, Compare,
           MisreadBaseline, SetBaseline, LookForAlert, SaveAlert, DbFails
  <2> QED
    BY <2>0, <2>1 DEF GuardianInv, Improves, ScanStates
<1>3. GuardianInv' => DuplicatesBounded'
  BY <1>1, PTL
<1> QED
  BY <1>2, <1>3

\* Scans that overlap leave at most one open alert each, and one alone leaves one;
\* without overlapping scans and failed reads the baseline only falls: for any number
\* of scans and of repetitions (guardian/guardian.go:185-215, checks.go:277-304).
THEOREM GuardianKeptHolds == GuardianSpec => GuardianKept
BY GuardianKeptStep, GuardianInvInit, GuardianInvStep, PTL DEF GuardianSpec, GuardianKept

-----------------------------------------------------------------------------
(* InboxWatcher. What lies in the inbox is what was written last, so a text *)
(* that a goroutine holds is that one or an older one.                      *)

IngestStates == [at : {"idle", "forget", "read", "save", "archive"}, text : Nat]

InboxInv ==
  /\ written \in Nat /\ inbox \in {NoText, written}
  /\ ingests \in [Ingests -> IngestStates]
  /\ \A g \in Ingests : ingests[g].text <= written
  /\ \A g \in Ingests : ingests[g].at = "archive" => ingests[g].text \in rawPages
  /\ InboxNotForgotten

LEMMA InboxInvInit == InboxInit => InboxInv
BY DEF InboxInit, InboxInv, InboxNotForgotten, NoIngest, Ingest, IngestStates, NoText

LEMMA InboxInvStep == InboxInv /\ [InboxNext]_inboxVars => InboxInv'
<1> SUFFICES ASSUME InboxInv, [InboxNext]_inboxVars PROVE InboxInv'
  OBVIOUS
<1>0. /\ written \in Nat /\ inbox \in {NoText, written}
      /\ ingests \in [Ingests -> IngestStates]
      /\ \A g \in Ingests : ingests[g].text <= written
      /\ \A g \in Ingests : ingests[g].at = "archive" => ingests[g].text \in rawPages
      /\ InboxNotForgotten
      /\ NoIngest \in IngestStates /\ NoIngest.at = "idle" /\ NoIngest.text = 0
  BY DEF InboxInv, NoIngest, Ingest, IngestStates, NoText
<1>1. CASE WriteFile
  BY <1>0, <1>1 DEF WriteFile, InboxInv, InboxNotForgotten, IngestStates
<1>2. CASE NoticeEvent
  <2>1. armed' # {}
    BY <1>2 DEF NoticeEvent, Rearm
  <2> QED
    BY <1>0, <1>2, <2>1 DEF NoticeEvent, InboxInv, InboxNotForgotten
<1>3. ASSUME NEW g \in Ingests, NEW t \in Timers, TimerFires(t, g)
      PROVE  InboxInv'
  <2>1. Ingest("forget", NoText) \in IngestStates
        /\ Ingest("forget", NoText).at = "forget" /\ Ingest("forget", NoText).text = 0
    BY DEF Ingest, IngestStates, NoText
  <2>2. ingests' = [ingests EXCEPT ![g] = Ingest("forget", NoText)]
    BY <1>3 DEF TimerFires
  <2>3. Reading(g)'
    BY <1>0, <2>1, <2>2 DEF Reading
  <2> QED
    BY <1>0, <1>3, <2>1, <2>2, <2>3 DEF TimerFires, InboxInv, InboxNotForgotten
<1>4. ASSUME NEW g \in Ingests, ForgetTimer(g)
      PROVE  InboxInv'
  <2>1. /\ ingests' \in [Ingests -> IngestStates]
        /\ ingests'[g].at = "read" /\ ingests'[g].text = ingests[g].text
        /\ \A o \in Ingests \ {g} : ingests'[o] = ingests[o]
    BY <1>0, <1>4 DEF ForgetTimer, IngestStates
  <2>2. Reading(g)'
    BY <2>1 DEF Reading
  <2> QED
    BY <1>0, <1>4, <2>1, <2>2 DEF ForgetTimer, InboxInv, InboxNotForgotten
<1>5. ASSUME NEW g \in Ingests, ReadInbox(g)
      PROVE  InboxInv'
  <2>1. CASE inbox = NoText
    <3>1. ingests' = [ingests EXCEPT ![g] = NoIngest] /\ inbox' = NoText
      BY <1>5, <2>1 DEF ReadInbox, NothingToRead
    <3> QED
      BY <1>0, <1>5, <3>1 DEF ReadInbox, InboxInv, InboxNotForgotten
  <2>2. CASE inbox # NoText
    <3>1. ingests' = [ingests EXCEPT ![g] = Ingest("save", inbox)] /\ inbox = written
      BY <1>0, <1>5, <2>2 DEF ReadInbox, NothingToRead
    <3>2. /\ Ingest("save", inbox) \in IngestStates
          /\ Ingest("save", inbox).at = "save" /\ Ingest("save", inbox).text = inbox
      BY <1>0, <3>1 DEF Ingest, IngestStates
    <3> QED
      BY <1>0, <1>5, <3>1, <3>2 DEF ReadInbox, InboxInv, InboxNotForgotten
  <2> QED
    BY <2>1, <2>2
<1>6. ASSUME NEW g \in Ingests, SaveRawPage(g)
      PROVE  InboxInv'
  <2>1. /\ ingests' \in [Ingests -> IngestStates]
        /\ ingests'[g].at = "archive" /\ ingests'[g].text = ingests[g].text
        /\ \A o \in Ingests \ {g} : ingests'[o] = ingests[o]
        /\ ingests[g].at = "save"
    BY <1>0, <1>6 DEF SaveRawPage, IngestStates
  <2> QED
    BY <1>0, <1>6, <2>1 DEF SaveRawPage, InboxInv, InboxNotForgotten, Reading
<1>7. ASSUME NEW g \in Ingests, IngestFails(g)
      PROVE  InboxInv'
  <2>1. ingests' = [ingests EXCEPT ![g] = NoIngest] /\ ingests[g].at = "save"
    BY <1>7 DEF IngestFails
  <2> QED
    BY <1>0, <1>7, <2>1 DEF IngestFails, InboxInv, InboxNotForgotten, Reading
<1>8. ASSUME NEW g \in Ingests, ArchiveFile(g)
      PROVE  InboxInv'
  <2>1. /\ ingests' = [ingests EXCEPT ![g] = NoIngest] /\ ingests[g].at = "archive"
        /\ inbox' \in {NoText, inbox}
    BY <1>8 DEF ArchiveFile
  <2> QED
    BY <1>0, <1>8, <2>1 DEF ArchiveFile, InboxInv, InboxNotForgotten, Reading
<1>9. CASE RestartWatcher
  BY <1>0, <1>9 DEF RestartWatcher, InboxInv, InboxNotForgotten
<1>10. CASE UNCHANGED inboxVars
  BY <1>10 DEF inboxVars, InboxInv, InboxNotForgotten, Reading
<1> QED
  BY <1>1, <1>2, <1>3, <1>4, <1>5, <1>6, <1>7, <1>8, <1>9, <1>10 DEF InboxNext

\* No file of the inbox is forgotten, for any number of writes, timers and
\* goroutines (wiki_engine/inbox_watcher.go:112-150).
THEOREM InboxNotForgottenHolds == InboxSpec => []InboxNotForgotten
<1>1. InboxInv => InboxNotForgotten
  BY DEF InboxInv
<1> QED
  BY <1>1, InboxInvInit, InboxInvStep, PTL DEF InboxSpec

\* Nothing in the inbox is forgotten or archived in vain, for any number of timers
\* and goroutines: a text that goes to the archive without being a page was written
\* over an older one that was being ingested (wiki_engine/inbox_watcher.go:98-287).
THEOREM InboxKeptHolds == InboxSpec => InboxKept
<1>1. InboxInv /\ InboxInv' /\ [InboxNext]_inboxVars
        => [ArchivedIsPageOrOvertook /\ InboxNotForgotten']_inboxVars
  <2>1. SUFFICES ASSUME InboxInv, InboxInv', InboxNext, NEW v \in archived' \ archived
                 PROVE  v \in rawPages \/ \E g \in Ingests : Ingesting(g) /\ ingests[g].text < v
    BY DEF ArchivedIsPageOrOvertook, InboxInv
  <2>2. PICK g \in Ingests : ArchiveFile(g) /\ v = inbox /\ inbox # NoText
    BY <2>1 DEF InboxNext, WriteFile, NoticeEvent, RestartWatcher, TimerFires, ForgetTimer,
                ReadInbox, SaveRawPage, IngestFails, ArchiveFile
  <2>3. ingests[g].at = "archive" /\ ingests[g].text \in rawPages
    BY <2>1, <2>2 DEF ArchiveFile, InboxInv
  <2>4. ingests[g].text <= v /\ ingests[g].text \in Nat /\ v \in Nat
    BY <2>1, <2>2 DEF InboxInv, IngestStates
  <2> QED
    BY <2>3, <2>4 DEF Ingesting
<1> QED
  BY <1>1, InboxInvInit, InboxInvStep, PTL DEF InboxSpec, InboxKept

-----------------------------------------------------------------------------
(* Signals. The UPDATE of a poll repeats the condition of its SELECT; that  *)
(* it finds the same rows rests on the snapshot.                            *)

PollStates == [at : {"closed", "selected", "marked"}, worker : Receivers \union {Nobody},
               seen : SUBSET SignalIds, stale : BOOLEAN]
SignalRows       == [to : Receivers \union {Everyone, Nobody}, read : BOOLEAN]

\* A poll that may still write saw what is unread now.
PollOK(p) ==
  /\ polls[p].at = "marked" <=> writer = p
  /\ polls[p].at = "selected" /\ ~polls[p].stale => polls[p].seen = Unread(polls[p].worker)
  /\ polls[p].at = "marked" => polls[p].seen = Unread(polls[p].worker)

SignalsInv ==
  /\ table \in [SignalIds -> SignalRows]
  /\ polls \in [SignalPolls -> PollStates]
  /\ writer \in SignalPolls \union {Nobody}
  /\ answered \in [SignalIds -> Nat]
  /\ \A p \in SignalPolls : PollOK(p)
  /\ ReadMeansHandedOutOnce

LEMMA SignalsInvInit == SignalsInit => SignalsInv
<1> SUFFICES ASSUME SignalsInit PROVE SignalsInv
  OBVIOUS
<1>1. NoPoll \in PollStates /\ NoPoll.at = "closed" /\ NoRow \in SignalRows /\ ~NoRow.read
  BY DEF NoPoll, PollStates, NoRow, SignalRows
<1>2. \A p \in SignalPolls : PollOK(p)
  BY <1>1, SignalsAssumption DEF SignalsInit, PollOK
<1> QED
  BY <1>1, <1>2 DEF SignalsInit, SignalsInv, ReadMeansHandedOutOnce

\* What a commit does to the transactions of others.
LEMMA OutdatedPolls ==
  ASSUME SignalsInv, NEW p
  PROVE  /\ Outdated(p) \in [SignalPolls -> PollStates]
         /\ \A q \in SignalPolls :
              /\ Outdated(p)[q].at = polls[q].at
              /\ Outdated(p)[q].worker = polls[q].worker
              /\ Outdated(p)[q].seen = polls[q].seen
              /\ q # p /\ polls[q].at = "selected" => Outdated(p)[q].stale
BY DEF SignalsInv, Outdated, PollStates

\* A write of somebody who is not a poll leaves no snapshot fresh.
LEMMA WrittenBesidePolls ==
  ASSUME SignalsInv, writer = Nobody, writer' = writer, polls' = Outdated(Nobody)
  PROVE  polls' \in [SignalPolls -> PollStates] /\ \A p \in SignalPolls : PollOK(p)'
<1>1. ASSUME NEW p \in SignalPolls PROVE PollOK(p)'
  <2>1. p # Nobody /\ polls[p].at # "marked"
    BY SignalsAssumption DEF SignalsInv, PollOK
  <2>2. polls'[p].at = polls[p].at /\ (polls'[p].at = "selected" => polls'[p].stale)
    BY <2>1, OutdatedPolls
  <2> QED
    BY <2>1, <2>2 DEF PollOK
<1> QED
  BY <1>1, OutdatedPolls

LEMMA SignalsInvStep == SignalsInv /\ [SignalsNext]_signalVars => SignalsInv'
<1> SUFFICES ASSUME SignalsInv, [SignalsNext]_signalVars PROVE SignalsInv'
  OBVIOUS
<1> USE SignalsAssumption
<1>0. /\ table \in [SignalIds -> SignalRows] /\ polls \in [SignalPolls -> PollStates]
      /\ writer \in SignalPolls \union {Nobody} /\ answered \in [SignalIds -> Nat]
      /\ \A p \in SignalPolls : PollOK(p)
      /\ NoPoll \in PollStates /\ NoPoll.at = "closed"
  BY DEF SignalsInv, NoPoll, PollStates
<1>1. ASSUME NEW s \in SignalIds, NEW to \in Receivers \union {Everyone}, CreateSignal(s, to)
      PROVE  SignalsInv'
  <2>1. /\ writer = Nobody /\ writer' = writer /\ answered' = answered
        /\ table[s] = NoRow /\ polls' = Outdated(Nobody)
        /\ table' = [table EXCEPT ![s] = [to |-> to, read |-> FALSE]]
    BY <1>1 DEF CreateSignal
  <2>2. [to |-> to, read |-> FALSE] \in SignalRows /\ ~[to |-> to, read |-> FALSE].read
        /\ ~NoRow.read
    BY DEF SignalRows, NoRow
  <2>3. table' \in [SignalIds -> SignalRows]
    BY <1>0, <2>1, <2>2
  <2>4. ReadMeansHandedOutOnce'
    BY <1>0, <2>1, <2>2 DEF SignalsInv, ReadMeansHandedOutOnce
  <2> QED
    BY <1>0, <2>1, <2>3, <2>4, WrittenBesidePolls DEF SignalsInv
<1>2. CASE OtherWrite
  <2>1. /\ writer = Nobody /\ writer' = writer /\ answered' = answered
        /\ table' = table /\ polls' = Outdated(Nobody)
    BY <1>2 DEF OtherWrite
  <2> QED
    BY <1>0, <2>1, WrittenBesidePolls DEF SignalsInv, ReadMeansHandedOutOnce
<1>3. ASSUME NEW p \in SignalPolls, NEW new \in PollStates,
             polls' = [polls EXCEPT ![p] = new], PollOK(p)',
             table' = table, answered' = answered,
             writer' = writer \/ (writer = Nobody /\ writer' = p)
      PROVE  SignalsInv'
  <2>1. ASSUME NEW q \in SignalPolls \ {p} PROVE PollOK(q)'
    BY <1>0, <1>3 DEF PollOK, Unread
  <2> QED
    BY <1>0, <1>3, <2>1 DEF SignalsInv, ReadMeansHandedOutOnce
<1>4. ASSUME NEW p \in SignalPolls, NEW w \in Receivers, PollSelects(p, w)
      PROVE  SignalsInv'
  <2> DEFINE new == [at |-> "selected", worker |-> w, seen |-> Unread(w), stale |-> FALSE]
  <2>1. /\ polls' = [polls EXCEPT ![p] = new] /\ polls[p] = NoPoll
        /\ table' = table /\ answered' = answered /\ writer' = writer
    BY <1>4 DEF PollSelects
  <2>2. new \in PollStates
    BY DEF PollStates, Unread
  <2>3. PollOK(p)'
    BY <1>0, <2>1 DEF PollOK, Unread
  <2> QED
    BY <1>3, <2>1, <2>2, <2>3
<1>5. ASSUME NEW p \in SignalPolls, PollMarks(p)
      PROVE  SignalsInv'
  <2> DEFINE new == [polls[p] EXCEPT !.at = "marked"]
  <2>1. /\ polls[p].at = "selected" /\ ~polls[p].stale
        /\ polls' = [polls EXCEPT ![p].at = "marked"]
        /\ writer = Nobody /\ writer' = p /\ table' = table /\ answered' = answered
    BY <1>5 DEF PollMarks, Refused
  <2>2. new \in PollStates /\ polls' = [polls EXCEPT ![p] = new]
    BY <1>0, <2>1 DEF PollStates
  <2>3. /\ polls'[p].at = "marked" /\ polls'[p].seen = polls[p].seen
        /\ polls'[p].worker = polls[p].worker
    BY <1>0, <2>1 DEF PollStates
  <2>4. PollOK(p)'
    BY <1>0, <2>1, <2>3 DEF PollOK, Unread
  <2> QED
    BY <1>3, <2>1, <2>2, <2>4
<1>6. ASSUME NEW p \in SignalPolls, PollFails(p) \/ PollFindsNothing(p)
      PROVE  SignalsInv'
  <2>1. /\ polls' = [polls EXCEPT ![p] = NoPoll] /\ polls[p].at = "selected"
        /\ table' = table /\ answered' = answered /\ writer' = writer
    BY <1>6 DEF PollFails, PollFindsNothing
  <2>2. PollOK(p)'
    BY <1>0, <2>1 DEF PollOK
  <2> QED
    BY <1>0, <1>3, <2>1, <2>2
<1>7. ASSUME NEW p \in SignalPolls, PollCommits(p)
      PROVE  SignalsInv'
  <2> DEFINE seen == polls[p].seen
  <2>1. /\ polls[p].at = "marked" /\ writer = p /\ writer' = Nobody
        /\ seen = Unread(polls[p].worker)
    BY <1>0, <1>7 DEF PollCommits, PollOK
  <2>2. /\ table' = [s \in SignalIds |-> IF s \in seen THEN [table[s] EXCEPT !.read = TRUE]
                                                      ELSE table[s]]
        /\ answered' = [s \in SignalIds |-> IF s \in seen THEN answered[s] + 1
                                                         ELSE answered[s]]
        /\ polls' = [Outdated(p) EXCEPT ![p] = NoPoll]
    BY <1>7, <2>1 DEF PollCommits, Answer
  <2>3. table' \in [SignalIds -> SignalRows] /\ answered' \in [SignalIds -> Nat]
    <3>1. \A s \in SignalIds : [table[s] EXCEPT !.read = TRUE] \in SignalRows
      BY <1>0 DEF SignalRows
    <3> HIDE DEF seen
    <3>2. \A s \in SignalIds : table'[s] \in SignalRows /\ answered'[s] \in Nat
      BY <1>0, <2>2, <3>1
    <3> QED
      BY <2>2, <3>2
  <2>4. \A s \in SignalIds : s \in seen => ~table[s].read
    BY <2>1 DEF Unread
  <2>5. \A s \in SignalIds : table'[s].read = (table[s].read \/ s \in seen)
    BY <1>0, <2>2 DEF SignalRows
  <2>6. ReadMeansHandedOutOnce'
    BY <1>0, <2>2, <2>4, <2>5 DEF SignalsInv, ReadMeansHandedOutOnce
  <2>7. polls' \in [SignalPolls -> PollStates]
    BY <1>0, <2>2, OutdatedPolls
  <2>8. ASSUME NEW q \in SignalPolls PROVE PollOK(q)'
    <3>1. CASE q = p
      BY <1>0, <2>1, <2>2, <3>1, OutdatedPolls DEF PollOK
    <3>2. CASE q # p
      <4>1. polls[q].at # "marked" /\ q # Nobody
        BY <1>0, <2>1, <3>2 DEF PollOK
      <4>2. polls'[q].at = polls[q].at /\ (polls'[q].at = "selected" => polls'[q].stale)
        BY <2>2, <3>2, OutdatedPolls
      <4> QED
        BY <2>1, <4>1, <4>2 DEF PollOK
    <3> QED
      BY <3>1, <3>2
  <2> QED
    BY <2>1, <2>3, <2>6, <2>7, <2>8 DEF SignalsInv
<1>8. CASE UNCHANGED signalVars
  BY <1>8 DEF signalVars, SignalsInv, PollOK, Unread, ReadMeansHandedOutOnce
<1> QED
  BY <1>1, <1>2, <1>4, <1>5, <1>6, <1>7, <1>8 DEF SignalsNext

\* A signal is marked read exactly when one poll handed it out, and no signal is
\* handed out twice, for any number of workers and overlapping polls
\* (db/swarm.go:629-660).
THEOREM ReadMeansHandedOutOnceHolds == SignalsSpec => []ReadMeansHandedOutOnce
<1>1. SignalsInv => ReadMeansHandedOutOnce
  BY DEF SignalsInv
<1> QED
  BY <1>1, SignalsInvInit, SignalsInvStep, PTL DEF SignalsSpec

-----------------------------------------------------------------------------
(* EventBus implements Deliveries. An event moves from the channel to the   *)
(* dispatching goroutine to the goroutines of the handlers; it is never in  *)
(* two of these places for one handler.                                     *)

Dispatchers == {Waiting, Exited}
  \union [at : {"delivering"}, event : BusEvents, rest : SUBSET BusHandlers]

BusInv ==
  /\ publishing \in [BusEvents -> {"idle", "sending", "accepted", "refused", "panicked"}]
  /\ buffer \in Seq(BusEvents)
  /\ subscribed \subseteq BusHandlers
  /\ dispatcher \in Dispatchers
  /\ started \subseteq BusHandlers \X BusEvents
  /\ \A i \in 1 .. Len(buffer) : buffer[i] \in Accepted
  /\ \A i, j \in 1 .. Len(buffer) : buffer[i] = buffer[j] => i = j
  /\ \A p \in started \union Undelivered : p[2] \in Accepted \ ToSet(buffer)
  /\ started \intersect Undelivered = {}

\* The elements of a sequence are those at its places.
LEMMA ElementsOf ==
  ASSUME NEW S, NEW s \in Seq(S)
  PROVE  \A e : e \in ToSet(s) <=> \E i \in 1 .. Len(s) : s[i] = e
BY DEF ToSet

LEMMA AppendedElements ==
  ASSUME NEW S, NEW s \in Seq(S), NEW e \in S
  PROVE  ToSet(Append(s, e)) = ToSet(s) \union {e}
<1>1. /\ Append(s, e) \in Seq(S) /\ Len(Append(s, e)) = Len(s) + 1
      /\ \A i \in 1 .. Len(s) : Append(s, e)[i] = s[i]
      /\ Append(s, e)[Len(s) + 1] = e
  OBVIOUS
<1>2. \A x : x \in ToSet(Append(s, e)) <=> \E i \in 1 .. Len(s) + 1 : Append(s, e)[i] = x
  <2>1. \A x : x \in ToSet(Append(s, e))
               <=> \E i \in 1 .. Len(Append(s, e)) : Append(s, e)[i] = x
    BY <1>1, ElementsOf
  <2> QED
    BY <1>1, <2>1
<1>3. \A x : x \in ToSet(s) <=> \E i \in 1 .. Len(s) : s[i] = x
  BY ElementsOf
<1>4. Len(s) \in Nat
  OBVIOUS
<1>5. ASSUME NEW x \in ToSet(s) PROVE x \in ToSet(Append(s, e))
  BY <1>1, <1>2, <1>3, <1>4, <1>5
<1>6. e \in ToSet(Append(s, e))
  BY <1>1, <1>2, <1>4
<1>7. ASSUME NEW x \in ToSet(Append(s, e)), x # e PROVE x \in ToSet(s)
  <2>1. PICK i \in 1 .. Len(s) + 1 : Append(s, e)[i] = x
    BY <1>2, <1>7
  <2>2. i \in 1 .. Len(s)
    BY <1>1, <1>4, <1>7, <2>1
  <2> QED
    BY <1>1, <1>3, <2>1, <2>2
<1> QED
  BY <1>5, <1>6, <1>7

LEMMA RemainingElements ==
  ASSUME NEW S, NEW s \in Seq(S), s # <<>>,
         \A i, j \in 1 .. Len(s) : s[i] = s[j] => i = j
  PROVE  /\ ToSet(Tail(s)) = ToSet(s) \ {Head(s)} /\ Head(s) \in ToSet(s)
         /\ \A i, j \in 1 .. Len(Tail(s)) : Tail(s)[i] = Tail(s)[j] => i = j
<1>1. /\ Tail(s) \in Seq(S) /\ Len(Tail(s)) = Len(s) - 1 /\ Len(s) \in Nat \ {0}
      /\ \A i \in 1 .. Len(s) - 1 : Tail(s)[i] = s[i + 1]
      /\ Head(s) = s[1]
  OBVIOUS
<1>2. \A x : x \in ToSet(Tail(s)) <=> \E i \in 1 .. Len(s) - 1 : s[i + 1] = x
  <2>1. \A x : x \in ToSet(Tail(s)) <=> \E i \in 1 .. Len(Tail(s)) : Tail(s)[i] = x
    <3> DEFINE t == Tail(s)
    <3>1. t \in Seq(S)
      BY <1>1
    <3> HIDE DEF t
    <3>2. \A x : x \in ToSet(t) <=> \E i \in 1 .. Len(t) : t[i] = x
      BY <3>1, ElementsOf
    <3> QED
      BY <3>2 DEF t
  <2>2. \A x : x \in ToSet(Tail(s)) <=> \E i \in 1 .. Len(s) - 1 : Tail(s)[i] = x
    BY <1>1, <2>1, Zenon
  <2>3. \A i \in 1 .. Len(s) - 1 : Tail(s)[i] = s[i + 1]
    BY <1>1
  <2> QED
    BY <2>2, <2>3, Zenon
<1>3. \A x : x \in ToSet(s) <=> \E i \in 1 .. Len(s) : s[i] = x
  BY ElementsOf
<1>4. Head(s) \in ToSet(s) /\ Head(s) \notin ToSet(Tail(s))
  BY <1>1, <1>2, <1>3
<1>5. ToSet(Tail(s)) \subseteq ToSet(s)
  BY <1>1, <1>2, <1>3
<1>6. ASSUME NEW x \in ToSet(s), x # Head(s) PROVE x \in ToSet(Tail(s))
  <2>1. PICK i \in 1 .. Len(s) : s[i] = x
    BY <1>3, <1>6
  <2>2. i # 1 /\ i - 1 \in 1 .. Len(s) - 1 /\ s[(i - 1) + 1] = x
    BY <1>1, <1>6, <2>1
  <2> QED
    BY <1>2, <2>2
<1> QED
  BY <1>1, <1>4, <1>5, <1>6

LEMMA BusInvInit == BusInit => BusInv /\ Promise!Init
<1> SUFFICES ASSUME BusInit PROVE BusInv /\ Promise!Init
  OBVIOUS
<1>1. Accepted = {} /\ Undelivered = {} /\ ToSet(buffer) = {} /\ buffer = <<>>
  BY DEF BusInit, Accepted, Undelivered, Waiting, ToSet
<1> QED
  BY <1>1 DEF BusInit, BusInv, Promise!Init, Dispatchers

\* The steps that leave the channel and the deliveries alone do not show.
LEMMA Unseen ==
  ASSUME BusInv, Accepted' = Accepted, buffer' = buffer, ran' = ran,
         Undelivered' = Undelivered, started' = started
  PROVE  UNCHANGED Promise!vars
BY DEF Promise!vars

LEMMA BusStep == BusInv /\ [BusNext]_busVars => BusInv' /\ [Promise!Next]_(Promise!vars)
<1> SUFFICES ASSUME BusInv, [BusNext]_busVars
             PROVE  BusInv' /\ [Promise!Next]_(Promise!vars)
  OBVIOUS
<1> DEFINE Goal == BusInv' /\ [Promise!Next]_(Promise!vars)
<1>0. /\ publishing \in [BusEvents -> {"idle", "sending", "accepted", "refused", "panicked"}]
      /\ buffer \in Seq(BusEvents) /\ subscribed \subseteq BusHandlers
      /\ dispatcher \in Dispatchers /\ started \subseteq BusHandlers \X BusEvents
      /\ started \intersect Undelivered = {}
      /\ \A p \in started \union Undelivered : p[2] \in Accepted \ ToSet(buffer)
      /\ Accepted \subseteq BusEvents
  BY DEF BusInv, Accepted
<1>1. ASSUME NEW e \in BusEvents, PublishBegins(e) \/ PublishPanics(e) \/ PublishGivesUp(e)
      PROVE  Goal
  <2>1. /\ publishing[e] \in {"idle", "sending"}
        /\ \E to \in {"sending", "refused", "panicked"} :
             publishing' = [publishing EXCEPT ![e] = to]
        /\ buffer' = buffer /\ dispatcher' = dispatcher /\ started' = started
        /\ ran' = ran /\ subscribed' = subscribed
    BY <1>1 DEF PublishBegins, PublishPanics, PublishGivesUp
  <2>2. Accepted' = Accepted /\ Undelivered' = Undelivered
    BY <1>0, <2>1 DEF Accepted, Undelivered
  <2>3. publishing' \in [BusEvents -> {"idle", "sending", "accepted", "refused", "panicked"}]
    BY <1>0, <2>1
  <2> QED
    BY <1>0, <2>1, <2>2, <2>3, Unseen DEF BusInv
<1>2. ASSUME NEW e \in BusEvents, PublishSends(e)
      PROVE  Goal
  <2>1. /\ publishing[e] = "sending" /\ publishing' = [publishing EXCEPT ![e] = "accepted"]
        /\ buffer' = Append(buffer, e) /\ dispatcher' = dispatcher /\ started' = started
        /\ ran' = ran /\ subscribed' = subscribed
    BY <1>2 DEF PublishSends
  <2>2. e \notin Accepted /\ Accepted' = Accepted \union {e} /\ Undelivered' = Undelivered
    BY <1>0, <2>1 DEF Accepted, Undelivered
  <2>3. ToSet(buffer') = ToSet(buffer) \union {e} /\ buffer' \in Seq(BusEvents)
    BY <1>0, <2>1, AppendedElements
  <2>4. ToSet(buffer) \subseteq Accepted
    BY <1>0, ElementsOf DEF BusInv
  <2>5. /\ \A i \in 1 .. Len(buffer') : buffer'[i] \in Accepted'
        /\ \A i, j \in 1 .. Len(buffer') : buffer'[i] = buffer'[j] => i = j
    <3>1. /\ Len(buffer') = Len(buffer) + 1 /\ Len(buffer) \in Nat
          /\ \A i \in 1 .. Len(buffer) : buffer'[i] = buffer[i]
          /\ buffer'[Len(buffer) + 1] = e
      BY <1>0, <2>1
    <3> QED
      BY <2>2, <3>1 DEF BusInv
  <2>6. BusInv'
    <3>1. publishing' \in [BusEvents -> {"idle", "sending", "accepted", "refused", "panicked"}]
      BY <1>0, <2>1
    <3>2. \A p \in started' \union Undelivered' : p[2] \in Accepted' \ ToSet(buffer')
      BY <1>0, <2>1, <2>2, <2>3
    <3> QED
      BY <1>0, <2>1, <2>2, <2>3, <2>5, <3>1, <3>2 DEF BusInv
  <2>7. Accepted' \ ToSet(buffer') = Accepted \ ToSet(buffer)
    BY <2>2, <2>3, <2>4
  <2>8. Promise!Accept(e)
    BY <2>1, <2>2, <2>7 DEF Promise!Accept
  <2> QED
    BY <2>6, <2>8 DEF Promise!Next
<1>3. ASSUME NEW h \in BusHandlers, Subscribe(h) \/ Unsubscribe(h)
      PROVE  Goal
  <2>1. /\ publishing' = publishing /\ buffer' = buffer /\ dispatcher' = dispatcher
        /\ started' = started /\ ran' = ran /\ subscribed' \subseteq BusHandlers
    BY <1>0, <1>3 DEF Subscribe, Unsubscribe
  <2>2. Accepted' = Accepted /\ Undelivered' = Undelivered
    BY <2>1 DEF Accepted, Undelivered
  <2> QED
    BY <1>0, <2>1, <2>2, Unseen DEF BusInv
<1>4. CASE DispatchTakes
  <2> DEFINE e == Head(buffer)
  <2>1. /\ dispatcher = Waiting /\ buffer # <<>> /\ buffer' = Tail(buffer)
        /\ dispatcher' = Delivering(e, subscribed) /\ publishing' = publishing
        /\ started' = started /\ ran' = ran /\ subscribed' = subscribed
    BY <1>4 DEF DispatchTakes
  <2>2. /\ ToSet(buffer') = ToSet(buffer) \ {e} /\ e \in ToSet(buffer)
        /\ \A i, j \in 1 .. Len(buffer') : buffer'[i] = buffer'[j] => i = j
    BY <1>0, <2>1, RemainingElements DEF BusInv
  <2>3. e \in Accepted /\ buffer' \in Seq(BusEvents) /\ ToSet(buffer) \subseteq Accepted
    BY <1>0, <2>1, <2>2, ElementsOf DEF BusInv
  <2>4. /\ Accepted' = Accepted /\ Undelivered = {} /\ Undelivered' = subscribed \X {e}
    BY <2>1 DEF Accepted, Undelivered, Waiting, Delivering
  <2>5. \A i \in 1 .. Len(buffer') : buffer'[i] \in Accepted'
    BY <2>2, <2>3, <2>4, ElementsOf
  <2>6. dispatcher' \in Dispatchers
    BY <1>0, <2>1, <2>3 DEF Dispatchers, Delivering
  <2>7. /\ \A p \in started' \union Undelivered' : p[2] \in Accepted' \ ToSet(buffer')
        /\ started' \intersect Undelivered' = {}
    BY <1>0, <2>1, <2>2, <2>3, <2>4
  <2>8. BusInv'
    BY <1>0, <2>1, <2>2, <2>3, <2>5, <2>6, <2>7 DEF BusInv
  <2>9. /\ e \in Accepted \ (Accepted \ ToSet(buffer))
        /\ Accepted' \ ToSet(buffer') = (Accepted \ ToSet(buffer)) \union {e}
        /\ Undelivered' \union started' = (Undelivered \union started) \union (subscribed \X {e})
    BY <2>1, <2>2, <2>3, <2>4
  <2>10. Promise!Offer(e, subscribed)
    BY <2>1, <2>4, <2>9 DEF Promise!Offer
  <2> QED
    BY <1>0, <2>3, <2>8, <2>10 DEF Promise!Next
<1>5. CASE DispatchEnds
  <2>1. /\ publishing' = publishing /\ buffer' = buffer /\ dispatcher' = Exited
        /\ dispatcher = Waiting
        /\ started' = started /\ ran' = ran /\ subscribed' = subscribed
    BY <1>5 DEF DispatchEnds
  <2>2. Accepted' = Accepted /\ Undelivered' = Undelivered
    BY <2>1 DEF Accepted, Undelivered, Waiting, Exited
  <2> QED
    BY <1>0, <2>1, <2>2, Unseen DEF BusInv, Dispatchers
<1>6. ASSUME NEW h \in BusHandlers, DeliverStarts(h)
      PROVE  Goal
  <2> DEFINE e == dispatcher.event
             rest == dispatcher.rest
  <2>1. /\ dispatcher.at = "delivering" /\ h \in rest
        /\ dispatcher' = Delivering(e, rest \ {h}) /\ started' = started \union {<<h, e>>}
        /\ publishing' = publishing /\ buffer' = buffer
        /\ ran' = ran /\ subscribed' = subscribed
    BY <1>6 DEF DeliverStarts, Unserved
  <2>2. e \in BusEvents /\ rest \subseteq BusHandlers
    BY <1>0, <2>1 DEF Dispatchers, Waiting, Exited
  <2>3. /\ Accepted' = Accepted /\ Undelivered = rest \X {e}
        /\ Undelivered' = (rest \ {h}) \X {e}
    BY <2>1 DEF Accepted, Undelivered, Delivering
  <2> HIDE DEF e, rest
  <2>4. /\ Undelivered' \union started' = Undelivered \union started
        /\ started' \intersect Undelivered' = {}
    BY <1>0, <2>1, <2>3
  <2>5. dispatcher' \in Dispatchers
    BY <2>1, <2>2 DEF Dispatchers, Delivering
  <2>6. BusInv'
    BY <1>0, <2>1, <2>2, <2>3, <2>4, <2>5 DEF BusInv
  <2> QED
    BY <2>1, <2>3, <2>4, <2>6 DEF Promise!vars
<1>7. CASE DeliverReturns
  <2>1. /\ dispatcher' = Waiting /\ publishing' = publishing /\ buffer' = buffer
        /\ started' = started /\ ran' = ran /\ subscribed' = subscribed
    BY <1>7 DEF DeliverReturns
  <2>2. Accepted' = Accepted /\ Undelivered' = {}
    BY <2>1 DEF Accepted, Undelivered, Waiting
  <2>3. BusInv'
    BY <1>0, <2>1, <2>2 DEF BusInv, Dispatchers
  <2> DEFINE gone == Undelivered \ started
  <2>4. Promise!Withdraw(gone)
    BY <1>0, <2>1, <2>2 DEF Promise!Withdraw
  <2> QED
    BY <2>3, <2>4 DEF Promise!Next
<1>8. ASSUME NEW p \in started, HandlerRuns(p)
      PROVE  Goal
  <2>1. /\ started' = started \ {p} /\ ran' = ran \union {p} /\ publishing' = publishing
        /\ buffer' = buffer /\ dispatcher' = dispatcher /\ subscribed' = subscribed
    BY <1>8 DEF HandlerRuns
  <2>2. Accepted' = Accepted /\ Undelivered' = Undelivered
    BY <2>1 DEF Accepted, Undelivered
  <2>3. BusInv'
    BY <1>0, <2>1, <2>2 DEF BusInv
  <2>4. Promise!Handle(p)
    BY <1>0, <1>8, <2>1, <2>2 DEF Promise!Handle
  <2> QED
    BY <2>3, <2>4 DEF Promise!Next
<1>9. CASE CloseBegins \/ CloseGoesOn \/ UNCHANGED busVars
  <2>1. /\ publishing' = publishing /\ buffer' = buffer /\ dispatcher' = dispatcher
        /\ started' = started /\ ran' = ran /\ subscribed' = subscribed
    BY <1>9 DEF CloseBegins, CloseGoesOn, busVars
  <2>2. Accepted' = Accepted /\ Undelivered' = Undelivered
    BY <2>1 DEF Accepted, Undelivered
  <2> QED
    BY <1>0, <2>1, <2>2, Unseen DEF BusInv
<1> QED
  BY <1>1, <1>2, <1>3, <1>4, <1>5, <1>6, <1>7, <1>8, <1>9 DEF BusNext

\* The bus is a Deliveries, for any number of events and handlers and any capacity:
\* it loses events only by closing and hands each to a handler at most once
\* (events/bus.go:47-132).
THEOREM BusImplementsDeliveriesHolds == BusSpec => BusImplementsDeliveries
BY BusInvInit, BusStep, PTL DEF BusSpec, BusImplementsDeliveries, Promise!Spec

-----------------------------------------------------------------------------
(* Hub. A broadcast holds the read lock, so no client leaves while one has  *)
(* still somebody to send to.                                               *)

HubInv == HubTypeOK /\ SentToRegistered

LEMMA HubInvInit == HubInit => HubInv
BY HubAssumption DEF HubInit, HubInv, HubTypeOK, SentToRegistered

LEMMA HubInvStep == HubInv /\ [HubNext]_hubVars => HubInv'
<1> SUFFICES ASSUME HubInv, [HubNext]_hubVars PROVE HubInv'
  OBVIOUS
<1> USE HubAssumption DEF HubInv, HubTypeOK, SentToRegistered
<1>1. ASSUME NEW c \in HubClients, Connect(c) \/ ReadFails(c) PROVE HubInv'
  BY <1>1 DEF Connect, ReadFails
<1>2. ASSUME NEW c \in HubClients, Register(c) PROVE HubInv'
  BY <1>2 DEF Register
<1>3. ASSUME NEW c \in HubClients, Unregister(c) PROVE HubInv'
  <2>1. \A b \in Broadcasters : sending[b] = {}
    BY <1>3 DEF Unregister, LockIsFree
  <2> QED
    BY <1>3, <2>1 DEF Unregister
<1>4. ASSUME NEW c \in HubClients, TakeMessage(c) PROVE HubInv'
  <2>1. queued' \in [HubClients -> 0..SendBuffer]
    BY <1>4 DEF TakeMessage
  <2> QED
    BY <1>4, <2>1 DEF TakeMessage
<1>5. ASSUME NEW c \in HubClients, WriteMessage(c) \/ WriterEnds(c) PROVE HubInv'
  BY <1>5 DEF WriteMessage, WriterEnds, AfterWriter
<1>6. ASSUME NEW b \in Broadcasters, BroadcastBegins(b) PROVE HubInv'
  BY <1>6 DEF BroadcastBegins
<1>7. ASSUME NEW b \in Broadcasters, NEW c \in HubClients, SendOrSkip(b, c) PROVE HubInv'
  <2>1. queued' \in [HubClients -> 0..SendBuffer]
    BY <1>7 DEF SendOrSkip
  <2> QED
    BY <1>7, <2>1 DEF SendOrSkip
<1>8. CASE UNCHANGED hubVars
  BY <1>8 DEF hubVars
<1> QED
  BY <1>1, <1>2, <1>3, <1>4, <1>5, <1>6, <1>7, <1>8 DEF HubNext

\* Broadcasts send to registered clients only.
THEOREM SentToRegisteredHolds == HubSpec => []SentToRegistered
<1>1. HubInv => SentToRegistered
  BY DEF HubInv
<1> QED
  BY <1>1, HubInvInit, HubInvStep, PTL DEF HubSpec

-----------------------------------------------------------------------------
(* Guardrails. Reports begin in the order of their numbers, so the calls    *)
(* that were made in all tell which reports have begun; what a report has   *)
(* read is older than its own call; and while none overlap, one at most is  *)
(* between its read and its write, and nothing was written since it read.   *)

RowWithin(row, calls) == row.repeated <= row.calls /\ row.calls <= calls

ReportsOrdered ==
  \A c \in ToolReports : reports[c] = NoReport <=> c > streak.calls

CountsWithin ==
  /\ RowWithin(streak, MaxToolCalls) /\ RowWithin(guardrail, streak.calls)
  /\ guardrail.last \in ToolNames => guardrail.repeated <= called[guardrail.last]
  /\ \A t \in ToolNames : called[t] <= streak.calls
  /\ \A c \in ToolReports :
       reports[c].at = "read" =>
         /\ reports[c].tool \in ToolNames
         /\ RowWithin(reports[c].seen, streak.calls - 1)
         /\ Counted(reports[c].seen, reports[c].tool).repeated <= called[reports[c].tool]

\* The verdict on the report that began last.
LastIsAnswered ==
  \A c \in ToolReports :
    reports[c].at = "done" /\ c = streak.calls => answers[c] = Verdicts(streak)

OneAfterTheOther ==
  /\ \A c \in ToolReports :
       reports[c].at = "read" =>
         /\ c = streak.calls
         /\ reports[c].seen = guardrail
         /\ streak = Counted(guardrail, reports[c].tool)
  /\ (\A c \in ToolReports : reports[c].at # "read") => guardrail = streak
  /\ LastIsAnswered

GuardrailInv ==
  /\ GuardrailTypeOK
  /\ ReportsOrdered /\ CountsWithin
  /\ ~parallel /\ ~SomeFailed => OneAfterTheOther

LEMMA GuardrailInvInit == GuardrailInit => GuardrailInv
<1> SUFFICES ASSUME GuardrailInit PROVE GuardrailInv
  OBVIOUS
<1> USE GuardrailAssumption DEF GuardrailInit, NoMetric, GuardrailRow, NoReport, Report
<1>1. GuardrailTypeOK
  <2>1. [calls |-> 0, last |-> NoTool, repeated |-> 0] \in RowType
    BY DEF RowType
  <2>2. NoReport \in [at : {"idle", "read", "done", "failed"},
                      tool : ToolNames \union {NoTool}, seen : RowType]
    BY <2>1
  <2>3. called \in [ToolNames -> 0 .. MaxToolCalls]
    OBVIOUS
  <2>4. guardrail \in RowType /\ streak \in RowType
    BY <2>1
  <2> HIDE DEF NoReport
  <2>5. reports \in [ToolReports -> [at : {"idle", "read", "done", "failed"},
                      tool : ToolNames \union {NoTool}, seen : RowType]]
    BY <2>2
  <2> QED
    BY <2>3, <2>4, <2>5 DEF GuardrailTypeOK
<1>2. ReportsOrdered
  BY DEF ReportsOrdered, ToolReports
<1>3. CountsWithin
  BY DEF CountsWithin, RowWithin
<1>4. OneAfterTheOther
  BY DEF OneAfterTheOther, LastIsAnswered
<1> QED
  BY <1>1, <1>2, <1>3, <1>4 DEF GuardrailInv

\* A report begins: it is the next one, and it has read the row as it is, or failed.
LEMMA SelectGuardrailStep ==
  ASSUME GuardrailInv, NEW c \in ToolReports, NEW t \in ToolNames,
         SelectGuardrail(c, t) \/ SelectFails(c, t)
  PROVE  GuardrailInv'
<1> USE GuardrailAssumption DEF GuardrailInv, ToolReports
<1>1. c = streak.calls + 1 /\ streak.calls \in Nat
  <2>1. \A d \in ToolReports : reports[d] = NoReport <=> d > streak.calls
    BY DEF ReportsOrdered
  <2>2. streak.calls \in 0 .. MaxToolCalls
    BY DEF GuardrailTypeOK, RowType
  <2>3. c > streak.calls
    BY <2>1 DEF SelectGuardrail, SelectFails
  <2>4. ~(streak.calls + 1 \in 1 .. c - 1)
    BY <2>1, <2>2 DEF SelectGuardrail, SelectFails
  <2> QED
    BY <2>2, <2>3, <2>4
<1> DEFINE read == Report("read", t, guardrail)
           failed == Report("failed", t, NoMetric)
<1>a. \/ reports' = [reports EXCEPT ![c] = read]
         /\ parallel' = (parallel \/ \E d \in ToolReports : reports[d].at = "read")
      \/ reports' = [reports EXCEPT ![c] = failed] /\ parallel' = parallel
  BY DEF SelectGuardrail, SelectFails
<1>b. PICK rep \in {read, failed} :
        /\ reports' = [reports EXCEPT ![c] = rep]
        /\ rep = read => parallel' = (parallel \/ \E d \in ToolReports : reports[d].at = "read")
        /\ rep = failed => parallel' = parallel
  BY <1>a DEF Report
<1>2. /\ reports' = [reports EXCEPT ![c] = rep]
      /\ called' = [called EXCEPT ![t] = @ + 1]
      /\ streak' = GuardrailRow(streak.calls + 1, t,
                                IF t = streak.last THEN streak.repeated + 1 ELSE 1)
      /\ guardrail' = guardrail /\ answers' = answers
  BY <1>b DEF SelectGuardrail, SelectFails, Counted
<1>3. /\ guardrail \in RowType /\ streak \in RowType
      /\ reports \in [ToolReports -> [at : {"idle", "read", "done", "failed"},
                                      tool : ToolNames \union {NoTool}, seen : RowType]]
      /\ called \in [ToolNames -> 0 .. MaxToolCalls]
  BY DEF GuardrailTypeOK
<1>4. /\ streak.repeated \in Nat /\ streak.repeated <= streak.calls
      /\ streak.calls + 1 \in 0 .. MaxToolCalls
      /\ guardrail.calls \in Nat /\ guardrail.repeated \in Nat
      /\ guardrail.repeated <= guardrail.calls /\ guardrail.calls <= streak.calls
  BY <1>1, <1>3 DEF CountsWithin, RowWithin, RowType
<1>5. /\ streak' \in RowType /\ streak'.calls = streak.calls + 1 /\ streak'.last = t
      /\ streak'.repeated = IF t = streak.last THEN streak.repeated + 1 ELSE 1
  <2> DEFINE repeated == IF t = streak.last THEN streak.repeated + 1 ELSE 1
  <2>1. repeated \in 0 .. MaxToolCalls
    BY <1>1, <1>4
  <2> HIDE DEF repeated
  <2>2. streak' = [calls |-> streak.calls + 1, last |-> t, repeated |-> repeated]
    BY <1>2 DEF GuardrailRow, repeated
  <2> QED
    BY <1>4, <2>1, <2>2 DEF RowType, repeated
<1>6. called' \in [ToolNames -> 0 .. MaxToolCalls]
      /\ \A u \in ToolNames : called'[u] <= streak'.calls /\ called[u] <= called'[u]
      /\ called'[t] = called[t] + 1
  <2>1. \A u \in ToolNames : called[u] \in 0 .. MaxToolCalls /\ called[u] <= streak.calls
    BY <1>3 DEF CountsWithin
  <2>2. called[t] + 1 \in 0 .. MaxToolCalls /\ called[t] + 1 <= streak.calls + 1
    BY <1>1, <1>4, <2>1
  <2> QED
    BY <1>1, <1>2, <1>3, <1>5, <2>1, <2>2
<1>c. NoMetric \in RowType
  BY DEF NoMetric, GuardrailRow, RowType
<1>7. /\ reports'[c].tool = t /\ reports'[c].at \in {"read", "failed"}
      /\ reports'[c].at = "read" => rep = read /\ reports'[c].seen = guardrail
      /\ \A d \in ToolReports \ {c} : reports'[d] = reports[d]
  BY <1>2, <1>3 DEF Report
<1>8. GuardrailTypeOK'
  <2>1. rep \in [at : {"idle", "read", "done", "failed"},
                tool : ToolNames \union {NoTool}, seen : RowType]
    BY <1>3, <1>c DEF Report
  <2> QED
    BY <1>2, <1>3, <1>5, <1>6, <1>b, <2>1 DEF GuardrailTypeOK
<1>9. ReportsOrdered'
  <2>1. reports'[c] # NoReport
    BY <1>7 DEF NoReport, Report
  <2> QED
    BY <1>1, <1>5, <1>7, <2>1 DEF ReportsOrdered
<1>10. guardrail'.last \in ToolNames => guardrail'.repeated <= called'[guardrail'.last]
  BY <1>2, <1>3, <1>4, <1>6 DEF CountsWithin
<1>11. CountsWithin'
  <2>1. RowWithin(streak', MaxToolCalls) /\ RowWithin(guardrail', streak'.calls)
    BY <1>1, <1>2, <1>4, <1>5 DEF RowWithin
  <2>2. ASSUME NEW d \in ToolReports, reports'[d].at = "read"
        PROVE  /\ reports'[d].tool \in ToolNames
               /\ RowWithin(reports'[d].seen, streak'.calls - 1)
               /\ Counted(reports'[d].seen, reports'[d].tool).repeated
                    <= called'[reports'[d].tool]
    <3>1. CASE d = c
      <4>1. Counted(guardrail, t).repeated
              = IF t = guardrail.last THEN guardrail.repeated + 1 ELSE 1
        BY DEF Counted, GuardrailRow
      <4>2. t = guardrail.last => guardrail.repeated <= called[t]
        BY DEF CountsWithin
      <4>3. Counted(guardrail, t).repeated <= called'[t]
        BY <1>3, <1>4, <1>6, <4>1, <4>2
      <4>4. RowWithin(guardrail, streak'.calls - 1)
        BY <1>1, <1>4, <1>5 DEF RowWithin
      <4> QED
        BY <1>7, <2>2, <3>1, <4>3, <4>4
    <3>2. CASE d # c
      <4>1. /\ reports'[d] = reports[d] /\ reports[d].tool \in ToolNames
            /\ RowWithin(reports[d].seen, streak.calls - 1)
            /\ Counted(reports[d].seen, reports[d].tool).repeated <= called[reports[d].tool]
        BY <1>7, <2>2, <3>2 DEF CountsWithin
      <4>2. reports[d].seen \in RowType
        BY <1>3
      <4>3. reports[d].seen.repeated \in Nat /\ reports[d].seen.calls \in Nat
        BY <4>2 DEF RowType
      <4>4. Counted(reports[d].seen, reports[d].tool).repeated
              = IF reports[d].tool = reports[d].seen.last
                THEN reports[d].seen.repeated + 1 ELSE 1
        BY DEF Counted, GuardrailRow
      <4>5. /\ called[reports[d].tool] \in Nat /\ called'[reports[d].tool] \in Nat
            /\ called[reports[d].tool] <= called'[reports[d].tool]
        BY <1>3, <1>6, <4>1
      <4>6. Counted(reports[d].seen, reports[d].tool).repeated <= called'[reports[d].tool]
        BY <4>1, <4>3, <4>4, <4>5
      <4>7. RowWithin(reports[d].seen, streak'.calls - 1)
        BY <1>1, <1>5, <4>1, <4>3 DEF RowWithin
      <4> QED
        BY <4>1, <4>6, <4>7
    <3> QED
      BY <3>1, <3>2
  <2> QED
    BY <1>6, <1>10, <2>1, <2>2 DEF CountsWithin
<1>12. ~parallel' /\ ~SomeFailed' => OneAfterTheOther'
  <2> SUFFICES ASSUME ~parallel', ~SomeFailed' PROVE OneAfterTheOther'
    OBVIOUS
  <2>b. reports[c].at # "failed"
    BY DEF SelectGuardrail, SelectFails, NoReport, Report
  <2>a. reports'[c].at = "read" /\ ~SomeFailed
    BY <1>7, <2>b DEF SomeFailed
  <2>1. ~parallel /\ \A d \in ToolReports : reports[d].at # "read"
    BY <1>7, <1>b, <2>a
  <2>2. guardrail = streak
    BY <2>1, <2>a DEF OneAfterTheOther
  <2>3. streak' = Counted(guardrail, t)
    BY <1>2, <2>2 DEF Counted
  <2>4. ASSUME NEW d \in ToolReports, reports'[d].at = "read" PROVE d = c
    BY <1>7, <2>1, <2>4
  <2>5. \A d \in ToolReports : reports'[d].at = "done" => d # streak'.calls
    BY <1>1, <1>5, <1>7
  <2> QED
    BY <1>1, <1>2, <1>5, <1>7, <2>a, <2>3, <2>4, <2>5 DEF OneAfterTheOther, LastIsAnswered
<1> QED
  BY <1>8, <1>9, <1>11, <1>12

LEMMA WriteGuardrailStep ==
  ASSUME GuardrailInv, NEW c \in ToolReports, WriteGuardrail(c)
  PROVE  GuardrailInv'
<1> USE GuardrailAssumption DEF GuardrailInv, ToolReports
<1> DEFINE seen == reports[c].seen
           tool == reports[c].tool
<1>1. /\ reports[c].at = "read"
      /\ guardrail' = Counted(seen, tool)
      /\ reports' = [reports EXCEPT ![c].at = "done"]
      /\ answers' = [answers EXCEPT ![c] = Verdicts(guardrail')]
      /\ called' = called /\ streak' = streak /\ parallel' = parallel
  BY DEF WriteGuardrail
<1>2. /\ guardrail \in RowType /\ streak \in RowType /\ seen \in RowType
      /\ reports \in [ToolReports -> [at : {"idle", "read", "done", "failed"},
                                      tool : ToolNames \union {NoTool}, seen : RowType]]
      /\ called \in [ToolNames -> 0 .. MaxToolCalls]
      /\ answers \in [ToolReports -> {"none", "allow", "block"}]
  BY DEF GuardrailTypeOK
<1>3. /\ tool \in ToolNames /\ seen.repeated <= seen.calls /\ seen.calls <= streak.calls - 1
      /\ Counted(seen, tool).repeated <= called[tool]
  BY <1>1 DEF CountsWithin, RowWithin
<1>4. /\ seen.calls \in Nat /\ seen.repeated \in Nat /\ streak.calls \in 0 .. MaxToolCalls
  BY <1>2 DEF RowType
<1>5. /\ guardrail'.calls = seen.calls + 1 /\ guardrail'.last = tool
      /\ guardrail'.repeated = IF tool = seen.last THEN seen.repeated + 1 ELSE 1
      /\ guardrail' \in RowType
      /\ RowWithin(guardrail', streak.calls)
  BY <1>1, <1>3, <1>4 DEF Counted, GuardrailRow, RowType, RowWithin
<1>6. /\ reports'[c] = [reports[c] EXCEPT !.at = "done"]
      /\ reports'[c].at = "done"
      /\ \A d \in ToolReports \ {c} : reports'[d] = reports[d]
      /\ reports' \in [ToolReports -> [at : {"idle", "read", "done", "failed"},
                                       tool : ToolNames \union {NoTool}, seen : RowType]]
  BY <1>1, <1>2
<1>7. GuardrailTypeOK'
  BY <1>1, <1>2, <1>5, <1>6 DEF GuardrailTypeOK, Verdicts
<1>8. ReportsOrdered'
  BY <1>1, <1>6 DEF ReportsOrdered, NoReport, Report
<1>9. CountsWithin'
  BY <1>1, <1>3, <1>5, <1>6 DEF CountsWithin, Counted, GuardrailRow
<1>10. ~parallel' /\ ~SomeFailed' => OneAfterTheOther'
  <2> SUFFICES ASSUME ~parallel', ~SomeFailed' PROVE OneAfterTheOther'
    OBVIOUS
  <2>a. OneAfterTheOther
    BY <1>1, <1>6 DEF SomeFailed
  <2>1. c = streak.calls /\ seen = guardrail /\ streak = Counted(guardrail, tool)
    BY <1>1, <2>a DEF OneAfterTheOther
  <2>2. guardrail' = streak'
    BY <1>1, <2>1
  <2>3. \A d \in ToolReports : reports'[d].at # "read"
    BY <1>1, <1>6, <2>a, <2>1 DEF OneAfterTheOther
  <2>4. answers'[c] = Verdicts(streak')
    BY <1>1, <1>2, <2>2
  <2>5. \A d \in ToolReports : d = streak'.calls => d = c
    BY <1>1, <2>1
  <2> QED
    BY <2>2, <2>3, <2>4, <2>5 DEF OneAfterTheOther, LastIsAnswered
<1> QED
  BY <1>7, <1>8, <1>9, <1>10

LEMMA WriteFailsStep ==
  ASSUME GuardrailInv, NEW c \in ToolReports, InsertFails(c) \/ WriteFails(c)
  PROVE  GuardrailInv'
<1> USE GuardrailAssumption DEF GuardrailInv, ToolReports
<1>1. /\ reports[c].at = "read"
      /\ reports' = [reports EXCEPT ![c].at = "failed"]
      /\ UNCHANGED <<guardrail, answers, called, streak, parallel>>
  BY DEF InsertFails, WriteFails
<1>2. reports \in [ToolReports -> [at : {"idle", "read", "done", "failed"},
                                   tool : ToolNames \union {NoTool}, seen : RowType]]
  BY DEF GuardrailTypeOK
<1>3. /\ reports'[c] = [reports[c] EXCEPT !.at = "failed"]
      /\ reports'[c].at = "failed"
      /\ \A d \in ToolReports \ {c} : reports'[d] = reports[d]
      /\ reports' \in [ToolReports -> [at : {"idle", "read", "done", "failed"},
                                       tool : ToolNames \union {NoTool}, seen : RowType]]
  BY <1>1, <1>2
<1>4. GuardrailTypeOK'
  BY <1>1, <1>3 DEF GuardrailTypeOK
<1>5. ReportsOrdered'
  BY <1>1, <1>3 DEF ReportsOrdered, NoReport, Report
<1>6. CountsWithin'
  BY <1>1, <1>3 DEF CountsWithin
<1>7. SomeFailed'
  BY <1>3 DEF SomeFailed
<1> QED
  BY <1>4, <1>5, <1>6, <1>7

LEMMA GuardrailInvStep == GuardrailInv /\ [GuardrailNext]_guardrailVars => GuardrailInv'
<1>1. GuardrailInv /\ UNCHANGED guardrailVars => GuardrailInv'
  BY DEF guardrailVars, GuardrailInv, GuardrailTypeOK, ReportsOrdered, CountsWithin,
         SomeFailed, OneAfterTheOther, LastIsAnswered
<1> QED
  BY <1>1, SelectGuardrailStep, WriteGuardrailStep, WriteFailsStep DEF GuardrailNext

\* However many reports overlap, no tool has a higher count than calls; reports that do
\* not overlap and do not fail are counted exactly and blocked exactly at the two limits
\* (db/swarm.go:1068-1100, api/routes_swarm.go:780-799).
THEOREM GuardrailsCountHolds == GuardrailSpec => []GuardrailsCount
<1>1. GuardrailInv => GuardrailsCount
  <2>0. GuardrailInv => NeverOvercounted
    BY DEF GuardrailInv, GuardrailTypeOK, RowType, CountsWithin, NeverOvercounted
  <2> SUFFICES ASSUME GuardrailInv PROVE LoopsAreBlocked
    BY <2>0 DEF GuardrailsCount
  <2> SUFFICES ASSUME ~parallel, ~SomeFailed, NEW c \in ToolReports, reports[c].at = "done",
                      \A d \in ToolReports : d > c => reports[d] = NoReport
               PROVE  /\ guardrail = streak
                      /\ (answers[c] = "block") <=>
                           (streak.repeated >= RepetitionBlock \/ streak.calls >= ToolCallCeiling)
    BY DEF LoopsAreBlocked
  <2>1. streak.calls \in 0 .. MaxToolCalls
    BY DEF GuardrailInv, GuardrailTypeOK, RowType
  <2>2. reports[c] # NoReport
    BY DEF NoReport, Report
  <2>3. c = streak.calls
    BY <2>1, <2>2, GuardrailAssumption DEF GuardrailInv, ReportsOrdered, ToolReports
  <2>4. \A d \in ToolReports : reports[d].at # "read"
    BY <2>3 DEF GuardrailInv, OneAfterTheOther
  <2>5. guardrail = streak /\ answers[c] = Verdicts(streak)
    BY <2>3, <2>4 DEF GuardrailInv, OneAfterTheOther, LastIsAnswered
  <2> QED
    BY <2>5 DEF Verdicts
<1> QED
  BY <1>1, GuardrailInvInit, GuardrailInvStep, PTL DEF GuardrailSpec

-----------------------------------------------------------------------------
(* Terminals. A pty that is open is the one its connection types into, so a *)
(* connection has one; and an id leads to the last session that was entered *)
(* under it or nowhere, and nowhere only if that one is gone or an older    *)
(* one that was not yet gone when it was entered.                           *)

ConnType == [at : {"serving", "creating", "closed"}, left : BOOLEAN, cancelled : BOOLEAN,
             active : Sessions \union {NoShell}, wants : TermIds \union {"none"}]
ShellType == [proc : {"none", "running", "exited", "gone"},
              ptmx : {"none", "open", "closed"}, reads : BOOLEAN,
              id : TermIds \union {"none"}, conn : TermConns \union {"none"},
              rivals : SUBSET Sessions]

CreatingIsDetached ==
  \A c \in TermConns :
    conns[c].at = "creating" => conns[c].active = NoShell /\ conns[c].wants \in TermIds

OpenIsActive ==
  \A s \in Sessions : shells[s].ptmx = "open" =>
    shells[s].conn \in TermConns /\ conns[shells[s].conn].active = s

StartedHasId ==
  \A s \in Sessions :
    /\ shells[s].proc # "none" => shells[s].id \in TermIds
    /\ shells[s].reads => shells[s].conn \in TermConns

StartedInOrder ==
  /\ \A s \in Sessions : shells[s].proc = "none" => shells[s] = NoSession
  /\ \A s, t \in Sessions : s < t /\ shells[t].proc # "none" => shells[s].proc # "none"
  /\ \A c \in TermConns : conns[c].active \in Sessions => shells[conns[c].active].proc # "none"

\* Of the sessions of an id that were started, s is the last, and no rival is gone.
Newest(s) ==
  /\ shells[s].proc = "running"
  /\ \A t \in Sessions :
       t # s /\ shells[t].proc # "none" /\ shells[t].id = shells[s].id => t < s
  /\ \A t \in shells[s].rivals : shells[t].proc # "gone"

\* An older session whose watcher is still to come is among the rivals.
RivalsKnown ==
  \A s, t \in Sessions :
    /\ shells[s].proc # "none" /\ t < s
    /\ shells[t].id = shells[s].id /\ shells[t].proc # "gone"
    => t \in shells[s].rivals

LeadsToLast ==
  \A i \in TermIds, s \in Sessions :
    byId[i] # NoShell /\ shells[s].proc # "none" /\ shells[s].id = i => s <= byId[i]

TermInv ==
  /\ TermTypeOK
  /\ CreatingIsDetached /\ OpenIsActive /\ StartedHasId /\ StartedInOrder
  /\ RivalsKnown /\ LeadsToLast
  /\ \A s \in Sessions : Newest(s) => byId[shells[s].id] = s

LEMMA TermInvInit == TermInit => TermInv
<1> SUFFICES ASSUME TermInit PROVE TermInv
  OBVIOUS
<1>1. [at |-> "serving", left |-> FALSE, cancelled |-> FALSE, active |-> NoShell,
       wants |-> "none"] \in ConnType
  BY DEF ConnType
<1>2. NoSession \in ShellType
  BY DEF NoSession, ShellType
<1>3. TermTypeOK
  BY <1>1, <1>2 DEF TermInit, TermTypeOK, ConnType, ShellType
<1>4. \A s \in Sessions : shells[s].proc = "none" /\ shells[s].ptmx = "none" /\ ~shells[s].reads
  BY DEF TermInit, NoSession
<1>5. \A c \in TermConns : conns[c].at = "serving" /\ conns[c].active \notin Sessions
  <2>1. NoShell \notin Sessions
    BY TerminalAssumption DEF NoShell, Sessions
  <2>2. \A c \in TermConns : conns[c].at = "serving" /\ conns[c].active = NoShell
    BY DEF TermInit
  <2> QED
    BY <2>1, <2>2
<1>6. StartedInOrder
  BY <1>4, <1>5 DEF StartedInOrder, TermInit
<1> QED
  BY <1>3, <1>4, <1>5, <1>6
  DEF TermInv, CreatingIsDetached, OpenIsActive, StartedHasId, RivalsKnown, LeadsToLast, Newest

\* Sessions keep their ids and rivals, who is gone stays gone, and ids are forgotten at most.
LEMMA RivalsStay ==
  ASSUME RivalsKnown, LeadsToLast,
         \A s \in Sessions :
           /\ shells'[s].id = shells[s].id /\ shells'[s].rivals = shells[s].rivals
           /\ shells[s].proc = "none" <=> shells'[s].proc = "none"
           /\ shells[s].proc = "gone" => shells'[s].proc = "gone",
         \A i \in TermIds : byId'[i] \in {byId[i], NoShell}
  PROVE  RivalsKnown' /\ LeadsToLast'
<1>1. RivalsKnown'
  BY DEF RivalsKnown
<1>2. LeadsToLast'
  <2> SUFFICES ASSUME NEW i \in TermIds, NEW s \in Sessions,
                      byId'[i] # NoShell, shells'[s].proc # "none", shells'[s].id = i
               PROVE  s <= byId'[i]
    BY DEF LeadsToLast
  <2> QED
    BY DEF LeadsToLast
<1> QED
  BY <1>1, <1>2

LEMMA NewestBefore ==
  ASSUME shells \in [Sessions -> ShellType],
         \A s \in Sessions :
           /\ shells'[s].id = shells[s].id /\ shells'[s].rivals = shells[s].rivals
           /\ shells[s].proc = "none" <=> shells'[s].proc = "none"
           /\ shells[s].proc = "gone" => shells'[s].proc = "gone"
           /\ shells'[s].proc = "running" => shells[s].proc = "running",
         NEW t \in Sessions, Newest(t)'
  PROVE  Newest(t)
<1>1. shells[t].rivals \subseteq Sessions
  BY DEF ShellType
<1>2. shells[t].proc = "running"
  BY DEF Newest
<1>3. \A u \in Sessions :
        u # t /\ shells[u].proc # "none" /\ shells[u].id = shells[t].id => u < t
  BY DEF Newest
<1>4. \A u \in shells[t].rivals : shells[u].proc # "gone"
  BY <1>1 DEF Newest
<1> QED
  BY <1>2, <1>3, <1>4 DEF Newest

\* The session a connection leaves is closed, and the others are as they were.
LEMMA ClosedSessions ==
  ASSUME TermTypeOK, NEW c \in TermConns
  PROVE  /\ Closed(c) \in [Sessions -> ShellType]
         /\ \A s \in Sessions :
              /\ Closed(c)[s].id = shells[s].id /\ Closed(c)[s].conn = shells[s].conn
              /\ Closed(c)[s].rivals = shells[s].rivals
              /\ Closed(c)[s].reads = shells[s].reads
              /\ Closed(c)[s].proc # shells[s].proc =>
                   shells[s].proc = "running" /\ Closed(c)[s].proc = "exited"
              /\ Closed(c)[s].ptmx = "open" =>
                   shells[s].ptmx = "open" /\ s # conns[c].active
<1> SUFFICES ASSUME NEW s \in Sessions
             PROVE  /\ Closed(c)[s] \in ShellType
                    /\ Closed(c)[s].id = shells[s].id /\ Closed(c)[s].conn = shells[s].conn
                    /\ Closed(c)[s].rivals = shells[s].rivals
                    /\ Closed(c)[s].reads = shells[s].reads
                    /\ Closed(c)[s].proc # shells[s].proc =>
                         shells[s].proc = "running" /\ Closed(c)[s].proc = "exited"
                    /\ Closed(c)[s].ptmx = "open" =>
                         shells[s].ptmx = "open" /\ s # conns[c].active
  BY DEF Closed
<1>1. shells[s] \in ShellType
  BY DEF TermTypeOK, ShellType
<1>2. CASE s # conns[c].active
  BY <1>1, <1>2 DEF Closed
<1>3. CASE s = conns[c].active
  <2> DEFINE proc == IF shells[s].proc = "running" THEN "exited" ELSE shells[s].proc
  <2>1. Closed(c)[s] = [shells[s] EXCEPT !.proc = proc, !.ptmx = "closed"]
    BY <1>3 DEF Closed
  <2>2. proc \in {"none", "running", "exited", "gone"}
    BY <1>1 DEF ShellType
  <2>3. proc # shells[s].proc => shells[s].proc = "running" /\ proc = "exited"
    OBVIOUS
  <2> HIDE DEF proc
  <2> QED
    BY <1>1, <2>1, <2>2, <2>3 DEF ShellType
<1> QED
  BY <1>2, <1>3

LEMMA TermInvStep == TermInv /\ [TermNext]_termVars => TermInv'
<1> SUFFICES ASSUME TermInv, [TermNext]_termVars PROVE TermInv'
  OBVIOUS
<1>0. /\ conns \in [TermConns -> ConnType] /\ shells \in [Sessions -> ShellType]
      /\ byId \in [TermIds -> Sessions \union {NoShell}]
      /\ TermTypeOK
  BY DEF TermInv, TermTypeOK, ConnType, ShellType
<1> DEFINE Typed == /\ conns \in [TermConns -> ConnType] /\ shells \in [Sessions -> ShellType]
                    /\ byId \in [TermIds -> Sessions \union {NoShell}]
           Found == \A s \in Sessions : Newest(s) => byId[shells[s].id] = s
<1>t. Typed' => TermTypeOK'
  BY DEF TermTypeOK, ConnType, ShellType
<1>i. /\ CreatingIsDetached /\ OpenIsActive /\ StartedHasId /\ StartedInOrder /\ Found
      /\ RivalsKnown /\ LeadsToLast
  BY DEF TermInv
<1>1. ASSUME NEW c \in TermConns, NEW i \in TermIds, CreateCloses(c, i) PROVE TermInv'
  <2>1. /\ shells' = Closed(c) /\ byId' = byId
        /\ conns' = [conns EXCEPT ![c].at = "creating", ![c].active = NoShell, ![c].wants = i]
    BY <1>1 DEF CreateCloses
  <2>2. /\ conns'[c].at = "creating" /\ conns'[c].active = NoShell /\ conns'[c].wants = i
        /\ \A d \in TermConns \ {c} : conns'[d] = conns[d]
        /\ conns' \in [TermConns -> ConnType]
    <3> DEFINE rec == [conns[c] EXCEPT !.at = "creating", !.active = NoShell, !.wants = i]
    <3>1. conns' = [conns EXCEPT ![c] = rec]
      BY <2>1
    <3>2. /\ rec \in ConnType /\ rec.at = "creating" /\ rec.active = NoShell
          /\ rec.wants = i
      BY <1>0 DEF ConnType
    <3> HIDE DEF rec
    <3> QED
      BY <1>0, <3>1, <3>2
  <2>3. Typed'
    BY <1>0, <2>1, <2>2, ClosedSessions
  <2>4. CreatingIsDetached'
    BY <1>i, <2>2 DEF CreatingIsDetached
  <2>5. OpenIsActive'
    BY <1>0, <1>i, <2>1, <2>2, ClosedSessions DEF OpenIsActive
  <2>6. StartedHasId'
    BY <1>0, <1>i, <2>1, ClosedSessions DEF StartedHasId
  <2>7. \A s \in Sessions : Newest(s)' => Newest(s)
    BY <1>0, <2>1, ClosedSessions, NewestBefore
  <2>8. Found'
    BY <1>0, <1>i, <2>1, <2>7, ClosedSessions
  <2>10. RivalsKnown' /\ LeadsToLast'
    BY <1>0, <1>i, <2>1, ClosedSessions, RivalsStay
  <2>9. StartedInOrder'
    <3>1. NoShell \notin Sessions
      BY TerminalAssumption DEF NoShell, Sessions
    <3>2. \A s \in Sessions : shells'[s].proc = "none" <=> shells[s].proc = "none"
      BY <2>1, ClosedSessions, <1>0
    <3>3. \A s \in Sessions : s # conns[c].active => shells'[s] = shells[s]
      BY <2>1 DEF Closed
    <3>4. conns[c].active \in Sessions => shells[conns[c].active].proc # "none"
      BY <1>i DEF StartedInOrder
    <3> QED
      BY <1>i, <2>2, <3>1, <3>2, <3>3, <3>4 DEF StartedInOrder
  <2> QED
    BY <1>t, <2>3, <2>4, <2>5, <2>6, <2>8, <2>9, <2>10 DEF TermInv
<1>2. ASSUME NEW c \in TermConns, NEW s \in Sessions, CreateEnters(c, s) PROVE TermInv'
  <2> DEFINE i == conns[c].wants
  <2>1. /\ conns[c].at = "creating" /\ shells[s] = NoSession
        /\ shells' = [shells EXCEPT ![s] = [proc |-> "running", ptmx |-> "open", id |-> i,
                                            reads |-> TRUE, conn |-> c,
                                            rivals |-> Rivals(i)]]
        /\ byId' = [byId EXCEPT ![i] = s]
        /\ conns' = [conns EXCEPT ![c].at = "serving", ![c].active = s, ![c].wants = "none"]
    BY <1>2 DEF CreateEnters, Unused, Entered
  <2>2. i \in TermIds /\ conns[c].active = NoShell
    BY <1>i, <2>1 DEF CreatingIsDetached
  <2>3. /\ conns'[c].at = "serving" /\ conns'[c].active = s
        /\ \A d \in TermConns \ {c} : conns'[d] = conns[d]
        /\ conns' \in [TermConns -> ConnType]
    <3> DEFINE rec == [conns[c] EXCEPT !.at = "serving", !.active = s, !.wants = "none"]
    <3>1. conns' = [conns EXCEPT ![c] = rec]
      BY <2>1
    <3>2. rec \in ConnType /\ rec.at = "serving" /\ rec.active = s
      BY <1>0 DEF ConnType
    <3> HIDE DEF rec
    <3> QED
      BY <1>0, <3>1, <3>2
  <2>4. /\ shells'[s].proc = "running" /\ shells'[s].id = i /\ shells'[s].conn = c
        /\ shells'[s].rivals = Rivals(i)
        /\ shells'[s] \in ShellType
        /\ \A t \in Sessions \ {s} : shells'[t] = shells[t]
        /\ shells' \in [Sessions -> ShellType]
    BY <1>0, <2>1, <2>2 DEF ShellType, Rivals
  <2>5. Typed'
    BY <1>0, <2>1, <2>3, <2>4
  <2>6. CreatingIsDetached'
    BY <1>i, <2>3 DEF CreatingIsDetached
  <2>7. \A t \in Sessions : shells[t].ptmx = "open" => shells[t].conn # c
    BY <1>i, <2>2 DEF OpenIsActive, Sessions, NoShell
  <2>8. OpenIsActive'
    BY <1>i, <2>3, <2>4, <2>7 DEF OpenIsActive
  <2>9. StartedHasId'
    BY <1>i, <2>2, <2>4 DEF StartedHasId
  <2>10. ASSUME NEW t \in Sessions, Newest(t)' PROVE byId'[shells'[t].id] = t
    <3>1. CASE t = s
      BY <1>0, <2>1, <2>2, <2>4, <3>1
    <3>2. CASE t # s
      <4>1. shells'[t] = shells[t] /\ shells[t].proc = "running"
        BY <2>4, <2>10, <3>2 DEF Newest
      <4>2. CASE shells[t].id = i
        <5>1. s < t
          BY <2>4, <2>10, <3>2, <4>1, <4>2 DEF Newest
        <5>2. shells[s].proc = "none"
          BY <2>1 DEF NoSession
        <5> QED
          BY <1>i, <4>1, <5>1, <5>2 DEF StartedInOrder
      <4>3. CASE shells[t].id # i
        <5>1. Newest(t)
          BY <2>1, <2>4, <2>10, <3>2, <4>1, <4>3 DEF Newest, NoSession
        <5> QED
          BY <1>0, <1>i, <2>1, <4>1, <4>3, <5>1 DEF StartedHasId
      <4> QED
        BY <4>2, <4>3
    <3> QED
      BY <3>1, <3>2
  <2>11. StartedInOrder'
    <3>1. \A t \in Sessions : t < s => shells[t].proc # "none"
      <4>1. \A t \in Sessions : t < s => t \in 1 .. s - 1
        BY TerminalAssumption DEF Sessions
      <4> QED
        BY <1>i, <1>2, <4>1 DEF CreateEnters, Unused, StartedInOrder
    <3>2. \A t \in Sessions : shells'[t].proc = "none" => t # s /\ shells[t].proc = "none"
      BY <2>4
    <3>3. \A d \in TermConns : conns'[d].active \in Sessions =>
                              shells'[conns'[d].active].proc # "none"
      BY <1>i, <2>3, <2>4 DEF StartedInOrder
    <3> QED
      BY <1>i, <2>4, <3>1, <3>2, <3>3 DEF StartedInOrder
  <2>12. \A t \in Sessions : shells[t].proc # "none" => t < s
    <3> SUFFICES ASSUME NEW t \in Sessions, shells[t].proc # "none" PROVE t < s
      OBVIOUS
    <3>1. shells[s].proc = "none"
      BY <2>1 DEF NoSession
    <3>2. ~(s < t)
      BY <1>i, <3>1 DEF StartedInOrder
    <3>3. t # s
      BY <3>1
    <3> QED
      BY <3>2, <3>3, TerminalAssumption DEF Sessions
  <2>13. RivalsKnown'
    <3> SUFFICES ASSUME NEW u \in Sessions, NEW t \in Sessions, shells'[u].proc # "none", t < u,
                        shells'[t].id = shells'[u].id, shells'[t].proc # "gone"
                 PROVE  t \in shells'[u].rivals
      BY DEF RivalsKnown
    <3>1. CASE u = s
      <4>1. t # s
        BY <3>1, TerminalAssumption DEF Sessions
      <4> QED
        BY <2>4, <3>1, <4>1 DEF Rivals
    <3>2. CASE u # s
      <4>1. u < s /\ t # s
        BY <2>4, <2>12, <3>2, TerminalAssumption DEF Sessions
      <4> QED
        BY <1>i, <2>4, <3>2, <4>1 DEF RivalsKnown
    <3> QED
      BY <3>1, <3>2
  <2>14. LeadsToLast'
    <3> SUFFICES ASSUME NEW j \in TermIds, NEW t \in Sessions, byId'[j] # NoShell,
                        shells'[t].proc # "none", shells'[t].id = j
                 PROVE  t <= byId'[j]
      BY DEF LeadsToLast
    <3>1. CASE j = i
      <4>1. byId'[j] = s /\ (t = s \/ t < s)
        BY <1>0, <2>1, <2>2, <2>4, <2>12, <3>1
      <4> QED
        BY <4>1, TerminalAssumption DEF Sessions
    <3>2. CASE j # i
      <4>1. byId'[j] = byId[j] /\ t # s /\ shells'[t] = shells[t]
        BY <1>0, <2>1, <2>4, <3>2
      <4> QED
        BY <1>i, <4>1 DEF LeadsToLast
    <3> QED
      BY <3>1, <3>2
  <2> QED
    BY <1>t, <2>5, <2>6, <2>8, <2>9, <2>10, <2>11, <2>13, <2>14 DEF TermInv
<1>3. ASSUME NEW c \in TermConns, CreateFails(c) \/ ClientLeaves(c) \/ ServeReturns(c)
      PROVE  TermInv'
  <2>1. shells' = shells /\ byId' = byId
    BY <1>3 DEF CreateFails, ClientLeaves, ServeReturns
  <2>2. conns' \in [TermConns -> ConnType]
    <3>1. CASE CreateFails(c)
      BY <1>0, <3>1 DEF CreateFails, ConnType
    <3>2. CASE ClientLeaves(c)
      BY <1>0, <3>2 DEF ClientLeaves, ConnType
    <3>3. CASE ServeReturns(c)
      BY <1>0, <3>3 DEF ServeReturns, ConnType
    <3> QED
      BY <1>3, <3>1, <3>2, <3>3
  <2>3. \A d \in TermConns :
          /\ conns'[d].active = conns[d].active
          /\ conns'[d].at = "creating" => conns'[d].wants = conns[d].wants
                                          /\ conns[d].at = "creating"
    <3>1. CASE CreateFails(c)
      BY <1>0, <3>1 DEF CreateFails, ConnType
    <3>2. CASE ClientLeaves(c)
      BY <1>0, <3>2 DEF ClientLeaves, ConnType
    <3>3. CASE ServeReturns(c)
      BY <1>0, <3>3 DEF ServeReturns, ConnType
    <3> QED
      BY <1>3, <3>1, <3>2, <3>3
  <2>4. Typed' /\ CreatingIsDetached'
    BY <1>0, <1>i, <2>1, <2>2, <2>3 DEF CreatingIsDetached
  <2>5. OpenIsActive'
    BY <1>i, <2>1, <2>3 DEF OpenIsActive
  <2>6. StartedHasId' /\ StartedInOrder'
    BY <1>i, <2>1, <2>3 DEF StartedHasId, StartedInOrder
  <2>7. Found'
    BY <1>i, <2>1 DEF Newest
  <2>8. RivalsKnown' /\ LeadsToLast'
    BY <1>i, <2>1, RivalsStay
  <2> QED
    BY <1>t, <2>4, <2>5, <2>6, <2>7, <2>8 DEF TermInv
<1>4. ASSUME NEW s \in Sessions, ShellExits(s) PROVE TermInv'
  <2>1. /\ shells[s].proc = "running" /\ conns' = conns /\ byId' = byId
        /\ shells' = [shells EXCEPT ![s].proc = "exited"]
    BY <1>4 DEF ShellExits
  <2>2. /\ shells'[s] = [shells[s] EXCEPT !.proc = "exited"] /\ shells[s] \in ShellType
        /\ shells'[s].proc = "exited" /\ shells'[s].id = shells[s].id
        /\ shells'[s].conn = shells[s].conn /\ shells'[s].reads = shells[s].reads
        /\ shells'[s].ptmx = shells[s].ptmx /\ shells'[s].rivals = shells[s].rivals
        /\ \A t \in Sessions \ {s} : shells'[t] = shells[t]
        /\ shells' \in [Sessions -> ShellType]
    BY <1>0, <2>1 DEF ShellType
  <2>3. CreatingIsDetached' /\ OpenIsActive' /\ StartedHasId'
    BY <1>i, <2>1, <2>2 DEF CreatingIsDetached, OpenIsActive, StartedHasId
  <2>4. \A t \in Sessions : Newest(t)' => Newest(t)
    BY <2>1, <2>2 DEF Newest
  <2>5. StartedInOrder'
    BY <1>i, <2>1, <2>2 DEF StartedInOrder
  <2>6. Typed' /\ Found'
    BY <1>0, <1>i, <2>1, <2>2, <2>4
  <2>7. RivalsKnown' /\ LeadsToLast'
    BY <1>0, <1>i, <2>1, <2>2, RivalsStay
  <2> QED
    BY <1>t, <2>3, <2>5, <2>6, <2>7 DEF TermInv
<1>5. ASSUME NEW s \in Sessions, WatcherForgets(s) PROVE TermInv'
  <2>1. /\ shells[s].proc = "exited" /\ conns' = conns
        /\ byId' = [byId EXCEPT ![shells[s].id] = NoShell]
        /\ shells' = [shells EXCEPT ![s].proc = "gone"]
    BY <1>5 DEF WatcherForgets, Forgotten
  <2>2. /\ shells'[s].proc = "gone" /\ shells'[s].id = shells[s].id
        /\ shells'[s].conn = shells[s].conn /\ shells'[s].reads = shells[s].reads
        /\ shells'[s].ptmx = shells[s].ptmx /\ shells'[s].rivals = shells[s].rivals
        /\ \A t \in Sessions \ {s} : shells'[t] = shells[t]
        /\ shells' \in [Sessions -> ShellType]
    BY <1>0, <2>1 DEF ShellType
  <2>3. CreatingIsDetached' /\ OpenIsActive' /\ StartedHasId'
    BY <1>i, <2>1, <2>2 DEF CreatingIsDetached, OpenIsActive, StartedHasId
  <2>4. ASSUME NEW t \in Sessions, Newest(t)'
        PROVE  Newest(t) /\ shells[t].id # shells[s].id /\ t # s
    <3>1. t # s /\ shells'[t] = shells[t] /\ Newest(t)
      BY <1>0, <2>1, <2>2, <2>4 DEF Newest, ShellType
    <3>2. s \notin shells[t].rivals
      BY <2>2, <2>4, <3>1 DEF Newest
    <3>3. shells[t].id = shells[s].id => s < t
      BY <2>1, <3>1 DEF Newest
    <3> QED
      BY <1>i, <2>1, <3>1, <3>2, <3>3 DEF RivalsKnown, Newest
  <2>5. byId' \in [TermIds -> Sessions \union {NoShell}]
    BY <1>0, <2>1
  <2>6. Found'
    BY <1>0, <1>i, <2>1, <2>2, <2>4
  <2>7. StartedInOrder'
    BY <1>i, <2>1, <2>2 DEF StartedInOrder
  <2>8. Typed'
    BY <1>0, <2>1, <2>2, <2>5
  <2>9. RivalsKnown' /\ LeadsToLast'
    <3>1. \A i \in TermIds : byId'[i] \in {byId[i], NoShell}
      BY <1>0, <2>1
    <3> QED
      BY <1>0, <1>i, <2>1, <2>2, <3>1, RivalsStay
  <2> QED
    BY <1>t, <2>3, <2>6, <2>7, <2>8, <2>9 DEF TermInv
<1>6. ASSUME NEW s \in Sessions, ReaderEnds(s) PROVE TermInv'
  <2>1. /\ shells[s].reads /\ byId' = byId
        /\ shells' = [shells EXCEPT ![s].reads = FALSE]
        /\ conns' = [conns EXCEPT ![shells[s].conn].cancelled = TRUE]
    BY <1>6 DEF ReaderEnds
  <2>2. /\ shells'[s].proc = shells[s].proc /\ shells'[s].id = shells[s].id
        /\ shells'[s].conn = shells[s].conn /\ shells'[s].ptmx = shells[s].ptmx
        /\ ~shells'[s].reads /\ shells'[s].rivals = shells[s].rivals
        /\ \A t \in Sessions \ {s} : shells'[t] = shells[t]
        /\ shells' \in [Sessions -> ShellType]
    BY <1>0, <2>1 DEF ShellType
  <2>3. conns' \in [TermConns -> ConnType]
        /\ \A c \in TermConns : /\ conns'[c].active = conns[c].active
                                /\ conns'[c].at = conns[c].at /\ conns'[c].wants = conns[c].wants
    <3>1. shells[s].conn \in TermConns
      BY <1>i, <2>1 DEF StartedHasId
    <3> DEFINE k == shells[s].conn
    <3>2. conns[k] \in ConnType
      BY <1>0, <3>1
    <3>3. [conns[k] EXCEPT !.cancelled = TRUE] \in ConnType
      BY <3>2 DEF ConnType
    <3>4. conns' = [conns EXCEPT ![k] = [conns[k] EXCEPT !.cancelled = TRUE]]
      BY <2>1
    <3> HIDE DEF k
    <3>5. conns' \in [TermConns -> ConnType]
      BY <1>0, <3>3, <3>4
    <3>6. ASSUME NEW c \in TermConns
          PROVE  /\ conns'[c].active = conns[c].active
                 /\ conns'[c].at = conns[c].at /\ conns'[c].wants = conns[c].wants
      <4>1. conns[c] \in ConnType
        BY <1>0
      <4>2. CASE c = k
        BY <1>0, <3>4, <4>1, <4>2 DEF ConnType
      <4>3. CASE c # k
        BY <1>0, <3>4, <4>3
      <4> QED
        BY <4>2, <4>3
    <3> QED
      BY <3>5, <3>6
  <2>4. CreatingIsDetached' /\ OpenIsActive' /\ StartedHasId'
    BY <1>i, <2>2, <2>3 DEF CreatingIsDetached, OpenIsActive, StartedHasId
  <2>5. \A t \in Sessions : Newest(t)' => Newest(t)
    BY <1>0, <2>2, NewestBefore
  <2>6. Found'
    BY <1>i, <2>1, <2>2, <2>5
  <2>7. StartedInOrder'
    <3>1. shells[s].proc # "none"
      BY <1>i, <2>1 DEF StartedInOrder, NoSession
    <3>2. \A t \in Sessions : shells'[t].proc = shells[t].proc /\
                              (shells[t].proc = "none" => shells'[t] = shells[t])
      BY <2>2, <3>1
    <3> QED
      BY <1>i, <2>3, <3>2 DEF StartedInOrder
  <2>8. Typed'
    BY <1>0, <2>1, <2>2, <2>3
  <2>9. RivalsKnown' /\ LeadsToLast'
    BY <1>i, <2>1, <2>2, RivalsStay
  <2> QED
    BY <1>t, <2>4, <2>6, <2>7, <2>8, <2>9 DEF TermInv
<1>7. CASE UNCHANGED termVars
  BY <1>7 DEF termVars, TermInv, TermTypeOK, CreatingIsDetached, OpenIsActive, StartedHasId,
              StartedInOrder, RivalsKnown, LeadsToLast, Newest
<1> QED
  BY <1>1, <1>2, <1>3, <1>4, <1>5, <1>6, <1>7 DEF TermNext

\* For any number of connections and sessions, a connection has one open pty at most, and
\* the newest session of an id is found or none, and none only if the watcher of a rival
\* of it was late (terminal/ws_terminal.go:89-99, terminal/pty.go:55-66).
THEOREM TerminalsKeptHolds == TermSpec => []TerminalsKept
<1>1. TermInv => TerminalsKept
  BY DEF TermInv, TerminalsKept, OnePtyPerConnection, OpenIsActive, NewestIsFound, LeadsToLast,
         Newest
<1> QED
  BY <1>1, TermInvInit, TermInvStep, PTL DEF TermSpec

-----------------------------------------------------------------------------
(* Migrations. While one process at most has the database open, the step it *)
(* is at tells which tables there are; the old metrics are in the table that *)
(* is read, or in the new one while a process is about to rename it, or, if  *)
(* one ended there, in the new one that nobody comes back to.                *)

\* What the step of a process says about the tables.
TablesAt(step) ==
  /\ step \in {"columns", "create", "copy", "drop"} => metrics.exists
  /\ step \in {"copy", "drop", "rename"} => metricsNew.exists
  /\ step = "drop" => metrics.rows \subseteq metricsNew.rows
  /\ step = "rename" => ~metrics.exists
  /\ step = "schema" /\ metrics.exists => metrics.typed

NoRowsWithoutTable ==
  /\ ~metrics.exists => metrics.rows = {}
  /\ ~metricsNew.exists => metricsNew.rows = {}
  /\ metricsNew.exists => metricsNew.typed

\* Where the old metrics are.
MetricsStand ==
  IF cutOff
  THEN /\ metricsNew.exists /\ metricsNew.rows = MetricDays
       /\ metrics.rows = {} /\ (metrics.exists => metrics.typed)
       /\ \A o \in Openers : openers[o] \notin {"create", "copy", "drop", "rename"}
  ELSE /\ metrics.exists => metrics.rows = MetricDays
       /\ metrics.exists \/ \E o \in Openers : openers[o] = "rename"
       /\ \A o \in Openers : openers[o] = "rename" => metricsNew.rows = MetricDays

OneOpener == \A o, q \in Openers : openers[o] # "closed" /\ openers[q] # "closed" => o = q

MigrateInv ==
  /\ MigrateTypeOK
  /\ ~together =>
       /\ MetricsStand /\ NoRowsWithoutTable /\ OneOpener
       /\ \A o \in Openers : openers[o] # "failed" /\ TablesAt(openers[o])

LEMMA MigrateInvInit == MigrateInit => MigrateInv
<1> SUFFICES ASSUME MigrateInit PROVE MigrateInv
  OBVIOUS
<1> USE DEF MigrateInit, Table, NoTable
<1>1. MigrateTypeOK
  BY DEF MigrateTypeOK, TableType
<1>2. MetricsStand /\ NoRowsWithoutTable /\ OneOpener
  BY DEF MetricsStand, NoRowsWithoutTable, OneOpener
<1>3. \A o \in Openers : openers[o] # "failed" /\ TablesAt(openers[o])
  BY DEF TablesAt
<1> QED
  BY <1>1, <1>2, <1>3 DEF MigrateInv

\* Every step keeps to the types.
LEMMA MigrateTypeStep == MigrateTypeOK /\ [MigrateNext]_migrateVars => MigrateTypeOK'
<1> SUFFICES ASSUME MigrateTypeOK, [MigrateNext]_migrateVars PROVE MigrateTypeOK'
  OBVIOUS
<1> USE DEF MigrateTypeOK, TableType, Table, NoTable, Goes
<1>1. ASSUME NEW o \in Openers, OpenBegins(o) PROVE MigrateTypeOK'
  BY <1>1 DEF OpenBegins
<1>2. ASSUME NEW o \in Openers, CountTables(o) \/ ReadColumns(o) PROVE MigrateTypeOK'
  BY <1>2 DEF CountTables, ReadColumns
<1>3. ASSUME NEW o \in Openers, CreateNew(o) PROVE MigrateTypeOK'
  BY <1>3 DEF CreateNew
<1>4. ASSUME NEW o \in Openers, CopyRows(o) PROVE MigrateTypeOK'
  <2>1. Copied \in TableType
    BY DEF Copied
  <2> QED
    BY <1>4, <2>1 DEF CopyRows
<1>5. ASSUME NEW o \in Openers, DropOld(o) \/ RenameNew(o) PROVE MigrateTypeOK'
  <2>1. NoTable \in TableType
    BY DEF NoTable
  <2>2. CASE DropOld(o)
    BY <2>1, <2>2 DEF DropOld
  <2>3. CASE RenameNew(o)
    BY <2>1, <2>3 DEF RenameNew
  <2> QED
    BY <1>5, <2>2, <2>3
<1>6. ASSUME NEW o \in Openers, ApplySchema(o) PROVE MigrateTypeOK'
  BY <1>6 DEF ApplySchema
<1>7. ASSUME NEW o \in Openers, StatementFails(o) \/ ProcessEnds(o) PROVE MigrateTypeOK'
  BY <1>7 DEF StatementFails, ProcessEnds
<1>8. CASE UNCHANGED migrateVars
  BY <1>8 DEF migrateVars
<1> QED
  BY <1>1, <1>2, <1>3, <1>4, <1>5, <1>6, <1>7, <1>8 DEF MigrateNext

LEMMA MigrateInvStep == MigrateInv /\ [MigrateNext]_migrateVars => MigrateInv'
<1> SUFFICES ASSUME MigrateInv, [MigrateNext]_migrateVars, ~together' PROVE MigrateInv'
  BY MigrateTypeStep DEF MigrateInv
<1>0. MigrateTypeOK'
  BY MigrateTypeStep DEF MigrateInv
<1>a. ~together /\ MigrateTypeOK
  BY DEF MigrateInv, MigrateTypeOK, MigrateNext, OpenBegins, CountTables, ReadColumns,
         CreateNew, CopyRows, DropOld, RenameNew, ApplySchema, StatementFails, ProcessEnds,
         migrateVars
<1>b. /\ MetricsStand /\ NoRowsWithoutTable /\ OneOpener
      /\ \A o \in Openers : openers[o] # "failed" /\ TablesAt(openers[o])
  BY <1>a DEF MigrateInv
<1> DEFINE Good == /\ MetricsStand /\ NoRowsWithoutTable /\ OneOpener
                   /\ \A o \in Openers : openers[o] # "failed" /\ TablesAt(openers[o])
<1>c. SUFFICES Good'
  BY <1>0 DEF MigrateInv
<1> USE <1>a, <1>b DEF MigrateTypeOK, TableType, Table, NoTable, Goes,
        MetricsStand, NoRowsWithoutTable, OneOpener, TablesAt
<1>1. ASSUME NEW o \in Openers, OpenBegins(o) PROVE Good'
  <2>1. /\ openers' = [openers EXCEPT ![o] = "count"]
        /\ metrics' = metrics /\ metricsNew' = metricsNew
        /\ \A q \in Openers \ {o} : openers[q] = "closed"
    BY <1>1 DEF OpenBegins
  <2>2. /\ cutOff' = cutOff /\ \A q \in Openers : openers[q] = "closed"
        /\ ~cutOff => metrics.exists
    BY <1>1, <2>1 DEF OpenBegins
  <2>3. \A q \in Openers : openers'[q] = IF q = o THEN "count" ELSE "closed"
    BY <2>1, <2>2
  <2>4. MetricsStand' /\ NoRowsWithoutTable' /\ OneOpener'
    BY <2>1, <2>2, <2>3
  <2>5. \A q \in Openers : openers'[q] # "failed" /\ TablesAt(openers[q])'
    BY <2>3
  <2> QED
    BY <2>4, <2>5
<1>2. ASSUME NEW o \in Openers, CountTables(o) \/ ReadColumns(o) PROVE Good'
  BY <1>2 DEF CountTables, ReadColumns
<1>3. ASSUME NEW o \in Openers, CreateNew(o) PROVE Good'
  BY <1>3 DEF CreateNew
<1>4. ASSUME NEW o \in Openers, CopyRows(o) PROVE Good'
  BY <1>4 DEF CopyRows, Copied
<1>5. ASSUME NEW o \in Openers, DropOld(o) PROVE Good'
  <2>1. /\ metrics.exists /\ openers[o] = "drop"
        /\ openers' = [openers EXCEPT ![o] = "rename"]
        /\ metrics' = NoTable /\ metricsNew' = metricsNew /\ cutOff' = cutOff
    BY <1>5 DEF DropOld
  <2>2. /\ ~cutOff /\ metricsNew.exists /\ metricsNew.typed
        /\ metricsNew.rows = MetricDays
    BY <2>1
  <2>3. \A q \in Openers : openers'[q] = IF q = o THEN "rename" ELSE "closed"
    BY <2>1
  <2>4. MetricsStand' /\ NoRowsWithoutTable' /\ OneOpener'
    BY <2>1, <2>2, <2>3
  <2>5. \A q \in Openers : openers'[q] # "failed" /\ TablesAt(openers[q])'
    BY <2>1, <2>2, <2>3
  <2> QED
    BY <2>4, <2>5
<1>6. ASSUME NEW o \in Openers, RenameNew(o) PROVE Good'
  BY <1>6 DEF RenameNew
<1>7. ASSUME NEW o \in Openers, ApplySchema(o) PROVE Good'
  BY <1>7 DEF ApplySchema
<1>8. ASSUME NEW o \in Openers, StatementFails(o) PROVE Good'
  BY <1>8 DEF StatementFails, Creatable
<1>9. ASSUME NEW o \in Openers, ProcessEnds(o) PROVE Good'
  BY <1>9 DEF ProcessEnds
<1>10. CASE UNCHANGED migrateVars
  BY <1>10 DEF migrateVars
<1> QED
  BY <1>1, <1>2, <1>3, <1>4, <1>5, <1>6, <1>7, <1>8, <1>9, <1>10 DEF MigrateNext

\* Wherever a crash interrupts the upgrade, the database can be opened again, and who
\* opens it reads the old metrics, unless a process ended between DROP and RENAME; then
\* nobody ever reads one of them (db/db.go:19-37, 76-141).
THEOREM UpgradeLosesInOnePlaceHolds == MigrateSpec => []UpgradeLosesInOnePlace
<1>1. MigrateInv => UpgradeLosesInOnePlace
  BY DEF MigrateInv, MigrateTypeOK, UpgradeLosesInOnePlace, MetricsStand, MetricsAreRead,
         OneOpener, AlwaysOpens
<1> QED
  BY <1>1, MigrateInvInit, MigrateInvStep, PTL DEF MigrateSpec
================================================================================
