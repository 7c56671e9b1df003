-------------------------------- MODULE Guardian -------------------------------
(* The guardian's scan for one measured quantity (files with TODO marks; test   *)
(* coverage works alike, upside down): measure, compare with the stored         *)
(* baseline, lower the baseline or raise an alert unless one is open already.   *)
(* The scheduler runs one scan at a time; a request starts another beside it.   *)
EXTENDS Naturals, FiniteSets

CONSTANTS Scans,           \* scans in progress at once
          Ticker,          \* the one the scheduler runs; the others are RunOnce
          MaxDebt,         \* bound of the model: the measured count
          DebtThreshold    \* cfg.TechDebtThreshold

ASSUME GuardianAssumption ==
  IsFiniteSet(Scans) /\ Ticker \in Scans /\ MaxDebt \in Nat /\ DebtThreshold \in Nat \ {0}

VARIABLES debt,       \* what a scan would count now; 0 makes grep, and the check, give up
          baseline,   \* guardian_baselines: 0 when nothing is stored
          open,       \* alerts of this key, not dismissed and recent
          scans,      \* where each scan is and what it counted
          guarding,         \* the scheduler was started
          scansOverlapped,  \* two scans have run at once
          misread           \* a scan has failed to read the baseline

disturbances == <<scansOverlapped, misread>>
guardianVars == <<debt, baseline, open, scans, guarding, disturbances>>

Scan(at, counted) == [at |-> at, counted |-> counted]
NoScan == Scan("idle", 0)
Scanning(s) == scans[s].at # "idle"

GuardianInit ==
  /\ debt \in 0 .. MaxDebt
  /\ baseline = 0 /\ open = 0
  /\ scans = [s \in Scans |-> NoScan]
  /\ guarding = FALSE /\ scansOverlapped = FALSE /\ misread = FALSE

-----------------------------------------------------------------------------
DebtChanges(n) ==
  /\ n # debt
  /\ debt' = n
  /\ UNCHANGED <<baseline, open, scans, guarding, disturbances>>

StartGuardian ==
  /\ ~guarding
  /\ guarding' = TRUE
  /\ UNCHANGED <<debt, baseline, open, scans, disturbances>>

\* DismissGuardianAlert, DismissAll, Delete; or the alert gets a day old.
AlertGoesAway ==
  /\ open > 0
  /\ open' \in {open - 1, 0}
  /\ UNCHANGED <<debt, baseline, scans, guarding, disturbances>>

\* The count takes long; what was counted may be over when it is compared.
Measure(s) ==
  /\ guarding /\ scans[s] = NoScan
  /\ scans' = [scans EXCEPT ![s] = Scan("counted", debt)]
  /\ scansOverlapped' = (scansOverlapped \/ \E o \in Scans \ {s} : Scanning(o))
  /\ UNCHANGED <<debt, baseline, open, guarding, misread>>

\* Mutant of Improves: the baseline follows the count.
ImprovesOrNot(n) == n # baseline

Improves(n) == baseline = 0 \/ n < baseline

Exceeds(n) == n >= baseline + DebtThreshold

\* The stored baseline is read, and what follows is decided.
Compare(s) ==
  LET n == scans[s].counted
      next == IF n = 0 THEN "idle"
              ELSE IF Improves(n) THEN "lower"
              ELSE IF Exceeds(n) THEN "look"
              ELSE "idle" IN
  /\ scans[s].at = "counted"
  /\ scans' = [scans EXCEPT ![s] =
                 IF next = "idle" THEN NoScan ELSE Scan(next, n)]
  /\ UNCHANGED <<debt, baseline, open, guarding, disturbances>>

\* The error of the read is dropped: it looks as if nothing were stored.
MisreadBaseline(s) ==
  /\ scans[s].at = "counted" /\ scans[s].counted # 0
  /\ misread' = TRUE
  /\ scans' = [scans EXCEPT ![s].at = "lower"]
  /\ UNCHANGED <<debt, baseline, open, guarding, scansOverlapped>>

SetBaseline(s) ==
  /\ scans[s].at = "lower"
  /\ baseline' = scans[s].counted
  /\ scans' = [scans EXCEPT ![s] = NoScan]
  /\ UNCHANGED <<debt, open, guarding, disturbances>>

\* maybeEmit asks HasRecentAlert, and then saves: two statements.
AlreadyOpen == open > 0

LookForAlert(s) ==
  /\ scans[s].at = "look"
  /\ scans' = [scans EXCEPT ![s] = IF AlreadyOpen THEN NoScan ELSE [@ EXCEPT !.at = "save"]]
  /\ UNCHANGED <<debt, baseline, open, guarding, disturbances>>

SaveAlert(s) ==
  /\ scans[s].at = "save"
  /\ open' = open + 1
  /\ scans' = [scans EXCEPT ![s] = NoScan]
  /\ UNCHANGED <<debt, baseline, guarding, disturbances>>

\* A statement that fails ends this part of the scan; the next scan starts anew.
DbFails(s) ==
  /\ scans[s].at \in {"lower", "look", "save"}
  /\ scans' = [scans EXCEPT ![s] = NoScan]
  /\ UNCHANGED <<debt, baseline, open, guarding, disturbances>>

ScanStep(s) == Compare(s) \/ SetBaseline(s) \/ LookForAlert(s) \/ SaveAlert(s)

GuardianNext ==
  \/ \E n \in 0 .. MaxDebt : DebtChanges(n)
  \/ StartGuardian \/ AlertGoesAway
  \/ \E s \in Scans : \/ Measure(s) \/ Compare(s) \/ MisreadBaseline(s) \/ SetBaseline(s)
                      \/ LookForAlert(s) \/ SaveAlert(s) \/ DbFails(s)

\* Once started, the scheduler ticks again and again, and a scan goes on; nobody
\* is bound to ask for one. The database does not fail for ever.
GuardianFairness == /\ WF_guardianVars(Measure(Ticker))
                    /\ \A s \in Scans : WF_guardianVars(ScanStep(s))
                    /\ SF_guardianVars(Compare(Ticker))
                    /\ SF_guardianVars(LookForAlert(Ticker))
                    /\ SF_guardianVars(SaveAlert(Ticker))

GuardianSpec == GuardianInit /\ [][GuardianNext]_guardianVars /\ GuardianFairness

-----------------------------------------------------------------------------
GuardianTypeOK ==
  /\ debt \in 0 .. MaxDebt /\ baseline \in 0 .. MaxDebt
  /\ open \in Nat
  /\ scans \in [Scans -> [at : {"idle", "counted", "lower", "look", "save"},
                          counted : 0 .. MaxDebt]]
  /\ guarding \in BOOLEAN /\ scansOverlapped \in BOOLEAN /\ misread \in BOOLEAN

\* One alert is open per key; a scan asked for beside a tick may add a duplicate,
\* but never more than one for each scan in progress, however long this goes on
\* (guardian/guardian.go:191-200: the question and the insert are apart).
DuplicatesBounded ==
  /\ open <= Cardinality(Scans)
  /\ ~scansOverlapped => open <= 1

\* The baseline is a ratchet: once it is there it falls only, unless scans
\* overlapped, when the one that counted earlier may write last, or the baseline
\* could not be read (guardian/checks.go:277-304).
BaselineFalls ==
  baseline # 0 /\ ~scansOverlapped /\ ~misread => baseline' <= baseline

\* No step raises the baseline so, or leaves more alerts open (guardian/guardian.go:
\* 185-215, guardian/checks.go:277-304).
GuardianKept == [][BaselineFalls /\ DuplicatesBounded']_guardianVars

\* Debt that stays over the threshold is reported (guardian/checks.go:286-299).
DebtReported ==
  (baseline # 0 /\ debt >= baseline + DebtThreshold)
    ~> (open > 0 \/ debt < baseline + DebtThreshold)
=============================================================================
