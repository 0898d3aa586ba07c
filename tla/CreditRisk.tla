------------------------------- MODULE CreditRisk -------------------------------
(***************************************************************************)
(* How CreditBureauService turns a customer's report into a risk score and a *)
(* recommendation. The bureau is external; from one pull to the next a       *)
(* report may get worse in any respect.                                      *)
(***************************************************************************)
EXTENDS Integers, FiniteSets, FiniteSetsExt

CONSTANTS
  Scores,    \* credit scores
  Counts,    \* how many loans were defaulted on; payments on time, late and missed
  Actives,   \* how many loans are running
  Debts      \* total debt, in millions

VARIABLE report   \* the bureau's report of a customer

Reports == [score : Scores, defaulted : Counts, onTime : Counts, late : Counts, missed : Counts,
            active : Actives, debt : Debts]

\* The points of the credit score.
ScorePoints(f) ==
  CASE f.score < 300 -> 40
    [] f.score \in 300 .. 499 -> 30
    [] f.score \in 500 .. 649 -> 20
    [] f.score \in 650 .. 749 -> 10
    [] OTHER -> 0

DefaultPoints(f) == Min({30, f.defaulted * 15})

\* The share of payments not made on time, in percent; one that was missed counts twice.
PaymentsDue(f) == f.onTime + f.late + f.missed
LatePercent(f) == (100 * (f.late + 2 * f.missed)) \div PaymentsDue(f)
HistoryUncapped(f) == IF PaymentsDue(f) = 0 THEN 0 ELSE LatePercent(f) \div 5   \* mutant: scaled, not capped
HistoryPoints(f) == IF PaymentsDue(f) = 0 THEN 0 ELSE Min({20, LatePercent(f)})

ActivePoints(f) == IF f.active > 5 THEN 10 ELSE IF f.active > 3 THEN 5 ELSE 0

RiskScore(f) == Min({100, ScorePoints(f) + DefaultPoints(f) + HistoryPoints(f) + ActivePoints(f)})

\* The first that applies.
Rejected(f) == f.defaulted > 0 \/ f.score < 400
Doubtful(f) == f.score < 550 \/ f.debt > 5 \/ RiskScore(f) > 40
Recommendation(f) ==
  IF Rejected(f) THEN "REJECT" ELSE IF Doubtful(f) THEN "REQUEST_INFORMATION" ELSE "APPROVE"

Init == report \in Reports

\* The customer's record gets worse in one respect: a lower score, one more
\* default, a payment more that is late or missed, a loan more, more debt.
Worsen ==
  \/ \E s \in Scores : s < report.score /\ report' = [report EXCEPT !.score = s]
  \/ \E n \in Counts :
       \/ n > report.defaulted /\ report' = [report EXCEPT !.defaulted = n]
       \/ n > report.late /\ report' = [report EXCEPT !.late = n]
       \/ n > report.missed /\ report' = [report EXCEPT !.missed = n]
  \/ \E n \in Actives : n > report.active /\ report' = [report EXCEPT !.active = n]
  \/ \E d \in Debts : d > report.debt /\ report' = [report EXCEPT !.debt = d]

Next == Worsen

Spec == Init /\ [][Next]_report

-----------------------------------------------------------------------------
(* Properties *)

Severity == [APPROVE |-> 0, REQUEST_INFORMATION |-> 1, REJECT |-> 2]

\* A report that gets worse in any respect never scores less risk and never earns
\* a better recommendation. A share of late payments falls when a late one is
\* added to many missed ones; it is the cap that hides it
\* (credit-bureau.service.ts:353).
WorseIsNeverSafer ==
  [][/\ RiskScore(report') >= RiskScore(report)
     /\ Severity[Recommendation(report')] >= Severity[Recommendation(report)]]_report
=============================================================================
