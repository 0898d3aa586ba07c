------------------------------- MODULE Collections ------------------------------
(***************************************************************************)
(* Collection cases: one per loan, opened while the loan is active or        *)
(* defaulted, then edited freely on panels that officers leave open, while   *)
(* the loan runs its own course. Assignments, dates, amounts and activities  *)
(* are written beside the status and decide nothing; reasons are given.      *)
(***************************************************************************)
CONSTANTS
  Loans,     \* loans
  Officers,  \* who opens a panel
  None       \* no loan

VARIABLES
  loan,      \* [Loans -> status], as the loan's own component leaves it
  case,      \* [Loans -> status of the case of the loan, if any]
  panel      \* [Officers -> the panel that is open]

vars == <<loan, case, panel>>

Statuses == {"OPEN", "PROMISE_TO_PAY", "BROKEN_PROMISE", "LEGAL", "RESOLVED", "WRITTEN_OFF"}

\* The case as it was when the panel opened, the status the form holds, and whether
\* the officer has touched it.
Panel(l, shown, chosen, touched) == [loan |-> l, shown |-> shown, chosen |-> chosen, touched |-> touched]
Closed == Panel(None, "none", "none", FALSE)

Init ==
  /\ loan = [l \in Loans |-> "ACTIVE"]
  /\ case = [l \in Loans |-> "none"]
  /\ panel = [o \in Officers |-> Closed]

\* external: the loan defaults or is paid back.
LoanMoves(l, s) ==
  /\ loan[l] \in {"ACTIVE", "DEFAULTED"}
  /\ loan' = [loan EXCEPT ![l] = s]
  /\ UNCHANGED <<case, panel>>

\* An upsert: a case there is already keeps its status.
OpenedStatus(s) == IF s = "none" THEN "OPEN" ELSE s

Open(l) ==
  /\ loan[l] \in {"ACTIVE", "DEFAULTED"}
  /\ case' = [case EXCEPT ![l] = OpenedStatus(@)]
  /\ UNCHANGED <<loan, panel>>

\* The panel keeps the row it was opened with, whatever the list fetches later.
OpenPanel(o, l) ==
  /\ panel[o] = Closed /\ case[l] # "none"
  /\ panel' = [panel EXCEPT ![o] = Panel(l, case[l], case[l], FALSE)]
  /\ UNCHANGED <<loan, case>>

Pick(o, s) ==
  /\ panel[o] # Closed
  /\ panel' = [panel EXCEPT ![o].chosen = s, ![o].touched = TRUE]
  /\ UNCHANGED <<loan, case>>

\* A status that is what the panel showed is not sent, and what is not sent is left
\* alone. The loan is not looked at.
SentAlways(p) == {p.chosen}                        \* mutant: the whole form is sent
Sent(p) == {p.chosen} \ {p.shown}

\* When the answer is lost the panel stays, and is saved again.
Update(o) ==
  /\ panel[o] # Closed
  /\ IF Sent(panel[o]) = {} THEN UNCHANGED case
     ELSE \E s \in Sent(panel[o]) : case' = [case EXCEPT ![panel[o].loan] = s]
  /\ panel' \in {panel, [panel EXCEPT ![o] = Closed]}
  /\ UNCHANGED loan

Close(o) ==
  /\ panel[o] # Closed
  /\ panel' = [panel EXCEPT ![o] = Closed]
  /\ UNCHANGED <<loan, case>>

Next ==
  \/ \E l \in Loans : Open(l) \/ \E s \in {"DEFAULTED", "COMPLETED"} : LoanMoves(l, s)
  \/ \E o \in Officers :
       \/ \E l \in Loans : OpenPanel(o, l)
       \/ \E s \in Statuses : Pick(o, s)
       \/ Update(o) \/ Close(o)

Spec == Init /\ [][Next]_vars

-----------------------------------------------------------------------------
(* Properties *)

\* Once there is a case its status is changed by an officer who picked the new one,
\* and by nothing else: neither by an officer who saves a note or a date on a panel
\* opened before another resolved the case (CollectionCasePanel.tsx:55), nor by
\* opening the loan's case again (collections.service.ts:84).
StatusIsPicked ==
  [][\A l \in Loans : case[l] # "none" /\ case'[l] # case[l] =>
       \E o \in Officers : panel[o].loan = l /\ panel[o].touched /\ panel[o].chosen = case'[l]]_vars
=============================================================================
