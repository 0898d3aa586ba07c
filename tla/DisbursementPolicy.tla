-------------------------- MODULE DisbursementPolicy --------------------------
(***************************************************************************)
(* What the approval chain promises about money, without requests, reads   *)
(* or statuses: compliance clears an application first, internal control   *)
(* after it, and only an application that both cleared in one and the same *)
(* workflow instance is paid out.  LoanApplications implements it.         *)
(***************************************************************************)
CONSTANTS
  Apps,
  Instances  \* ids of workflow instances

VARIABLES
  cleared,   \* [app, inst, stage] records of the stages that were cleared
  paidOut    \* the applications with a loan

Clearance(a, i, s) == [app |-> a, inst |-> i, stage |-> s]

Init == cleared = {} /\ paidOut = {}

ComplianceClears(a, i) ==
  /\ cleared' = cleared \cup {Clearance(a, i, "COMPLIANCE_REVIEW")}
  /\ UNCHANGED paidOut

ControlClears(a, i) ==
  /\ Clearance(a, i, "COMPLIANCE_REVIEW") \in cleared
  /\ cleared' = cleared \cup {Clearance(a, i, "INTERNAL_CONTROL_REVIEW")}
  /\ UNCHANGED paidOut

PayOut(a, i) ==
  /\ Clearance(a, i, "COMPLIANCE_REVIEW") \in cleared
  /\ Clearance(a, i, "INTERNAL_CONTROL_REVIEW") \in cleared
  /\ paidOut' = paidOut \cup {a}
  /\ UNCHANGED cleared

\* A loan nobody refers to yet is deleted with its application.
Withdraw(a) ==
  /\ paidOut' = paidOut \ {a}
  /\ UNCHANGED cleared

Next ==
  \E a \in Apps :
    \/ \E i \in Instances : ComplianceClears(a, i) \/ ControlClears(a, i) \/ PayOut(a, i)
    \/ Withdraw(a)

Spec == Init /\ [][Next]_<<cleared, paidOut>>
=============================================================================
