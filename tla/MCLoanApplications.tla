-------------------------- MODULE MCLoanApplications --------------------------
(* Instances of LoanApplications for TLC. *)
EXTENDS LoanApplications, TLC

CONSTANTS a1, a2, c1, officer, compliance, control, admin, d1, d2, r1, r2, g1

MCCustomerOf == [a \in Apps |-> c1]

\* The product asks for nothing, so that creation goes straight to review.
NeedsNothing == [a \in Apps |-> {}]

\* The product asks for everything.
NeedsAll == [a \in Apps |-> {"guarantor", "collateral"}]

\* One user per role; the administrator passes every permission check.
GrantedByRole ==
  [u \in Users |-> CASE u = officer    -> {"create", "update", "submit"}
                     [] u = compliance -> {"compliance_review"}
                     [] u = control    -> {"internal_control_approve"}
                     [] u = admin      -> {"admin"}]

\* Request slots are interchangeable.
Interchangeable == Permutations(Requests)

\* Bound: documents are missing or unverified only where a handler reads them.
DocumentsWhereRead ==
  \A a \in Apps :
    \/ docs[CustomerOf[a]] # {} /\ verified[CustomerOf[a]] = docs[CustomerOf[a]]
    \/ status[a] \in {"NONE", "DRAFT", "COMPLIANCE_REVIEW"}

\* Bound: the profile is incomplete only where a handler reads it.
ProfilesWhereRead ==
  \A a \in Apps :
    profile[CustomerOf[a]] \/ status[a] \in {"NONE", "DRAFT", "NEEDS_ATTENTION", "APPROVED"}

\* Bound: guarantors come and go while the application is a draft.
GuarantorsOfDrafts ==
  \A a \in Apps :
    \/ status[a] = "DRAFT"
    \/ /\ guarantors[a] = {}
       /\ \A r \in Requests : req[r].pc \notin {"addGuarantor", "removeGuarantor"}

MCTypeOf == [d \in Documents |-> "identity"]
=============================================================================
