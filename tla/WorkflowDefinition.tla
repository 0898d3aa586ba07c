-------------------------- MODULE WorkflowDefinition --------------------------
(***************************************************************************)
(* The workflow that prisma/seed.ts installs for loan applications: the    *)
(* stages, the permission each asks of the user who acts on it, and the    *)
(* edges along which WorkflowsService.transition may move an instance.     *)
(* Constant-level: the running instances live in LoanApplications.         *)
(***************************************************************************)

Stages == {"COMPLIANCE_REVIEW", "INTERNAL_CONTROL_REVIEW", "APPROVED", "REJECTED"}

InitialStage == "COMPLIANCE_REVIEW"

TerminalStages == {"APPROVED", "REJECTED"}

Actions == {"APPROVE", "REJECT", "RETURN"}

\* The edges marked requiresReason also ask the caller for a reason; reasons are
\* inputs that are taken to be given, so that flag refuses nothing here.
Edges ==
  { [from |-> "COMPLIANCE_REVIEW",       action |-> "APPROVE", to |-> "INTERNAL_CONTROL_REVIEW"],
    [from |-> "COMPLIANCE_REVIEW",       action |-> "REJECT",  to |-> "REJECTED"],
    [from |-> "INTERNAL_CONTROL_REVIEW", action |-> "APPROVE", to |-> "APPROVED"],
    [from |-> "INTERNAL_CONTROL_REVIEW", action |-> "REJECT",  to |-> "REJECTED"],
    [from |-> "INTERNAL_CONTROL_REVIEW", action |-> "RETURN",  to |-> "COMPLIANCE_REVIEW"] }

\* The permissions a user may act on a stage with. The terminal stages name
\* none, which assertStagePermission reads as "anyone".
StagePermission ==
  [s \in Stages \ TerminalStages |->
     IF s = "COMPLIANCE_REVIEW" THEN "compliance_review" ELSE "internal_control_approve"]

=============================================================================
