--------------------------- MODULE LoanApplications ---------------------------
(***************************************************************************)
(* The life of a loan application: LoanApplicationsService (create to      *)
(* disburse and remove) together with the WorkflowsService it drives and   *)
(* the document checks it reads.                                           *)
(*                                                                         *)
(* Every HTTP request is a process r \in Requests.  Its handler runs       *)
(* between two awaits without interruption; at an await other requests     *)
(* run.  A handler therefore is a chain of steps: the first one reads and  *)
(* checks, keeps what it read in req[r], and each later one is the next    *)
(* database call of the handler.  A $transaction is one step, since the    *)
(* database commits it at once.  A check that fails throws and ends the    *)
(* request.  With one element in Requests the handlers run one at a time.  *)
(***************************************************************************)
EXTENDS Naturals, FiniteSets, WorkflowDefinition

CONSTANTS
  Apps,           \* ids of loan application rows, each for one customer
  Customers,
  Users,          \* staff members
  Requests,       \* request slots: how many handlers may be in flight at once
  Guarantors,     \* ids of guarantor rows
  Documents,      \* ids of uploaded customer document rows
  CustomerOf,     \* application row -> the customer it is created for
  Needs,          \* application row -> what its product requires
  TypeOf,         \* document row -> its document type
  RequiredTypes,  \* the document types the product's checklist requires
  Granted,        \* user -> permission codes
  Decisions,      \* the decisions complianceReview is called with
  StatusEdits,    \* the statuses staff give a customer by hand
  Edits,          \* what else changes about a customer during the run
  MaxSerial,      \* bound: rows (instances, tasks, loans) per application
  None            \* no application, no user

Permissions == {"create", "update", "submit", "compliance_review",
                "internal_control_approve", "disburse_head", "admin"}

ApplicationStatus == Stages \cup {"DRAFT", "NEEDS_ATTENTION", "DISBURSED"}

CustomerStatus == {"REGISTERED", "ELIGIBLE", "ACTIVE_BORROWER", "BLACKLISTED"}

\* Mutants: a decision that approves outright, a status nobody reads.
OutcomeSkipsControl == [ APPROVE         |-> "APPROVED",
                         REQUEST_CHANGES |-> "NEEDS_ATTENTION",
                         REJECT          |-> "REJECTED" ]
OutcomeReturned == [ APPROVE         |-> "INTERNAL_CONTROL_REVIEW",
                     REQUEST_CHANGES |-> "RETURNED",
                     REJECT          |-> "REJECTED" ]

\* What complianceReview makes of a decision.
Outcome == [ APPROVE         |-> "INTERNAL_CONTROL_REVIEW",
             REQUEST_CHANGES |-> "NEEDS_ATTENTION",
             REJECT          |-> "REJECTED" ]

ASSUME ConstantsAssumption ==
  /\ CustomerOf \in [Apps -> Customers]
  /\ Needs \in [Apps -> SUBSET {"guarantor", "collateral"}]
  /\ Granted \in [Users -> SUBSET Permissions]
  /\ DOMAIN TypeOf = Documents
  /\ Decisions \subseteq DOMAIN Outcome
  /\ StatusEdits \subseteq CustomerStatus
  /\ Edits \subseteq {"profile", "documents"}
  /\ None \notin Apps \cup Users

ASSUME BoundAssumption == MaxSerial \in Nat

VARIABLES
  status,         \* [Apps -> application status], "NONE" before the row exists
  deleted,        \* [Apps -> BOOLEAN] deletedAt is set
  assignedTo,     \* [Apps -> Users] the loan officer who created it
  guarantors,     \* [Apps -> SUBSET Guarantors]
  collateral,     \* [Apps -> BOOLEAN] some collateral is recorded
  instance,       \* [Apps -> workflow instance] with its open tasks
  loan,           \* [Apps -> loan row], loanApplicationId being unique
  serial,         \* [Apps -> Nat] the next fresh row id of the application
  docs,           \* [Customers -> SUBSET Documents] uploaded
  verified,       \* [Customers -> SUBSET Documents] uploaded and VERIFIED
  profile,        \* [Customers -> BOOLEAN] every required field is filled
  customerStatus, \* [Customers -> CustomerStatus]
  req,            \* [Requests -> handler state]
  approvals       \* history: the APPROVE transitions that were committed for a
                  \* user who has the permission of the stage

appVars  == <<status, deleted, assignedTo>>
secVars  == <<guarantors, collateral>>
custVars == <<docs, verified, profile, customerStatus>>
vars == <<status, deleted, assignedTo, guarantors, collateral, instance, loan, serial,
          docs, verified, profile, customerStatus, req, approvals>>

-----------------------------------------------------------------------------
(* Rows *)

\* Ids are uuids; the model draws them in order, one sequence per application.
Task == [id : Nat, stage : Stages]

\* An instance with id 0 is no instance at all; todo are its PENDING tasks and
\* claimed its IN_PROGRESS ones.  COMPLETED tasks are never read again.
Instance == [id : Nat, stage : Stages, todo : SUBSET Task, claimed : SUBSET Task]
NoInstance == [id |-> 0, stage |-> InitialStage, todo |-> {}, claimed |-> {}]

\* The tasks transition reads: PENDING, IN_PROGRESS or OVERDUE.
OpenTasks(a) == instance[a].todo \cup instance[a].claimed

\* The task transition creates for the stage it enters.
NextTaskForward(a, stage) ==                          \* mutant: none after a RETURN
  IF stage = "INTERNAL_CONTROL_REVIEW" THEN {[id |-> serial[a], stage |-> stage]} ELSE {}
NextTaskAlways(a, stage) ==                           \* mutant: terminal stages too
  {[id |-> serial[a], stage |-> stage]}
NextTask(a, stage) ==
  IF stage \in TerminalStages THEN {} ELSE {[id |-> serial[a], stage |-> stage]}

\* referenced: a numbered virtual account or a repayment points at the loan, so
\* that the foreign keys refuse to delete it.
Loan == [id : Nat, status : {"NONE", "ACTIVE", "COMPLETED"}, referenced : BOOLEAN]
NoLoan == [id |-> 0, status |-> "NONE", referenced |-> FALSE]

Approval == [app : Apps, inst : Nat, stage : Stages]

PC == {"idle", "createCheck", "createInsert", "startInsert", "startNotify",
       "submitWrite", "rollback", "reviewTransition", "commit", "writeStatus",
       "decisionWrite", "resubmitWrite", "disburseCheck", "disburseWrite",
       "removeWrite", "claimWrite", "addGuarantor", "removeGuarantor", "addCollateral"}

\* What a handler holds across its awaits: the application it is called on, who
\* calls it where a later step needs to know, what it is asked to do, and the
\* values it read: the status, the instance with its stage and open tasks, the
\* loan row; guarantor is the one to add or remove, if any.
Handler == [pc : PC, app : Apps \cup {None}, user : Users \cup {None},
            read : ApplicationStatus \cup {"NONE"}, action : Actions \cup {"NONE"},
            decision : DOMAIN Outcome, inst : Nat, from : Stages, to : Stages,
            tasks : SUBSET Task, loan : Nat, guarantor : SUBSET Guarantors]

Idle == [pc |-> "idle", app |-> None, user |-> None, read |-> "NONE", action |-> "NONE",
         decision |-> "REQUEST_CHANGES", inst |-> 0, from |-> InitialStage, to |-> InitialStage,
         tasks |-> {}, loan |-> 0, guarantor |-> {}]

TypeOK ==
  /\ status \in [Apps -> ApplicationStatus \cup {"NONE"}]
  /\ deleted \in [Apps -> BOOLEAN]
  /\ assignedTo \in [Apps -> Users \cup {None}]
  /\ guarantors \in [Apps -> SUBSET Guarantors]
  /\ collateral \in [Apps -> BOOLEAN]
  /\ instance \in [Apps -> Instance]
  /\ loan \in [Apps -> Loan]
  /\ serial \in [Apps -> Nat]
  /\ docs \in [Customers -> SUBSET Documents]
  /\ verified \in [Customers -> SUBSET Documents]
  /\ profile \in [Customers -> BOOLEAN]
  /\ customerStatus \in [Customers -> CustomerStatus]
  /\ req \in [Requests -> Handler]
  /\ \A r \in Requests : req[r].pc # "idle" => req[r].app \in Apps
  /\ approvals \subseteq Approval

Init ==
  /\ status = [a \in Apps |-> "NONE"]
  /\ deleted = [a \in Apps |-> FALSE]
  /\ assignedTo = [a \in Apps |-> None]
  /\ guarantors = [a \in Apps |-> {}]
  /\ collateral = [a \in Apps |-> FALSE]
  /\ instance = [a \in Apps |-> NoInstance]
  /\ loan = [a \in Apps |-> NoLoan]
  /\ serial = [a \in Apps |-> 1]
  /\ docs \in [Customers -> SUBSET Documents]
  /\ \A b, c \in Customers : b # c => docs[b] \cap docs[c] = {}
  /\ verified \in [Customers -> SUBSET Documents]
  /\ \A c \in Customers : verified[c] \subseteq docs[c]
  /\ profile = [c \in Customers |-> TRUE]
  /\ customerStatus = [c \in Customers |-> "REGISTERED"]
  /\ req = [r \in Requests |-> Idle]
  /\ approvals = {}

-----------------------------------------------------------------------------
(* Helpers *)

\* PermissionsGuard: system:admin passes every check.
Can(u, permission) == {permission, "admin"} \cap Granted[u] # {}

\* assertStagePermission: a terminal stage asks for no permission.
PermittedAt(u, stage) == stage \notin TerminalStages => Can(u, StagePermission[stage])

\* findFirst({ where: { id, deletedAt: null } }) finds the application.
Exists(a) == status[a] # "NONE" /\ ~deleted[a]

Begin(r, pc, a) == req' = [req EXCEPT ![r] = [Idle EXCEPT !.pc = pc, !.app = a]]
Goto(r, pc) == req' = [req EXCEPT ![r] = [@ EXCEPT !.pc = pc]]
Finish(r) == req' = [req EXCEPT ![r] = Idle]

\* loanApplication.update({ where: { id }, data: { status } }): by id alone,
\* whatever the status is by now and whether or not the row is soft-deleted.
SetStatus(a, s) == status' = [status EXCEPT ![a] = s]

Bounded(a) == serial[a] <= MaxSerial
Advance(a) == serial' = [serial EXCEPT ![a] = @ + 1]

-----------------------------------------------------------------------------
(* create *)

BlockingStatuses == {"DRAFT", "COMPLIANCE_REVIEW", "INTERNAL_CONTROL_REVIEW", "APPROVED"}

\* A row id no application and no other create in flight uses.
Fresh(a) == status[a] = "NONE" /\ \A q \in Requests : req[q].app # a

\* The customer row and the customer's loans are read.
Create(r, u, a) ==
  /\ req[r].pc = "idle" /\ Can(u, "create") /\ Fresh(a)
  /\ customerStatus[CustomerOf[a]] # "BLACKLISTED"
  /\ profile[CustomerOf[a]]
  /\ \A b \in Apps : CustomerOf[b] = CustomerOf[a] => loan[b].status # "ACTIVE"
  /\ req' = [req EXCEPT ![r] = [Idle EXCEPT !.pc = "createCheck", !.user = u, !.app = a]]
  /\ UNCHANGED <<appVars, secVars, custVars, instance, loan, serial, approvals>>

\* Then the customer's applications and documents.
CreateCheck(r) ==
  LET c == CustomerOf[req[r].app]
      pass == /\ \A b \in Apps : CustomerOf[b] = c => status[b] \notin BlockingStatuses
              /\ docs[c] # {}
  IN  /\ req[r].pc = "createCheck"
      /\ \/ pass /\ Goto(r, "createInsert")
         \/ ~pass /\ Finish(r)
      /\ UNCHANGED <<appVars, secVars, custVars, instance, loan, serial, approvals>>

InitialStatus(a) == IF Needs[a] # {} THEN "DRAFT" ELSE "COMPLIANCE_REVIEW"

CreateInsert(r) ==
  LET a == req[r].app
  IN  /\ req[r].pc = "createInsert"
      /\ SetStatus(a, InitialStatus(a))
      /\ assignedTo' = [assignedTo EXCEPT ![a] = req[r].user]
      /\ \/ InitialStatus(a) = "DRAFT" /\ Finish(r)
         \/ InitialStatus(a) # "DRAFT" /\ Goto(r, "startInsert")
      /\ UNCHANGED <<deleted, secVars, custVars, instance, loan, serial, approvals>>

-----------------------------------------------------------------------------
(* WorkflowsService.start, as create and submit call it *)

StartInsert(r) ==
  LET a == req[r].app
  IN  /\ req[r].pc = "startInsert"
      /\ instance[a].id = 0
      /\ Bounded(a) /\ Advance(a)
      /\ instance' = [instance EXCEPT ![a] =
           [id |-> serial[a], stage |-> InitialStage,
            todo |-> {[id |-> serial[a], stage |-> InitialStage]}, claimed |-> {}]]
      /\ Goto(r, "startNotify")
      /\ UNCHANGED <<appVars, secVars, custVars, loan, approvals>>

StartNotify(r) ==
  /\ req[r].pc = "startNotify"
  /\ Finish(r)
  /\ UNCHANGED <<appVars, secVars, custVars, instance, loan, serial, approvals>>

\* start throws: there is an instance already (the unique key refuses a second
\* one), or no active definition, or a database call fails, the notification
\* after the insert included.  submit catches and goes on to its rollback;
\* create catches and drops the error.  Only submit keeps a status it read.
StartFails(r) ==
  /\ req[r].pc \in {"startInsert", "startNotify"}
  /\ \/ req[r].read # "NONE" /\ Goto(r, "rollback")
     \/ req[r].read = "NONE" /\ Finish(r)
  /\ UNCHANGED <<appVars, secVars, custVars, instance, loan, serial, approvals>>

-----------------------------------------------------------------------------
(* submit *)

\* The checklist counts document rows of a required type, not types.
RequiredUploads(c) == Cardinality({d \in docs[c] : TypeOf[d] \in RequiredTypes})

Submit(r, u, a) ==
  LET c == CustomerOf[a]
  IN  /\ req[r].pc = "idle" /\ Can(u, "submit")
      /\ Exists(a) /\ status[a] \in {"DRAFT", "NEEDS_ATTENTION"}
      /\ profile[c] /\ docs[c] # {}
      /\ "guarantor" \in Needs[a] => guarantors[a] # {}
      /\ "collateral" \in Needs[a] => collateral[a]
      /\ RequiredUploads(c) >= Cardinality(RequiredTypes)
      /\ req' = [req EXCEPT ![r] = [Idle EXCEPT !.pc = "submitWrite", !.app = a,
                                               !.read = status[a]]]
      /\ UNCHANGED <<appVars, secVars, custVars, instance, loan, serial, approvals>>

SubmitWrite(r) ==
  /\ req[r].pc = "submitWrite"
  /\ SetStatus(req[r].app, "COMPLIANCE_REVIEW")
  /\ Goto(r, "startInsert")
  /\ UNCHANGED <<deleted, assignedTo, secVars, custVars, instance, loan, serial, approvals>>

SubmitRollback(r) ==
  /\ req[r].pc = "rollback"
  /\ SetStatus(req[r].app, "DRAFT")
  /\ Finish(r)
  /\ UNCHANGED <<deleted, assignedTo, secVars, custVars, instance, loan, serial, approvals>>

-----------------------------------------------------------------------------
(* WorkflowsService.transition, called by its endpoint and by review *)

\* The edge a user may take from a stage with an action.
EdgesByAction(stage, action) == {e \in Edges : e.action = action}   \* mutant: any stage's
EdgesFrom(stage, action) == {e \in Edges : e.from = stage /\ e.action = action}

\* The instance with its open tasks is read, the caller's permission for the
\* stage read and the edge are checked.
ReadInstance(r, u, a, action) ==
  /\ instance[a].id # 0
  /\ PermittedAt(u, instance[a].stage)
  /\ OpenTasks(a) # {}
  /\ \E e \in EdgesFrom(instance[a].stage, action) :
       req' = [req EXCEPT ![r] =
         [Idle EXCEPT !.pc = "commit", !.user = u, !.app = a, !.action = action,
                      !.inst = instance[a].id, !.from = e.from, !.to = e.to,
                      !.tasks = OpenTasks(a)]]
  /\ UNCHANGED <<appVars, secVars, custVars, instance, loan, serial, approvals>>

Transition(r, u, a, action) ==
  /\ req[r].pc = "idle"
  /\ ReadInstance(r, u, a, action)

\* The transaction: the tasks that were read are completed, the stage is set
\* unconditionally, the next task is created.  Updating an instance that remove
\* has deleted meanwhile fails and undoes all of it.
CommitTransition(r) ==
  LET a == req[r].app
      next == NextTask(a, req[r].to)
  IN  /\ req[r].pc = "commit"
      /\ \/ /\ instance[a].id = req[r].inst
            /\ Bounded(a)
            /\ serial' = [serial EXCEPT ![a] = IF next = {} THEN @ ELSE @ + 1]
            /\ instance' = [instance EXCEPT ![a] =
                 [id |-> instance[a].id, stage |-> req[r].to,
                  todo |-> (instance[a].todo \ req[r].tasks) \cup next,
                  claimed |-> instance[a].claimed \ req[r].tasks]]
            /\ approvals' = IF req[r].action = "APPROVE" /\ PermittedAt(req[r].user, req[r].from)
                            THEN approvals \cup {[app |-> a, inst |-> req[r].inst,
                                                  stage |-> req[r].from]}
                            ELSE approvals
            /\ Goto(r, "writeStatus")
         \/ /\ instance[a].id # req[r].inst
            /\ Finish(r)
            /\ UNCHANGED <<instance, serial, approvals>>
      /\ UNCHANGED <<appVars, secVars, custVars, loan>>

\* After the transaction the denormalised status follows in a call of its own.
WriteStatus(r) ==
  /\ req[r].pc = "writeStatus"
  /\ SetStatus(req[r].app, req[r].to)
  /\ Finish(r)
  /\ UNCHANGED <<deleted, assignedTo, secVars, custVars, instance, loan, serial, approvals>>

\* review, the deprecated endpoint: checks the status, then calls transition.
Review(r, u, a, action) ==
  /\ req[r].pc = "idle" /\ Can(u, "compliance_review")
  /\ Exists(a) /\ status[a] = "COMPLIANCE_REVIEW"
  /\ action \in {"APPROVE", "REJECT"}
  /\ req' = [req EXCEPT ![r] = [Idle EXCEPT !.pc = "reviewTransition", !.user = u,
                                           !.app = a, !.action = action]]
  /\ UNCHANGED <<appVars, secVars, custVars, instance, loan, serial, approvals>>

ReviewTransition(r) ==
  /\ req[r].pc = "reviewTransition"
  /\ ReadInstance(r, req[r].user, req[r].app, req[r].action)

\* claimTask: a PENDING task is read, then updated by id.  The task's assignee
\* is not kept: findAssignee may have picked the caller, nobody or somebody else.
Claim(r, u, a, t) ==
  /\ req[r].pc = "idle"
  /\ t \in instance[a].todo /\ PermittedAt(u, t.stage)
  /\ req' = [req EXCEPT ![r] = [Idle EXCEPT !.pc = "claimWrite", !.app = a,
                                           !.inst = instance[a].id, !.tasks = {t}]]
  /\ UNCHANGED <<appVars, secVars, custVars, instance, loan, serial, approvals>>

\* The update puts the task IN_PROGRESS even if it was completed meanwhile.
ClaimWrite(r) ==
  LET a == req[r].app
  IN  /\ req[r].pc = "claimWrite"
      /\ instance' = IF instance[a].id = req[r].inst
                     THEN [instance EXCEPT ![a] =
                            [id |-> instance[a].id, stage |-> instance[a].stage,
                             todo |-> instance[a].todo \ req[r].tasks,
                             claimed |-> instance[a].claimed \cup req[r].tasks]]
                     ELSE instance
      /\ Finish(r)
      /\ UNCHANGED <<appVars, secVars, custVars, loan, serial, approvals>>

-----------------------------------------------------------------------------
(* complianceReview and resubmitApplication: the status moves, the workflow does not *)

ReviewableAnyStatus(a) == Exists(a)                   \* mutant: status check dropped
Reviewable(a) == Exists(a) /\ status[a] = "COMPLIANCE_REVIEW"

ComplianceReview(r, u, a, decision) ==
  LET c == CustomerOf[a]
  IN  /\ req[r].pc = "idle" /\ Can(u, "compliance_review") /\ Reviewable(a)
      /\ decision = "APPROVE" =>
           /\ docs[c] # {} /\ verified[c] # {}
           /\ "guarantor" \in Needs[a] => guarantors[a] # {}
      /\ req' = [req EXCEPT ![r] = [Idle EXCEPT !.pc = "decisionWrite", !.app = a,
                                               !.decision = decision]]
      /\ UNCHANGED <<appVars, secVars, custVars, instance, loan, serial, approvals>>

DecisionWrite(r) ==
  /\ req[r].pc = "decisionWrite"
  /\ SetStatus(req[r].app, Outcome[req[r].decision])
  /\ Finish(r)
  /\ UNCHANGED <<deleted, assignedTo, secVars, custVars, instance, loan, serial, approvals>>

Resubmit(r, u, a) ==
  /\ req[r].pc = "idle" /\ Can(u, "update")
  /\ Exists(a) /\ assignedTo[a] = u /\ status[a] = "NEEDS_ATTENTION"
  /\ Begin(r, "resubmitWrite", a)
  /\ UNCHANGED <<appVars, secVars, custVars, instance, loan, serial, approvals>>

ResubmitWrite(r) ==
  /\ req[r].pc = "resubmitWrite"
  /\ SetStatus(req[r].app, "COMPLIANCE_REVIEW")
  /\ Finish(r)
  /\ UNCHANGED <<deleted, assignedTo, secVars, custVars, instance, loan, serial, approvals>>

-----------------------------------------------------------------------------
(* disburse *)

Disburse(r, u, a) ==
  /\ req[r].pc = "idle" /\ Can(u, "disburse_head")
  /\ Exists(a) /\ status[a] = "APPROVED" /\ profile[CustomerOf[a]]
  /\ Begin(r, "disburseCheck", a)
  /\ UNCHANGED <<appVars, secVars, custVars, instance, loan, serial, approvals>>

\* The workflow completion check, on the instance row that was read.
WorkflowComplete(i) == i.id # 0 /\ i.stage = "APPROVED"

DisburseCheck(r) ==
  LET i == instance[req[r].app]
  IN  /\ req[r].pc = "disburseCheck"
      /\ \/ /\ WorkflowComplete(i)
            /\ req' = [req EXCEPT ![r] = [req[r] EXCEPT !.pc = "disburseWrite", !.inst = i.id]]
         \/ /\ ~WorkflowComplete(i)
            /\ Finish(r)
      /\ UNCHANGED <<appVars, secVars, custVars, instance, loan, serial, approvals>>

\* The transaction: the unique loanApplicationId refuses a second loan.
DisburseWrite(r) ==
  LET a == req[r].app
  IN  /\ req[r].pc = "disburseWrite"
      /\ \/ /\ loan[a].id = 0
            /\ Bounded(a) /\ Advance(a)
            /\ loan' = [loan EXCEPT ![a] =
                 [id |-> serial[a], status |-> "ACTIVE", referenced |-> FALSE]]
            /\ SetStatus(a, "DISBURSED")
            /\ customerStatus' = [customerStatus EXCEPT ![CustomerOf[a]] = "ACTIVE_BORROWER"]
         \/ /\ loan[a].id # 0
            /\ UNCHANGED <<loan, serial, status, customerStatus>>
      /\ Finish(r)
      /\ UNCHANGED <<deleted, assignedTo, secVars, docs, verified, profile, instance, approvals>>

\* applyRepayment marks the loan COMPLETED once its last installment is paid.
CompleteLoan(a) ==
  /\ loan[a].status = "ACTIVE"
  /\ loan' = [loan EXCEPT ![a] =
       [id |-> loan[a].id, status |-> "COMPLETED", referenced |-> TRUE]]
  /\ customerStatus' = [customerStatus EXCEPT ![CustomerOf[a]] = "ELIGIBLE"]
  /\ UNCHANGED <<appVars, secVars, docs, verified, profile, instance, serial, req, approvals>>

\* The handler of 'loan.disbursed' gives the loan a virtual account.
ReferenceLoan(a) ==
  /\ loan[a].id # 0 /\ ~loan[a].referenced
  /\ loan' = [loan EXCEPT ![a] =
       [id |-> loan[a].id, status |-> loan[a].status, referenced |-> TRUE]]
  /\ UNCHANGED <<appVars, secVars, custVars, instance, serial, req, approvals>>

-----------------------------------------------------------------------------
(* remove *)

RemovableAlways(a) == Exists(a)                       \* mutant: no disbursed check
Removable(a) == Exists(a) /\ ~(loan[a].id # 0 /\ status[a] = "DISBURSED")

Remove(r, u, a) ==
  /\ req[r].pc = "idle" /\ Can(u, "admin") /\ Removable(a)
  /\ req' = [req EXCEPT ![r] = [Idle EXCEPT !.pc = "removeWrite", !.app = a,
                                           !.loan = loan[a].id]]
  /\ UNCHANGED <<appVars, secVars, custVars, instance, loan, serial, approvals>>

\* The transaction deletes the loan that was read, which fails if the row is
\* gone or referenced, and then nothing is deleted.
RemoveWrite(r) ==
  LET a == req[r].app
      refused == req[r].loan # 0 /\ (loan[a].id # req[r].loan \/ loan[a].referenced)
  IN  /\ req[r].pc = "removeWrite"
      /\ \/ /\ ~refused
            /\ guarantors' = [guarantors EXCEPT ![a] = {}]
            /\ collateral' = [collateral EXCEPT ![a] = FALSE]
            /\ instance' = [instance EXCEPT ![a] = NoInstance]
            /\ loan' = IF req[r].loan # 0 THEN [loan EXCEPT ![a] = NoLoan] ELSE loan
            /\ deleted' = [deleted EXCEPT ![a] = TRUE]
         \/ /\ refused
            /\ UNCHANGED <<guarantors, collateral, instance, loan, deleted>>
      /\ Finish(r)
      /\ UNCHANGED <<status, assignedTo, custVars, serial, approvals>>

-----------------------------------------------------------------------------
(* Guarantors and collateral *)

AddGuarantor(r, u, a, g) ==
  /\ req[r].pc = "idle" /\ Can(u, "update") /\ Exists(a) /\ g \notin guarantors[a]
  /\ \/ status[a] \in {"DRAFT", "NEEDS_ATTENTION", "COMPLIANCE_REVIEW"}
     \/ guarantors[a] = {}
  /\ req' = [req EXCEPT ![r] = [Idle EXCEPT !.pc = "addGuarantor", !.app = a,
                                           !.guarantor = {g}]]
  /\ UNCHANGED <<appVars, secVars, custVars, instance, loan, serial, approvals>>

\* No status is asked for here.
RemoveGuarantor(r, u, a, g) ==
  /\ req[r].pc = "idle" /\ Can(u, "update") /\ Exists(a) /\ g \in guarantors[a]
  /\ req' = [req EXCEPT ![r] = [Idle EXCEPT !.pc = "removeGuarantor", !.app = a,
                                           !.guarantor = {g}]]
  /\ UNCHANGED <<appVars, secVars, custVars, instance, loan, serial, approvals>>

GuarantorWrite(r) ==
  LET a == req[r].app
  IN  /\ \/ /\ req[r].pc = "addGuarantor"
            /\ guarantors' = [guarantors EXCEPT ![a] = @ \cup req[r].guarantor]
         \/ /\ req[r].pc = "removeGuarantor"
            /\ guarantors' = [guarantors EXCEPT ![a] = @ \ req[r].guarantor]
      /\ Finish(r)
      /\ UNCHANGED <<appVars, collateral, custVars, instance, loan, serial, approvals>>

AddCollateral(r, u, a) ==
  /\ req[r].pc = "idle" /\ Can(u, "update")
  /\ Exists(a) /\ status[a] \in {"DRAFT", "NEEDS_ATTENTION"} /\ ~collateral[a]
  /\ Begin(r, "addCollateral", a)
  /\ UNCHANGED <<appVars, secVars, custVars, instance, loan, serial, approvals>>

CollateralWrite(r) ==
  /\ req[r].pc = "addCollateral"
  /\ collateral' = [collateral EXCEPT ![req[r].app] = TRUE]
  /\ Finish(r)
  /\ UNCHANGED <<appVars, guarantors, custVars, instance, loan, serial, approvals>>

-----------------------------------------------------------------------------
(* The customer's side: documents, profile and status *)

UploadDocument(c, d) ==
  /\ "documents" \in Edits
  /\ \A b \in Customers : d \notin docs[b]
  /\ docs' = [docs EXCEPT ![c] = @ \cup {d}]
  /\ UNCHANGED <<appVars, secVars, verified, profile, customerStatus, instance, loan,
                 serial, req, approvals>>

\* verify sets VERIFIED or REJECTED, over whatever the document had.
VerifyDocument(c, d) ==
  /\ "documents" \in Edits /\ d \in docs[c]
  /\ \E v \in {verified[c] \cup {d}, verified[c] \ {d}} :
       v # verified[c] /\ verified' = [verified EXCEPT ![c] = v]
  /\ UNCHANGED <<appVars, secVars, docs, profile, customerStatus, instance, loan,
                 serial, req, approvals>>

RemoveDocument(c, d) ==
  /\ "documents" \in Edits /\ d \in docs[c]
  /\ docs' = [docs EXCEPT ![c] = @ \ {d}]
  /\ verified' = [verified EXCEPT ![c] = @ \ {d}]
  /\ UNCHANGED <<appVars, secVars, profile, customerStatus, instance, loan, serial, req,
                 approvals>>

EditProfile(c) ==
  /\ "profile" \in Edits
  /\ profile' = [profile EXCEPT ![c] = ~@]
  /\ UNCHANGED <<appVars, secVars, docs, verified, customerStatus, instance, loan, serial,
                 req, approvals>>

UpdateCustomerStatus(c, s) ==
  /\ customerStatus[c] # s
  /\ customerStatus' = [customerStatus EXCEPT ![c] = s]
  /\ UNCHANGED <<appVars, secVars, docs, verified, profile, instance, loan, serial, req,
                 approvals>>

-----------------------------------------------------------------------------
(* The system *)

\* A database call of the handler throws, or the server process dies with the
\* request in flight: what was committed stays, the rest never happens.
Fail(r) ==
  /\ req[r].pc # "idle"
  /\ Finish(r)
  /\ UNCHANGED <<appVars, secVars, custVars, instance, loan, serial, approvals>>

\* The next step of a handler that has begun.
Step(r) ==
  \/ CreateCheck(r) \/ CreateInsert(r)
  \/ StartInsert(r) \/ StartNotify(r) \/ StartFails(r)
  \/ SubmitWrite(r) \/ SubmitRollback(r)
  \/ ReviewTransition(r) \/ CommitTransition(r) \/ WriteStatus(r) \/ ClaimWrite(r)
  \/ DecisionWrite(r) \/ ResubmitWrite(r)
  \/ DisburseCheck(r) \/ DisburseWrite(r) \/ RemoveWrite(r)
  \/ GuarantorWrite(r) \/ CollateralWrite(r)

\* A user calls an endpoint.
Call(r, u, a) ==
  \/ Create(r, u, a) \/ Submit(r, u, a) \/ Resubmit(r, u, a)
  \/ Disburse(r, u, a) \/ Remove(r, u, a) \/ AddCollateral(r, u, a)
  \/ \E action \in Actions : Transition(r, u, a, action) \/ Review(r, u, a, action)
  \/ \E t \in instance[a].todo : Claim(r, u, a, t)
  \/ \E d \in Decisions : ComplianceReview(r, u, a, d)
  \/ \E g \in Guarantors : AddGuarantor(r, u, a, g) \/ RemoveGuarantor(r, u, a, g)

Environment ==
  \/ \E a \in Apps : CompleteLoan(a) \/ ReferenceLoan(a)
  \/ \E c \in Customers :
       \/ \E d \in Documents : UploadDocument(c, d) \/ VerifyDocument(c, d) \/ RemoveDocument(c, d)
       \/ \E s \in StatusEdits : UpdateCustomerStatus(c, s)
       \/ EditProfile(c)

Next ==
  \/ \E r \in Requests : Step(r) \/ Fail(r)
  \/ \E r \in Requests, u \in Users, a \in Apps : Call(r, u, a)
  \/ Environment

Spec == Init /\ [][Next]_vars

-----------------------------------------------------------------------------
(* What holds however requests interleave *)

\* The stage s of instance i of application a was approved by somebody who may.
Approved(a, i, s) == [app |-> a, inst |-> i, stage |-> s] \in approvals

\* A loan exists only if one workflow instance of its application was approved
\* by a compliance officer and then by internal control, each with the
\* permission of the stage: no chain of stale reads, removals and restarts
\* around disburse gets money out without both (disburse, lines 590-614).
TwoStageApproval ==
  \A a \in Apps : loan[a].id # 0 =>
    \E p \in approvals :
      p.app = a /\ Approved(a, p.inst, "COMPLIANCE_REVIEW")
                /\ Approved(a, p.inst, "INTERNAL_CONTROL_REVIEW")

\* An application that reads DISBURSED has its loan row: disburse writes both
\* at once, and remove, working from an older read of the two, never deletes
\* the loan from under the status (remove, lines 1282-1317).
DisbursedHasLoan ==
  \A a \in Apps : status[a] = "DISBURSED" => loan[a].id # 0

\* A stage that is not terminal always has an open task, without which
\* transition refuses every action and the application could never move again
\* (transition, lines 81-94), also after racing transitions and claims.
StageHasOpenTask ==
  \A a \in Apps : instance[a].id # 0 /\ instance[a].stage \notin TerminalStages
                    => instance[a].todo \cup instance[a].claimed # {}

-----------------------------------------------------------------------------
(* Why it holds: what stale reads may and may not be of *)

\* The approvals an instance needs to be at a stage.
ClearedUpTo(a, i, s) ==
  /\ s \in {"INTERNAL_CONTROL_REVIEW", "APPROVED"} => Approved(a, i, "COMPLIANCE_REVIEW")
  /\ s = "APPROVED" => Approved(a, i, "INTERNAL_CONTROL_REVIEW")

\* What a transition or a disbursement read may be stale when it is used, but
\* the approvals it relied on are those of the very instance it then writes:
\* each stage is reached along an edge by a user with the permission
\* (transition, lines 76-95; disburse, lines 590-614).
InstanceCleared(a) ==
  instance[a].id # 0 =>
    /\ instance[a].id <= MaxSerial
    /\ ClearedUpTo(a, instance[a].id, instance[a].stage)

HandlerCleared(r) ==
  /\ req[r].pc = "commit" =>
       /\ [from |-> req[r].from, action |-> req[r].action, to |-> req[r].to] \in Edges
       /\ PermittedAt(req[r].user, req[r].from)
       /\ req[r].inst \in 1..MaxSerial
       /\ ClearedUpTo(req[r].app, req[r].inst, req[r].from)
  /\ req[r].pc = "disburseWrite" =>
       /\ req[r].inst \in 1..MaxSerial
       /\ ClearedUpTo(req[r].app, req[r].inst, "APPROVED")

\* Every instance and every handler stands on the approvals its stage needs
\* (the two definitions above).
ApprovalChain ==
  /\ \A a \in Apps : InstanceCleared(a)
  /\ \A r \in Requests : HandlerCleared(r)

\* A removal in flight may hold the id of a loan, but never of the loan of an
\* application that reads DISBURSED by now: a later disbursement has made a
\* new loan with a new id (remove, lines 1269-1317).
RemovalIsStale ==
  /\ \A a \in Apps : serial[a] >= 1 /\ loan[a].id < serial[a]
  /\ \A r \in Requests : req[r].pc = "removeWrite" =>
       /\ req[r].loan < serial[req[r].app]
       /\ req[r].loan # 0 /\ loan[req[r].app].id = req[r].loan
            => status[req[r].app] # "DISBURSED"

-----------------------------------------------------------------------------
(* What holds while handlers run one at a time, failures included *)

\* The open tasks of an instance are exactly one task of its current stage,
\* none on a terminal stage: nobody is asked to act on a stage that is past.
OneOpenTask ==
  \A a \in Apps : instance[a].id # 0 =>
    LET open == instance[a].todo \cup instance[a].claimed
    IN  IF instance[a].stage \in TerminalStages
        THEN open = {}
        ELSE \E t \in open : open = {t} /\ t.stage = instance[a].stage

\* An application that reads APPROVED or DISBURSED has a workflow instance that
\* reached APPROVED, whatever complianceReview, review and a transition that
\* failed half-way did to its status before (disburse, lines 590-614).
ApprovedStatusBacked ==
  \A a \in Apps : Exists(a) /\ status[a] \in {"APPROVED", "DISBURSED"}
                    => instance[a].id # 0 /\ instance[a].stage = "APPROVED"

\* A disbursed loan stays the loan of a live application that reads DISBURSED,
\* which is what remove's guard relies on (remove, lines 1282-1287).
LoanKeepsApplication ==
  \A a \in Apps : loan[a].id # 0 => Exists(a) /\ status[a] = "DISBURSED"

-----------------------------------------------------------------------------
(* What comments and documents of the repository say, and the code does not do *)

\* "Customer can have multiple loans across their lifetime, but only ONE at a
\* time" (docs/NO_DUPLICATE_APPLICATIONS.md, line 134; create, lines 133-191).
OneLoanAtATime ==
  \A a, b \in Apps : /\ CustomerOf[a] = CustomerOf[b]
                     /\ loan[a].status = "ACTIVE" /\ loan[b].status = "ACTIVE"
                       => a = b

\* "Prevent deletion if loan is disbursed" (remove, line 1282).
DisbursedLoanNeverDeleted ==
  [][\A a \in Apps : loan[a].id # 0 => loan'[a].id # 0]_loan

-----------------------------------------------------------------------------
(* The policy LoanApplications implements *)

Policy == INSTANCE DisbursementPolicy WITH Instances <- 1..MaxSerial,
                                           cleared <- approvals,
                                           paidOut <- {a \in Apps : loan[a].id # 0}

\* Every step clears a stage whose predecessor is cleared, pays out on a fully
\* cleared instance, withdraws, or is none of the policy's business (the whole
\* service between create and remove, however its requests interleave).
ImplementsPolicy == Policy!Spec

=============================================================================
