----------------------- MODULE LoanApplications_proofs -----------------------
(***************************************************************************)
(* What LoanApplications promises for every set of applications, users and *)
(* requests in flight: type correctness, the two-stage approval behind     *)
(* every loan, the loan behind every DISBURSED status, the open task of    *)
(* every unfinished stage, and the implementation of DisbursementPolicy;   *)
(* and with one handler at a time the agreement of status, workflow, tasks *)
(* and loan.                                                               *)
(***************************************************************************)
EXTENDS LoanApplications, TLAPS

-----------------------------------------------------------------------------
(* Handlers stay well-typed *)

\* Every in-flight handler knows its application.
HandlersOK(f) ==
  /\ f \in [Requests -> Handler]
  /\ \A r \in Requests : f[r].pc # "idle" => f[r].app \in Apps

\* The idle handler is a handler.
LEMMA IdleType == Idle \in Handler /\ Idle.pc = "idle"
BY DEF Idle, Handler, PC, InitialStage, Stages, ApplicationStatus, Task, Outcome

\* Giving one request a well-typed handler keeps all of them well-typed.
LEMMA HandlerStep ==
  ASSUME TypeOK, NEW r \in Requests, NEW h \in Handler,
         h.pc # "idle" => h.app \in Apps, req' = [req EXCEPT ![r] = h]
  PROVE  HandlersOK(req')
BY DEF TypeOK, HandlersOK

LEMMA FinishStep ==
  ASSUME TypeOK, NEW r \in Requests, Finish(r)
  PROVE  HandlersOK(req')
BY IdleType, HandlerStep DEF Finish

LEMMA GotoStep ==
  ASSUME TypeOK, NEW r \in Requests, NEW pc \in PC, Goto(r, pc), req[r].pc # "idle"
  PROVE  HandlersOK(req')
<1> DEFINE h == [req[r] EXCEPT !.pc = pc]
<1>1. h \in Handler /\ h.app \in Apps
  BY DEF TypeOK, Handler
<1>2. QED
  BY <1>1, HandlerStep DEF Goto, TypeOK

LEMMA BeginStep ==
  ASSUME TypeOK, NEW r \in Requests, NEW pc \in PC, NEW a \in Apps, Begin(r, pc, a)
  PROVE  HandlersOK(req')
<1> DEFINE h == [Idle EXCEPT !.pc = pc, !.app = a]
<1>1. h \in Handler /\ h.app = a
  BY IdleType DEF Handler
<1>2. QED
  BY <1>1, HandlerStep DEF Begin

LEMMA ReadInstanceStep ==
  ASSUME TypeOK, NEW r \in Requests, NEW u \in Users \cup {None}, NEW a \in Apps,
         NEW action \in Actions \cup {"NONE"}, ReadInstance(r, u, a, action)
  PROVE  HandlersOK(req')
<1>1. PICK e \in Edges :
        req' = [req EXCEPT ![r] =
          [Idle EXCEPT !.pc = "commit", !.user = u, !.app = a, !.action = action,
                       !.inst = instance[a].id, !.from = e.from, !.to = e.to,
                       !.tasks = OpenTasks(a)]]
  BY DEF ReadInstance, EdgesFrom
<1>2. e.from \in Stages /\ e.to \in Stages
  BY DEF Edges, Stages
<1>3. instance[a].id \in Nat /\ OpenTasks(a) \in SUBSET Task
  BY DEF TypeOK, Instance, OpenTasks
<1> DEFINE h == [Idle EXCEPT !.pc = "commit", !.user = u, !.app = a, !.action = action,
                             !.inst = instance[a].id, !.from = e.from, !.to = e.to,
                             !.tasks = OpenTasks(a)]
<1>4. h \in Handler /\ h.app = a
  BY <1>2, <1>3, IdleType DEF Handler, PC
<1>5. QED
  BY <1>1, <1>4, HandlerStep

-----------------------------------------------------------------------------
(* Type correctness, one lemma per group of actions *)

\* A step that only reads keeps all rows well-typed.
LEMMA ReadStep ==
  ASSUME TypeOK, HandlersOK(req'),
         UNCHANGED <<appVars, secVars, custVars, instance, loan, serial, approvals>>
  PROVE  TypeOK'
BY DEF TypeOK, HandlersOK, appVars, secVars, custVars

\* A step that writes one status keeps all rows well-typed.
LEMMA StatusStep ==
  ASSUME TypeOK, HandlersOK(req'), NEW a \in Apps, NEW s \in ApplicationStatus, SetStatus(a, s),
         UNCHANGED <<deleted, assignedTo, secVars, custVars, instance, loan, serial, approvals>>
  PROVE  TypeOK'
BY DEF TypeOK, HandlersOK, SetStatus, appVars, secVars, custVars

LEMMA CreateType ==
  ASSUME TypeOK, NEW r \in Requests, NEW u \in Users, NEW a \in Apps, Create(r, u, a)
  PROVE  TypeOK'
<1> DEFINE h == [Idle EXCEPT !.pc = "createCheck", !.user = u, !.app = a]
<1>1. h \in Handler /\ h.app = a
  BY IdleType DEF Handler, PC
<1>2. HandlersOK(req')
  BY <1>1, HandlerStep DEF Create
<1>3. QED
  BY <1>2, ReadStep DEF Create

LEMMA SubmitType ==
  ASSUME TypeOK, NEW r \in Requests, NEW u \in Users, NEW a \in Apps, Submit(r, u, a)
  PROVE  TypeOK'
<1> DEFINE h == [Idle EXCEPT !.pc = "submitWrite", !.app = a, !.read = status[a]]
<1>1. status[a] \in ApplicationStatus
  BY DEF Submit, TypeOK, Exists
<1>2. h \in Handler /\ h.app = a
  BY <1>1, IdleType DEF Handler, PC
<1>3. HandlersOK(req')
  BY <1>2, HandlerStep DEF Submit
<1>4. QED
  BY <1>3, ReadStep DEF Submit

LEMMA ReviewType ==
  ASSUME TypeOK, NEW r \in Requests, NEW u \in Users, NEW a \in Apps,
         NEW action \in Actions, Review(r, u, a, action)
  PROVE  TypeOK'
<1> DEFINE h == [Idle EXCEPT !.pc = "reviewTransition", !.user = u, !.app = a,
                             !.action = action]
<1>1. h \in Handler /\ h.app = a
  BY IdleType DEF Handler, PC
<1>2. HandlersOK(req')
  BY <1>1, HandlerStep DEF Review
<1>3. QED
  BY <1>2, ReadStep DEF Review

LEMMA TransitionType ==
  ASSUME TypeOK, NEW r \in Requests, NEW u \in Users \cup {None}, NEW a \in Apps,
         NEW action \in Actions \cup {"NONE"}, ReadInstance(r, u, a, action)
  PROVE  TypeOK'
<1>1. HandlersOK(req')
  BY ReadInstanceStep
<1>2. QED
  BY <1>1, ReadStep DEF ReadInstance

LEMMA ClaimType ==
  ASSUME TypeOK, NEW r \in Requests, NEW u \in Users, NEW a \in Apps,
         NEW t \in instance[a].todo, Claim(r, u, a, t)
  PROVE  TypeOK'
<1> DEFINE h == [Idle EXCEPT !.pc = "claimWrite", !.app = a, !.inst = instance[a].id,
                             !.tasks = {t}]
<1>1. instance[a].id \in Nat /\ {t} \in SUBSET Task
  BY DEF TypeOK, Instance
<1>2. h \in Handler /\ h.app = a
  BY <1>1, IdleType DEF Handler, PC
<1>3. HandlersOK(req')
  BY <1>2, HandlerStep DEF Claim
<1>4. QED
  BY <1>3, ReadStep DEF Claim

LEMMA ComplianceReviewType ==
  ASSUME TypeOK, NEW r \in Requests, NEW u \in Users, NEW a \in Apps,
         NEW decision \in Decisions, ComplianceReview(r, u, a, decision)
  PROVE  TypeOK'
<1> DEFINE h == [Idle EXCEPT !.pc = "decisionWrite", !.app = a, !.decision = decision]
<1>1. decision \in DOMAIN Outcome
  BY ConstantsAssumption
<1>2. h \in Handler /\ h.app = a
  BY <1>1, IdleType DEF Handler, PC
<1>3. HandlersOK(req')
  BY <1>2, HandlerStep DEF ComplianceReview
<1>4. QED
  BY <1>3, ReadStep DEF ComplianceReview

LEMMA RemoveType ==
  ASSUME TypeOK, NEW r \in Requests, NEW u \in Users, NEW a \in Apps, Remove(r, u, a)
  PROVE  TypeOK'
<1> DEFINE h == [Idle EXCEPT !.pc = "removeWrite", !.app = a, !.loan = loan[a].id]
<1>1. loan[a].id \in Nat
  BY DEF TypeOK, Loan
<1>2. h \in Handler /\ h.app = a
  BY <1>1, IdleType DEF Handler, PC
<1>3. HandlersOK(req')
  BY <1>2, HandlerStep DEF Remove
<1>4. QED
  BY <1>3, ReadStep DEF Remove

LEMMA GuarantorType ==
  ASSUME TypeOK, NEW r \in Requests, NEW u \in Users, NEW a \in Apps, NEW g \in Guarantors,
         AddGuarantor(r, u, a, g) \/ RemoveGuarantor(r, u, a, g)
  PROVE  TypeOK'
<1> DEFINE h(pc) == [Idle EXCEPT !.pc = pc, !.app = a, !.guarantor = {g}]
<1>1. \A pc \in PC : h(pc) \in Handler /\ h(pc).app = a
  BY IdleType DEF Handler
<1>2. PICK pc \in {"addGuarantor", "removeGuarantor"} : req' = [req EXCEPT ![r] = h(pc)]
  BY DEF AddGuarantor, RemoveGuarantor
<1>3. h(pc) \in Handler /\ h(pc).app = a
  BY <1>1 DEF PC
<1>4. HandlersOK(req')
  BY <1>2, <1>3, HandlerStep
<1>5. QED
  BY <1>4, ReadStep DEF AddGuarantor, RemoveGuarantor

\* The calls whose handler holds nothing but the application.
LEMMA BeginType ==
  ASSUME TypeOK, NEW r \in Requests, NEW u \in Users, NEW a \in Apps,
         Resubmit(r, u, a) \/ Disburse(r, u, a) \/ AddCollateral(r, u, a)
  PROVE  TypeOK'
<1>1. PICK pc \in {"resubmitWrite", "disburseCheck", "addCollateral"} : Begin(r, pc, a)
  BY DEF Resubmit, Disburse, AddCollateral
<1>2. HandlersOK(req')
  BY <1>1, BeginStep DEF PC
<1>3. QED
  BY <1>2, ReadStep DEF Resubmit, Disburse, AddCollateral

LEMMA CallType ==
  ASSUME TypeOK, NEW r \in Requests, NEW u \in Users, NEW a \in Apps, Call(r, u, a)
  PROVE  TypeOK'
BY CreateType, SubmitType, ReviewType, TransitionType, ClaimType, ComplianceReviewType,
   RemoveType, GuarantorType, BeginType DEF Call, Transition

\* An in-flight handler and the application it works on.
LEMMA InFlight ==
  ASSUME TypeOK, NEW r \in Requests, req[r].pc # "idle"
  PROVE  req[r] \in Handler /\ req[r].app \in Apps
BY DEF TypeOK

\* Handler steps that only read, or give up.
LEMMA ReadingStepType ==
  ASSUME TypeOK, NEW r \in Requests,
         CreateCheck(r) \/ StartNotify(r) \/ StartFails(r) \/ DisburseCheck(r) \/ Fail(r)
  PROVE  TypeOK'
<1>1. CASE CreateCheck(r)
  <2>1. Goto(r, "createInsert") \/ Finish(r)
    BY <1>1 DEF CreateCheck
  <2>2. HandlersOK(req')
    BY <1>1, <2>1, GotoStep, FinishStep DEF CreateCheck, PC
  <2>3. QED
    BY <1>1, <2>2, ReadStep DEF CreateCheck
<1>2. CASE StartNotify(r)
  BY <1>2, FinishStep, ReadStep DEF StartNotify
<1>3. CASE StartFails(r)
  <2>1. HandlersOK(req')
    BY <1>3, GotoStep, FinishStep DEF StartFails, PC
  <2>2. QED
    BY <1>3, <2>1, ReadStep DEF StartFails
<1>4. CASE DisburseCheck(r)
  <2>1. CASE WorkflowComplete(instance[req[r].app])
    <3> DEFINE h == [req[r] EXCEPT !.pc = "disburseWrite", !.inst = instance[req[r].app].id]
    <3>0. req[r] \in Handler /\ req[r].app \in Apps
      BY <1>4, InFlight DEF DisburseCheck
    <3>1. instance[req[r].app].id \in Nat
      BY <3>0 DEF TypeOK, Instance
    <3>2. h \in Handler /\ h.app \in Apps
      BY <3>0, <3>1 DEF Handler, PC
    <3>3. req' = [req EXCEPT ![r] = h]
      BY <1>4, <2>1 DEF DisburseCheck
    <3>4. HandlersOK(req')
      BY <3>2, <3>3, HandlerStep
    <3>5. QED
      BY <1>4, <3>4, ReadStep DEF DisburseCheck
  <2>2. CASE ~WorkflowComplete(instance[req[r].app])
    BY <1>4, <2>2, FinishStep, ReadStep DEF DisburseCheck
  <2>3. QED
    BY <2>1, <2>2
<1>5. CASE Fail(r)
  BY <1>5, FinishStep, ReadStep DEF Fail
<1>6. QED
  BY <1>1, <1>2, <1>3, <1>4, <1>5

\* Handler steps that write one status.
LEMMA StatusStepType ==
  ASSUME TypeOK, NEW r \in Requests,
         \/ SubmitWrite(r) \/ SubmitRollback(r) \/ WriteStatus(r)
         \/ DecisionWrite(r) \/ ResubmitWrite(r)
  PROVE  TypeOK'
<1>1. req[r] \in Handler /\ req[r].app \in Apps
  BY InFlight DEF SubmitWrite, SubmitRollback, WriteStatus, DecisionWrite, ResubmitWrite
<1>2. PICK s \in {"COMPLIANCE_REVIEW", "DRAFT", req[r].to, Outcome[req[r].decision]} :
        SetStatus(req[r].app, s)
  BY DEF SubmitWrite, SubmitRollback, WriteStatus, DecisionWrite, ResubmitWrite
<1>3. s \in ApplicationStatus
  BY <1>1, <1>2 DEF Handler, Outcome, ApplicationStatus, Stages
<1>4. HandlersOK(req')
  BY GotoStep, FinishStep
     DEF SubmitWrite, SubmitRollback, WriteStatus, DecisionWrite, ResubmitWrite, PC
<1>5. UNCHANGED <<deleted, assignedTo, secVars, custVars, instance, loan, serial, approvals>>
  BY DEF SubmitWrite, SubmitRollback, WriteStatus, DecisionWrite, ResubmitWrite
<1>6. QED
  BY <1>1, <1>2, <1>3, <1>4, <1>5, StatusStep

LEMMA CreateInsertType ==
  ASSUME TypeOK, NEW r \in Requests, CreateInsert(r)
  PROVE  TypeOK'
<1>1. req[r] \in Handler /\ req[r].app \in Apps
  BY InFlight DEF CreateInsert
<1>2. HandlersOK(req')
  BY GotoStep, FinishStep DEF CreateInsert, PC
<1>3. status' \in [Apps -> ApplicationStatus \cup {"NONE"}]
  BY <1>1 DEF CreateInsert, SetStatus, TypeOK, InitialStatus, ApplicationStatus, Stages
<1>4. assignedTo' \in [Apps -> Users \cup {None}]
  BY <1>1 DEF CreateInsert, TypeOK, Handler
<1>5. QED
  BY <1>2, <1>3, <1>4 DEF CreateInsert, TypeOK, HandlersOK, secVars, custVars

LEMMA StartInsertType ==
  ASSUME TypeOK, NEW r \in Requests, StartInsert(r)
  PROVE  TypeOK'
<1>1. req[r].app \in Apps
  BY InFlight DEF StartInsert
<1>2. HandlersOK(req')
  BY GotoStep DEF StartInsert, PC
<1>3. serial' \in [Apps -> Nat]
  BY <1>1 DEF StartInsert, Advance, TypeOK
<1>4. instance' \in [Apps -> Instance]
  BY <1>1 DEF StartInsert, TypeOK, Instance, Task, InitialStage, Stages
<1>5. QED
  BY <1>2, <1>3, <1>4 DEF StartInsert, TypeOK, HandlersOK, appVars, secVars, custVars

\* The rows a transition leaves behind when it commits.
LEMMA CommitTransitionType ==
  ASSUME TypeOK, NEW r \in Requests, CommitTransition(r)
  PROVE  TypeOK'
<1> DEFINE a == req[r].app
<1>1. req[r] \in Handler /\ a \in Apps
  BY InFlight DEF CommitTransition
<1>2. HandlersOK(req')
  BY GotoStep, FinishStep DEF CommitTransition, PC
<1>3. CASE instance[a].id = req[r].inst
  <2>1. serial[a] \in Nat /\ instance[a] \in Instance
    BY <1>1 DEF TypeOK
  <2>2. serial' \in [Apps -> Nat]
    BY <1>1, <1>3, <2>1 DEF CommitTransition, TypeOK
  <2>3. NextTask(a, req[r].to) \in SUBSET Task
    BY <1>1, <2>1 DEF NextTask, Handler, Task
  <2>4. instance' \in [Apps -> Instance]
    BY <1>1, <1>3, <2>1, <2>3 DEF CommitTransition, TypeOK, Instance, Handler
  <2>5. approvals' \subseteq Approval
    BY <1>1, <1>3 DEF CommitTransition, TypeOK, Approval, Handler
  <2>6. QED
    BY <1>2, <1>3, <2>2, <2>4, <2>5
       DEF CommitTransition, TypeOK, HandlersOK, appVars, secVars, custVars
<1>4. CASE instance[a].id # req[r].inst
  BY <1>2, <1>4 DEF CommitTransition, TypeOK, HandlersOK, appVars, secVars, custVars
<1>5. QED
  BY <1>3, <1>4

LEMMA ClaimWriteType ==
  ASSUME TypeOK, NEW r \in Requests, ClaimWrite(r)
  PROVE  TypeOK'
<1>1. req[r] \in Handler /\ req[r].app \in Apps
  BY InFlight DEF ClaimWrite
<1>2. HandlersOK(req')
  BY FinishStep DEF ClaimWrite
<1>3. instance' \in [Apps -> Instance]
  BY <1>1 DEF ClaimWrite, TypeOK, Instance, Handler
<1>4. QED
  BY <1>2, <1>3 DEF ClaimWrite, TypeOK, HandlersOK, appVars, secVars, custVars

LEMMA DisburseWriteType ==
  ASSUME TypeOK, NEW r \in Requests, DisburseWrite(r)
  PROVE  TypeOK'
<1> DEFINE a == req[r].app
<1>1. a \in Apps /\ serial[a] \in Nat /\ CustomerOf[a] \in Customers
  BY InFlight, ConstantsAssumption DEF DisburseWrite, TypeOK
<1>2. HandlersOK(req')
  BY FinishStep DEF DisburseWrite
<1>3. CASE loan[a].id = 0
  <2>1. loan' \in [Apps -> Loan]
    <3> DEFINE new == [id |-> serial[a], status |-> "ACTIVE", referenced |-> FALSE]
    <3>1. new \in Loan /\ loan' = [loan EXCEPT ![a] = new]
      BY <1>1, <1>3 DEF DisburseWrite, Loan
    <3>2. QED
      BY <3>1 DEF TypeOK
  <2>2. serial' \in [Apps -> Nat]
    BY <1>1, <1>3 DEF DisburseWrite, Advance, TypeOK
  <2>3. status' \in [Apps -> ApplicationStatus \cup {"NONE"}]
    BY <1>1, <1>3 DEF DisburseWrite, SetStatus, TypeOK, ApplicationStatus
  <2>4. customerStatus' \in [Customers -> CustomerStatus]
    BY <1>1, <1>3 DEF DisburseWrite, TypeOK, CustomerStatus
  <2>5. QED
    BY <1>2, <1>3, <2>1, <2>2, <2>3, <2>4 DEF DisburseWrite, TypeOK, HandlersOK, secVars
<1>4. CASE loan[a].id # 0
  BY <1>2, <1>4 DEF DisburseWrite, TypeOK, HandlersOK, secVars
<1>5. QED
  BY <1>3, <1>4

LEMMA RemoveWriteType ==
  ASSUME TypeOK, NEW r \in Requests, RemoveWrite(r)
  PROVE  TypeOK'
<1> DEFINE a == req[r].app
<1>1. a \in Apps
  BY InFlight DEF RemoveWrite
<1>2. HandlersOK(req')
  BY FinishStep DEF RemoveWrite
<1>3. loan' \in [Apps -> Loan]
  <2>1. NoLoan \in Loan
    BY DEF Loan, NoLoan
  <2>2. QED
    BY <1>1, <2>1 DEF RemoveWrite, TypeOK
<1>4. instance' \in [Apps -> Instance]
  <2>1. NoInstance \in Instance
    BY DEF Instance, NoInstance, InitialStage, Stages
  <2>2. QED
    BY <1>1, <2>1 DEF RemoveWrite, TypeOK
<1>5. guarantors' \in [Apps -> SUBSET Guarantors]
  BY <1>1 DEF RemoveWrite, TypeOK
<1>6. collateral' \in [Apps -> BOOLEAN] /\ deleted' \in [Apps -> BOOLEAN]
  BY <1>1 DEF RemoveWrite, TypeOK
<1>7. QED
  BY <1>2, <1>3, <1>4, <1>5, <1>6 DEF RemoveWrite, TypeOK, HandlersOK, custVars

LEMMA SecurityWriteType ==
  ASSUME TypeOK, NEW r \in Requests, GuarantorWrite(r) \/ CollateralWrite(r)
  PROVE  TypeOK'
<1>1. req[r] \in Handler /\ req[r].app \in Apps
  BY InFlight DEF GuarantorWrite, CollateralWrite
<1>2. HandlersOK(req')
  BY FinishStep DEF GuarantorWrite, CollateralWrite
<1>3. CASE GuarantorWrite(r)
  <2>1. guarantors[req[r].app] \subseteq Guarantors
    BY <1>1 DEF TypeOK
  <2>2. req[r].guarantor \subseteq Guarantors
    BY <1>1 DEF Handler
  <2>3. guarantors' \in [Apps -> SUBSET Guarantors]
    BY <1>1, <1>3, <2>1, <2>2 DEF GuarantorWrite, TypeOK
  <2>4. QED
    BY <1>2, <1>3, <2>3 DEF GuarantorWrite, TypeOK, HandlersOK, appVars, custVars
<1>4. CASE CollateralWrite(r)
  BY <1>1, <1>2, <1>4 DEF CollateralWrite, TypeOK, HandlersOK, appVars, custVars
<1>5. QED
  BY <1>3, <1>4

LEMMA EnvironmentType ==
  ASSUME TypeOK, Environment
  PROVE  TypeOK'
<1>1. ASSUME NEW a \in Apps, CompleteLoan(a) \/ ReferenceLoan(a)
      PROVE  TypeOK'
  <2>1. PICK new \in Loan : loan' = [loan EXCEPT ![a] = new]
    <3>1. loan[a].id \in Nat /\ loan[a].status \in {"NONE", "ACTIVE", "COMPLETED"}
      BY DEF TypeOK, Loan
    <3>2. QED
      BY <1>1, <3>1 DEF CompleteLoan, ReferenceLoan, Loan
  <2>2. customerStatus' \in [Customers -> CustomerStatus]
    BY <1>1, ConstantsAssumption DEF CompleteLoan, ReferenceLoan, TypeOK, CustomerStatus, custVars
  <2>3. QED
    BY <1>1, <2>1, <2>2 DEF CompleteLoan, ReferenceLoan, TypeOK, appVars, secVars, custVars
<1>2. ASSUME NEW c \in Customers, NEW d \in Documents,
             UploadDocument(c, d) \/ VerifyDocument(c, d) \/ RemoveDocument(c, d)
      PROVE  TypeOK'
  <2>1. docs' \in [Customers -> SUBSET Documents] /\ verified' \in [Customers -> SUBSET Documents]
    BY <1>2 DEF UploadDocument, VerifyDocument, RemoveDocument, TypeOK
  <2>2. QED
    BY <1>2, <2>1 DEF UploadDocument, VerifyDocument, RemoveDocument, TypeOK, appVars, secVars
<1>3. ASSUME NEW c \in Customers, NEW s \in StatusEdits, UpdateCustomerStatus(c, s)
      PROVE  TypeOK'
  BY <1>3, ConstantsAssumption DEF UpdateCustomerStatus, TypeOK, appVars, secVars
<1>4. ASSUME NEW c \in Customers, EditProfile(c)
      PROVE  TypeOK'
  BY <1>4 DEF EditProfile, TypeOK, appVars, secVars
<1>5. QED
  BY <1>1, <1>2, <1>3, <1>4 DEF Environment

-----------------------------------------------------------------------------
(* Type correctness *)

LEMMA ReviewTransitionType ==
  ASSUME TypeOK, NEW r \in Requests, ReviewTransition(r)
  PROVE  TypeOK'
<1>1. req[r] \in Handler /\ req[r].app \in Apps
  BY InFlight DEF ReviewTransition
<1>2. req[r].user \in Users \cup {None} /\ req[r].action \in Actions \cup {"NONE"}
  BY <1>1 DEF Handler
<1>3. QED
  BY <1>1, <1>2, TransitionType DEF ReviewTransition

LEMMA InitType == Init => TypeOK
<1> SUFFICES ASSUME Init PROVE TypeOK
  OBVIOUS
<1>1. req \in [Requests -> Handler] /\ \A r \in Requests : req[r].pc = "idle"
  BY IdleType DEF Init
<1>2. loan \in [Apps -> Loan] /\ instance \in [Apps -> Instance]
  BY DEF Init, Loan, NoLoan, Instance, NoInstance, InitialStage, Stages
<1>3. QED
  BY <1>1, <1>2 DEF Init, TypeOK, ApplicationStatus, CustomerStatus

LEMMA TypeStep == TypeOK /\ [Next]_vars => TypeOK'
<1> SUFFICES ASSUME TypeOK, [Next]_vars PROVE TypeOK'
  OBVIOUS
<1>1. ASSUME NEW r \in Requests, Step(r)
      PROVE  TypeOK'
  BY <1>1, ReadingStepType, StatusStepType, CreateInsertType, StartInsertType,
     CommitTransitionType, ClaimWriteType, DisburseWriteType, RemoveWriteType,
     SecurityWriteType, ReviewTransitionType DEF Step
<1>2. ASSUME NEW r \in Requests, Fail(r)
      PROVE  TypeOK'
  BY <1>2, ReadingStepType
<1>3. ASSUME NEW r \in Requests, NEW u \in Users, NEW a \in Apps, Call(r, u, a)
      PROVE  TypeOK'
  BY <1>3, CallType
<1>4. CASE Environment
  BY <1>4, EnvironmentType
<1>5. CASE UNCHANGED vars
  BY <1>5 DEF vars, TypeOK
<1>6. QED
  BY <1>1, <1>2, <1>3, <1>4, <1>5 DEF Next

\* Every row and every value a handler holds across its awaits stays in its
\* domain; in particular the status only takes values of LoanApplicationStatus.
THEOREM TypeCorrect == Spec => []TypeOK
<1>1. Init => TypeOK
  BY InitType
<1>2. TypeOK /\ [Next]_vars => TypeOK'
  BY TypeStep
<1>3. QED
  BY <1>1, <1>2, PTL DEF Spec

-----------------------------------------------------------------------------
(* Which steps matter to the approvals and the loans *)

\* The points at which a handler holds a read that a later write relies on.
Holding == {"commit", "disburseWrite", "removeWrite"}

\* No handler gets to such a point.
Harmless ==
  \A q \in Requests : req'[q] = req[q] \/ req'[q].pc \notin Holding

\* A step that leaves instances, approvals and loan ids alone, makes no
\* application DISBURSED and lets no handler hold a read.
Quiet ==
  /\ Harmless
  /\ UNCHANGED <<instance, serial, approvals>>
  /\ \A a \in Apps : loan'[a].id = loan[a].id
  /\ \A a \in Apps : status'[a] = status[a] \/ status'[a] # "DISBURSED"

LEMMA FinishHarmless ==
  ASSUME TypeOK, NEW r \in Requests, Finish(r)
  PROVE  Harmless
BY IdleType DEF Finish, Harmless, Holding, TypeOK

LEMMA GotoHarmless ==
  ASSUME TypeOK, NEW r \in Requests, NEW pc \in PC \ Holding, Goto(r, pc)
  PROVE  Harmless
<1>1. req[r] \in Handler
  BY DEF TypeOK
<1>2. [req[r] EXCEPT !.pc = pc].pc = pc
  BY <1>1 DEF Handler
<1>3. QED
  BY <1>2 DEF Goto, Harmless, TypeOK

LEMMA BeginHarmless ==
  ASSUME TypeOK, NEW r \in Requests, NEW h, h.pc \notin Holding,
         req' = [req EXCEPT ![r] = h]
  PROVE  Harmless
BY DEF Harmless, TypeOK

\* The calls that hold nothing dangerous.
LEMMA CallQuiet ==
  ASSUME TypeOK, NEW r \in Requests, NEW u \in Users, NEW a \in Apps, Call(r, u, a)
  PROVE  \/ Quiet \/ Remove(r, u, a)
         \/ \E action \in Actions : ReadInstance(r, u, a, action)
<1> USE DEF Quiet, appVars
<1>1. CASE Create(r, u, a)
  <2>1. [Idle EXCEPT !.pc = "createCheck", !.user = u, !.app = a].pc = "createCheck"
    BY DEF Idle
  <2>2. Harmless
    BY <1>1, <2>1, BeginHarmless DEF Create, Holding
  <2>3. QED
    BY <1>1, <2>2 DEF Create
<1>2. CASE Submit(r, u, a)
  <2>1. [Idle EXCEPT !.pc = "submitWrite", !.app = a, !.read = status[a]].pc = "submitWrite"
    BY DEF Idle
  <2>2. Harmless
    BY <1>2, <2>1, BeginHarmless DEF Submit, Holding
  <2>3. QED
    BY <1>2, <2>2 DEF Submit
<1>3. CASE Resubmit(r, u, a) \/ Disburse(r, u, a) \/ AddCollateral(r, u, a)
  <2>1. PICK pc \in {"resubmitWrite", "disburseCheck", "addCollateral"} : Begin(r, pc, a)
    BY <1>3 DEF Resubmit, Disburse, AddCollateral
  <2>2. [Idle EXCEPT !.pc = pc, !.app = a].pc = pc
    BY DEF Idle
  <2>3. Harmless
    BY <2>1, <2>2, BeginHarmless DEF Begin, Holding
  <2>4. QED
    BY <1>3, <2>3 DEF Resubmit, Disburse, AddCollateral
<1>4. ASSUME NEW action \in Actions, Review(r, u, a, action)
      PROVE  Quiet
  <2>1. [Idle EXCEPT !.pc = "reviewTransition", !.user = u, !.app = a,
                     !.action = action].pc = "reviewTransition"
    BY DEF Idle
  <2>2. Harmless
    BY <1>4, <2>1, BeginHarmless DEF Review, Holding
  <2>3. QED
    BY <1>4, <2>2 DEF Review
<1>5. ASSUME NEW t \in instance[a].todo, Claim(r, u, a, t)
      PROVE  Quiet
  <2>1. [Idle EXCEPT !.pc = "claimWrite", !.app = a, !.inst = instance[a].id,
                     !.tasks = {t}].pc = "claimWrite"
    BY DEF Idle
  <2>2. Harmless
    BY <1>5, <2>1, BeginHarmless DEF Claim, Holding
  <2>3. QED
    BY <1>5, <2>2 DEF Claim
<1>6. ASSUME NEW d \in Decisions, ComplianceReview(r, u, a, d)
      PROVE  Quiet
  <2>1. [Idle EXCEPT !.pc = "decisionWrite", !.app = a, !.decision = d].pc = "decisionWrite"
    BY DEF Idle
  <2>2. Harmless
    BY <1>6, <2>1, BeginHarmless DEF ComplianceReview, Holding
  <2>3. QED
    BY <1>6, <2>2 DEF ComplianceReview
<1>7. ASSUME NEW g \in Guarantors, AddGuarantor(r, u, a, g) \/ RemoveGuarantor(r, u, a, g)
      PROVE  Quiet
  <2>1. PICK pc \in {"addGuarantor", "removeGuarantor"} :
          req' = [req EXCEPT ![r] = [Idle EXCEPT !.pc = pc, !.app = a, !.guarantor = {g}]]
    BY <1>7 DEF AddGuarantor, RemoveGuarantor
  <2>2. [Idle EXCEPT !.pc = pc, !.app = a, !.guarantor = {g}].pc = pc
    BY DEF Idle
  <2>3. Harmless
    BY <2>1, <2>2, BeginHarmless DEF Holding
  <2>4. QED
    BY <1>7, <2>3 DEF AddGuarantor, RemoveGuarantor
<1>8. QED
  BY <1>1, <1>2, <1>3, <1>4, <1>5, <1>6, <1>7 DEF Call, Transition

\* The handler steps that write nothing the approvals and loans depend on.
LEMMA StepQuiet ==
  ASSUME TypeOK, NEW r \in Requests,
         \/ CreateCheck(r) \/ CreateInsert(r) \/ StartNotify(r) \/ StartFails(r)
         \/ SubmitWrite(r) \/ SubmitRollback(r) \/ WriteStatus(r)
         \/ DecisionWrite(r) \/ ResubmitWrite(r)
         \/ GuarantorWrite(r) \/ CollateralWrite(r) \/ Fail(r)
  PROVE  Quiet
<1>1. Harmless
  BY FinishHarmless, GotoHarmless
     DEF CreateCheck, CreateInsert, StartNotify, StartFails, SubmitWrite, SubmitRollback,
         WriteStatus, DecisionWrite, ResubmitWrite, GuarantorWrite, CollateralWrite, Fail,
         PC, Holding
<1>2. UNCHANGED <<instance, loan, serial, approvals>>
  BY DEF CreateCheck, CreateInsert, StartNotify, StartFails, SubmitWrite, SubmitRollback,
         WriteStatus, DecisionWrite, ResubmitWrite, GuarantorWrite, CollateralWrite, Fail
<1>3. \/ UNCHANGED status
      \/ \E s \in ApplicationStatus \ {"DISBURSED"} : SetStatus(req[r].app, s)
  <2>1. req[r] \in Handler
    BY DEF TypeOK
  <2>2. req[r].to # "DISBURSED" /\ req[r].to \in ApplicationStatus
    BY <2>1 DEF Handler, Stages, ApplicationStatus
  <2>3. Outcome[req[r].decision] \in ApplicationStatus \ {"DISBURSED"}
    BY <2>1 DEF Handler, Outcome, Stages, ApplicationStatus
  <2>4. InitialStatus(req[r].app) \in ApplicationStatus \ {"DISBURSED"}
    BY DEF InitialStatus, ApplicationStatus, Stages
  <2>5. {"COMPLIANCE_REVIEW", "DRAFT"} \subseteq ApplicationStatus \ {"DISBURSED"}
    BY DEF ApplicationStatus, Stages
  <2>6. QED
    BY <2>2, <2>3, <2>4, <2>5
       DEF CreateCheck, CreateInsert, StartNotify, StartFails, SubmitWrite, SubmitRollback,
           WriteStatus, DecisionWrite, ResubmitWrite, GuarantorWrite, CollateralWrite, Fail,
           appVars
<1>4. \A a \in Apps : status'[a] = status[a] \/ status'[a] # "DISBURSED"
  BY <1>3 DEF SetStatus, TypeOK
<1>5. QED
  BY <1>1, <1>2, <1>4 DEF Quiet

LEMMA EnvironmentQuiet ==
  ASSUME TypeOK, Environment
  PROVE  Quiet
<1>1. UNCHANGED <<status, instance, serial, req, approvals>>
  BY DEF Environment, CompleteLoan, ReferenceLoan, UploadDocument, VerifyDocument,
         RemoveDocument, EditProfile, UpdateCustomerStatus, appVars
<1>2. \A a \in Apps : loan'[a].id = loan[a].id
  BY DEF Environment, CompleteLoan, ReferenceLoan, UploadDocument, VerifyDocument,
         RemoveDocument, EditProfile, UpdateCustomerStatus, TypeOK
<1>3. QED
  BY <1>1, <1>2 DEF Quiet, Harmless

\* Every step is quiet or one of the seven the invariants are about.
LEMMA StepKinds ==
  ASSUME TypeOK, [Next]_vars
  PROVE  \/ Quiet
         \/ \E r \in Requests :
              \/ StartInsert(r) \/ CommitTransition(r) \/ ClaimWrite(r)
              \/ DisburseCheck(r) \/ DisburseWrite(r) \/ RemoveWrite(r)
         \/ \E r \in Requests, u \in Users, a \in Apps : Remove(r, u, a)
         \/ \E r \in Requests, u \in Users \cup {None}, a \in Apps,
                action \in Actions \cup {"NONE"} : ReadInstance(r, u, a, action)
<1>1. ASSUME NEW r \in Requests, ReviewTransition(r)
      PROVE  \E u \in Users \cup {None}, a \in Apps, action \in Actions \cup {"NONE"} :
               ReadInstance(r, u, a, action)
  <2>1. req[r] \in Handler /\ req[r].app \in Apps
    BY <1>1, InFlight DEF ReviewTransition
  <2>2. req[r].user \in Users \cup {None} /\ req[r].action \in Actions \cup {"NONE"}
    BY <2>1 DEF Handler
  <2>3. QED
    BY <1>1, <2>1, <2>2 DEF ReviewTransition
<1>2. CASE UNCHANGED vars
  BY <1>2 DEF vars, Quiet, Harmless
<1>3. CASE Next
  BY <1>1, <1>3, CallQuiet, StepQuiet, EnvironmentQuiet DEF Next, Step
<1>4. QED
  BY <1>2, <1>3

-----------------------------------------------------------------------------
(* Two-stage approval *)

\* Approvals are never withdrawn.
LEMMA ApprovalsGrow ==
  ASSUME TypeOK, [Next]_vars
  PROVE  approvals \subseteq approvals'
BY StepKinds DEF Quiet, StartInsert, CommitTransition, ClaimWrite, DisburseCheck, DisburseWrite,
   RemoveWrite, Remove, ReadInstance

\* What a handler relied on stays approved.
LEMMA HandlerKept ==
  ASSUME ApprovalChain, approvals \subseteq approvals',
         NEW q \in Requests, req'[q] = req[q]
  PROVE  HandlerCleared(q)'
BY DEF ApprovalChain, HandlerCleared, ClearedUpTo, Approved

\* So does what an instance stands on, also when only its tasks change or it
\* is deleted.
LEMMA InstanceKept ==
  ASSUME ApprovalChain, approvals \subseteq approvals', NEW a \in Apps,
         instance'[a].id # 0 => /\ instance'[a].id = instance[a].id
                                /\ instance'[a].stage = instance[a].stage
  PROVE  InstanceCleared(a)'
BY DEF ApprovalChain, InstanceCleared, ClearedUpTo, Approved

\* A harmless step keeps the handlers' part of the chain.
LEMMA HarmlessChain ==
  ASSUME ApprovalChain, Harmless, approvals \subseteq approvals',
         \A a \in Apps : InstanceCleared(a)'
  PROVE  ApprovalChain'
<1>1. ASSUME NEW q \in Requests, req'[q].pc \notin Holding
      PROVE  HandlerCleared(q)'
  BY <1>1 DEF HandlerCleared, Holding
<1>2. QED
  BY <1>1, HandlerKept DEF ApprovalChain, Harmless

\* A step that gives one request a handler keeps the chain if that one is cleared.
LEMMA HandlerChain ==
  ASSUME TypeOK, ApprovalChain, UNCHANGED <<instance, approvals>>,
         NEW r \in Requests, NEW h, req' = [req EXCEPT ![r] = h], HandlerCleared(r)'
  PROVE  ApprovalChain'
<1>1. \A q \in Requests : q # r => req'[q] = req[q]
  BY DEF TypeOK
<1>2. \A a \in Apps : InstanceCleared(a)'
  BY InstanceKept
<1>3. \A q \in Requests : HandlerCleared(q)'
  BY <1>1, HandlerKept
<1>4. QED
  BY <1>2, <1>3 DEF ApprovalChain

LEMMA ChainReadInstance ==
  ASSUME TypeOK, ApprovalChain, NEW r \in Requests, NEW u \in Users \cup {None}, NEW a \in Apps,
         NEW action \in Actions \cup {"NONE"}, ReadInstance(r, u, a, action)
  PROVE  ApprovalChain'
<1>1. PICK e \in Edges :
        /\ e.from = instance[a].stage /\ e.action = action
        /\ req' = [req EXCEPT ![r] =
             [Idle EXCEPT !.pc = "commit", !.user = u, !.app = a, !.action = action,
                          !.inst = instance[a].id, !.from = e.from, !.to = e.to,
                          !.tasks = OpenTasks(a)]]
  BY DEF ReadInstance, EdgesFrom
<1> DEFINE h == [Idle EXCEPT !.pc = "commit", !.user = u, !.app = a, !.action = action,
                             !.inst = instance[a].id, !.from = e.from, !.to = e.to,
                             !.tasks = OpenTasks(a)]
<1>2. /\ h.pc = "commit" /\ h.user = u /\ h.app = a /\ h.action = action
      /\ h.inst = instance[a].id /\ h.from = e.from /\ h.to = e.to
  BY DEF Idle
<1>3. [from |-> h.from, action |-> h.action, to |-> h.to] = e
  BY <1>1, <1>2 DEF Edges
<1>4. UNCHANGED <<instance, approvals>> /\ req'[r] = h
  BY <1>1 DEF ReadInstance, TypeOK
<1>5. instance[a].id \in Nat \ {0} /\ PermittedAt(u, instance[a].stage)
  BY DEF ReadInstance, TypeOK, Instance
<1>6. h.inst \in 1..MaxSerial /\ ClearedUpTo(a, h.inst, h.from)
  BY <1>1, <1>2, <1>5, BoundAssumption DEF ApprovalChain, InstanceCleared
<1>7. PermittedAt(h.user, h.from)
  BY <1>1, <1>2, <1>5
<1>8. HandlerCleared(r)'
  <2> HIDE DEF h
  <2>1. QED
    BY <1>2, <1>3, <1>4, <1>6, <1>7 DEF HandlerCleared, ClearedUpTo, Approved, PermittedAt
<1>9. QED
  BY <1>1, <1>4, <1>8, HandlerChain

LEMMA ChainCommit ==
  ASSUME TypeOK, ApprovalChain, NEW r \in Requests, CommitTransition(r)
  PROVE  ApprovalChain'
<1>1. PICK a \in Apps : a = req[r].app
  BY InFlight DEF CommitTransition
<1>2. Harmless
  BY FinishHarmless, GotoHarmless DEF CommitTransition, PC, Holding
<1>3. CASE instance[a].id = req[r].inst
  <2>1. /\ [from |-> req[r].from, action |-> req[r].action, to |-> req[r].to] \in Edges
        /\ PermittedAt(req[r].user, req[r].from)
        /\ req[r].inst \in 1..MaxSerial
        /\ ClearedUpTo(a, req[r].inst, req[r].from)
    BY <1>1 DEF ApprovalChain, HandlerCleared, CommitTransition
  <2>2. instance'[a].id = req[r].inst /\ instance'[a].stage = req[r].to
    BY <1>1, <1>3 DEF CommitTransition, TypeOK
  <2>3. approvals \subseteq approvals'
    BY <1>1, <1>3 DEF CommitTransition
  <2>4. req[r].action = "APPROVE"
          => [app |-> a, inst |-> req[r].inst, stage |-> req[r].from] \in approvals'
    BY <1>1, <1>3, <2>1 DEF CommitTransition
  <2>5. InstanceCleared(a)'
    <3>1. instance'[a].id <= MaxSerial
      BY <2>1, <2>2, BoundAssumption
    <3>2. ClearedUpTo(a, instance[a].id, instance[a].stage)'
      BY <2>1, <2>2, <2>3, <2>4 DEF Edges, ClearedUpTo, Approved
    <3>3. QED
      BY <3>1, <3>2 DEF InstanceCleared
  <2>6. \A b \in Apps : b # a => instance'[b] = instance[b]
    BY <1>1, <1>3 DEF CommitTransition, TypeOK
  <2>7. \A b \in Apps : InstanceCleared(b)'
    BY <2>3, <2>5, <2>6, InstanceKept
  <2>8. QED
    BY <1>2, <2>3, <2>7, HarmlessChain
<1>4. CASE instance[a].id # req[r].inst
  <2>1. UNCHANGED <<instance, approvals>>
    BY <1>1, <1>4 DEF CommitTransition
  <2>2. QED
    BY <1>2, <2>1, InstanceKept, HarmlessChain
<1>5. QED
  BY <1>3, <1>4

LEMMA ChainDisburseCheck ==
  ASSUME TypeOK, ApprovalChain, NEW r \in Requests, DisburseCheck(r)
  PROVE  ApprovalChain'
<1> DEFINE a == req[r].app
           i == instance[req[r].app]
<1>1. req[r] \in Handler /\ a \in Apps
  BY InFlight DEF DisburseCheck
<1>2. i.id \in Nat
  BY <1>1 DEF TypeOK, Instance
<1>3. UNCHANGED <<instance, approvals>>
  BY DEF DisburseCheck
<1>4. CASE WorkflowComplete(i)
  <2> DEFINE h == [req[r] EXCEPT !.pc = "disburseWrite", !.inst = i.id]
  <2>1. h.pc = "disburseWrite" /\ h.app = a /\ h.inst = i.id
    BY <1>1 DEF Handler
  <2>2. i.id \in 1..MaxSerial /\ ClearedUpTo(a, i.id, "APPROVED")
    BY <1>1, <1>2, <1>4, BoundAssumption DEF WorkflowComplete, ApprovalChain, InstanceCleared
  <2>3. req' = [req EXCEPT ![r] = h]
    BY <1>4 DEF DisburseCheck
  <2>4. req'[r] = h
    BY <2>3 DEF TypeOK
  <2>5. HandlerCleared(r)'
    <3> HIDE DEF h
    <3>1. QED
      BY <1>3, <2>1, <2>2, <2>4 DEF HandlerCleared, ClearedUpTo, Approved
  <2>6. QED
    BY <1>3, <2>3, <2>5, HandlerChain
<1>5. CASE ~WorkflowComplete(i)
  <2>1. Harmless
    BY <1>5, FinishHarmless DEF DisburseCheck
  <2>2. QED
    BY <1>3, <2>1, InstanceKept, HarmlessChain
<1>6. QED
  BY <1>4, <1>5

LEMMA ChainStart ==
  ASSUME TypeOK, ApprovalChain, NEW r \in Requests, StartInsert(r)
  PROVE  ApprovalChain'
<1>1. Harmless
  BY GotoHarmless DEF StartInsert, PC, Holding
<1>2. PICK a \in Apps : a = req[r].app /\ serial[a] <= MaxSerial /\ UNCHANGED approvals
  BY InFlight DEF StartInsert, Bounded
<1>3. instance'[a].id = serial[a] /\ instance'[a].stage = "COMPLIANCE_REVIEW"
  BY <1>2 DEF StartInsert, TypeOK, InitialStage
<1>4. InstanceCleared(a)'
  BY <1>2, <1>3 DEF InstanceCleared, ClearedUpTo
<1>5. \A b \in Apps : b # a => instance'[b] = instance[b]
  BY <1>2 DEF StartInsert, TypeOK
<1>6. \A b \in Apps : InstanceCleared(b)'
  BY <1>2, <1>4, <1>5, InstanceKept
<1>7. QED
  BY <1>1, <1>2, <1>6, HarmlessChain

LEMMA ChainClaimWrite ==
  ASSUME TypeOK, ApprovalChain, NEW r \in Requests, ClaimWrite(r)
  PROVE  ApprovalChain'
<1>1. Harmless /\ UNCHANGED approvals
  BY FinishHarmless DEF ClaimWrite
<1>2. req[r].app \in Apps
  BY InFlight DEF ClaimWrite
<1>3. \A b \in Apps : instance'[b].id = instance[b].id /\ instance'[b].stage = instance[b].stage
  BY <1>2 DEF ClaimWrite, TypeOK
<1>4. QED
  BY <1>1, <1>3, InstanceKept, HarmlessChain

LEMMA ChainRemoveWrite ==
  ASSUME TypeOK, ApprovalChain, NEW r \in Requests, RemoveWrite(r)
  PROVE  ApprovalChain'
<1>1. Harmless /\ UNCHANGED approvals
  BY FinishHarmless DEF RemoveWrite
<1>2. \A b \in Apps : instance'[b] = instance[b] \/ instance'[b].id = 0
  BY DEF RemoveWrite, TypeOK, NoInstance
<1>3. QED
  BY <1>1, <1>2, InstanceKept, HarmlessChain

LEMMA ChainStep ==
  ASSUME TypeOK, ApprovalChain, [Next]_vars
  PROVE  ApprovalChain'
<1>1. CASE Quiet
  BY <1>1, InstanceKept, HarmlessChain DEF Quiet
<1>2. ASSUME NEW r \in Requests, DisburseWrite(r)
      PROVE  ApprovalChain'
  <2>1. Harmless /\ UNCHANGED <<instance, approvals>>
    BY <1>2, FinishHarmless DEF DisburseWrite
  <2>2. QED
    BY <2>1, InstanceKept, HarmlessChain
<1>3. ASSUME NEW r \in Requests, NEW u \in Users, NEW a \in Apps, Remove(r, u, a)
      PROVE  ApprovalChain'
  <2> DEFINE h == [Idle EXCEPT !.pc = "removeWrite", !.app = a, !.loan = loan[a].id]
  <2>1. h.pc = "removeWrite"
    BY DEF Idle
  <2>2. req' = [req EXCEPT ![r] = h] /\ UNCHANGED <<instance, approvals>>
    BY <1>3 DEF Remove
  <2>3. req'[r] = h
    BY <2>2 DEF TypeOK
  <2>4. HandlerCleared(r)'
    BY <2>1, <2>3 DEF HandlerCleared
  <2>5. QED
    BY <2>2, <2>4, HandlerChain
<1>4. QED
  BY <1>1, <1>2, <1>3, StepKinds, ChainReadInstance, ChainCommit, ChainDisburseCheck,
     ChainStart, ChainClaimWrite, ChainRemoveWrite

LEMMA ChainInit == Init => ApprovalChain
BY IdleType DEF Init, ApprovalChain, InstanceCleared, HandlerCleared, NoInstance

LEMMA TwoStageStep ==
  ASSUME TypeOK, ApprovalChain, TwoStageApproval, [Next]_vars
  PROVE  TwoStageApproval'
<1>1. approvals \subseteq approvals'
  BY ApprovalsGrow
<1>2. ASSUME NEW a \in Apps, loan'[a].id = loan[a].id \/ loan'[a].id = 0
      PROVE  (loan[a].id # 0 =>
                \E p \in approvals :
                  p.app = a /\ Approved(a, p.inst, "COMPLIANCE_REVIEW")
                            /\ Approved(a, p.inst, "INTERNAL_CONTROL_REVIEW"))'
  BY <1>1, <1>2 DEF TwoStageApproval, Approved
<1>3. ASSUME NEW r \in Requests, DisburseWrite(r)
      PROVE  TwoStageApproval'
  <2> DEFINE a == req[r].app
             p == [app |-> a, inst |-> req[r].inst, stage |-> "COMPLIANCE_REVIEW"]
  <2>1. ClearedUpTo(a, req[r].inst, "APPROVED") /\ UNCHANGED approvals
    BY <1>3 DEF DisburseWrite, ApprovalChain, HandlerCleared
  <2>2. /\ p \in approvals' /\ p.app = a
        /\ [app |-> a, inst |-> p.inst, stage |-> "COMPLIANCE_REVIEW"] \in approvals'
        /\ [app |-> a, inst |-> p.inst, stage |-> "INTERNAL_CONTROL_REVIEW"] \in approvals'
    BY <2>1 DEF ClearedUpTo, Approved
  <2>3. \A b \in Apps : b # a => loan'[b] = loan[b]
    BY <1>3 DEF DisburseWrite, TypeOK
  <2>4. QED
    BY <1>2, <2>2, <2>3 DEF TwoStageApproval, Approved
<1>4. ASSUME NEW r \in Requests, RemoveWrite(r)
      PROVE  \A a \in Apps : loan'[a].id = loan[a].id \/ loan'[a].id = 0
  BY <1>4 DEF RemoveWrite, TypeOK, NoLoan
<1>5. ASSUME NEW r \in Requests,
             StartInsert(r) \/ CommitTransition(r) \/ ClaimWrite(r) \/ DisburseCheck(r)
      PROVE  UNCHANGED loan
  BY <1>5 DEF StartInsert, CommitTransition, ClaimWrite, DisburseCheck
<1>6. CASE \A a \in Apps : loan'[a].id = loan[a].id \/ loan'[a].id = 0
  BY <1>2, <1>6 DEF TwoStageApproval
<1>7. QED
  BY <1>3, <1>4, <1>5, <1>6, StepKinds DEF Quiet, Remove, ReadInstance

\* However requests interleave, fail and retry, no loan comes into being
\* without the approval of compliance and then of internal control in one
\* workflow instance of its application.
THEOREM TwoStageCorrect == Spec => [](ApprovalChain /\ TwoStageApproval)
<1>1. Init => TypeOK /\ ApprovalChain /\ TwoStageApproval
  <2>1. Init => TwoStageApproval
    BY DEF Init, TwoStageApproval, NoLoan
  <2>2. QED
    BY <2>1, InitType, ChainInit
<1>2. TypeOK /\ ApprovalChain /\ TwoStageApproval /\ [Next]_vars
        => (TypeOK /\ ApprovalChain /\ TwoStageApproval)'
  BY TypeStep, ChainStep, TwoStageStep
<1>3. QED
  BY <1>1, <1>2, PTL DEF Spec

-----------------------------------------------------------------------------
(* The loan behind DISBURSED *)

\* Ids only grow, and a loan that appears takes an id no removal holds yet.
LEMMA StaleKept ==
  ASSUME TypeOK, RemovalIsStale, Harmless,
         \A a \in Apps :
           /\ serial'[a] \in Nat /\ serial'[a] >= serial[a]
           /\ \/ /\ loan'[a].id = loan[a].id
                 /\ status'[a] = status[a] \/ status'[a] # "DISBURSED"
              \/ loan'[a].id = 0
              \/ loan'[a].id = serial[a] /\ serial'[a] = serial[a] + 1
  PROVE  RemovalIsStale'
<1>1. \A a \in Apps : serial[a] \in Nat /\ loan[a].id \in Nat
  BY DEF TypeOK, Loan
<1>2. \A q \in Requests : req[q].loan \in Nat
  BY DEF TypeOK, Handler
<1>3. \A a \in Apps : serial'[a] >= 1 /\ loan'[a].id < serial'[a]
  BY <1>1 DEF RemovalIsStale
<1>4. ASSUME NEW q \in Requests, req'[q].pc = "removeWrite"
      PROVE  /\ req'[q].loan < serial'[req'[q].app]
             /\ req'[q].loan # 0 /\ loan'[req'[q].app].id = req'[q].loan
                  => status'[req'[q].app] # "DISBURSED"
  <2>1. req'[q] = req[q] /\ req[q].app \in Apps
    BY <1>4, InFlight DEF Harmless, Holding
  <2>2. QED
    BY <1>1, <1>2, <1>4, <2>1 DEF RemovalIsStale
<1>5. QED
  BY <1>3, <1>4 DEF RemovalIsStale

LEMMA LoanDisburse ==
  ASSUME TypeOK, RemovalIsStale, DisbursedHasLoan, NEW r \in Requests, DisburseWrite(r)
  PROVE  RemovalIsStale' /\ DisbursedHasLoan'
<1>1. Harmless
  BY FinishHarmless DEF DisburseWrite
<1>2. PICK a \in Apps : a = req[r].app /\ serial[a] \in Nat /\ serial[a] >= 1
  BY InFlight DEF DisburseWrite, TypeOK, RemovalIsStale
<1>3. \A b \in Apps : b # a => /\ loan'[b] = loan[b] /\ status'[b] = status[b]
                                /\ serial'[b] = serial[b]
  BY <1>2 DEF DisburseWrite, SetStatus, Advance, TypeOK
<1>4. \/ /\ loan'[a].id = serial[a] /\ serial'[a] = serial[a] + 1
      \/ /\ loan'[a].id = loan[a].id /\ loan[a].id # 0 /\ serial'[a] = serial[a]
         /\ status'[a] = status[a]
  BY <1>2 DEF DisburseWrite, SetStatus, Advance, TypeOK
<1>5. \A b \in Apps : serial[b] \in Nat
  BY DEF TypeOK
<1>6. \A b \in Apps : serial'[b] \in Nat /\ serial'[b] >= serial[b]
  BY <1>2, <1>3, <1>4, <1>5
<1>7. RemovalIsStale'
  BY <1>1, <1>3, <1>4, <1>6, StaleKept
<1>8. DisbursedHasLoan'
  BY <1>2, <1>3, <1>4 DEF DisbursedHasLoan
<1>9. QED
  BY <1>7, <1>8

LEMMA LoanRemoveWrite ==
  ASSUME TypeOK, RemovalIsStale, DisbursedHasLoan, NEW r \in Requests, RemoveWrite(r)
  PROVE  RemovalIsStale' /\ DisbursedHasLoan'
<1>1. Harmless /\ UNCHANGED <<status, serial>>
  BY FinishHarmless DEF RemoveWrite
<1>2. PICK a \in Apps : a = req[r].app
  BY InFlight DEF RemoveWrite
<1>3. \A b \in Apps : b # a => loan'[b] = loan[b]
  BY <1>2 DEF RemoveWrite, TypeOK
<1>4. \/ loan'[a] = loan[a]
      \/ loan'[a].id = 0 /\ req[r].loan # 0 /\ loan[a].id = req[r].loan
  BY <1>2 DEF RemoveWrite, TypeOK, NoLoan
<1>5. status[a] = "DISBURSED" => loan'[a] = loan[a]
  BY <1>2, <1>4 DEF RemovalIsStale, RemoveWrite
<1>6. \A b \in Apps : serial[b] \in Nat
  BY DEF TypeOK
<1>7. RemovalIsStale'
  BY <1>1, <1>3, <1>4, <1>6, StaleKept
<1>8. DisbursedHasLoan'
  BY <1>1, <1>3, <1>5 DEF DisbursedHasLoan
<1>9. QED
  BY <1>7, <1>8

LEMMA LoanRemove ==
  ASSUME TypeOK, RemovalIsStale, DisbursedHasLoan, NEW r \in Requests, NEW u \in Users,
         NEW a \in Apps, Remove(r, u, a)
  PROVE  RemovalIsStale' /\ DisbursedHasLoan'
<1> DEFINE h == [Idle EXCEPT !.pc = "removeWrite", !.app = a, !.loan = loan[a].id]
<1>1. h.app = a /\ h.loan = loan[a].id
  BY DEF Idle
<1>2. \A q \in Requests : req'[q] = IF q = r THEN h ELSE req[q]
  BY DEF Remove, TypeOK
<1>3. UNCHANGED <<status, loan, serial>>
  BY DEF Remove, appVars
<1>4. loan[a].id < serial[a] /\ (loan[a].id # 0 => status[a] # "DISBURSED")
  BY DEF RemovalIsStale, Remove, Removable
<1>5. QED
  BY <1>1, <1>2, <1>3, <1>4 DEF RemovalIsStale, DisbursedHasLoan

LEMMA LoanStep ==
  ASSUME TypeOK, RemovalIsStale, DisbursedHasLoan, [Next]_vars
  PROVE  RemovalIsStale' /\ DisbursedHasLoan'
<1>1. ASSUME Harmless,
             \A a \in Apps : /\ serial'[a] \in Nat /\ serial'[a] >= serial[a]
                             /\ loan'[a].id = loan[a].id
                             /\ status'[a] = status[a] \/ status'[a] # "DISBURSED"
      PROVE  RemovalIsStale' /\ DisbursedHasLoan'
  BY <1>1, StaleKept DEF DisbursedHasLoan
<1>2. \A a \in Apps : serial[a] \in Nat
  BY DEF TypeOK
<1>3. CASE Quiet
  BY <1>1, <1>2, <1>3 DEF Quiet
<1>4. ASSUME NEW r \in Requests, StartInsert(r) \/ CommitTransition(r) \/ ClaimWrite(r)
      PROVE  RemovalIsStale' /\ DisbursedHasLoan'
  <2>1. Harmless
    BY <1>4, FinishHarmless, GotoHarmless DEF StartInsert, CommitTransition, ClaimWrite, PC, Holding
  <2>2. UNCHANGED <<status, loan>>
    BY <1>4 DEF StartInsert, CommitTransition, ClaimWrite, appVars
  <2>3. \A a \in Apps : serial'[a] = serial[a] \/ serial'[a] = serial[a] + 1
    BY <1>4 DEF StartInsert, CommitTransition, ClaimWrite, Advance, TypeOK
  <2>4. QED
    BY <1>1, <1>2, <2>1, <2>2, <2>3
<1>5. ASSUME NEW r \in Requests, NEW h, h.pc # "removeWrite", req' = [req EXCEPT ![r] = h],
             UNCHANGED <<status, loan, serial>>
      PROVE  RemovalIsStale' /\ DisbursedHasLoan'
  BY <1>5 DEF RemovalIsStale, DisbursedHasLoan, TypeOK
<1>6. ASSUME NEW r \in Requests, NEW u \in Users \cup {None}, NEW a \in Apps,
             NEW action \in Actions \cup {"NONE"}, ReadInstance(r, u, a, action)
      PROVE  RemovalIsStale' /\ DisbursedHasLoan'
  <2>1. PICK e \in Edges : req' = [req EXCEPT ![r] =
          [Idle EXCEPT !.pc = "commit", !.user = u, !.app = a, !.action = action,
                       !.inst = instance[a].id, !.from = e.from, !.to = e.to,
                       !.tasks = OpenTasks(a)]]
    BY <1>6 DEF ReadInstance, EdgesFrom
  <2>2. [Idle EXCEPT !.pc = "commit", !.user = u, !.app = a, !.action = action,
                     !.inst = instance[a].id, !.from = e.from, !.to = e.to,
                     !.tasks = OpenTasks(a)].pc = "commit"
    BY DEF Idle
  <2>3. QED
    BY <1>5, <1>6, <2>1, <2>2 DEF ReadInstance, appVars
<1>7. ASSUME NEW r \in Requests, DisburseCheck(r)
      PROVE  RemovalIsStale' /\ DisbursedHasLoan'
  <2>1. UNCHANGED <<status, loan, serial>> /\ req[r] \in Handler
    BY <1>7, InFlight DEF DisburseCheck, appVars
  <2>2. PICK h : req' = [req EXCEPT ![r] = h] /\ h.pc \in {"disburseWrite", "idle"}
    <3> DEFINE g == [req[r] EXCEPT !.pc = "disburseWrite", !.inst = instance[req[r].app].id]
    <3>1. g.pc = "disburseWrite" /\ Idle.pc = "idle"
      BY <2>1, IdleType DEF Handler
    <3>2. req' = [req EXCEPT ![r] = g] \/ req' = [req EXCEPT ![r] = Idle]
      BY <1>7 DEF DisburseCheck, Finish
    <3>3. QED
      BY <3>1, <3>2
  <2>3. QED
    BY <1>5, <2>1, <2>2
<1>8. QED
  BY <1>3, <1>4, <1>6, <1>7, StepKinds, LoanDisburse, LoanRemoveWrite, LoanRemove

\* However removals, disbursements and retries interleave, an application that
\* reads DISBURSED has its loan.
THEOREM DisbursedCorrect == Spec => [](RemovalIsStale /\ DisbursedHasLoan)
<1>1. Init => TypeOK /\ RemovalIsStale /\ DisbursedHasLoan
  <2>1. Init => RemovalIsStale /\ DisbursedHasLoan
    BY IdleType DEF Init, RemovalIsStale, DisbursedHasLoan, NoLoan
  <2>2. QED
    BY <2>1, InitType
<1>2. TypeOK /\ RemovalIsStale /\ DisbursedHasLoan /\ [Next]_vars
        => (TypeOK /\ RemovalIsStale /\ DisbursedHasLoan)'
  BY TypeStep, LoanStep
<1>3. QED
  BY <1>1, <1>2, PTL DEF Spec

-----------------------------------------------------------------------------
(* The open task of an unfinished stage *)

LEMMA TaskStep ==
  ASSUME TypeOK, StageHasOpenTask, [Next]_vars
  PROVE  StageHasOpenTask'
<1>1. ASSUME UNCHANGED instance
      PROVE  StageHasOpenTask'
  BY <1>1 DEF StageHasOpenTask
<1>2. ASSUME NEW r \in Requests, StartInsert(r)
      PROVE  StageHasOpenTask'
  BY <1>2, InFlight DEF StartInsert, StageHasOpenTask, TypeOK
<1>3. ASSUME NEW r \in Requests, CommitTransition(r)
      PROVE  StageHasOpenTask'
  <2>1. PICK a \in Apps : a = req[r].app
    BY <1>3, InFlight DEF CommitTransition
  <2>2. CASE instance[a].id = req[r].inst
    <3>1. /\ instance'[a].stage = req[r].to
          /\ instance'[a].todo = (instance[a].todo \ req[r].tasks) \cup NextTask(a, req[r].to)
      BY <1>3, <2>1, <2>2 DEF CommitTransition, TypeOK
    <3>2. req[r].to \notin TerminalStages => NextTask(a, req[r].to) # {}
      BY DEF NextTask
    <3>3. \A b \in Apps : b # a => instance'[b] = instance[b]
      BY <1>3, <2>1, <2>2 DEF CommitTransition, TypeOK
    <3>4. QED
      BY <3>1, <3>2, <3>3 DEF StageHasOpenTask
  <2>3. CASE instance[a].id # req[r].inst
    BY <1>1, <1>3, <2>1, <2>3 DEF CommitTransition
  <2>4. QED
    BY <2>2, <2>3
<1>4. ASSUME NEW r \in Requests, ClaimWrite(r)
      PROVE  StageHasOpenTask'
  BY <1>4, InFlight DEF ClaimWrite, StageHasOpenTask, TypeOK
<1>5. ASSUME NEW r \in Requests, RemoveWrite(r)
      PROVE  StageHasOpenTask'
  BY <1>5 DEF RemoveWrite, StageHasOpenTask, TypeOK, NoInstance
<1>6. ASSUME NEW r \in Requests, DisburseCheck(r) \/ DisburseWrite(r)
      PROVE  UNCHANGED instance
  BY <1>6 DEF DisburseCheck, DisburseWrite
<1>7. QED
  BY <1>1, <1>2, <1>3, <1>4, <1>5, <1>6, StepKinds DEF Quiet, Remove, ReadInstance

\* No race of transitions, claims and removals leaves a stage that is not
\* terminal without an open task, at which transition would refuse everything.
THEOREM TaskCorrect == Spec => []StageHasOpenTask
<1>1. Init => TypeOK /\ StageHasOpenTask
  <2>1. Init => StageHasOpenTask
    BY DEF Init, StageHasOpenTask, NoInstance
  <2>2. QED
    BY <2>1, InitType
<1>2. TypeOK /\ StageHasOpenTask /\ [Next]_vars => (TypeOK /\ StageHasOpenTask)'
  BY TypeStep, TaskStep
<1>3. QED
  BY <1>1, <1>2, PTL DEF Spec

-----------------------------------------------------------------------------
(* LoanApplications implements DisbursementPolicy *)

PaidOut == {a \in Apps : loan[a].id # 0}

LEMMA PolicyInit == Init => Policy!Init
BY DEF Init, Policy!Init, NoLoan

\* A committed transition clears its stage, or stutters.
LEMMA PolicyCommit ==
  ASSUME TypeOK, ApprovalChain, NEW r \in Requests, CommitTransition(r)
  PROVE  Policy!Next \/ UNCHANGED <<approvals, PaidOut>>
<1>1. PICK a \in Apps : a = req[r].app
  BY InFlight DEF CommitTransition
<1>2. UNCHANGED PaidOut
  BY DEF CommitTransition, PaidOut
<1>3. CASE UNCHANGED approvals
  BY <1>2, <1>3
<1>4. CASE approvals' # approvals
  <2> DEFINE i == req[r].inst
             s == req[r].from
  <2>1. /\ approvals' = approvals \cup {[app |-> a, inst |-> i, stage |-> s]}
        /\ req[r].action = "APPROVE"
    BY <1>1, <1>4 DEF CommitTransition
  <2>2. /\ [from |-> s, action |-> "APPROVE", to |-> req[r].to] \in Edges
        /\ i \in 1..MaxSerial /\ ClearedUpTo(a, i, s)
    BY <1>1, <2>1 DEF ApprovalChain, HandlerCleared, CommitTransition
  <2>3. CASE s = "COMPLIANCE_REVIEW"
    <3>1. Policy!ComplianceClears(a, i)
      BY <1>2, <2>1, <2>3 DEF Policy!ComplianceClears, Policy!Clearance, PaidOut
    <3>2. QED
      BY <2>2, <3>1 DEF Policy!Next
  <2>4. CASE s = "INTERNAL_CONTROL_REVIEW"
    <3>1. Policy!ControlClears(a, i)
      BY <1>2, <2>1, <2>2, <2>4
         DEF Policy!ControlClears, Policy!Clearance, PaidOut, ClearedUpTo, Approved
    <3>2. QED
      BY <2>2, <3>1 DEF Policy!Next
  <2>5. QED
    BY <2>2, <2>3, <2>4 DEF Edges
<1>5. QED
  BY <1>3, <1>4

LEMMA PolicyDisburse ==
  ASSUME TypeOK, ApprovalChain, NEW r \in Requests, DisburseWrite(r)
  PROVE  Policy!Next \/ UNCHANGED <<approvals, PaidOut>>
<1>1. PICK a \in Apps : a = req[r].app
  BY InFlight DEF DisburseWrite
<1>2. PICK i \in 1..MaxSerial : ClearedUpTo(a, i, "APPROVED")
  BY <1>1 DEF ApprovalChain, HandlerCleared, DisburseWrite
<1>3. UNCHANGED approvals
  BY DEF DisburseWrite
<1>4. \A b \in Apps : b # a => loan'[b] = loan[b]
  BY <1>1 DEF DisburseWrite, TypeOK
<1>5. CASE loan'[a].id # 0
  <2>1. PaidOut' = PaidOut \cup {a}
    BY <1>4, <1>5 DEF PaidOut
  <2>2. Policy!PayOut(a, i)
    BY <1>2, <1>3, <2>1 DEF Policy!PayOut, Policy!Clearance, PaidOut, ClearedUpTo, Approved
  <2>3. QED
    BY <2>2 DEF Policy!Next
<1>6. CASE loan'[a].id = 0
  <2>1. PaidOut' = PaidOut \ {a}
    BY <1>4, <1>6 DEF PaidOut
  <2>2. Policy!Withdraw(a)
    BY <1>3, <2>1 DEF Policy!Withdraw, PaidOut
  <2>3. QED
    BY <2>2 DEF Policy!Next
<1>7. QED
  BY <1>5, <1>6

LEMMA PolicyRemove ==
  ASSUME TypeOK, NEW r \in Requests, RemoveWrite(r)
  PROVE  Policy!Next \/ UNCHANGED <<approvals, PaidOut>>
<1>1. PICK a \in Apps : a = req[r].app
  BY InFlight DEF RemoveWrite
<1>2. \/ loan' = loan
      \/ loan' = [loan EXCEPT ![a] = NoLoan]
  BY <1>1 DEF RemoveWrite
<1>3. UNCHANGED approvals
  BY DEF RemoveWrite
<1>4. CASE loan' = loan
  BY <1>3, <1>4 DEF PaidOut
<1>5. CASE loan' = [loan EXCEPT ![a] = NoLoan]
  <2>1. PaidOut' = PaidOut \ {a}
    BY <1>5 DEF PaidOut, NoLoan, TypeOK
  <2>2. Policy!Withdraw(a)
    BY <1>3, <2>1 DEF Policy!Withdraw, PaidOut
  <2>3. QED
    BY <2>2 DEF Policy!Next
<1>6. QED
  BY <1>2, <1>4, <1>5

LEMMA PolicyStep ==
  ASSUME TypeOK, ApprovalChain, [Next]_vars
  PROVE  Policy!Next \/ UNCHANGED <<approvals, PaidOut>>
<1>1. ASSUME UNCHANGED approvals, \A a \in Apps : loan'[a].id = loan[a].id
      PROVE  UNCHANGED <<approvals, PaidOut>>
  BY <1>1 DEF PaidOut
<1>2. ASSUME NEW r \in Requests, StartInsert(r) \/ ClaimWrite(r) \/ DisburseCheck(r)
      PROVE  UNCHANGED <<approvals, loan>>
  BY <1>2 DEF StartInsert, ClaimWrite, DisburseCheck
<1>3. QED
  BY <1>1, <1>2, StepKinds, PolicyCommit, PolicyDisburse, PolicyRemove
     DEF Quiet, Remove, ReadInstance

\* The whole service, with its races, failures and removals, only ever clears
\* stages in order and pays out on both clearances.
THEOREM PolicyCorrect == Spec => ImplementsPolicy
<1>1. Init => Policy!Init
  BY PolicyInit
<1>2. TypeOK /\ ApprovalChain /\ [Next]_vars
        => [Policy!Next]_<<approvals, {a \in Apps : loan[a].id # 0}>>
  BY PolicyStep DEF PaidOut
<1>3. Spec => [](TypeOK /\ ApprovalChain)
  BY TypeCorrect, TwoStageCorrect, PTL
<1>4. QED
  BY <1>1, <1>2, <1>3, PTL DEF Spec, ImplementsPolicy, Policy!Spec

-----------------------------------------------------------------------------
(* One handler at a time *)

\* What a handler read still is so, as nobody else writes rows of applications,
\* workflows or ids of loans; and who is about to write a status, an instance or a
\* loan writes it for an application that has no loan.
Unborrowed == {"createCheck", "createInsert", "startInsert", "startNotify", "submitWrite", "rollback",
               "commit", "writeStatus", "decisionWrite", "resubmitWrite", "removeWrite"}

LoneHandler(r) ==
  LET a == req[r].app
      i == instance[a]
  IN  /\ req[r].pc \in Unborrowed => loan[a].id = 0
      /\ req[r].pc = "commit" =>
           i.id # 0 /\ i.id = req[r].inst /\ i.stage \notin TerminalStages /\ OpenTasks(a) \subseteq req[r].tasks
      /\ req[r].pc = "writeStatus" => i.id # 0 /\ i.stage = req[r].to
      /\ req[r].pc = "claimWrite" => i.id = req[r].inst /\ req[r].tasks \subseteq i.todo
      /\ req[r].pc = "disburseCheck" => Exists(a)
      /\ req[r].pc = "disburseWrite" => Exists(a) /\ i.id # 0 /\ i.stage = "APPROVED"
      /\ req[r].pc = "removeWrite" => req[r].loan = 0

LoneRows == OneOpenTask /\ ApprovedStatusBacked /\ LoanKeepsApplication

LoneInv ==
  /\ LoneRows
  /\ \A r \in Requests : LoneHandler(r)

\* The rows stay as they are.
LEMMA LoneKept ==
  ASSUME LoneRows, UNCHANGED <<status, deleted, instance>>, \A a \in Apps : loan'[a].id = loan[a].id
  PROVE  LoneRows'
BY DEF LoneRows, OneOpenTask, ApprovedStatusBacked, LoanKeepsApplication, Exists

\* Somebody writes a status, APPROVED only if the workflow is.
LEMMA LoneStatus ==
  ASSUME TypeOK, LoneRows, NEW a \in Apps, loan[a].id = 0, NEW s, s # "DISBURSED", SetStatus(a, s),
         s = "APPROVED" => instance[a].id # 0 /\ instance[a].stage = "APPROVED",
         UNCHANGED <<deleted, instance, loan>>
  PROVE  LoneRows'
<1>1. status'[a] = s /\ \A b \in Apps \ {a} : status'[b] = status[b]
  BY DEF SetStatus, TypeOK
<1>2. \A b \in Apps \ {a} : Exists(b)' <=> Exists(b)
  BY <1>1 DEF Exists
<1>3. OneOpenTask'
  BY DEF LoneRows, OneOpenTask
<1>4. ApprovedStatusBacked'
  BY <1>1, <1>2 DEF LoneRows, ApprovedStatusBacked
<1>5. LoanKeepsApplication'
  BY <1>1, <1>2 DEF LoneRows, LoanKeepsApplication
<1> QED
  BY <1>3, <1>4, <1>5 DEF LoneRows

\* A handler that ends, and one that goes on to where it relies on nothing more.
LEMMA LoneEnds == ASSUME TypeOK, NEW r \in Requests, Finish(r) PROVE LoneHandler(r)'
<1>1. req'[r].pc = "idle"
  BY DEF Finish, TypeOK, Idle
<1> QED
  BY <1>1 DEF LoneHandler, Unborrowed

LEMMA LoneGoes ==
  ASSUME TypeOK, LoneInv, NEW r \in Requests, NEW pc, Goto(r, pc), req[r].pc \in Unborrowed,
         pc \in {"createInsert", "startInsert", "startNotify", "rollback"},
         \A a \in Apps : loan'[a].id = loan[a].id, req[r].pc # "idle"
  PROVE  LoneHandler(r)'
<1>1. req[r] \in Handler /\ req[r].app \in Apps
  BY DEF TypeOK
<1>2. req'[r].pc = pc /\ req'[r].app = req[r].app
  BY <1>1 DEF Goto, TypeOK, Handler
<1> QED
  BY <1>1, <1>2 DEF LoneInv, LoneHandler

LEMMA LoneBegins ==
  ASSUME TypeOK, NEW r \in Requests, NEW pc, NEW a, Begin(r, pc, a)
  PROVE  req'[r].pc = pc /\ req'[r].app = a
BY DEF Begin, TypeOK, Idle

\* The calls of an endpoint, which read.
LEMMA LoneCall ==
  ASSUME TypeOK, LoneInv, NEW r \in Requests, NEW u \in Users, NEW a \in Apps, Call(r, u, a)
  PROVE  LoneHandler(r)' \/ \E action \in Actions : ReadInstance(r, u, a, action)
<1>0. loan[a].id # 0 => Exists(a) /\ status[a] = "DISBURSED"
  BY DEF LoneInv, LoneRows, LoanKeepsApplication
<1>1. CASE Create(r, u, a)
  <2>1. req'[r].pc = "createCheck" /\ req'[r].app = a /\ loan' = loan
    BY <1>1 DEF Create, TypeOK, Idle
  <2>2. loan[a].id = 0
    BY <1>0, <1>1 DEF Create, Fresh, Exists
  <2> QED
    BY <2>1, <2>2 DEF LoneHandler
<1>2. CASE Submit(r, u, a)
  <2>1. req'[r].pc = "submitWrite" /\ req'[r].app = a /\ loan' = loan
    BY <1>2 DEF Submit, TypeOK, Idle
  <2>2. loan[a].id = 0
    BY <1>0, <1>2 DEF Submit
  <2> QED
    BY <2>1, <2>2 DEF LoneHandler
<1>3. CASE Resubmit(r, u, a)
  <2>1. req'[r].pc = "resubmitWrite" /\ req'[r].app = a /\ loan' = loan
    BY <1>3, LoneBegins DEF Resubmit
  <2>2. loan[a].id = 0
    BY <1>0, <1>3 DEF Resubmit
  <2> QED
    BY <2>1, <2>2 DEF LoneHandler
<1>4. CASE Disburse(r, u, a)
  <2>1. req'[r].pc = "disburseCheck" /\ req'[r].app = a
    BY <1>4, LoneBegins DEF Disburse
  <2>2. Exists(a)'
    BY <1>4 DEF Disburse, Exists, appVars
  <2> QED
    BY <2>1, <2>2 DEF LoneHandler, Unborrowed, Exists
<1>5. CASE AddCollateral(r, u, a)
  <2>1. req'[r].pc = "addCollateral"
    BY <1>5, LoneBegins DEF AddCollateral
  <2> QED
    BY <2>1 DEF LoneHandler, Unborrowed
<1>6. CASE Remove(r, u, a)
  <2>1. req'[r].pc = "removeWrite" /\ req'[r].app = a /\ req'[r].loan = loan[a].id /\ loan' = loan
    BY <1>6 DEF Remove, TypeOK, Idle
  <2>2. loan[a].id = 0
    BY <1>0, <1>6 DEF Remove, Removable
  <2> QED
    BY <2>1, <2>2 DEF LoneHandler
<1>7. ASSUME NEW action \in Actions, Review(r, u, a, action) PROVE LoneHandler(r)'
  <2>1. req'[r].pc = "reviewTransition"
    BY <1>7 DEF Review, TypeOK, Idle
  <2> QED
    BY <2>1 DEF LoneHandler, Unborrowed
<1>8. ASSUME NEW t \in instance[a].todo, Claim(r, u, a, t) PROVE LoneHandler(r)'
  <2>1. /\ req'[r].pc = "claimWrite" /\ req'[r].app = a /\ req'[r].inst = instance[a].id
        /\ req'[r].tasks = {t} /\ instance' = instance
    BY <1>8 DEF Claim, TypeOK, Idle
  <2> QED
    BY <1>8, <2>1 DEF LoneHandler, Unborrowed
<1>9. ASSUME NEW d \in Decisions, ComplianceReview(r, u, a, d) PROVE LoneHandler(r)'
  <2>1. req'[r].pc = "decisionWrite" /\ req'[r].app = a /\ loan' = loan
    BY <1>9 DEF ComplianceReview, TypeOK, Idle
  <2>2. loan[a].id = 0
    BY <1>0, <1>9 DEF ComplianceReview, Reviewable
  <2> QED
    BY <2>1, <2>2 DEF LoneHandler
<1>10. ASSUME NEW g \in Guarantors, AddGuarantor(r, u, a, g) \/ RemoveGuarantor(r, u, a, g)
       PROVE  LoneHandler(r)'
  <2>1. req'[r].pc \in {"addGuarantor", "removeGuarantor"}
    BY <1>10 DEF AddGuarantor, RemoveGuarantor, TypeOK, Idle
  <2> QED
    BY <2>1 DEF LoneHandler, Unborrowed
<1> QED
  BY <1>1, <1>2, <1>3, <1>4, <1>5, <1>6, <1>7, <1>8, <1>9, <1>10 DEF Call, Transition

\* transition reads an instance that has open tasks: no loan has been paid out yet.
LEMMA LoneReadInstance ==
  ASSUME TypeOK, LoneInv, NEW r \in Requests, NEW u \in Users \cup {None}, NEW a \in Apps,
         NEW action \in Actions \cup {"NONE"}, ReadInstance(r, u, a, action)
  PROVE  LoneRows' /\ LoneHandler(r)'
<1>1. PICK e \in Edges :
        req' = [req EXCEPT ![r] =
          [Idle EXCEPT !.pc = "commit", !.user = u, !.app = a, !.action = action,
                       !.inst = instance[a].id, !.from = e.from, !.to = e.to,
                       !.tasks = OpenTasks(a)]]
  BY DEF ReadInstance, EdgesFrom
<1>2. req'[r].pc = "commit" /\ req'[r].app = a /\ req'[r].inst = instance[a].id /\ req'[r].tasks = OpenTasks(a)
  BY <1>1 DEF TypeOK, Idle
<1>3. instance[a].id # 0 /\ instance[a].stage \notin TerminalStages
  BY DEF ReadInstance, LoneInv, LoneRows, OneOpenTask, OpenTasks
<1>4. loan[a].id = 0
  BY <1>3 DEF LoneInv, LoneRows, LoanKeepsApplication, ApprovedStatusBacked, TerminalStages
<1>5. UNCHANGED <<status, deleted, instance, loan>>
  BY DEF ReadInstance, appVars
<1>6. LoneHandler(r)'
  BY <1>2, <1>3, <1>4, <1>5 DEF LoneHandler, OpenTasks
<1>7. LoneRows'
  BY <1>5, LoneKept DEF LoneInv
<1> QED
  BY <1>6, <1>7

\* Steps that write no more than a status, or nothing.
LEMMA LoneWrites ==
  ASSUME TypeOK, LoneInv, NEW r \in Requests,
         \/ CreateCheck(r) \/ CreateInsert(r) \/ StartNotify(r) \/ StartFails(r)
         \/ SubmitWrite(r) \/ SubmitRollback(r) \/ WriteStatus(r)
         \/ DecisionWrite(r) \/ ResubmitWrite(r)
         \/ GuarantorWrite(r) \/ CollateralWrite(r) \/ Fail(r)
  PROVE  LoneRows' /\ LoneHandler(r)'
<1>1. req[r] \in Handler /\ req[r].app \in Apps /\ LoneHandler(r) /\ LoneRows
  <2>1. req[r].pc # "idle"
    BY DEF CreateCheck, CreateInsert, StartNotify, StartFails, SubmitWrite, SubmitRollback,
           WriteStatus, DecisionWrite, ResubmitWrite, GuarantorWrite, CollateralWrite, Fail
  <2> QED
    BY <2>1, InFlight DEF LoneInv
<1>2. UNCHANGED <<deleted, instance, loan>>
  BY DEF CreateCheck, CreateInsert, StartNotify, StartFails, SubmitWrite, SubmitRollback,
         WriteStatus, DecisionWrite, ResubmitWrite, GuarantorWrite, CollateralWrite, Fail, appVars
<1>3. LoneHandler(r)'
  <2>1. \/ Finish(r)
        \/ Goto(r, "createInsert") /\ req[r].pc = "createCheck"
        \/ Goto(r, "startInsert") /\ req[r].pc \in {"createInsert", "submitWrite"}
        \/ Goto(r, "rollback") /\ req[r].pc \in {"startInsert", "startNotify"}
    BY DEF CreateCheck, CreateInsert, StartNotify, StartFails, SubmitWrite, SubmitRollback,
           WriteStatus, DecisionWrite, ResubmitWrite, GuarantorWrite, CollateralWrite, Fail
  <2>2. CASE Finish(r)
    BY <2>2, LoneEnds
  <2>3. CASE ~Finish(r)
    <3>1. \A a \in Apps : loan'[a].id = loan[a].id
      BY <1>2
    <3> QED
      BY <2>1, <2>3, <3>1, LoneGoes DEF Unborrowed
  <2> QED
    BY <2>2, <2>3
<1>4. LoneRows'
  <2>1. CASE UNCHANGED status
    BY <1>1, <1>2, <2>1, LoneKept
  <2>2. CASE WriteStatus(r)
    <3>1. /\ loan[req[r].app].id = 0 /\ SetStatus(req[r].app, req[r].to)
          /\ instance[req[r].app].id # 0 /\ instance[req[r].app].stage = req[r].to
      BY <1>1, <2>2 DEF WriteStatus, LoneHandler, Unborrowed
    <3>2. req[r].to # "DISBURSED"
      BY <1>1 DEF Handler, Stages
    <3> QED
      BY <1>1, <1>2, <3>1, <3>2, LoneStatus
  <2>3. CASE CreateInsert(r) \/ SubmitWrite(r) \/ SubmitRollback(r) \/ DecisionWrite(r) \/ ResubmitWrite(r)
    <3>1. req[r].decision \in DOMAIN Outcome
      BY <1>1 DEF Handler
    <3>2. PICK s : SetStatus(req[r].app, s) /\ s \notin {"APPROVED", "DISBURSED"}
      BY <2>3, <3>1 DEF CreateInsert, SubmitWrite, SubmitRollback, DecisionWrite, ResubmitWrite,
                        InitialStatus, Outcome
    <3>3. loan[req[r].app].id = 0
      BY <1>1, <2>3 DEF LoneHandler, Unborrowed, CreateInsert, SubmitWrite, SubmitRollback, DecisionWrite,
                        ResubmitWrite
    <3> QED
      BY <1>1, <1>2, <3>2, <3>3, LoneStatus
  <2> QED
    BY <2>1, <2>2, <2>3
       DEF CreateCheck, StartNotify, StartFails, GuarantorWrite, CollateralWrite, Fail, appVars
<1> QED
  BY <1>3, <1>4

LEMMA LoneStartInsert ==
  ASSUME TypeOK, LoneInv, NEW r \in Requests, StartInsert(r)
  PROVE  LoneRows' /\ LoneHandler(r)'
<1>1. req[r] \in Handler /\ req[r].app \in Apps
  BY InFlight DEF StartInsert
<1>a. PICK a : a = req[r].app
  OBVIOUS
<1>2. /\ instance[a].id = 0 /\ loan[a].id = 0 /\ UNCHANGED <<status, deleted, loan>>
      /\ instance' = [instance EXCEPT ![a] =
           [id |-> serial[a], stage |-> InitialStage,
            todo |-> {[id |-> serial[a], stage |-> InitialStage]}, claimed |-> {}]]
  BY <1>a DEF StartInsert, appVars, LoneInv, LoneHandler, Unborrowed
<1>3. LoneHandler(r)'
  <2>1. Goto(r, "startNotify") /\ req[r].pc = "startInsert"
    BY DEF StartInsert
  <2>2. \A b \in Apps : loan'[b].id = loan[b].id
    BY <1>a, <1>2
  <2> QED
    BY <2>1, <2>2, LoneGoes DEF Unborrowed
<1>4. \A b \in Apps \ {a} : instance'[b] = instance[b]
  BY <1>a, <1>1, <1>2 DEF TypeOK
<1>5. /\ instance'[a].stage = InitialStage /\ instance'[a].claimed = {}
      /\ instance'[a].todo = {[id |-> serial[a], stage |-> InitialStage]}
  BY <1>a, <1>1, <1>2 DEF TypeOK
<1>6. OneOpenTask'
  <2>1. InitialStage \notin TerminalStages
    BY DEF InitialStage, TerminalStages
  <2> SUFFICES ASSUME NEW b \in Apps, instance'[b].id # 0
               PROVE  LET open == instance'[b].todo \cup instance'[b].claimed
                      IN  IF instance'[b].stage \in TerminalStages THEN open = {}
                          ELSE \E t \in open : open = {t} /\ t.stage = instance'[b].stage
    BY DEF OneOpenTask
  <2>2. CASE b = a
    <3>1. instance'[b].todo \cup instance'[b].claimed = {[id |-> serial[a], stage |-> InitialStage]}
      BY <1>a, <1>5, <2>2
    <3>2. [id |-> serial[a], stage |-> InitialStage].stage = InitialStage
      OBVIOUS
    <3>3. PICK t : t = [id |-> serial[a], stage |-> InitialStage]
      OBVIOUS
    <3> QED
      BY <1>5, <2>1, <2>2, <3>1, <3>2, <3>3
  <2>3. CASE b # a
    BY <1>a, <1>4, <2>3 DEF LoneInv, LoneRows, OneOpenTask
  <2> QED
    BY <2>2, <2>3
<1>7. ApprovedStatusBacked'
  BY <1>a, <1>1, <1>2, <1>4 DEF LoneInv, LoneRows, ApprovedStatusBacked, Exists
<1>8. LoanKeepsApplication'
  BY <1>a, <1>2 DEF LoneInv, LoneRows, LoanKeepsApplication, Exists
<1> QED
  BY <1>a, <1>3, <1>6, <1>7, <1>8 DEF LoneRows

LEMMA LoneCommit ==
  ASSUME TypeOK, LoneInv, NEW r \in Requests, CommitTransition(r)
  PROVE  LoneRows' /\ LoneHandler(r)'
<1>1. req[r] \in Handler /\ req[r].app \in Apps /\ LoneHandler(r) /\ req[r].pc = "commit"
  BY InFlight DEF CommitTransition, LoneInv
<1>a. PICK a : a = req[r].app
  OBVIOUS
<1> DEFINE next == NextTask(a, req[r].to)
<1>2. /\ instance[a].id # 0 /\ instance[a].id = req[r].inst /\ instance[a].stage \notin TerminalStages
      /\ OpenTasks(a) \subseteq req[r].tasks /\ loan[a].id = 0
  BY <1>a, <1>1 DEF LoneHandler, Unborrowed
<1>3. /\ instance' = [instance EXCEPT ![a] =
           [id |-> instance[a].id, stage |-> req[r].to,
            todo |-> (instance[a].todo \ req[r].tasks) \cup next,
            claimed |-> instance[a].claimed \ req[r].tasks]]
      /\ Goto(r, "writeStatus") /\ UNCHANGED <<status, deleted, loan>>
  BY <1>a, <1>2 DEF CommitTransition, appVars
<1>4. \A b \in Apps \ {a} : instance'[b] = instance[b]
  BY <1>a, <1>1, <1>3 DEF TypeOK
<1>5. instance'[a].id # 0 /\ instance'[a].stage = req[r].to /\ instance'[a].todo \cup instance'[a].claimed = next
  BY <1>a, <1>1, <1>2, <1>3 DEF TypeOK, OpenTasks
<1>6. LoneHandler(r)'
  <2>1. req'[r].pc = "writeStatus" /\ req'[r].app = a /\ req'[r].to = req[r].to
    BY <1>a, <1>1, <1>3 DEF Goto, TypeOK, Handler
  <2> QED
    BY <1>a, <1>2, <1>3, <1>5, <2>1 DEF LoneHandler
<1>7. OneOpenTask'
  <2>1. IF req[r].to \in TerminalStages THEN next = {} ELSE \E t \in next : next = {t} /\ t.stage = req[r].to
    BY DEF NextTask
  <2> HIDE DEF next
  <2> SUFFICES ASSUME NEW b \in Apps, instance'[b].id # 0
               PROVE  LET open == instance'[b].todo \cup instance'[b].claimed
                      IN  IF instance'[b].stage \in TerminalStages THEN open = {}
                          ELSE \E t \in open : open = {t} /\ t.stage = instance'[b].stage
    BY DEF OneOpenTask
  <2>2. CASE b = a
    BY <1>a, <1>5, <2>1, <2>2
  <2>3. CASE b # a
    BY <1>a, <1>4, <2>3 DEF LoneInv, LoneRows, OneOpenTask
  <2> QED
    BY <2>2, <2>3
<1>8. ApprovedStatusBacked'
  <2>1. ~(Exists(a) /\ status[a] \in {"APPROVED", "DISBURSED"})
    BY <1>a, <1>1, <1>2 DEF LoneInv, LoneRows, ApprovedStatusBacked, TerminalStages
  <2> QED
    BY <1>a, <1>3, <1>4, <2>1 DEF LoneInv, LoneRows, ApprovedStatusBacked, Exists
<1>9. LoanKeepsApplication'
  BY <1>a, <1>3 DEF LoneInv, LoneRows, LoanKeepsApplication, Exists
<1> QED
  BY <1>a, <1>6, <1>7, <1>8, <1>9 DEF LoneRows

LEMMA LoneClaimWrite ==
  ASSUME TypeOK, LoneInv, NEW r \in Requests, ClaimWrite(r)
  PROVE  LoneRows' /\ LoneHandler(r)'
<1>1. req[r] \in Handler /\ req[r].app \in Apps /\ LoneHandler(r) /\ req[r].pc = "claimWrite" /\ Finish(r)
  BY InFlight DEF ClaimWrite, LoneInv
<1>a. PICK a : a = req[r].app
  OBVIOUS
<1>2. /\ instance[a].id = req[r].inst /\ req[r].tasks \subseteq instance[a].todo
      /\ instance' = [instance EXCEPT ![a] =
                            [id |-> instance[a].id, stage |-> instance[a].stage,
                             todo |-> instance[a].todo \ req[r].tasks,
                             claimed |-> instance[a].claimed \cup req[r].tasks]]
      /\ UNCHANGED <<status, deleted, loan>>
  BY <1>a, <1>1 DEF ClaimWrite, LoneHandler, appVars
<1>3. \A b \in Apps : /\ instance'[b].id = instance[b].id /\ instance'[b].stage = instance[b].stage
                      /\ instance'[b].todo \cup instance'[b].claimed = instance[b].todo \cup instance[b].claimed
  BY <1>a, <1>1, <1>2 DEF TypeOK
<1>4. OneOpenTask'
  BY <1>a, <1>3 DEF LoneInv, LoneRows, OneOpenTask
<1>5. ApprovedStatusBacked' /\ LoanKeepsApplication'
  BY <1>a, <1>2, <1>3 DEF LoneInv, LoneRows, ApprovedStatusBacked, LoanKeepsApplication, Exists
<1> QED
  BY <1>a, <1>1, <1>4, <1>5, LoneEnds DEF LoneRows

LEMMA LoneDisburseCheck ==
  ASSUME TypeOK, LoneInv, NEW r \in Requests, DisburseCheck(r)
  PROVE  LoneRows' /\ LoneHandler(r)'
<1>1. req[r] \in Handler /\ req[r].app \in Apps /\ LoneHandler(r) /\ req[r].pc = "disburseCheck"
  BY InFlight DEF DisburseCheck, LoneInv
<1>2. UNCHANGED <<status, deleted, instance, loan>>
  BY DEF DisburseCheck, appVars
<1>3. LoneRows'
  BY <1>2, LoneKept DEF LoneInv
<1>4. CASE Finish(r)
  BY <1>3, <1>4, LoneEnds
<1>5. CASE WorkflowComplete(instance[req[r].app])
  <2>1. req'[r].pc = "disburseWrite" /\ req'[r].app = req[r].app
    <3>1. req' = [req EXCEPT ![r] = [req[r] EXCEPT !.pc = "disburseWrite", !.inst = instance[req[r].app].id]]
      BY <1>5 DEF DisburseCheck
    <3>2. req'[r] = [req[r] EXCEPT !.pc = "disburseWrite", !.inst = instance[req[r].app].id]
      BY <3>1 DEF TypeOK
    <3> QED
      BY <1>1, <3>2 DEF Handler
  <2>2. Exists(req[r].app) /\ instance[req[r].app].id # 0 /\ instance[req[r].app].stage = "APPROVED"
    BY <1>1, <1>5 DEF LoneHandler, WorkflowComplete
  <2> QED
    BY <1>2, <1>3, <2>1, <2>2 DEF LoneHandler, Unborrowed, Exists
<1> QED
  BY <1>4, <1>5 DEF DisburseCheck

LEMMA LoneDisburseWrite ==
  ASSUME TypeOK, LoneInv, NEW r \in Requests, DisburseWrite(r)
  PROVE  LoneRows' /\ LoneHandler(r)'
<1>1. req[r] \in Handler /\ req[r].app \in Apps /\ LoneHandler(r) /\ req[r].pc = "disburseWrite" /\ Finish(r)
  BY InFlight DEF DisburseWrite, LoneInv
<1>a. PICK a : a = req[r].app
  OBVIOUS
<1>2. Exists(a) /\ instance[a].id # 0 /\ instance[a].stage = "APPROVED"
  BY <1>a, <1>1 DEF LoneHandler
<1>3. UNCHANGED <<deleted, instance>>
  BY DEF DisburseWrite
<1>4. \/ UNCHANGED <<status, loan>>
      \/ /\ status'[a] = "DISBURSED"
         /\ \A b \in Apps \ {a} : status'[b] = status[b] /\ loan'[b] = loan[b]
  BY <1>a, <1>1 DEF DisburseWrite, SetStatus, TypeOK
<1>5. CASE UNCHANGED <<status, loan>>
  BY <1>a, <1>1, <1>3, <1>5, LoneEnds, LoneKept DEF LoneInv
<1>6. CASE /\ status'[a] = "DISBURSED"
           /\ \A b \in Apps \ {a} : status'[b] = status[b] /\ loan'[b] = loan[b]
  <2>1. OneOpenTask'
    BY <1>a, <1>3 DEF LoneInv, LoneRows, OneOpenTask
  <2>2. Exists(a)' /\ \A b \in Apps \ {a} : (Exists(b)' <=> Exists(b))
    BY <1>a, <1>2, <1>3, <1>6 DEF Exists
  <2>3. ApprovedStatusBacked'
    BY <1>a, <1>2, <1>3, <1>6, <2>2 DEF LoneInv, LoneRows, ApprovedStatusBacked
  <2>4. LoanKeepsApplication'
    BY <1>a, <1>6, <2>2 DEF LoneInv, LoneRows, LoanKeepsApplication
  <2> QED
    BY <1>a, <1>1, <2>1, <2>3, <2>4, LoneEnds DEF LoneRows
<1> QED
  BY <1>a, <1>4, <1>5, <1>6

LEMMA LoneRemoveWrite ==
  ASSUME TypeOK, LoneInv, NEW r \in Requests, RemoveWrite(r)
  PROVE  LoneRows' /\ LoneHandler(r)'
<1>1. req[r] \in Handler /\ req[r].app \in Apps /\ LoneHandler(r) /\ req[r].pc = "removeWrite" /\ Finish(r)
  BY InFlight DEF RemoveWrite, LoneInv
<1>a. PICK a : a = req[r].app
  OBVIOUS
<1>2. req[r].loan = 0 /\ loan[a].id = 0
  BY <1>a, <1>1 DEF LoneHandler, Unborrowed
<1>3. /\ instance' = [instance EXCEPT ![a] = NoInstance] /\ deleted' = [deleted EXCEPT ![a] = TRUE]
      /\ UNCHANGED <<loan, status>>
  BY <1>a, <1>2 DEF RemoveWrite
<1>d. a \in Apps /\ instance \in [Apps -> Instance] /\ deleted \in [Apps -> BOOLEAN]
  BY <1>a, <1>1 DEF TypeOK
<1>4. /\ instance'[a].id = 0 /\ deleted'[a]
      /\ \A b \in Apps \ {a} : instance'[b] = instance[b] /\ deleted'[b] = deleted[b]
  BY <1>a, <1>3, <1>d DEF NoInstance
<1>5. ~Exists(a)' /\ \A b \in Apps \ {a} : (Exists(b)' <=> Exists(b))
  BY <1>a, <1>3, <1>4 DEF Exists
<1>6. OneOpenTask'
  BY <1>a, <1>4 DEF LoneInv, LoneRows, OneOpenTask
<1>7. ApprovedStatusBacked'
  BY <1>a, <1>3, <1>4, <1>5 DEF LoneInv, LoneRows, ApprovedStatusBacked
<1>8. LoanKeepsApplication'
  BY <1>a, <1>2, <1>3, <1>5 DEF LoneInv, LoneRows, LoanKeepsApplication
<1> QED
  BY <1>a, <1>1, <1>6, <1>7, <1>8, LoneEnds DEF LoneRows

\* Documents, profiles and repayments touch nothing of this.
LEMMA LoneElsewhere ==
  ASSUME TypeOK, LoneInv, Environment \/ UNCHANGED vars
  PROVE  LoneInv'
<1>1. UNCHANGED <<status, deleted, instance, req>>
  BY DEF Environment, CompleteLoan, ReferenceLoan, UploadDocument, VerifyDocument,
         RemoveDocument, EditProfile, UpdateCustomerStatus, appVars, vars
<1>2. \A a \in Apps : loan'[a].id = loan[a].id
  BY EnvironmentQuiet DEF Quiet, vars
<1>3. LoneRows'
  BY <1>1, <1>2, LoneKept DEF LoneInv
<1>4. ASSUME NEW r \in Requests PROVE LoneHandler(r)'
  <2>1. req[r].pc # "idle" => req[r].app \in Apps
    BY DEF TypeOK
  <2> QED
    BY <1>1, <1>2, <2>1 DEF LoneInv, LoneHandler, Unborrowed, OpenTasks, Exists
<1> QED
  BY <1>3, <1>4 DEF LoneInv

\* There is one slot, so that a handler ends, or dies, before the next begins.
OneAtATime == \E r : Requests = {r}

LEMMA LoneStep == ASSUME OneAtATime, TypeOK, LoneInv, [Next]_vars PROVE LoneInv'
<1>1. PICK r \in Requests : Requests = {r}
  BY DEF OneAtATime
<1>2. ASSUME LoneRows' /\ LoneHandler(r)' PROVE LoneInv'
  BY <1>1, <1>2 DEF LoneInv
<1>3. ASSUME NEW u \in Users \cup {None}, NEW a \in Apps, NEW action \in Actions \cup {"NONE"},
             ReadInstance(r, u, a, action)
      PROVE  LoneInv'
  BY <1>2, <1>3, LoneReadInstance
<1>4. ASSUME NEW u \in Users, NEW a \in Apps, Call(r, u, a) PROVE LoneInv'
  <2>1. CASE LoneHandler(r)' /\ ~(\E action \in Actions : ReadInstance(r, u, a, action))
    <3>1. UNCHANGED <<status, deleted, instance, loan>>
      BY <1>4, <2>1 DEF Call, Create, Submit, Resubmit, Disburse, Remove, AddCollateral, Transition, Review, Claim,
                        ComplianceReview, AddGuarantor, RemoveGuarantor, appVars
    <3>2. LoneRows'
      BY <3>1, LoneKept DEF LoneInv
    <3> QED
      BY <1>2, <2>1, <3>2
  <2> QED
    BY <1>3, <1>4, <2>1, LoneCall
<1>5. ASSUME Step(r) \/ Fail(r) PROVE LoneInv'
  <2>1. CASE ReviewTransition(r)
    <3>1. req[r] \in Handler /\ req[r].app \in Apps
      BY <2>1, InFlight DEF ReviewTransition
    <3>2. req[r].user \in Users \cup {None} /\ req[r].action \in Actions \cup {"NONE"}
      BY <3>1 DEF Handler
    <3> QED
      BY <1>3, <2>1, <3>1, <3>2 DEF ReviewTransition
  <2>2. CASE ~ReviewTransition(r)
    BY <1>2, <1>5, <2>2, LoneWrites, LoneStartInsert, LoneCommit, LoneClaimWrite, LoneDisburseCheck,
       LoneDisburseWrite, LoneRemoveWrite DEF Step
  <2> QED
    BY <2>1, <2>2
<1> QED
  BY <1>1, <1>4, <1>5, LoneElsewhere DEF Next

LEMMA LoneInit == Init => LoneInv
BY DEF Init, LoneInv, LoneRows, OneOpenTask, ApprovedStatusBacked, LoanKeepsApplication, LoneHandler, Unborrowed, Idle,
       NoInstance, NoLoan

LEMMA LoneInvariant == OneAtATime /\ Spec => []LoneInv
<1>1. ASSUME OneAtATime PROVE Spec => []LoneInv
  <2>1. TypeOK /\ LoneInv /\ [Next]_vars => LoneInv'
    BY <1>1, LoneStep
  <2> QED
    BY <2>1, LoneInit, TypeCorrect, PTL DEF Spec
<1> QED
  BY <1>1

\* With one handler at a time, whatever fails, the open tasks of an instance are one
\* task of its stage, none on a terminal one (start, claimTask, transition).
THEOREM TasksAlone == OneAtATime /\ Spec => []OneOpenTask
<1>1. LoneInv => OneOpenTask
  BY DEF LoneInv, LoneRows
<1> QED
  BY <1>1, LoneInvariant, PTL

\* With one handler at a time, what reads APPROVED or DISBURSED has a workflow that
\* reached APPROVED, though the status is written in a call of its own, or not at all
\* (transition; complianceReview, submit, resubmitApplication).
THEOREM StatusAlone == OneAtATime /\ Spec => []ApprovedStatusBacked
<1>1. LoneInv => ApprovedStatusBacked
  BY DEF LoneInv, LoneRows
<1> QED
  BY <1>1, LoneInvariant, PTL

\* With one handler at a time a disbursed loan stays with a live application that reads
\* DISBURSED, on which the guard of remove relies (disburse, remove).
THEOREM LoanAlone == OneAtATime /\ Spec => []LoanKeepsApplication
<1>1. LoneInv => LoanKeepsApplication
  BY DEF LoneInv, LoneRows
<1> QED
  BY <1>1, LoneInvariant, PTL

===============================================================================
