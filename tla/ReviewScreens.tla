------------------------------ MODULE ReviewScreens ------------------------------
(***************************************************************************)
(* The screens on which an application is approved, against the server: what *)
(* the loan page, the compliance panel, the internal control panel and the   *)
(* accounting list offer to a user of each seeded role, from what they       *)
(* fetched earlier. A call names the application and the action, never the   *)
(* stage that was on the screen; the server reads, checks and writes in steps *)
(* of their own, and may fail between them. One application; its customer's   *)
(* profile, documents and guarantors are complete, and reasons are given.     *)
(***************************************************************************)
EXTENDS WorkflowDefinition, FiniteSets

CONSTANTS
  Users,     \* users
  RoleOf,    \* user -> seeded role
  Assigned,  \* the loan officer who created the application
  None       \* no decision yet

VARIABLES
  status,    \* status of the application row, or "deleted"
  stage,     \* stage of its workflow instance, or NoStage
  screen,    \* user -> what the user's browser shows
  serving,   \* user -> the call the server has in hand, and what it has read
  tangled,   \* history: a call failed halfway, undid a submission that has a
             \* workflow, or wrote over what another wrote since it read
  decision   \* history: the last decision the workflow recorded, if any

vars == <<status, stage, screen, serving, tangled, decision>>

NoStage == "none"

\* What the seed grants, of the permissions this module asks for. Disbursement is
\* left to administrators.
Grants ==
  [LOAN_OFFICER       |-> {"read", "submit", "update"},
   COMPLIANCE_OFFICER |-> {"read", "compliance_review"},
   INTERNAL_CONTROL   |-> {"read", "internal_control_approve"},
   SYSTEM_ADMIN       |-> {"system:admin"}]

Admin(u) == "system:admin" \in Grants[RoleOf[u]]

\* The routes and buttons of the client, the guard of the server and the check of
\* a stage agree: an administrator may do everything.
Holds(u, p) == Admin(u) \/ p \in Grants[RoleOf[u]]

-----------------------------------------------------------------------------
(* Screens. A panel over a queue keeps the row it was opened with; the loan page *)
(* is fetched again now and then, and its panels stay open when that happens.   *)

Screen(page, shown, open) == [page |-> page, shown |-> shown, open |-> open]
Nowhere == Screen("none", "none", {})

When(condition, set) == IF condition THEN set ELSE {}

\* The queues list applications by status; their routes ask for a permission.
ComplianceQueue(u) == status = "COMPLIANCE_REVIEW" /\ Holds(u, "compliance_review")
ControlQueue(u) == status = "INTERNAL_CONTROL_REVIEW" /\ Holds(u, "internal_control_approve")
AccountingList(u) == status = "APPROVED" /\ Holds(u, "disburse")

\* What user u can open now.
Pages(u) ==
  {Screen(p, status, {}) :
     p \in UNION {When(Holds(u, "read"), {"loan"}), When(ComplianceQueue(u), {"compliance"}),
                  When(ControlQueue(u), {"control"}), When(AccountingList(u), {"accounting"})}}

\* The panels a loan page lets u open, by the status it shows.
Panels(u, shown) ==
  CASE shown = "COMPLIANCE_REVIEW" /\ Holds(u, "compliance_review") -> {"compliance"}
    [] shown = "NEEDS_ATTENTION" /\ u = Assigned -> {"resubmit"}
    [] shown = "INTERNAL_CONTROL_REVIEW" /\ Holds(u, "internal_control_approve") -> {"reject"}
    [] OTHER -> {}

Call(name, action, meant) == [name |-> name, action |-> action, meant |-> meant]

\* The calls that the buttons of each page make, and the stage each is meant for.
ComplianceButtons ==
  {Call("transition", a, "COMPLIANCE_REVIEW") : a \in {"APPROVE", "REJECT", "RETURN", "REQUEST_INFORMATION"}}

ControlButtons ==
  {Call("transition", a, "INTERNAL_CONTROL_REVIEW") : a \in {"APPROVE", "REJECT", "RETURN"}}

DisburseButton(u) == When(Holds(u, "disburse_head"), {Call("disburse", "none", "APPROVED")})

\* Buttons of the loan page go by the status it shows, those in a panel by nothing.
StatusButtons(u, s) ==
  UNION {
    When(s.shown = "DRAFT" /\ Holds(u, "submit"), {Call("submit", "none", "none")}),
    When(s.shown = "INTERNAL_CONTROL_REVIEW" /\ Holds(u, "internal_control_approve") /\ "reject" \notin s.open,
         {Call("transition", "APPROVE", "INTERNAL_CONTROL_REVIEW")}),
    When(s.shown = "APPROVED", DisburseButton(u))}

PanelButtons(s) ==
  UNION {
    When("compliance" \in s.open,
         {Call("complianceReview", a, "COMPLIANCE_REVIEW") : a \in {"APPROVE", "REQUEST_CHANGES", "REJECT"}}),
    When("resubmit" \in s.open, {Call("resubmit", "none", "none")}),
    When("reject" \in s.open, {Call("review", "REJECT", "INTERNAL_CONTROL_REVIEW")})}

RemoveButton(u, s) == When(s.shown # "DISBURSED" /\ Admin(u), {Call("remove", "none", "none")})

Buttons(u, s) ==
  CASE s.page = "compliance" -> ComplianceButtons
    [] s.page = "control"    -> ControlButtons
    [] s.page = "accounting" -> DisburseButton(u)
    [] s.page = "loan"       -> StatusButtons(u, s) \cup PanelButtons(s) \cup RemoveButton(u, s)
    [] OTHER -> {}

-----------------------------------------------------------------------------
(* Server: which calls it takes. *)

Served(pc, call, st, sg) == [pc |-> pc, call |-> call, status |-> st, stage |-> sg]
Idle == Served("idle", Call("none", "none", "none"), "none", NoStage)

StageAsksNobody(u, sg) == sg \in DOMAIN StagePermission    \* mutant: whoever is signed in
StageAsks(u, sg) == sg \in DOMAIN StagePermission /\ Holds(u, StagePermission[sg])

Edge(sg, action) == {e \in Edges : e.from = sg /\ e.action = action}

\* The status is asked first, by every call but transition, which has no use for it.
TakesRow(u, c) ==
  CASE c.name = "submit"           -> Holds(u, "submit") /\ status \in {"DRAFT", "NEEDS_ATTENTION"}
    [] c.name = "transition"       -> TRUE
    [] c.name \in {"review", "complianceReview"} ->
         Holds(u, "compliance_review") /\ status = "COMPLIANCE_REVIEW"
    [] c.name = "resubmit"         -> Holds(u, "update") /\ u = Assigned /\ status = "NEEDS_ATTENTION"
    [] c.name = "disburse"         -> Holds(u, "disburse_head") /\ status = "APPROVED"
    [] c.name = "remove"           -> Admin(u) /\ status \notin {"DISBURSED", "deleted"}

\* Then the workflow, by the calls that depend on it.
TakesStage(u, c) ==
  CASE c.name \in {"transition", "review"} -> StageAsks(u, stage) /\ Edge(stage, c.action) # {}
    [] c.name = "disburse" -> stage = "APPROVED"
    [] OTHER -> TRUE

\* A call that meets no other is carried out; submit starts a workflow, and an
\* application has one at most.
Accepts(u, c) == TakesRow(u, c) /\ TakesStage(u, c) /\ (c.name = "submit" => stage = NoStage)

-----------------------------------------------------------------------------
(* Server: what a call does once its status is checked. *)

\* The rows have changed since the call read them, or wrote them itself.
Late(u) == <<status, stage>> # <<serving[u].status, serving[u].stage>>

\* Every write is by id: a deleted application keeps its date of deletion.
Row(st) == status' = IF status = "deleted" THEN status ELSE st

\* The outcome of complianceReview, which is a status and nothing else.
Reviewed == [APPROVE |-> "INTERNAL_CONTROL_REVIEW", REQUEST_CHANGES |-> "NEEDS_ATTENTION", REJECT |-> "REJECTED"]

\* The screen after the answer: a queue's panel closes, the loan page closes the
\* panel of the call and fetches later, the page of a deleted application goes.
Closes == [transition |-> {"reject"}, review |-> {"reject"}, complianceReview |-> {"compliance"},
           resubmit |-> {"resubmit"}, submit |-> {}, disburse |-> {}, remove |-> {}]
Answered(s, c) ==
  CASE s.page \in {"compliance", "control"} \/ c.name = "remove" -> Nowhere
    [] OTHER -> [s EXCEPT !.open = @ \ Closes[c.name]]

\* The call is over. When its answer is lost the screen stays as it was, ready to
\* be pressed again.
Ends(u) ==
  /\ serving' = [serving EXCEPT ![u] = Idle]
  /\ screen' \in {screen, [screen EXCEPT ![u] = Answered(@, serving[u].call)]}

Goes(u, pc, st, sg) ==
  /\ serving' = [serving EXCEPT ![u] = Served(pc, @.call, st, sg)]
  /\ UNCHANGED screen

\* review and disburse read the workflow in a query of its own.
ReadsStage(u) ==
  /\ serving[u].pc = "stage" /\ TakesStage(u, serving[u].call)
  /\ Goes(u, "write", serving[u].status, stage)
  /\ UNCHANGED <<status, stage, tangled, decision>>

\* transition commits the stage and has the status still to write. An instance
\* that was removed since it was read cannot be updated.
MovesStageOnly(u, e) == stage' = e.to /\ Ends(u) /\ UNCHANGED status     \* mutant: the row is forgotten
Moves(u, e) == stage' = e.to /\ Goes(u, "status", status, e.to) /\ UNCHANGED status

Transition(u) ==
  /\ serving[u].pc = "write" /\ serving[u].call.name \in {"transition", "review"}
  /\ stage # NoStage /\ (status = "deleted" => serving[u].status = "deleted")
  /\ \E e \in Edge(serving[u].stage, serving[u].call.action) : Moves(u, e)
  /\ decision' = [by |-> u, meant |-> serving[u].call.meant, at |-> serving[u].stage]
  /\ tangled' = (tangled \/ Late(u))

WritesStatus(u) ==
  /\ serving[u].pc = "status"
  /\ Row(serving[u].stage)
  /\ tangled' = (tangled \/ Late(u))
  /\ Ends(u)
  /\ UNCHANGED <<stage, decision>>

\* submit writes the status, then starts the workflow, and takes the status back
\* when that throws: there is a workflow already, or the database failed, before or
\* after the insert.
Submit(u) ==
  /\ serving[u].pc = "write" /\ serving[u].call.name = "submit"
  /\ Row("COMPLIANCE_REVIEW")
  /\ Goes(u, "start", status', stage)
  /\ tangled' = (tangled \/ Late(u))
  /\ UNCHANGED <<stage, decision>>

Start(u) ==
  /\ serving[u].pc = "start"
  /\ stage = NoStage /\ stage' = InitialStage
  /\ tangled' = (tangled \/ Late(u))
  /\ Ends(u) \/ Goes(u, "undo", status, stage')
  /\ UNCHANGED <<status, decision>>

StartFails(u) ==
  /\ serving[u].pc = "start"
  /\ Goes(u, "undo", serving[u].status, serving[u].stage)
  /\ UNCHANGED <<status, stage, tangled, decision>>

Undo(u) ==
  /\ serving[u].pc = "undo"
  /\ Row("DRAFT")
  /\ tangled' = (tangled \/ Late(u) \/ stage # NoStage)
  /\ serving' = [serving EXCEPT ![u] = Idle]
  /\ UNCHANGED <<stage, screen, decision>>

\* The calls that write once. A loan is created once for an application.
Outcome(c) ==
  CASE c.name = "complianceReview" -> Row(Reviewed[c.action]) /\ UNCHANGED stage
    [] c.name = "resubmit" -> Row("COMPLIANCE_REVIEW") /\ UNCHANGED stage
    [] c.name = "disburse" -> status # "DISBURSED" /\ Row("DISBURSED") /\ UNCHANGED stage
    [] c.name = "remove"   -> status' = "deleted" /\ stage' = NoStage

Writes(u) ==
  /\ serving[u].pc = "write"
  /\ serving[u].call.name \in {"complianceReview", "resubmit", "disburse", "remove"}
  /\ Outcome(serving[u].call)
  /\ tangled' = (tangled \/ Late(u))
  /\ Ends(u)
  /\ UNCHANGED decision

\* A call is refused, or the server fails under it, between any two of its steps.
Halfway(u) == serving[u].pc \in {"status", "start", "undo"}

Fails(u) ==
  /\ serving[u] # Idle
  /\ tangled' = (tangled \/ Halfway(u))
  /\ serving' = [serving EXCEPT ![u] = Idle]
  /\ UNCHANGED <<status, stage, screen, decision>>

Serve(u) ==
  \/ ReadsStage(u) \/ Transition(u) \/ WritesStatus(u) \/ Submit(u) \/ Start(u) \/ StartFails(u)
  \/ Undo(u) \/ Writes(u) \/ Fails(u)

-----------------------------------------------------------------------------
(* Steps. *)

Init ==
  /\ status = "DRAFT" /\ stage = NoStage /\ tangled = FALSE
  /\ screen = [u \in Users |-> Nowhere]
  /\ serving = [u \in Users |-> Idle]
  /\ decision = None

Shows(u, s) ==
  /\ screen' = [screen EXCEPT ![u] = s]
  /\ UNCHANGED <<status, stage, serving, tangled, decision>>

Open(u) == status # "deleted" /\ \E s \in Pages(u) : Shows(u, s)

\* A fetch in the background; a deleted application is not found, and what was
\* shown stays.
Refetch(u) ==
  /\ screen[u].page = "loan" /\ status # "deleted"
  /\ Shows(u, [screen[u] EXCEPT !.shown = status])

OpenPanel(u) ==
  /\ screen[u].page = "loan"
  /\ \E p \in Panels(u, screen[u].shown) : Shows(u, [screen[u] EXCEPT !.open = @ \cup {p}])

ClosePanel(u) == \E p \in screen[u].open : Shows(u, [screen[u] EXCEPT !.open = @ \ {p}])

Leave(u) == screen[u] # Nowhere /\ Shows(u, Nowhere)

\* A button is pressed, and the server reads and checks the status. A call that it
\* refuses then, or that never arrives, changes nothing. A user makes one call at
\* a time.
Press(u) ==
  \E c \in Buttons(u, screen[u]) :
    /\ serving[u] = Idle /\ TakesRow(u, c) /\ (c.name = "transition" => TakesStage(u, c))
    /\ serving' = [serving EXCEPT ![u] =
                     Served(IF c.name \in {"review", "disburse"} THEN "stage" ELSE "write", c, status, stage)]
    /\ UNCHANGED <<status, stage, screen, tangled, decision>>

Next ==
  \E u \in Users :
    \/ Open(u) \/ Refetch(u) \/ OpenPanel(u) \/ ClosePanel(u) \/ Leave(u) \/ Press(u)
    \/ Serve(u)

Spec == Init /\ [][Next]_vars

-----------------------------------------------------------------------------
(* Properties *)

\* However old the screen is and however often a button is pressed again because
\* its answer was lost, a decision of anyone but an administrator is recorded for
\* the stage it was taken on: the seeded roles hold the permission of one stage
\* each, and transition asks for the permission of the stage it read
\* (workflows.service.ts:82). For an administrator it is not so.
DecidedAsShown ==
  decision # None /\ ~Admin(decision.by) => decision.meant = decision.at

\* complianceReview approved the application and its workflow stayed behind.
LeftBehind == status = "INTERNAL_CONTROL_REVIEW" /\ stage = "COMPLIANCE_REVIEW"

\* What u would be offered on a fresh screen, whatever panels u opens.
Offered(u) ==
  UNION {Buttons(u, [s EXCEPT !.open = p]) : s \in Pages(u), p \in SUBSET Panels(u, status)}

CanAct(u) == \E c \in Offered(u) : c.name # "remove" /\ Accepts(u, c)

\* Nobody waits for everybody. An application that has not ended, and on which no
\* call is between two of its writes, has someone whose fresh screens offer a call
\* that the server takes and that moves it on. It takes an administrator only to
\* disburse, and to move on an application that complianceReview approved, whose
\* workflow stays at compliance (loan-applications.service.ts:1116). This may fail
\* only when a call stopped between stage and status (workflows.service.ts:97) or
\* between status and workflow (loan-applications.service.ts:487), when one wrote
\* over what another had written since it read, or when the submission of an
\* application that has a workflow was undone (:491).
SomeoneCanAct ==
  (\A u \in Users : ~Halfway(u)) /\ ~tangled /\ status \notin {"DISBURSED", "REJECTED", "deleted"} =>
    \E u \in Users : CanAct(u) /\ (Admin(u) => status = "APPROVED" \/ LeftBehind)
=============================================================================
