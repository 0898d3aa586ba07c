------------------------- MODULE BackOfficeReviews_proofs -------------------------
(* Proofs about what is decided in the back office and what is computed there: the  *)
(* permissions a request is served with, the screens a decision is taken on, the    *)
(* transport requests that are reviewed, the totals of a recovery account, risk     *)
(* scores and schedules. The part that runs changes its own state only, so an       *)
(* invariant of a component is one of the whole.                                   *)
EXTENDS MCBackOffice, FiniteSetTheorems, Sums_proofs, TLAPS

-----------------------------------------------------------------------------
(* Access. The inductive invariant. Between the two queries it is not enough to   *)
(* know that what the roles gave will do now: whether the change still to come is   *)
(* one of the roles or of the overrides, it must do afterwards.                *)

AccessOps == {"none", "sync", "enable", "disable", "remove", "assign", "resolve"}
AccessHandler == [op : AccessOps, step : {0, 1}, role : Roles \cup {None}, set : SUBSET Permissions]

AccessTyped ==
  /\ role \in [Roles -> A!Row]
  /\ given \in [Roles -> {"none", "valid", "expired"}]
  /\ override \in [Permissions -> {"none", "granted", "denied", "expired"}]
  /\ resolving \in [Requests -> AccessHandler]
  /\ changes \in [Requests -> 0 .. 2]
  /\ held \in [Requests -> SUBSET Permissions]

\* What the resolution h knows, after n changes, of a user who could do all of past.
Knows(h, n, past) ==
  /\ h.op = "resolve" /\ h.step = 0 /\ n = 0 => h.set = A!RolesGive
  /\ h.op = "resolve" /\ h.step = 0 /\ n <= 1 => A!Overridden(h.set) \subseteq past
  /\ h.op = "resolve" /\ h.step = 1 /\ n <= 1 => h.set \subseteq past

ResolveInv == \A r \in Requests : Knows(resolving[r], changes[r], held[r])

AccessIInv == AccessTyped /\ ResolveInv

-----------------------------------------------------------------------------
(* Access: what steps have in common *)

\* The two queries, one right after the other, give what the user may do.
LEMMA TwoQueries == A!Effective = A!Overridden(A!RolesGive) /\ A!Effective' = A!Overridden(A!RolesGive)'
<1>1. {y \in Roles : A!GivenNow(y) /\ role[y].active} = {y \in Roles : role[y].active /\ given[y] = "valid"}
  BY DEF A!GivenNow
<1>2. {y \in Roles : A!GivenNow(y) /\ role[y].active}' = {y \in Roles : role[y].active /\ given[y] = "valid"}'
  BY DEF A!GivenNow
<1> QED
  BY <1>1, <1>2 DEF A!Effective, A!Overridden, A!RolesGive

\* A change of what the roles give, or else of the overrides, by a handler that
\* resolves nothing, before or after.
LEMMA AccessChangeInv ==
  ASSUME AccessIInv, A!Noted, override' = override \/ (role' = role /\ given' = given),
         role' \in [Roles -> A!Row], given' \in [Roles -> {"none", "valid", "expired"}],
         override' \in [Permissions -> {"none", "granted", "denied", "expired"}],
         resolving' \in [Requests -> AccessHandler],
         \A r \in Requests : resolving'[r] = resolving[r] \/ (resolving[r].op # "resolve" /\ resolving'[r].op # "resolve")
  PROVE  AccessIInv'
<1>1. A!Effective' \subseteq Permissions
  BY DEF A!Effective, A!Row
<1>2. AccessTyped'
  <2>1. \A r \in Requests : A!Capped(changes[r] + 1) \in 0 .. 2
    BY DEF AccessIInv, AccessTyped, A!Capped
  <2>2. changes' \in [Requests -> 0 .. 2]
    BY <2>1 DEF A!Noted
  <2>3. held' \in [Requests -> SUBSET Permissions]
    BY <1>1 DEF AccessIInv, AccessTyped, A!Noted
  <2> QED
    BY <2>2, <2>3 DEF AccessTyped
<1>3. ASSUME NEW r \in Requests, resolving[r].op = "resolve", resolving'[r] = resolving[r]
      PROVE  Knows(resolving[r], changes[r], held[r])'
  <2>1. /\ changes'[r] = A!Capped(changes[r] + 1) /\ held'[r] = held[r] \cup A!Effective'
        /\ changes[r] \in 0 .. 2
    BY <1>3 DEF A!Noted, AccessIInv, AccessTyped
  <2>2. Knows(resolving[r], changes[r], held[r])
    BY DEF AccessIInv, ResolveInv
  <2>3. changes'[r] # 0 /\ (changes'[r] <= 1 => changes[r] = 0)
    BY <2>1 DEF A!Capped
  <2>4. CASE override' = override
    <3>1. A!Overridden(resolving[r].set)' = A!Overridden(resolving[r].set)
      BY <1>3, <2>4 DEF A!Overridden
    <3> QED
      BY <1>3, <2>1, <2>2, <2>3, <3>1 DEF Knows
  <2>5. CASE role' = role /\ given' = given
    <3>1. A!RolesGive' = A!RolesGive
      BY <2>5 DEF A!RolesGive, A!GivenNow
    <3>2. A!Effective' = A!Overridden(A!RolesGive)'
      BY TwoQueries
    <3>3. changes[r] = 0 /\ resolving[r].step = 0 => A!Overridden(resolving[r].set)' \subseteq held'[r]
      BY <1>3, <2>1, <2>2, <3>1, <3>2 DEF Knows, A!Overridden
    <3> QED
      BY <1>3, <2>1, <2>2, <2>3, <3>3 DEF Knows
  <2> QED
    BY <2>4, <2>5
<1>4. ASSUME NEW r \in Requests, resolving'[r].op # "resolve"
      PROVE  Knows(resolving[r], changes[r], held[r])'
  BY <1>4 DEF Knows
<1>5. ResolveInv'
  BY <1>3, <1>4 DEF ResolveInv
<1> QED
  BY <1>2, <1>5 DEF AccessIInv

\* A handler that begins, and is no resolution.
LEMMA AccessBeginInv ==
  ASSUME AccessIInv, NEW r \in Requests, NEW h \in AccessHandler, A!Start(r, h), h.op # "resolve",
         UNCHANGED <<role, given, override, changes, held>>
  PROVE  AccessIInv'
<1>1. AccessTyped'
  BY DEF AccessIInv, AccessTyped, A!Start
<1>2. A!RolesGive' = A!RolesGive /\ \A set : A!Overridden(set)' = A!Overridden(set)
  BY DEF A!RolesGive, A!GivenNow, A!Overridden
<1>3. \A q \in Requests : Knows(resolving[q], changes[q], held[q])'
  BY <1>2 DEF AccessIInv, AccessTyped, ResolveInv, A!Start, Knows
<1> QED
  BY <1>1, <1>3 DEF AccessIInv, ResolveInv

LEMMA AccessIdleOK == A!Idle \in AccessHandler /\ A!Idle.op = "none"
BY DEF A!Idle, AccessHandler, AccessOps

-----------------------------------------------------------------------------
(* Access: the actions *)

LEMMA LookedUpInv ==
  ASSUME AccessIInv, NEW r \in Requests, NEW x \in Roles,
         \/ \E perms \in SUBSET Permissions : A!SyncPermissions(r, x, perms)
         \/ A!UpdateRole(r, x) \/ A!RemoveRole(r, x) \/ A!AssignRole(r, x)
  PROVE  AccessIInv'
<1> USE AccessIdleOK, AccessBeginInv DEF A!Unnoted, AccessHandler, AccessOps
<1>1. ASSUME NEW perms \in SUBSET Permissions, A!SyncPermissions(r, x, perms) PROVE AccessIInv'
  BY <1>1 DEF A!SyncPermissions
<1>2. CASE A!UpdateRole(r, x)
  BY <1>2 DEF A!UpdateRole
<1>3. CASE A!RemoveRole(r, x)
  BY <1>3 DEF A!RemoveRole
<1>4. CASE A!AssignRole(r, x)
  BY <1>4 DEF A!AssignRole
<1> QED
  BY <1>1, <1>2, <1>3, <1>4

LEMMA AccessWriteInv ==
  ASSUME AccessIInv, NEW r \in Requests,
         A!SyncWrite(r) \/ A!UpdateWrite(r) \/ A!RemoveWrite(r) \/ A!AssignWrite(r)
  PROVE  AccessIInv'
<1>1. A!Finish(r) /\ resolving[r].op \in {"sync", "enable", "disable", "remove", "assign"} /\ A!Noted
  BY DEF A!SyncWrite, A!UpdateWrite, A!RemoveWrite, A!AssignWrite, A!At
<1>2. resolving \in [Requests -> AccessHandler]
  BY DEF AccessIInv, AccessTyped
<1>3. /\ resolving' \in [Requests -> AccessHandler]
      /\ \A q \in Requests : resolving'[q] = resolving[q] \/ (resolving[q].op # "resolve" /\ resolving'[q].op # "resolve")
  BY <1>1, <1>2, AccessIdleOK DEF A!Finish
<1>4. /\ role \in [Roles -> A!Row] /\ given \in [Roles -> {"none", "valid", "expired"}]
      /\ override \in [Permissions -> {"none", "granted", "denied", "expired"}]
  BY DEF AccessIInv, AccessTyped
<1>5. resolving[r].set \in SUBSET Permissions
  BY <1>2 DEF AccessHandler
<1>6. role' \in [Roles -> A!Row] /\ given' \in [Roles -> {"none", "valid", "expired"}] /\ override' = override
  <2>1. CASE A!SyncWrite(r)
    BY <2>1, <1>4, <1>5 DEF A!SyncWrite, A!Row
  <2>2. CASE A!UpdateWrite(r)
    <3>1. PICK on \in BOOLEAN : role' = [role EXCEPT ![resolving[r].role].active = on]
      BY <2>2, Zenon DEF A!UpdateWrite
    <3>2. UNCHANGED <<given, override>>
      BY <2>2, Zenon DEF A!UpdateWrite
    <3> QED
      BY <3>1, <3>2, <1>4 DEF A!Row
  <2>3. CASE A!RemoveWrite(r)
    BY <2>3, <1>4 DEF A!RemoveWrite, A!DeletedRow, A!Row
  <2>4. CASE A!AssignWrite(r)
    BY <2>4, <1>4 DEF A!AssignWrite
  <2> QED
    BY <2>1, <2>2, <2>3, <2>4
<1> QED
  BY <1>1, <1>3, <1>4, <1>6, AccessChangeInv

LEMMA CreateRoleInv ==
  ASSUME AccessIInv, NEW r \in Requests, NEW x \in Roles, NEW perms \in SUBSET Permissions,
         A!CreateRole(r, x, perms)
  PROVE  AccessIInv'
<1> DEFINE h == [A!Idle EXCEPT !.op = "sync", !.role = x, !.set = perms]
<1>1. h \in AccessHandler /\ h.op # "resolve"
  BY AccessIdleOK DEF AccessHandler, AccessOps
<1>2. resolving[r] = A!Idle /\ resolving' = [resolving EXCEPT ![r] = h]
  BY DEF A!CreateRole, A!Start
<1>3. /\ resolving' \in [Requests -> AccessHandler]
      /\ \A q \in Requests : resolving'[q] = resolving[q] \/ (resolving[q].op # "resolve" /\ resolving'[q].op # "resolve")
  BY <1>1, <1>2, AccessIdleOK DEF AccessIInv, AccessTyped
<1>4. role' \in [Roles -> A!Row] /\ UNCHANGED <<given, override>> /\ A!Noted
  BY DEF A!CreateRole, A!NoRow, A!Row, AccessIInv, AccessTyped
<1> QED
  BY <1>3, <1>4, AccessChangeInv DEF AccessIInv, AccessTyped

LEMMA UserChangesInv ==
  ASSUME AccessIInv,
         \/ \E x \in Roles : A!RevokeRole(x) \/ A!RoleExpires(x)
         \/ \E p \in Permissions, o \in {"none", "granted", "denied", "expired"} : A!Override(p, o)
  PROVE  AccessIInv'
<1> USE DEF AccessIInv, AccessTyped
<1>1. ASSUME NEW x \in Roles, A!RevokeRole(x) \/ A!RoleExpires(x) PROVE AccessIInv'
  BY <1>1, AccessChangeInv DEF A!RevokeRole, A!RoleExpires
<1>2. ASSUME NEW p \in Permissions, NEW o \in {"none", "granted", "denied", "expired"}, A!Override(p, o)
      PROVE  AccessIInv'
  BY <1>2, AccessChangeInv DEF A!Override
<1> QED
  BY <1>1, <1>2

\* A resolution begins with what the roles give now.
LEMMA ResolveRolesInv ==
  ASSUME AccessIInv, NEW r \in Requests, A!ResolveRoles(r)
  PROVE  AccessIInv'
<1> DEFINE h == [A!Idle EXCEPT !.op = "resolve", !.set = A!RolesGive]
<1>1. A!RolesGive \subseteq Permissions /\ A!Effective \subseteq Permissions
  BY DEF A!RolesGive, A!Effective, A!Row, AccessIInv, AccessTyped
<1>2. h \in AccessHandler
  BY <1>1, AccessIdleOK DEF AccessHandler, AccessOps
<1>3. /\ resolving' = [resolving EXCEPT ![r] = h] /\ changes' = [changes EXCEPT ![r] = 0]
      /\ held' = [held EXCEPT ![r] = A!Effective] /\ UNCHANGED <<role, given, override>>
  BY DEF A!ResolveRoles, A!Start
<1>4. AccessTyped'
  BY <1>1, <1>2, <1>3 DEF AccessIInv, AccessTyped
<1>5. A!RolesGive' = A!RolesGive /\ \A set : A!Overridden(set)' = A!Overridden(set)
  BY <1>3 DEF A!RolesGive, A!GivenNow, A!Overridden
<1>6. h.set = A!RolesGive /\ h.op = "resolve" /\ h.step = 0
  BY DEF A!Idle
<1>7. Knows(resolving[r], changes[r], held[r])'
  BY <1>3, <1>5, <1>6, TwoQueries DEF Knows, AccessIInv, AccessTyped
<1>8. ASSUME NEW q \in Requests, q # r PROVE Knows(resolving[q], changes[q], held[q])'
  BY <1>3, <1>5, <1>8 DEF Knows, AccessIInv, AccessTyped, ResolveInv
<1> QED
  BY <1>4, <1>7, <1>8 DEF AccessIInv, ResolveInv

LEMMA ResolveOverridesInv ==
  ASSUME AccessIInv, NEW r \in Requests, A!ResolveOverrides(r)
  PROVE  AccessIInv'
<1> DEFINE h == [resolving[r] EXCEPT !.step = 1, !.set = A!Overridden(resolving[r].set)]
<1>1. resolving[r] \in AccessHandler /\ resolving[r].op = "resolve" /\ resolving[r].step = 0
  BY DEF A!ResolveOverrides, A!At, AccessIInv, AccessTyped
<1>2. A!Overridden(resolving[r].set) \subseteq Permissions
  BY <1>1 DEF A!Overridden, AccessHandler
<1>3. h \in AccessHandler /\ h.op = "resolve" /\ h.step = 1 /\ h.set = A!Overridden(resolving[r].set)
  BY <1>1, <1>2 DEF AccessHandler
<1>4. resolving' = [resolving EXCEPT ![r] = h] /\ UNCHANGED <<role, given, override, changes, held>>
  BY DEF A!ResolveOverrides, A!Unnoted, AccessIInv, AccessTyped
<1>5. AccessTyped'
  BY <1>3, <1>4 DEF AccessIInv, AccessTyped
<1>6. A!RolesGive' = A!RolesGive /\ \A set : A!Overridden(set)' = A!Overridden(set)
  BY <1>4 DEF A!RolesGive, A!GivenNow, A!Overridden
<1>7. Knows(resolving[r], changes[r], held[r])'
  BY <1>1, <1>3, <1>4 DEF Knows, AccessIInv, AccessTyped, ResolveInv
<1>8. ASSUME NEW q \in Requests, q # r PROVE Knows(resolving[q], changes[q], held[q])'
  BY <1>4, <1>6, <1>8 DEF Knows, AccessIInv, AccessTyped, ResolveInv
<1> QED
  BY <1>5, <1>7, <1>8 DEF AccessIInv, ResolveInv

LEMMA ServedInv ==
  ASSUME AccessIInv, NEW r \in Requests, A!Served(r)
  PROVE  AccessIInv'
<1>1. /\ resolving' = [resolving EXCEPT ![r] = A!Idle] /\ changes' = [changes EXCEPT ![r] = 0]
      /\ held' = [held EXCEPT ![r] = {}] /\ UNCHANGED <<role, given, override>>
  BY DEF A!Served, A!Finish
<1>2. AccessTyped'
  BY <1>1, AccessIdleOK DEF AccessIInv, AccessTyped
<1>3. A!RolesGive' = A!RolesGive /\ \A set : A!Overridden(set)' = A!Overridden(set)
  BY <1>1 DEF A!RolesGive, A!GivenNow, A!Overridden
<1>4. \A q \in Requests : Knows(resolving[q], changes[q], held[q])'
  BY <1>1, <1>3, AccessIdleOK DEF Knows, AccessIInv, AccessTyped, ResolveInv
<1> QED
  BY <1>2, <1>4 DEF AccessIInv, ResolveInv

-----------------------------------------------------------------------------
(* Access: its specification *)

LEMMA AccessInit == A!Init => AccessIInv
<1> SUFFICES ASSUME A!Init PROVE AccessIInv
  OBVIOUS
<1>1. AccessTyped
  BY AccessIdleOK DEF A!Init, AccessTyped, A!NoRow, A!Row
<1>2. ResolveInv
  BY AccessIdleOK DEF A!Init, ResolveInv, Knows
<1> QED
  BY <1>1, <1>2 DEF AccessIInv

LEMMA AccessStep == AccessIInv /\ [A!Next]_access => AccessIInv'
<1> SUFFICES ASSUME AccessIInv, [A!Next]_access PROVE AccessIInv'
  OBVIOUS
<1>1. ASSUME NEW r \in Requests, NEW x \in Roles,
             \/ \E perms \in SUBSET Permissions : A!CreateRole(r, x, perms) \/ A!SyncPermissions(r, x, perms)
             \/ A!UpdateRole(r, x) \/ A!RemoveRole(r, x) \/ A!AssignRole(r, x)
      PROVE  AccessIInv'
  BY <1>1, CreateRoleInv, LookedUpInv
<1>2. ASSUME NEW r \in Requests,
             \/ A!SyncWrite(r) \/ A!UpdateWrite(r) \/ A!RemoveWrite(r) \/ A!AssignWrite(r)
             \/ A!ResolveRoles(r) \/ A!ResolveOverrides(r) \/ A!Served(r)
      PROVE  AccessIInv'
  BY <1>2, AccessWriteInv, ResolveRolesInv, ResolveOverridesInv, ServedInv
<1>3. CASE UNCHANGED access
  BY <1>3 DEF access, AccessIInv, AccessTyped, ResolveInv, Knows, A!RolesGive, A!GivenNow, A!Overridden
<1> QED
  BY <1>1, <1>2, <1>3, UserChangesInv DEF A!Next

LEMMA AccessSteps == [Next]_vars => [A!Next]_access
<1> SUFFICES ASSUME [Next]_vars PROVE [A!Next]_access
  OBVIOUS
<1>1. CASE UNCHANGED vars
  BY <1>1 DEF vars, access
<1>2. CASE Next /\ part # "access"
  BY <1>2 DEF Next, Rest
<1>3. CASE Next /\ part = "access"
  BY <1>3 DEF Next
<1> QED
  BY <1>1, <1>2, <1>3

\* A request is served with permissions the user had at some moment while they were
\* resolved, if no more than one change, by whomever, fell between the two
\* queries (permission-resolver.service.ts:29).
THEOREM ResolvedHeld == Spec => []ResolvedWasHeld
<1>1. Init => AccessIInv
  BY AccessInit DEF Init
<1>2. AccessIInv /\ [Next]_vars => AccessIInv'
  BY AccessSteps, AccessStep
<1>3. AccessIInv => ResolvedWasHeld
  BY DEF AccessIInv, ResolveInv, Knows, ResolvedWasHeld, A!ResolvedWasHeld, A!At
<1> QED
  BY <1>1, <1>2, <1>3, PTL DEF Spec

-----------------------------------------------------------------------------
(* ReviewScreens. The inductive invariant. The screen of a user shows a queue, or *)
(* has a panel open, only if the user's role lets it; roles do not change, so that holds   *)
(* of old screens, and of the calls made from them, as well. And the status fits the       *)
(* stage unless a call is halfway, or calls got tangled.                               *)

PageNames == {"none", "loan", "compliance", "control", "accounting"}
PanelNames == {"compliance", "resubmit", "reject"}
StatusNames == S!Stages \cup {"none", "DRAFT", "NEEDS_ATTENTION", "DISBURSED", "deleted"}
StageNames == S!Stages \cup {S!NoStage}
CallNames == {"none", "submit", "transition", "review", "complianceReview", "resubmit", "disburse", "remove"}
ActionNames == {"none", "APPROVE", "REJECT", "RETURN", "REQUEST_INFORMATION", "REQUEST_CHANGES"}
CallSet == [name : CallNames, action : ActionNames, meant : StageNames]
ServedSet == [pc : {"idle", "stage", "write", "status", "start", "undo"}, call : CallSet,
              status : StatusNames, stage : StageNames]

ScreenOK(u, s) ==
  /\ s \in [page : PageNames, shown : StatusNames, open : SUBSET PanelNames]
  /\ s.page = "compliance" => S!Holds(u, "compliance_review")
  /\ s.page = "control" => S!Holds(u, "internal_control_approve")
  /\ "reject" \in s.open => S!Holds(u, "internal_control_approve")

Decides(c) == c.name \in {"transition", "review"}

\* A call there is a button for.
CallOK(u, c) ==
  /\ c \in CallSet /\ c.name # "none"
  /\ c.name = "complianceReview" => c.action \in {"APPROVE", "REQUEST_CHANGES", "REJECT"}
  /\ Decides(c) => \/ c.name = "transition" /\ c.meant = "COMPLIANCE_REVIEW" /\ S!Holds(u, "compliance_review")
                   \/ c.meant = "INTERNAL_CONTROL_REVIEW" /\ S!Holds(u, "internal_control_approve")

\* What a call in hand has passed.
ServedOK(u, v) ==
  /\ v.pc # "idle" => CallOK(u, v.call)
  /\ v.pc # "idle" /\ v.call.name = "review" => S!Holds(u, "compliance_review")
  /\ v.pc \in {"stage", "write"} =>
       CASE v.call.name = "complianceReview" -> v.status = "COMPLIANCE_REVIEW"
         [] v.call.name = "resubmit" -> v.status = "NEEDS_ATTENTION"
         [] v.call.name = "disburse" -> v.status = "APPROVED"
         [] OTHER -> TRUE
  /\ v.pc = "write" /\ Decides(v.call) => S!StageAsks(u, v.stage)
  /\ v.pc = "status" => v.stage \in S!Stages
  /\ v.pc = "start" => v.status \in {"COMPLIANCE_REVIEW", "deleted"}

\* The pairs of status and stage that calls leave behind.
Fits ==
  \/ status \in {"DISBURSED", "REJECTED", "deleted"}
  \/ status = "DRAFT" /\ stage = S!NoStage
  \/ status \in {"COMPLIANCE_REVIEW", "NEEDS_ATTENTION"} /\ stage = "COMPLIANCE_REVIEW"
  \/ status \in {"INTERNAL_CONTROL_REVIEW", "APPROVED"} /\ stage = status
  \/ S!LeftBehind

Settled == tangled \/ Fits \/ \E u \in Users : S!Halfway(u)

ScreensTyped ==
  /\ status \in StatusNames
  /\ stage \in StageNames
  /\ tangled \in BOOLEAN
  /\ screen \in [Users -> [page : PageNames, shown : StatusNames, open : SUBSET PanelNames]]
  /\ serving \in [Users -> ServedSet]

ScreensIInv ==
  /\ ScreensTyped
  /\ \A u \in Users : ScreenOK(u, screen[u]) /\ ServedOK(u, serving[u])
  /\ S!DecidedAsShown
  /\ Settled

-----------------------------------------------------------------------------
(* ReviewScreens: who may do what *)

\* Nobody but an administrator acts for both stages.
LEMMA OneStageEach ==
  ASSUME NEW u \in Users, ~S!Admin(u)
  PROVE  ~(S!Holds(u, "compliance_review") /\ S!Holds(u, "internal_control_approve"))
<1>1. RoleOf[u] \in {"LOAN_OFFICER", "COMPLIANCE_OFFICER", "INTERNAL_CONTROL", "SYSTEM_ADMIN"}
  BY RolesSeeded DEF S!Grants
<1> QED
  BY <1>1 DEF S!Admin, S!Holds, S!Grants

\* A button that takes a decision is there for those who may act for the stage
\* it is meant for.
LEMMA DecisionButtons ==
  ASSUME NEW u \in Users, NEW s, ScreenOK(u, s), NEW c \in S!Buttons(u, s),
         c.name \in {"transition", "review"}
  PROVE  \/ c.name = "transition" /\ c.meant = "COMPLIANCE_REVIEW" /\ S!Holds(u, "compliance_review")
         \/ c.meant = "INTERNAL_CONTROL_REVIEW" /\ S!Holds(u, "internal_control_approve")
<1> USE DEF ScreenOK, S!Call
<1>1. CASE s.page = "compliance"
  BY <1>1 DEF S!Buttons, S!ComplianceButtons
<1>2. CASE s.page = "control"
  BY <1>2 DEF S!Buttons, S!ControlButtons
<1>3. CASE s.page = "accounting"
  BY <1>3 DEF S!Buttons, S!DisburseButton, S!When
<1>4. CASE s.page = "loan"
  <2>1. CASE c \in S!StatusButtons(u, s)
    BY <2>1 DEF S!StatusButtons, S!DisburseButton, S!When
  <2>2. CASE c \in S!PanelButtons(s)
    BY <2>2 DEF S!PanelButtons, S!When
  <2>3. CASE c \in S!RemoveButton(u, s)
    BY <2>3 DEF S!RemoveButton, S!When
  <2> QED
    BY <1>4, <2>1, <2>2, <2>3 DEF S!Buttons
<1>5. CASE s.page = "none"
  BY <1>5 DEF S!Buttons
<1> QED
  BY <1>1, <1>2, <1>3, <1>4, <1>5 DEF PageNames

\* Every button makes a call of its kind.
LEMMA ButtonsCall ==
  ASSUME NEW u \in Users, NEW s, ScreenOK(u, s), NEW c \in S!Buttons(u, s)
  PROVE  CallOK(u, c)
<1> USE DEF S!Call, S!When, CallSet, CallNames, ActionNames, StageNames, S!NoStage, S!Stages
<1>1. Decides(c) => \/ c.name = "transition" /\ c.meant = "COMPLIANCE_REVIEW" /\ S!Holds(u, "compliance_review")
                    \/ c.meant = "INTERNAL_CONTROL_REVIEW" /\ S!Holds(u, "internal_control_approve")
  BY DecisionButtons DEF Decides
<1> SUFFICES /\ c \in CallSet /\ c.name # "none"
             /\ c.name = "complianceReview" => c.action \in {"APPROVE", "REQUEST_CHANGES", "REJECT"}
  BY <1>1 DEF CallOK
<1>2. CASE s.page = "compliance"
  BY <1>2 DEF S!Buttons, S!ComplianceButtons
<1>3. CASE s.page = "control"
  BY <1>3 DEF S!Buttons, S!ControlButtons
<1>4. CASE s.page = "accounting"
  BY <1>4 DEF S!Buttons, S!DisburseButton
<1>5. CASE s.page = "loan"
  <2>1. CASE c \in S!StatusButtons(u, s)
    BY <2>1 DEF S!StatusButtons, S!DisburseButton
  <2>2. CASE c \in S!PanelButtons(s)
    BY <2>2 DEF S!PanelButtons
  <2>3. CASE c \in S!RemoveButton(u, s)
    BY <2>3 DEF S!RemoveButton
  <2> QED
    BY <1>5, <2>1, <2>2, <2>3 DEF S!Buttons
<1>6. CASE s.page = "none"
  BY <1>6 DEF S!Buttons
<1> QED
  BY <1>2, <1>3, <1>4, <1>5, <1>6 DEF PageNames, ScreenOK

\* A transition writes at the stage its button is meant for, unless an administrator
\* asked for it.
LEMMA TakenAsMeant ==
  ASSUME NEW u \in Users, NEW v, ServedOK(u, v), v.pc = "write", Decides(v.call), ~S!Admin(u)
  PROVE  v.call.meant = v.stage
<1>1. \/ v.call.name = "transition" /\ v.call.meant = "COMPLIANCE_REVIEW" /\ S!Holds(u, "compliance_review")
      \/ v.call.meant = "INTERNAL_CONTROL_REVIEW" /\ S!Holds(u, "internal_control_approve")
  BY DEF ServedOK, CallOK
<1>2. v.call.name = "review" => S!Holds(u, "compliance_review")
  BY DEF ServedOK
<1>3. S!StageAsks(u, v.stage)
  BY DEF ServedOK
<1>4. \/ v.stage = "COMPLIANCE_REVIEW" /\ S!Holds(u, "compliance_review")
      \/ v.stage = "INTERNAL_CONTROL_REVIEW" /\ S!Holds(u, "internal_control_approve")
  BY <1>3 DEF S!StageAsks, S!StagePermission, S!Stages, S!TerminalStages
<1> QED
  BY <1>1, <1>2, <1>4, OneStageEach DEF Decides

-----------------------------------------------------------------------------
(* ReviewScreens: steps *)

\* What u opens now fits u.
LEMMA PagesFit ==
  ASSUME NEW u \in Users, status \in StatusNames, NEW s \in S!Pages(u)
  PROVE  ScreenOK(u, s)
BY DEF S!Pages, ScreenOK, S!Screen, S!When, S!ComplianceQueue, S!ControlQueue, S!AccountingList, PageNames, PanelNames

LEMMA NowhereFits == ASSUME NEW u \in Users PROVE ScreenOK(u, S!Nowhere)
BY DEF ScreenOK, S!Nowhere, S!Screen, PageNames, PanelNames, StatusNames

\* Only u's screen changes, and it fits u.
LEMMA ShowsInv ==
  ASSUME ScreensIInv, NEW u \in Users, NEW s, ScreenOK(u, s), S!Shows(u, s)
  PROVE  ScreensIInv'
<1>1. screen' = [screen EXCEPT ![u] = s] /\ UNCHANGED <<status, stage, serving, tangled, decision>>
  BY DEF S!Shows
<1>2. ScreensTyped'
  BY <1>1 DEF ScreensIInv, ScreensTyped, ScreenOK
<1>3. \A w \in Users : ScreenOK(w, screen'[w]) /\ ServedOK(w, serving'[w])
  BY <1>1 DEF ScreensIInv, ScreensTyped
<1>4. S!DecidedAsShown' /\ Settled'
  BY <1>1 DEF ScreensIInv, S!DecidedAsShown, Settled, Fits, S!LeftBehind, S!Halfway
<1> QED
  BY <1>2, <1>3, <1>4 DEF ScreensIInv, ScreenOK, ServedOK, CallOK, S!StageAsks

LEMMA AnsweredFits ==
  ASSUME NEW u \in Users, NEW s, ScreenOK(u, s), NEW c
  PROVE  ScreenOK(u, S!Answered(s, c))
<1>1. CASE S!Answered(s, c) = S!Nowhere
  BY <1>1, NowhereFits
<1>2. CASE S!Answered(s, c) = [s EXCEPT !.open = @ \ S!Closes[c.name]]
  BY <1>2 DEF ScreenOK
<1> QED
  BY <1>1, <1>2 DEF S!Answered

\* Only what the server has of u's call changes, besides the rows and the histories.
LEMMA ScreensServed ==
  ASSUME ScreensIInv, NEW u \in Users, NEW v \in ServedSet, ServedOK(u, v),
         serving' = [serving EXCEPT ![u] = v],
         \/ UNCHANGED screen
         \/ \E c : screen' = [screen EXCEPT ![u] = S!Answered(@, c)],
         status' \in StatusNames, stage' \in StageNames, tangled' \in BOOLEAN, S!DecidedAsShown', Settled'
  PROVE  ScreensIInv'
<1>1. \A w \in Users : ServedOK(w, serving'[w])
  BY DEF ScreensIInv, ScreensTyped
<1>2. screen' \in [Users -> [page : PageNames, shown : StatusNames, open : SUBSET PanelNames]]
      /\ \A w \in Users : ScreenOK(w, screen'[w])
  <2>1. CASE UNCHANGED screen
    BY <2>1 DEF ScreensIInv, ScreensTyped
  <2>2. ASSUME NEW c, screen' = [screen EXCEPT ![u] = S!Answered(@, c)] PROVE <1>2
    <3>1. ScreenOK(u, S!Answered(screen[u], c))
      BY AnsweredFits DEF ScreensIInv
    <3> QED
      BY <2>2, <3>1 DEF ScreensIInv, ScreensTyped, ScreenOK
  <2> QED
    BY <2>1, <2>2
<1>3. ScreensTyped'
  BY <1>2 DEF ScreensIInv, ScreensTyped
<1> QED
  BY <1>1, <1>2, <1>3 DEF ScreensIInv, ScreenOK, ServedOK, CallOK, S!StageAsks

\* The call in hand when it is over, and when it goes on.
LEMMA IdleOK == S!Idle \in ServedSet /\ \A u \in Users : ServedOK(u, S!Idle)
BY DEF S!Idle, S!Served, S!Call, ServedSet, CallSet, CallNames, ActionNames, StageNames, StatusNames, S!NoStage, ServedOK

LEMMA EndsThere ==
  ASSUME NEW u \in Users, S!Ends(u)
  PROVE  /\ serving' = [serving EXCEPT ![u] = S!Idle]
         /\ \/ UNCHANGED screen
            \/ \E c : screen' = [screen EXCEPT ![u] = S!Answered(@, c)]
BY DEF S!Ends

LEMMA GoesThere ==
  ASSUME ScreensTyped, NEW u \in Users, NEW pc, NEW st, NEW sg, S!Goes(u, pc, st, sg)
  PROVE  serving' = [serving EXCEPT ![u] = S!Served(pc, serving[u].call, st, sg)] /\ UNCHANGED screen
BY DEF S!Goes, ScreensTyped

\* A call of another user that is halfway stays so, and u's call that goes on may be.
LEMMA HalfwayStays ==
  ASSUME ScreensTyped, NEW u \in Users, NEW v, serving' = [serving EXCEPT ![u] = v]
  PROVE  /\ \A w \in Users \ {u} : S!Halfway(w) => S!Halfway(w)'
         /\ v.pc \in {"status", "start", "undo"} => S!Halfway(u)'
BY DEF S!Halfway, ScreensTyped

\* A call that ends leaves rows that fit, if it found the rows as it had left them
\* or, its only write, if they fitted.
LEMMA SettlesEnd ==
  ASSUME ScreensIInv, NEW u \in Users, NEW v, serving' = [serving EXCEPT ![u] = v],
         tangled => tangled',
         tangled' \/ Fits' \/ (~S!Halfway(u) /\ ~Fits)
  PROVE  Settled'
BY HalfwayStays DEF ScreensIInv, Settled

LEMMA ScreensInit == S!Init => ScreensIInv
<1> SUFFICES ASSUME S!Init PROVE ScreensIInv
  OBVIOUS
<1>1. \A u \in Users : ScreenOK(u, screen[u]) /\ ServedOK(u, serving[u])
  BY NowhereFits, IdleOK DEF S!Init
<1>2. ScreensTyped
  BY IdleOK DEF S!Init, ScreensTyped, StatusNames, StageNames, S!NoStage, S!Nowhere, S!Screen, PageNames, PanelNames
<1>3. S!DecidedAsShown /\ Settled
  BY DEF S!Init, S!DecidedAsShown, Settled, Fits
<1> QED
  BY <1>1, <1>2, <1>3 DEF ScreensIInv

LEMMA PressInv ==
  ASSUME ScreensIInv, NEW u \in Users, S!Press(u)
  PROVE  ScreensIInv'
<1>1. PICK c \in S!Buttons(u, screen[u]) :
        /\ serving[u] = S!Idle /\ S!TakesRow(u, c) /\ (c.name = "transition" => S!TakesStage(u, c))
        /\ serving' = [serving EXCEPT ![u] =
                         S!Served(IF c.name \in {"review", "disburse"} THEN "stage" ELSE "write", c, status, stage)]
        /\ UNCHANGED <<status, stage, screen, tangled, decision>>
  BY DEF S!Press
<1>2. CallOK(u, c)
  BY ButtonsCall DEF ScreensIInv
<1> DEFINE v == S!Served(IF c.name \in {"review", "disburse"} THEN "stage" ELSE "write", c, status, stage)
<1>3. v \in ServedSet
  BY <1>2 DEF S!Served, ServedSet, CallOK, ScreensIInv, ScreensTyped
<1>4. ServedOK(u, v)
  BY <1>1, <1>2 DEF S!Served, ServedOK, S!TakesRow, S!TakesStage, Decides, CallOK
<1>5. S!DecidedAsShown'
  BY <1>1 DEF ScreensIInv, S!DecidedAsShown
<1>6. serving' = [serving EXCEPT ![u] = v]
  BY <1>1
<1> HIDE DEF v
<1>7. Settled'
  <2>1. ~S!Halfway(u)
    BY <1>1 DEF S!Halfway, S!Idle, S!Served
  <2>2. (Fits <=> Fits') /\ tangled' = tangled
    BY <1>1 DEF Fits, S!LeftBehind
  <2> QED
    BY <1>6, <2>1, <2>2, SettlesEnd
<1>8. status' \in StatusNames /\ stage' \in StageNames /\ tangled' \in BOOLEAN
  BY <1>1 DEF ScreensIInv, ScreensTyped
<1> QED
  BY <1>1, <1>3, <1>4, <1>5, <1>6, <1>7, <1>8, ScreensServed

LEMMA ReadsStageInv ==
  ASSUME ScreensIInv, NEW u \in Users, S!ReadsStage(u)
  PROVE  ScreensIInv'
<1> DEFINE v == S!Served("write", serving[u].call, serving[u].status, stage)
<1>1. /\ serving[u].pc = "stage" /\ S!TakesStage(u, serving[u].call)
      /\ serving' = [serving EXCEPT ![u] = v] /\ UNCHANGED <<status, stage, screen, tangled, decision>>
  BY GoesThere DEF S!ReadsStage, ScreensIInv
<1>2. serving[u] \in ServedSet /\ ServedOK(u, serving[u])
  BY DEF ScreensIInv, ScreensTyped
<1>3. v \in ServedSet
  BY <1>2 DEF S!Served, ServedSet, ScreensIInv, ScreensTyped
<1>4. ServedOK(u, v)
  BY <1>1, <1>2 DEF S!Served, ServedOK, S!TakesStage, Decides
<1>5. S!DecidedAsShown'
  BY <1>1 DEF ScreensIInv, S!DecidedAsShown
<1>6. serving' = [serving EXCEPT ![u] = v]
  BY <1>1
<1> HIDE DEF v
<1>7. Settled'
  <2>1. ~S!Halfway(u)
    BY <1>1 DEF S!Halfway
  <2>2. (Fits <=> Fits') /\ tangled' = tangled
    BY <1>1 DEF Fits, S!LeftBehind
  <2> QED
    BY <1>6, <2>1, <2>2, SettlesEnd
<1>8. status' \in StatusNames /\ stage' \in StageNames /\ tangled' \in BOOLEAN
  BY <1>1 DEF ScreensIInv, ScreensTyped
<1> QED
  BY <1>1, <1>3, <1>4, <1>5, <1>6, <1>7, <1>8, ScreensServed

\* A stage is committed: the decision is recorded as it was meant.
LEMMA TransitionInv ==
  ASSUME ScreensIInv, NEW u \in Users, S!Transition(u)
  PROVE  ScreensIInv'
<1>1. PICK e \in S!Edge(serving[u].stage, serving[u].call.action) : S!Moves(u, e)
  BY DEF S!Transition
<1>2. e.to \in S!Stages
  BY DEF S!Edge, S!Edges, S!Stages
<1> DEFINE v == S!Served("status", serving[u].call, status, e.to)
<1>3. /\ serving[u].pc = "write" /\ Decides(serving[u].call)
      /\ stage' = e.to /\ serving' = [serving EXCEPT ![u] = v] /\ UNCHANGED <<status, screen>>
      /\ decision' = [by |-> u, meant |-> serving[u].call.meant, at |-> serving[u].stage]
      /\ tangled' = (tangled \/ S!Late(u))
  BY <1>1, GoesThere DEF S!Transition, S!Moves, ScreensIInv, Decides
<1>4. serving[u] \in ServedSet /\ ServedOK(u, serving[u])
  BY DEF ScreensIInv, ScreensTyped
<1>5. v \in ServedSet
  BY <1>2, <1>4 DEF S!Served, ServedSet, StageNames, ScreensIInv, ScreensTyped
<1>6. ServedOK(u, v)
  BY <1>2, <1>3, <1>4 DEF S!Served, ServedOK
<1>7. S!DecidedAsShown'
  BY <1>3, <1>4, TakenAsMeant DEF S!DecidedAsShown
<1>8. Settled'
  <2>1. v.pc = "status"
    BY DEF S!Served
  <2> QED
    BY <1>3, <2>1, HalfwayStays DEF Settled, ScreensIInv
<1>9. status' \in StatusNames /\ stage' \in StageNames /\ tangled' \in BOOLEAN
  BY <1>2, <1>3 DEF ScreensIInv, ScreensTyped, StageNames, S!Late
<1> HIDE DEF v
<1> QED
  BY <1>3, <1>5, <1>6, <1>7, <1>8, <1>9, ScreensServed

LEMMA WritesStatusInv ==
  ASSUME ScreensIInv, NEW u \in Users, S!WritesStatus(u)
  PROVE  ScreensIInv'
<1>1. /\ serving[u].pc = "status" /\ status' \in {serving[u].stage, "deleted"}
      /\ tangled' = (tangled \/ S!Late(u)) /\ UNCHANGED <<stage, decision>> /\ S!Ends(u)
  BY DEF S!WritesStatus, S!Row
<1>2. serving[u].stage \in S!Stages
  BY <1>1 DEF ScreensIInv, ServedOK
<1>3. tangled' \/ Fits'
  BY <1>1, <1>2 DEF S!Late, Fits, S!Stages
<1>4. S!DecidedAsShown'
  BY <1>1 DEF ScreensIInv, S!DecidedAsShown
<1>5. status' \in StatusNames /\ stage' \in StageNames /\ tangled' \in BOOLEAN
  BY <1>1, <1>2 DEF ScreensIInv, ScreensTyped, StatusNames, S!Late
<1>6. Settled'
  BY <1>3 DEF Settled
<1> QED
  BY <1>1, <1>4, <1>5, <1>6, EndsThere, IdleOK, ScreensServed

LEMMA SubmitInv ==
  ASSUME ScreensIInv, NEW u \in Users, S!Submit(u)
  PROVE  ScreensIInv'
<1> DEFINE v == S!Served("start", serving[u].call, status', stage)
<1>1. /\ serving[u].pc = "write" /\ status' \in {"COMPLIANCE_REVIEW", "deleted"}
      /\ serving' = [serving EXCEPT ![u] = v] /\ UNCHANGED <<stage, screen, decision>>
      /\ tangled' = (tangled \/ S!Late(u))
  BY GoesThere DEF S!Submit, S!Row, ScreensIInv
<1>2. serving[u] \in ServedSet /\ ServedOK(u, serving[u])
  BY DEF ScreensIInv, ScreensTyped
<1>3. status' \in StatusNames /\ stage' \in StageNames /\ tangled' \in BOOLEAN
  BY <1>1 DEF ScreensIInv, ScreensTyped, StatusNames, S!Stages, S!Late
<1>4. v \in ServedSet
  BY <1>2, <1>3 DEF S!Served, ServedSet, ScreensIInv, ScreensTyped
<1>5. ServedOK(u, v)
  BY <1>1, <1>2 DEF S!Served, ServedOK
<1>6. S!DecidedAsShown'
  BY <1>1 DEF ScreensIInv, S!DecidedAsShown
<1>7. Settled'
  <2>1. v.pc = "start"
    BY DEF S!Served
  <2> QED
    BY <1>1, <2>1, HalfwayStays DEF Settled, ScreensIInv
<1> HIDE DEF v
<1> QED
  BY <1>1, <1>3, <1>4, <1>5, <1>6, <1>7, ScreensServed

LEMMA StartInv ==
  ASSUME ScreensIInv, NEW u \in Users, S!Start(u) \/ S!StartFails(u)
  PROVE  ScreensIInv'
<1>1. serving[u].pc = "start" /\ serving[u] \in ServedSet /\ ServedOK(u, serving[u])
  BY DEF S!Start, S!StartFails, ScreensIInv, ScreensTyped
<1>2. S!DecidedAsShown'
  BY DEF S!Start, S!StartFails, ScreensIInv, S!DecidedAsShown
<1>3. status' \in StatusNames /\ stage' \in StageNames /\ tangled' \in BOOLEAN
  BY DEF S!Start, S!StartFails, ScreensIInv, ScreensTyped, StageNames, S!Stages, S!InitialStage, S!Late
<1>4. ASSUME NEW st \in StatusNames, NEW sg \in StageNames, S!Goes(u, "undo", st, sg) PROVE ScreensIInv'
  <2> DEFINE v == S!Served("undo", serving[u].call, st, sg)
  <2>1. serving' = [serving EXCEPT ![u] = v] /\ UNCHANGED screen
    BY <1>4, GoesThere DEF ScreensIInv
  <2>2. v \in ServedSet /\ v.pc = "undo"
    BY <1>1 DEF S!Served, ServedSet
  <2>3. ServedOK(u, v)
    BY <1>1 DEF S!Served, ServedOK
  <2>4. Settled'
    BY <2>1, <2>2, HalfwayStays DEF Settled, ScreensIInv
  <2> HIDE DEF v
  <2> QED
    BY <1>2, <1>3, <2>1, <2>2, <2>3, <2>4, ScreensServed
<1>5. CASE S!Start(u) /\ S!Ends(u)
  <2>1. tangled' \/ Fits'
    BY <1>1, <1>5 DEF S!Start, S!Late, ServedOK, Fits, S!InitialStage
  <2> QED
    BY <1>2, <1>3, <1>5, <2>1, EndsThere, IdleOK, ScreensServed DEF Settled
<1>6. CASE S!Start(u) /\ S!Goes(u, "undo", status, stage')
  BY <1>3, <1>4, <1>6 DEF ScreensIInv, ScreensTyped
<1>7. CASE S!StartFails(u)
  BY <1>1, <1>4, <1>7 DEF S!StartFails, ServedSet
<1> QED
  BY <1>5, <1>6, <1>7 DEF S!Start

LEMMA UndoInv ==
  ASSUME ScreensIInv, NEW u \in Users, S!Undo(u)
  PROVE  ScreensIInv'
<1>1. /\ status' \in {"DRAFT", "deleted"} /\ tangled' = (tangled \/ S!Late(u) \/ stage # S!NoStage)
      /\ serving' = [serving EXCEPT ![u] = S!Idle] /\ UNCHANGED <<stage, screen, decision>>
  BY DEF S!Undo, S!Row
<1>2. Settled'
  BY <1>1 DEF Settled, Fits
<1>3. S!DecidedAsShown'
  BY <1>1 DEF ScreensIInv, S!DecidedAsShown
<1>4. status' \in StatusNames /\ stage' \in StageNames /\ tangled' \in BOOLEAN
  BY <1>1 DEF ScreensIInv, ScreensTyped, StatusNames, S!Late
<1> QED
  BY <1>1, <1>2, <1>3, <1>4, IdleOK, ScreensServed

\* A call with one write finds rows that fit what it read, unless it is late.
LEMMA WritesInv ==
  ASSUME ScreensIInv, NEW u \in Users, S!Writes(u)
  PROVE  ScreensIInv'
<1>1. /\ serving[u].pc = "write" /\ S!Outcome(serving[u].call) /\ S!Ends(u) /\ UNCHANGED decision
      /\ serving[u].call.name \in {"complianceReview", "resubmit", "disburse", "remove"}
      /\ tangled' = (tangled \/ S!Late(u)) /\ ~S!Halfway(u)
  BY DEF S!Writes, S!Halfway
<1>2. CallOK(u, serving[u].call) /\ ServedOK(u, serving[u])
  BY <1>1 DEF ScreensIInv, ServedOK
<1>3. /\ stage' \in StageNames /\ status' \in StatusNames
      /\ \/ status' \in {"REJECTED", "DISBURSED", "deleted"}
         \/ /\ stage' = stage
            /\ serving[u].status \in {"COMPLIANCE_REVIEW", "NEEDS_ATTENTION"}
            /\ status' \in {"COMPLIANCE_REVIEW", "INTERNAL_CONTROL_REVIEW", "NEEDS_ATTENTION"}
  <2> USE DEF S!Outcome, S!Row, ScreensIInv, ScreensTyped, StatusNames, StageNames, S!Stages, S!NoStage
  <2>1. CASE serving[u].call.name = "complianceReview"
    <3>1. S!Reviewed[serving[u].call.action] \in {"INTERNAL_CONTROL_REVIEW", "NEEDS_ATTENTION", "REJECTED"}
      BY <1>2, <2>1 DEF CallOK, S!Reviewed
    <3>2. serving[u].status = "COMPLIANCE_REVIEW"
      BY <1>1, <1>2, <2>1 DEF ServedOK
    <3> QED
      BY <1>1, <2>1, <3>1, <3>2
  <2>2. CASE serving[u].call.name = "resubmit"
    <3>1. serving[u].status = "NEEDS_ATTENTION"
      BY <1>1, <1>2, <2>2 DEF ServedOK
    <3> QED
      BY <1>1, <2>2, <3>1
  <2>3. CASE serving[u].call.name \in {"disburse", "remove"}
    BY <1>1, <2>3
  <2> QED
    BY <1>1, <2>1, <2>2, <2>3
<1>4. tangled' \/ Fits' \/ ~Fits
  BY <1>1, <1>3 DEF S!Late, Fits, S!LeftBehind
<1>5. Settled'
  BY <1>1, <1>4, EndsThere, SettlesEnd
<1>6. S!DecidedAsShown' /\ tangled' \in BOOLEAN
  BY <1>1 DEF ScreensIInv, ScreensTyped, S!DecidedAsShown, S!Late
<1> QED
  BY <1>1, <1>3, <1>5, <1>6, EndsThere, IdleOK, ScreensServed

LEMMA FailsInv ==
  ASSUME ScreensIInv, NEW u \in Users, S!Fails(u)
  PROVE  ScreensIInv'
<1>1. /\ tangled' = (tangled \/ S!Halfway(u)) /\ serving' = [serving EXCEPT ![u] = S!Idle]
      /\ UNCHANGED <<status, stage, screen, decision>>
  BY DEF S!Fails
<1>2. Settled'
  <2>1. Fits <=> Fits'
    BY <1>1 DEF Fits, S!LeftBehind
  <2> QED
    BY <1>1, <2>1, SettlesEnd
<1>3. S!DecidedAsShown'
  BY <1>1 DEF ScreensIInv, S!DecidedAsShown
<1>4. status' \in StatusNames /\ stage' \in StageNames /\ tangled' \in BOOLEAN
  BY <1>1 DEF ScreensIInv, ScreensTyped, S!Halfway
<1> QED
  BY <1>1, <1>2, <1>3, <1>4, IdleOK, ScreensServed

LEMMA ScreensStep == ScreensIInv /\ [S!Next]_screens => ScreensIInv'
<1> SUFFICES ASSUME ScreensIInv, [S!Next]_screens PROVE ScreensIInv'
  OBVIOUS
<1> USE DEF ScreensIInv
<1>1. ASSUME NEW u \in Users, S!Open(u) PROVE ScreensIInv'
  BY <1>1, PagesFit, ShowsInv DEF S!Open, ScreensTyped
<1>2. ASSUME NEW u \in Users, S!Refetch(u) PROVE ScreensIInv'
  <2>1. ScreenOK(u, [screen[u] EXCEPT !.shown = status])
    BY DEF ScreenOK, ScreensTyped
  <2> QED
    BY <1>2, <2>1, ShowsInv DEF S!Refetch
<1>3. ASSUME NEW u \in Users, S!OpenPanel(u) PROVE ScreensIInv'
  <2>1. PICK p \in S!Panels(u, screen[u].shown) : S!Shows(u, [screen[u] EXCEPT !.open = @ \cup {p}])
    BY <1>3 DEF S!OpenPanel
  <2>2. p \in PanelNames /\ (p = "reject" => S!Holds(u, "internal_control_approve"))
    BY DEF S!Panels, PanelNames
  <2>3. ScreenOK(u, [screen[u] EXCEPT !.open = @ \cup {p}])
    BY <2>2 DEF ScreenOK
  <2> QED
    BY <2>1, <2>3, ShowsInv
<1>4. ASSUME NEW u \in Users, S!ClosePanel(u) PROVE ScreensIInv'
  <2>1. PICK p \in screen[u].open : S!Shows(u, [screen[u] EXCEPT !.open = @ \ {p}])
    BY <1>4 DEF S!ClosePanel
  <2>2. ScreenOK(u, [screen[u] EXCEPT !.open = @ \ {p}])
    BY DEF ScreenOK
  <2> QED
    BY <2>1, <2>2, ShowsInv
<1>5. ASSUME NEW u \in Users, S!Leave(u) PROVE ScreensIInv'
  BY <1>5, NowhereFits, ShowsInv DEF S!Leave
<1>6. ASSUME NEW u \in Users, S!Press(u) \/ S!Serve(u) PROVE ScreensIInv'
  BY <1>6, PressInv, ReadsStageInv, TransitionInv, WritesStatusInv, SubmitInv, StartInv, UndoInv, WritesInv, FailsInv
  DEF S!Serve
<1>7. CASE UNCHANGED screens
  BY <1>7 DEF screens, ScreensTyped, ScreenOK, ServedOK, CallOK, S!StageAsks, S!DecidedAsShown, Settled, Fits,
              S!LeftBehind, S!Halfway
<1> QED
  BY <1>1, <1>2, <1>3, <1>4, <1>5, <1>6, <1>7 DEF S!Next

LEMMA ScreensSteps == [Next]_vars => [S!Next]_screens
<1> SUFFICES ASSUME [Next]_vars PROVE [S!Next]_screens
  OBVIOUS
<1>1. CASE UNCHANGED vars
  BY <1>1 DEF vars, screens
<1>2. CASE Next /\ part # "screens"
  BY <1>2 DEF Next, Rest
<1>3. CASE Next /\ part = "screens"
  BY <1>3 DEF Next
<1> QED
  BY <1>1, <1>2, <1>3

LEMMA ScreensAlways == Spec => []ScreensIInv
<1>1. Init => ScreensIInv
  BY ScreensInit DEF Init
<1>2. ScreensIInv /\ [Next]_vars => ScreensIInv'
  BY ScreensSteps, ScreensStep
<1> QED
  BY <1>1, <1>2, PTL DEF Spec

\* However old the screen and however often a button is pressed, a decision of
\* anyone but an administrator is recorded for the stage it was taken on
\* (workflows.service.ts:82).
THEOREM DecisionsAsShown == Spec => []DecidedAsShown
<1>1. ScreensIInv => DecidedAsShown
  BY DEF ScreensIInv, DecidedAsShown
<1> QED
  BY <1>1, ScreensAlways, PTL

-----------------------------------------------------------------------------
(* ReviewScreens: who can act, for each pair of status and stage that fits. *)

\* What a page that u can open now offers, with any of its panels.
LEMMA OfferedNow ==
  ASSUME NEW u \in Users, NEW name, S!Screen(name, status, {}) \in S!Pages(u),
         NEW p \in SUBSET S!Panels(u, status), NEW c \in S!Buttons(u, S!Screen(name, status, p))
  PROVE  c \in S!Offered(u)
<1>1. [S!Screen(name, status, {}) EXCEPT !.open = p] = S!Screen(name, status, p)
  BY DEF S!Screen
<1> DEFINE now == S!Screen(name, status, {})
           offers == {S!Buttons(u, [s EXCEPT !.open = q]) : s \in S!Pages(u), q \in SUBSET S!Panels(u, status)}
<1>2. S!Buttons(u, [now EXCEPT !.open = p]) \in offers
  OBVIOUS
<1>3. c \in S!Buttons(u, [now EXCEPT !.open = p])
  BY <1>1
<1>4. S!Offered(u) = UNION offers
  BY DEF S!Offered
<1> HIDE DEF now, offers
<1> QED
  BY <1>2, <1>3, <1>4

\* Everyone who may read can open the loan page, and the others have their queues.
LEMMA PagesNow ==
  ASSUME NEW u \in Users
  PROVE  /\ S!Holds(u, "read") => S!Screen("loan", status, {}) \in S!Pages(u)
         /\ S!ComplianceQueue(u) => S!Screen("compliance", status, {}) \in S!Pages(u)
         /\ S!ControlQueue(u) => S!Screen("control", status, {}) \in S!Pages(u)
         /\ S!AccountingList(u) => S!Screen("accounting", status, {}) \in S!Pages(u)
<1> DEFINE open == UNION {S!When(S!Holds(u, "read"), {"loan"}), S!When(S!ComplianceQueue(u), {"compliance"}),
                          S!When(S!ControlQueue(u), {"control"}), S!When(S!AccountingList(u), {"accounting"})}
<1>1. \A name \in open : S!Screen(name, status, {}) \in S!Pages(u)
  BY DEF S!Pages
<1>2. /\ S!Holds(u, "read") => "loan" \in open
      /\ S!ComplianceQueue(u) => "compliance" \in open
      /\ S!ControlQueue(u) => "control" \in open
      /\ S!AccountingList(u) => "accounting" \in open
  BY DEF S!When
<1> HIDE DEF open
<1> QED
  BY <1>1, <1>2

\* The user who can act, stage by stage.
LEMMA ActorThere ==
  ASSUME Fits, status \notin {"DISBURSED", "REJECTED", "deleted"}
  PROVE  \E u \in Users : S!CanAct(u) /\ (S!Admin(u) => status = "APPROVED" \/ S!LeftBehind)
<1>0. status \in {"DRAFT", "COMPLIANCE_REVIEW", "NEEDS_ATTENTION", "INTERNAL_CONTROL_REVIEW", "APPROVED"}
  BY DEF Fits, S!LeftBehind
<1>a. ASSUME NEW u \in Users, S!Admin(u) => status = "APPROVED" \/ S!LeftBehind, NEW name,
             S!Screen(name, status, {}) \in S!Pages(u), NEW p \in SUBSET S!Panels(u, status),
             NEW c \in S!Buttons(u, S!Screen(name, status, p)), c.name # "remove", S!Accepts(u, c)
      PROVE  \E w \in Users : S!CanAct(w) /\ (S!Admin(w) => status = "APPROVED" \/ S!LeftBehind)
  <2>1. c \in S!Offered(u)
    BY <1>a, OfferedNow
  <2> QED
    BY <1>a, <2>1 DEF S!CanAct
<1>b. \A u \in Users :
        /\ RoleOf[u] = "LOAN_OFFICER" => ~S!Admin(u) /\ S!Holds(u, "read") /\ S!Holds(u, "submit") /\ S!Holds(u, "update")
        /\ RoleOf[u] = "COMPLIANCE_OFFICER" => ~S!Admin(u) /\ S!Holds(u, "compliance_review")
        /\ RoleOf[u] = "INTERNAL_CONTROL" => ~S!Admin(u) /\ S!Holds(u, "internal_control_approve")
        /\ RoleOf[u] = "SYSTEM_ADMIN" => S!Holds(u, "disburse") /\ S!Holds(u, "disburse_head") /\ S!Admin(u)
                                        /\ S!Holds(u, "read") /\ S!Holds(u, "internal_control_approve")
  BY DEF S!Admin, S!Holds, S!Grants
<1>c. \A x \in {"LOAN_OFFICER", "COMPLIANCE_OFFICER", "INTERNAL_CONTROL", "SYSTEM_ADMIN"} :
        \E u \in Users : RoleOf[u] = x
  BY RolesStaffed DEF S!Grants
<1>1. CASE status = "DRAFT"
  <2>1. PICK u \in Users : RoleOf[u] = "LOAN_OFFICER"
    BY <1>c
  <2> DEFINE c == S!Call("submit", "none", "none")
  <2>2. c \in S!Buttons(u, S!Screen("loan", status, {}))
    BY <1>1, <1>b, <2>1 DEF S!Buttons, S!StatusButtons, S!Screen, S!When
  <2>3. stage = S!NoStage
    BY <1>1 DEF Fits, S!LeftBehind
  <2>4. c.name = "submit" /\ S!Accepts(u, c)
    BY <1>1, <1>b, <2>1, <2>3 DEF S!Call, S!Accepts, S!TakesRow, S!TakesStage
  <2> HIDE DEF c
  <2> QED
    BY <1>a, <1>b, <2>1, <2>2, <2>4, PagesNow
<1>2. CASE status = "COMPLIANCE_REVIEW"
  <2>1. PICK u \in Users : RoleOf[u] = "COMPLIANCE_OFFICER"
    BY <1>c
  <2> DEFINE c == S!Call("transition", "APPROVE", "COMPLIANCE_REVIEW")
  <2>2. c \in S!Buttons(u, S!Screen("compliance", status, {}))
    BY DEF S!Buttons, S!ComplianceButtons, S!Screen
  <2>3. stage = "COMPLIANCE_REVIEW"
    BY <1>2 DEF Fits, S!LeftBehind
  <2>4. S!StageAsks(u, stage)
    BY <1>b, <2>1, <2>3 DEF S!StageAsks, S!StagePermission, S!Stages, S!TerminalStages
  <2>5. S!Edge(stage, "APPROVE") # {}
    <3>1. [from |-> "COMPLIANCE_REVIEW", action |-> "APPROVE", to |-> "INTERNAL_CONTROL_REVIEW"] \in S!Edges
      BY DEF S!Edges
    <3> QED
      BY <2>3, <3>1 DEF S!Edge
  <2>6. c.name = "transition" /\ S!Accepts(u, c)
    BY <2>4, <2>5 DEF S!Call, S!Accepts, S!TakesRow, S!TakesStage
  <2>7. S!ComplianceQueue(u)
    BY <1>2, <1>b, <2>1 DEF S!ComplianceQueue
  <2> HIDE DEF c
  <2> QED
    BY <1>a, <1>b, <2>1, <2>2, <2>6, <2>7, PagesNow
<1>3. CASE status = "NEEDS_ATTENTION"
  <2>1. Assigned \in Users /\ RoleOf[Assigned] = "LOAN_OFFICER"
    BY RolesStaffed
  <2> DEFINE c == S!Call("resubmit", "none", "none")
  <2>2. c \in S!Buttons(Assigned, S!Screen("loan", status, {"resubmit"}))
    BY DEF S!Buttons, S!PanelButtons, S!Screen, S!When
  <2>3. {"resubmit"} \in SUBSET S!Panels(Assigned, status)
    BY <1>3 DEF S!Panels
  <2>4. c.name = "resubmit" /\ S!Accepts(Assigned, c)
    BY <1>3, <1>b, <2>1 DEF S!Call, S!Accepts, S!TakesRow, S!TakesStage
  <2> HIDE DEF c
  <2> QED
    BY <1>a, <1>b, <2>1, <2>2, <2>3, <2>4, PagesNow
<1>4. CASE status = "INTERNAL_CONTROL_REVIEW" /\ stage = status
  <2>1. PICK u \in Users : RoleOf[u] = "INTERNAL_CONTROL"
    BY <1>c
  <2> DEFINE c == S!Call("transition", "APPROVE", "INTERNAL_CONTROL_REVIEW")
  <2>2. c \in S!Buttons(u, S!Screen("control", status, {}))
    BY DEF S!Buttons, S!ControlButtons, S!Screen
  <2>3. stage = "INTERNAL_CONTROL_REVIEW"
    BY <1>4
  <2>4. S!StageAsks(u, stage)
    BY <1>b, <2>1, <2>3 DEF S!StageAsks, S!StagePermission, S!Stages, S!TerminalStages
  <2>5. S!Edge(stage, "APPROVE") # {}
    <3>1. [from |-> "INTERNAL_CONTROL_REVIEW", action |-> "APPROVE", to |-> "APPROVED"] \in S!Edges
      BY DEF S!Edges
    <3> QED
      BY <2>3, <3>1 DEF S!Edge
  <2>6. c.name = "transition" /\ S!Accepts(u, c)
    BY <2>4, <2>5 DEF S!Call, S!Accepts, S!TakesRow, S!TakesStage
  <2>7. S!ControlQueue(u)
    BY <1>4, <1>b, <2>1 DEF S!ControlQueue
  <2> HIDE DEF c
  <2> QED
    BY <1>a, <1>b, <2>1, <2>2, <2>6, <2>7, PagesNow
<1>5. CASE status = "APPROVED"
  <2>1. PICK u \in Users : RoleOf[u] = "SYSTEM_ADMIN"
    BY <1>c
  <2> DEFINE c == S!Call("disburse", "none", "APPROVED")
  <2>2. c \in S!Buttons(u, S!Screen("accounting", status, {}))
    BY <1>b, <2>1 DEF S!Buttons, S!DisburseButton, S!Screen, S!When
  <2>3. stage = "APPROVED"
    BY <1>5 DEF Fits, S!LeftBehind
  <2>4. c.name = "disburse" /\ S!Accepts(u, c)
    BY <1>5, <1>b, <2>1, <2>3 DEF S!Call, S!Accepts, S!TakesRow, S!TakesStage
  <2>5. S!AccountingList(u)
    BY <1>5, <1>b, <2>1 DEF S!AccountingList
  <2> HIDE DEF c
  <2> QED
    BY <1>5, <1>a, <2>1, <2>2, <2>4, <2>5, PagesNow
<1>6. CASE S!LeftBehind
  <2>1. PICK u \in Users : RoleOf[u] = "SYSTEM_ADMIN"
    BY <1>c
  <2> DEFINE c == S!Call("transition", "APPROVE", "INTERNAL_CONTROL_REVIEW")
  <2>2. c \in S!Buttons(u, S!Screen("loan", status, {}))
    BY <1>6, <1>b, <2>1 DEF S!Buttons, S!StatusButtons, S!Screen, S!When, S!LeftBehind
  <2>3. stage = "COMPLIANCE_REVIEW"
    BY <1>6 DEF S!LeftBehind
  <2>4. S!StageAsks(u, stage)
    BY <1>b, <2>1, <2>3 DEF S!StageAsks, S!StagePermission, S!Stages, S!TerminalStages, S!Holds
  <2>5. S!Edge(stage, "APPROVE") # {}
    <3>1. [from |-> "COMPLIANCE_REVIEW", action |-> "APPROVE", to |-> "INTERNAL_CONTROL_REVIEW"] \in S!Edges
      BY DEF S!Edges
    <3> QED
      BY <2>3, <3>1 DEF S!Edge
  <2>6. c.name = "transition" /\ S!Accepts(u, c)
    BY <2>4, <2>5 DEF S!Call, S!Accepts, S!TakesRow, S!TakesStage
  <2> HIDE DEF c
  <2> QED
    BY <1>6, <1>a, <1>b, <2>1, <2>2, <2>6, PagesNow
<1> QED
  BY <1>0, <1>1, <1>2, <1>3, <1>4, <1>5, <1>6 DEF Fits

\* With a user in each seeded role, an application that is not at its end has someone
\* whose screens offer a call that moves it on, unless calls failed between two
\* writes, wrote over each other or undid a submission
\* (workflows.service.ts:97, loan-applications.service.ts:487).
THEOREM SomeoneActs == Spec => []SomeoneCanAct
<1>1. ScreensIInv => SomeoneCanAct
  BY ActorThere DEF ScreensIInv, Settled, SomeoneCanAct, S!SomeoneCanAct
<1> QED
  BY <1>1, ScreensAlways, PTL

-----------------------------------------------------------------------------
(* Transport. The inductive invariant. What a page shows as approved was approved  *)
(* once, and stays so in the history whatever becomes of the row afterwards.        *)

TransportInv ==
  /\ trip \in [Trips -> T!Statuses \cup {"none"}]
  /\ shown \in [Requests -> [Trips -> T!Statuses \cup {"none"}]]
  /\ reviewing \in [Requests -> T!Review \cup {T!NoReview}]
  /\ \A t \in Trips : trip[t] \in {"APPROVED", "PAID"} => t \in approved
  /\ \A p \in Requests, t \in Trips : shown[p][t] = "APPROVED" => t \in approved

LEMMA TransportStep == TransportInv /\ [T!Next]_transport => TransportInv'
<1> SUFFICES ASSUME TransportInv, [T!Next]_transport PROVE TransportInv'
  OBVIOUS
<1>0. /\ trip \in [Trips -> T!Statuses \cup {"none"}]
      /\ shown \in [Requests -> [Trips -> T!Statuses \cup {"none"}]]
      /\ reviewing \in [Requests -> T!Review \cup {T!NoReview}]
  BY DEF TransportInv
<1>1. ASSUME NEW t \in Trips, T!Create(t) PROVE TransportInv'
  <2>1. /\ UNCHANGED <<shown, reviewing, approved>>
        /\ trip' = [trip EXCEPT ![t] = "PENDING"]
    BY <1>1 DEF T!Create
  <2>2. \A s \in Trips : trip'[s] = IF s = t THEN "PENDING" ELSE trip[s]
    BY <1>0, <2>1
  <2>3. trip' \in [Trips -> T!Statuses \cup {"none"}]
    BY <1>0, <2>1 DEF T!Statuses
  <2> QED
    BY <2>1, <2>2, <2>3 DEF TransportInv
<1>2. ASSUME NEW p \in Requests, T!Fetch(p) PROVE TransportInv'
  <2>1. UNCHANGED <<trip, reviewing, approved>> /\ shown' = [shown EXCEPT ![p] = trip]
    BY <1>2 DEF T!Fetch
  <2>2. \A q \in Requests : shown'[q] = IF q = p THEN trip ELSE shown[q]
    BY <1>0, <2>1
  <2>3. shown' \in [Requests -> [Trips -> T!Statuses \cup {"none"}]]
    BY <1>0, <2>1
  <2> QED
    BY <2>1, <2>2, <2>3 DEF TransportInv
<1>3. ASSUME NEW p \in Requests, NEW t \in Trips, NEW d \in {"APPROVED", "REJECTED"}, T!ReviewRead(p, t, d)
      PROVE  TransportInv'
  <2>1. /\ UNCHANGED <<trip, shown, approved>>
        /\ reviewing' = [reviewing EXCEPT ![p] = [trip |-> t, decision |-> d]]
    BY <1>3 DEF T!ReviewRead
  <2>2. [trip |-> t, decision |-> d] \in T!Review
    BY DEF T!Review
  <2>3. reviewing' \in [Requests -> T!Review \cup {T!NoReview}]
    BY <1>0, <2>1, <2>2
  <2> QED
    BY <2>1, <2>3 DEF TransportInv
\* The approval that is written enters the history with it.
<1>4. ASSUME NEW p \in Requests, T!ReviewWrite(p) PROVE TransportInv'
  <2> DEFINE review == reviewing[p]
  <2>1. review \in T!Review
    BY <1>0, <1>4 DEF T!ReviewWrite
  <2>2. /\ trip' = [trip EXCEPT ![review.trip] = review.decision]
        /\ approved' = IF review.decision = "APPROVED" THEN approved \cup {review.trip} ELSE approved
        /\ shown' = shown
    BY <1>4 DEF T!ReviewWrite
  <2>3. reviewing' \in [Requests -> T!Review \cup {T!NoReview}]
    BY <1>0, <1>4 DEF T!ReviewWrite
  <2> HIDE DEF review
  <2>4. review.trip \in Trips /\ review.decision \in {"APPROVED", "REJECTED"}
    BY <2>1 DEF T!Review
  <2>5. \A s \in Trips : trip'[s] = IF s = review.trip THEN review.decision ELSE trip[s]
    BY <1>0, <2>2
  <2>6. trip' \in [Trips -> T!Statuses \cup {"none"}]
    BY <1>0, <2>2, <2>4 DEF T!Statuses
  <2> QED
    BY <2>2, <2>3, <2>4, <2>5, <2>6 DEF TransportInv
\* What is paid was on the page as approved.
<1>5. ASSUME NEW p \in Requests, NEW t \in Trips, T!MarkPaid(p, t) PROVE TransportInv'
  <2>1. /\ UNCHANGED <<shown, reviewing, approved>>
        /\ trip' = [trip EXCEPT ![t] = "PAID"]
        /\ shown[p][t] = "APPROVED"
    BY <1>5 DEF T!MarkPaid, T!PayButton
  <2>2. \A s \in Trips : trip'[s] = IF s = t THEN "PAID" ELSE trip[s]
    BY <1>0, <2>1
  <2>3. trip' \in [Trips -> T!Statuses \cup {"none"}]
    BY <1>0, <2>1 DEF T!Statuses
  <2> QED
    BY <2>1, <2>2, <2>3 DEF TransportInv
<1>6. CASE UNCHANGED transport
  BY <1>6 DEF transport, TransportInv
<1> QED
  BY <1>1, <1>2, <1>3, <1>4, <1>5, <1>6 DEF T!Next

\* Whoever pays, from a page however old, pays a request that a review has approved,
\* though markPaid does not ask (transport.service.ts:85).
THEOREM PaidWereApproved == Spec => []PaidWasApproved
<1>1. Init => TransportInv
  BY DEF Init, T!Init, TransportInv
<1>2. [Next]_vars => [T!Next]_transport
  <2> SUFFICES ASSUME [Next]_vars PROVE [T!Next]_transport
    OBVIOUS
  <2>1. CASE UNCHANGED vars
    BY <2>1 DEF vars, transport
  <2>2. CASE Next /\ part # "transport"
    BY <2>2 DEF Next, Rest
  <2>3. CASE Next /\ part = "transport"
    BY <2>3 DEF Next
  <2> QED
    BY <2>1, <2>2, <2>3
<1>3. TransportInv /\ [Next]_vars => TransportInv'
  BY <1>2, TransportStep
<1>4. TransportInv => PaidWasApproved
  BY DEF TransportInv, PaidWasApproved, T!PaidWasApproved
<1> QED
  BY <1>1, <1>3, <1>4, PTL DEF Spec

-----------------------------------------------------------------------------
(* Recovery, however the handlers interleave: what a handler has read it may rely *)
(* on as a bound, because what is approved and what is spent only grows.           *)

RecHandler == [pc : {"idle", "look", "decide", "credit", "insert", "total"},
               payment : Payments \cup {R!Idle.payment}, amount : Nat, approved : BOOLEAN, seen : R!Account]

RecRows == [Payments -> [status : {"none", "pending", "verified", "rejected"}, amount : Nat]]
RecSpent == [rows : Nat, sum : Nat]

RecTyped ==
  /\ account \in R!Account
  /\ payment \in RecRows
  /\ spent \in RecSpent
  /\ handling \in [Requests -> RecHandler]
  /\ approvals \in Nat /\ edited \in BOOLEAN /\ cut \in BOOLEAN

\* What handler h has read it may rely on, whatever the others did since.
RecBacked(h) ==
  /\ h.pc # "idle" => account.status # "none"
  /\ h.pc \in {"look", "decide", "credit"} => h.payment \in Payments
  /\ h.pc \in {"decide", "credit", "insert", "total"} =>
       /\ h.seen.recovered <= approvals /\ h.seen.expenses <= spent.sum
       /\ h.seen.opening = account.opening
       /\ edited \/ h.seen.owed >= account.opening - approvals
  /\ h.pc = "credit" => /\ h.seen.recovered + h.amount <= approvals
                        /\ edited \/ h.seen.owed - h.amount >= account.opening - approvals
  /\ h.pc = "total" => h.seen.expenses + h.amount <= spent.sum

RecIInv ==
  /\ RecTyped
  /\ account.status = "none" => account = R!NoAccount
  /\ \A p \in Payments : payment[p].status # "none" => account.status # "none"
  /\ \A r \in Requests : RecBacked(handling[r])
  /\ R!TotalsBacked

LEMMA RecIdleOK == R!Idle \in RecHandler /\ R!Idle.pc = "idle" /\ R!NoAccount \in R!Account
BY DEF R!Idle, RecHandler, R!NoAccount, R!Account

\* One handler goes on or rests; nothing but what is approved and spent grows.
LEMMA RecMoves ==
  ASSUME RecIInv, NEW r \in Requests, NEW h \in RecHandler, handling' = [handling EXCEPT ![r] = h],
         RecBacked(h)', UNCHANGED account, approvals' \in Nat, approvals' >= approvals,
         spent' \in RecSpent, spent'.sum >= spent.sum,
         edited' = edited, cut' \in BOOLEAN,
         payment' \in RecRows,
         \A p \in Payments : payment'[p].status # "none" => account.status # "none"
  PROVE  RecIInv'
<1>1. RecTyped'
  BY DEF RecIInv, RecTyped
<1>2. \A q \in Requests : handling[q].seen \in R!Account /\ handling[q].amount \in Nat /\ account \in R!Account /\ spent.sum \in Nat /\ spent'.sum \in Nat /\ approvals \in Nat
  BY DEF RecIInv, RecTyped, RecHandler, RecSpent
<1>3. ASSUME NEW q \in Requests PROVE RecBacked(handling[q])'
  <2>1. CASE q = r
    <3>1. handling'[q] = h
      BY <2>1 DEF RecIInv, RecTyped
    <3> QED
      BY <3>1 DEF RecBacked
  <2>2. CASE q # r
    <3>1. handling'[q] = handling[q]
      BY <2>2 DEF RecIInv, RecTyped
    <3>2. RecBacked(handling[q])
      BY DEF RecIInv
    <3> QED
      BY <1>2, <3>1, <3>2 DEF RecBacked, R!Account
  <2> QED
    BY <2>1, <2>2
<1>4. R!TotalsBacked'
  BY <1>2 DEF RecIInv, R!TotalsBacked, R!Account
<1> QED
  BY <1>1, <1>3, <1>4 DEF RecIInv
\* The row is written, by staff or by a handler that ends with it.
LEMMA RecWrites ==
  ASSUME RecIInv, account' \in R!Account, account'.status # "none",
         account.status # "none" => account'.opening = account.opening,
         UNCHANGED <<payment, spent, approvals, cut>>, edited' \in BOOLEAN, edited => edited',
         handling' \in [Requests -> RecHandler],
         \A r \in Requests : handling'[r] = handling[r] \/ handling'[r] = R!Idle,
         R!TotalsBacked'
  PROVE  RecIInv'
<1>1. RecTyped'
  BY DEF RecIInv, RecTyped
<1>2. ASSUME NEW q \in Requests PROVE RecBacked(handling[q])'
  <2>1. CASE handling'[q] = R!Idle
    BY <2>1, RecIdleOK DEF RecBacked
  <2>2. CASE handling'[q] = handling[q]
    <3>1. RecBacked(handling[q])
      BY DEF RecIInv
    <3> QED
      BY <2>2, <3>1 DEF RecBacked
  <2> QED
    BY <2>1, <2>2
<1> QED
  BY <1>1, <1>2 DEF RecIInv

LEMMA RecAccountInv ==
  ASSUME RecIInv, (\E o \in Openings : R!CreateAccount(o)) \/ (\E n \in Amounts : R!UpdateAccount(n)) \/ R!DeleteAccount
  PROVE  RecIInv'
<1>0. /\ account \in R!Account /\ handling \in [Requests -> RecHandler] /\ R!TotalsBacked
      /\ edited \in BOOLEAN /\ approvals \in Nat /\ spent.sum \in Nat
      /\ account.status = "none" => account = R!NoAccount
  BY DEF RecIInv, RecTyped, RecSpent
<1>1. ASSUME NEW o \in Openings, R!CreateAccount(o) PROVE RecIInv'
  <2>1. UNCHANGED <<payment, spent, handling, approvals, edited, cut>> /\ account.status = "none"
    BY <1>1 DEF R!CreateAccount, R!history
  <2>2. /\ account' \in R!Account /\ account'.status = "open" /\ account'.opening = o /\ account'.owed = o
        /\ account'.recovered = 0 /\ account'.expenses = 0
    <3>1. o \in Int
      BY AmountsPositive
    <3>2. account' = [status |-> "open", opening |-> o, owed |-> o, recovered |-> 0, expenses |-> 0, net |-> 0]
      BY <1>1 DEF R!CreateAccount, R!NoAccount
    <3> QED
      BY <3>1, <3>2 DEF R!Account
  <2>3. R!TotalsBacked'
    BY <1>0, <2>1, <2>2, AmountsPositive DEF R!TotalsBacked
  <2> QED
    BY <1>0, <2>1, <2>2, <2>3, RecWrites
<1>2. ASSUME NEW n \in Amounts, R!UpdateAccount(n) PROVE RecIInv'
  <2>1. UNCHANGED <<payment, spent, handling, approvals, cut>> /\ account.status = "open" /\ edited' = TRUE
    BY <1>2 DEF R!UpdateAccount
  <2>2. /\ account' \in R!Account /\ account'.status = "open" /\ account'.opening = account.opening
        /\ account'.recovered = account.recovered /\ account'.expenses = account.expenses
    BY <1>0, <1>2, AmountsPositive DEF R!UpdateAccount, R!Account
  <2>3. R!TotalsBacked'
    BY <1>0, <2>1, <2>2 DEF R!TotalsBacked
  <2> QED
    BY <1>0, <2>1, <2>2, <2>3, RecWrites
<1>3. CASE R!DeleteAccount
  <2>1. UNCHANGED <<payment, spent, handling, approvals, edited, cut>> /\ account.status = "open"
    BY <1>3 DEF R!DeleteAccount, R!history
  <2>2. /\ account' \in R!Account /\ account'.status = "deleted" /\ account'.opening = account.opening /\ account'.owed = account.owed
        /\ account'.recovered = account.recovered /\ account'.expenses = account.expenses
    BY <1>0, <1>3 DEF R!DeleteAccount, R!Account
  <2>3. R!TotalsBacked'
    BY <1>0, <2>1, <2>2 DEF R!TotalsBacked
  <2> QED
    BY <1>0, <2>1, <2>2, <2>3, RecWrites
<1> QED
  BY <1>1, <1>2, <1>3

LEMMA RecPaymentInv ==
  ASSUME RecIInv, NEW p \in Payments, NEW a \in Amounts, R!RecordPayment(p, a)
  PROVE  RecIInv'
<1>1. /\ UNCHANGED <<account, spent, handling, approvals, edited, cut>> /\ account.status = "open"
      /\ payment' = [payment EXCEPT ![p] = [status |-> "pending", amount |-> a]]
  BY DEF R!RecordPayment, R!history
<1>2. RecTyped'
  BY <1>1, AmountsPositive DEF RecIInv, RecTyped, RecRows
<1>3. \A r \in Requests : RecBacked(handling[r])'
  BY <1>1 DEF RecIInv, RecBacked
<1> QED
  BY <1>1, <1>2, <1>3 DEF RecIInv, RecTyped, R!TotalsBacked

\* The same of a handler that leaves the expenses alone.
LEMMA RecReads ==
  ASSUME RecIInv, NEW r \in Requests, NEW h \in RecHandler, handling' = [handling EXCEPT ![r] = h],
         RecBacked(h)', UNCHANGED <<account, spent, edited, cut>>, approvals' \in Nat, approvals' >= approvals,
         payment' \in RecRows, account.status # "none"
  PROVE  RecIInv'
<1>1. spent' \in RecSpent /\ cut' \in BOOLEAN /\ spent'.sum >= spent.sum
  BY DEF RecIInv, RecTyped, RecSpent
<1> QED
  BY <1>1, RecMoves

LEMMA RecVerifyInv ==
  ASSUME RecIInv, NEW r \in Requests,
         \/ \E p \in Payments, yes \in BOOLEAN : R!VerifyPayment(r, p, yes)
         \/ R!VerifyLook(r) \/ R!VerifyDecide(r)
  PROVE  RecIInv'
<1>0. /\ account \in R!Account /\ handling \in [Requests -> RecHandler] /\ R!TotalsBacked
      /\ edited \in BOOLEAN /\ cut \in BOOLEAN /\ approvals \in Nat /\ spent \in RecSpent
      /\ payment \in RecRows
  BY DEF RecIInv, RecTyped
<1>b. RecBacked(handling[r])
  BY DEF RecIInv
<1>1. ASSUME NEW p \in Payments, NEW yes \in BOOLEAN, R!VerifyPayment(r, p, yes) PROVE RecIInv'
  <2> DEFINE h == [R!Idle EXCEPT !.pc = "look", !.payment = p, !.approved = yes, !.amount = payment[p].amount]
  <2>1. /\ UNCHANGED <<account, payment, spent, approvals, edited, cut>> /\ payment[p].status = "pending"
        /\ handling' = [handling EXCEPT ![r] = h]
    BY <1>1 DEF R!VerifyPayment, R!history, R!Awaiting
  <2>2. h \in RecHandler /\ h.pc = "look" /\ h.payment = p
    BY <1>0, RecIdleOK DEF RecHandler, RecRows
  <2> HIDE DEF h
  <2>3. PICK g \in RecHandler : g = h
    BY <2>2
  <2>4. account.status # "none"
    BY <2>1 DEF RecIInv
  <2>5. RecBacked(g)'
    BY <2>1, <2>2, <2>3, <2>4 DEF RecBacked
  <2>6. handling' = [handling EXCEPT ![r] = g]
    BY <2>1, <2>3
  <2>7. approvals' \in Nat /\ approvals' >= approvals /\ payment' \in RecRows
    BY <1>0, <2>1
  <2> QED
    BY <2>1, <2>4, <2>5, <2>6, <2>7, RecReads
<1>2. CASE R!VerifyLook(r)
  <2> DEFINE h == [handling[r] EXCEPT !.pc = "decide", !.seen = account]
  <2>1. /\ UNCHANGED <<account, payment, spent, approvals, edited, cut>> /\ handling[r].pc = "look"
        /\ handling' = [handling EXCEPT ![r] = h]
    BY <1>0, <1>2 DEF R!VerifyLook, R!history
  <2>2. h \in RecHandler /\ h.pc = "decide" /\ h.payment = handling[r].payment /\ h.seen = account
    BY <1>0 DEF RecHandler, RecRows
  <2> HIDE DEF h
  <2>3. PICK g \in RecHandler : g = h
    BY <2>2
  <2>4. account.status # "none" /\ g.payment \in Payments
    BY <1>b, <2>1, <2>2, <2>3 DEF RecBacked
  <2>5. RecBacked(g)'
    BY <1>0, <2>1, <2>2, <2>3, <2>4 DEF RecBacked, R!TotalsBacked
  <2>6. handling' = [handling EXCEPT ![r] = g]
    BY <2>1, <2>3
  <2>7. approvals' \in Nat /\ approvals' >= approvals /\ payment' \in RecRows
    BY <1>0, <2>1
  <2> QED
    BY <2>1, <2>4, <2>5, <2>6, <2>7, RecReads
<1>3. CASE R!VerifyDecide(r)
  <2> DEFINE h == handling[r]
             g == [h EXCEPT !.pc = "credit"]
  <2>1. /\ UNCHANGED <<account, spent, edited, cut>> /\ h.pc = "decide"
        /\ payment' = [payment EXCEPT ![h.payment].status = IF h.approved THEN "verified" ELSE "rejected"]
        /\ handling' = [handling EXCEPT ![r] = IF h.approved THEN g ELSE R!Idle]
        /\ approvals' = approvals + (IF h.approved THEN h.amount ELSE 0)
    BY <1>3 DEF R!VerifyDecide, R!Credits
  <2>2. /\ g \in RecHandler /\ g.pc = "credit" /\ g.payment = h.payment /\ g.seen = h.seen /\ g.amount = h.amount
        /\ h \in RecHandler
    BY <1>0 DEF RecHandler, RecRows
  <2>3. h.amount \in Nat /\ h.approved \in BOOLEAN /\ h.seen \in R!Account /\ h.payment \in Payments
    BY <1>b, <2>1, <2>2 DEF RecHandler, RecBacked
  <2>4. approvals' \in Nat /\ approvals' >= approvals
    BY <1>0, <2>1, <2>3
  <2>5. payment' \in RecRows
    BY <1>0, <2>1, <2>3 DEF RecRows
  <2>6. account.status # "none" /\ RecBacked(h)
    BY <1>b, <2>1 DEF RecBacked
  <2> HIDE DEF h
  <2>7. CASE h.approved
    <3>1. PICK f \in RecHandler : f = g
      BY <2>2
    <3>2. handling' = [handling EXCEPT ![r] = f] /\ approvals' = approvals + h.amount
      BY <2>1, <2>7, <3>1
    <3> HIDE DEF g
    <3>3. RecBacked(f)'
      BY <1>0, <2>1, <2>2, <2>3, <2>6, <3>1, <3>2 DEF RecBacked, R!Account
    <3> QED
      BY <1>0, <2>1, <2>4, <2>5, <2>6, <3>2, <3>3, RecReads
  <2>8. CASE ~h.approved
    <3>1. PICK f \in RecHandler : f = R!Idle
      BY RecIdleOK
    <3>2. handling' = [handling EXCEPT ![r] = f] /\ RecBacked(f)'
      BY <2>1, <2>8, <3>1, RecIdleOK DEF RecBacked
    <3> QED
      BY <1>0, <2>1, <2>4, <2>5, <2>6, <3>2, RecReads
  <2> QED
    BY <2>3, <2>7, <2>8
<1> QED
  BY <1>1, <1>2, <1>3

LEMMA RecCreditInv == ASSUME RecIInv, NEW r \in Requests, R!VerifyCredit(r) \/ R!TotalExpense(r) PROVE RecIInv'
<1>0. /\ account \in R!Account /\ handling \in [Requests -> RecHandler] /\ R!TotalsBacked
      /\ edited \in BOOLEAN /\ approvals \in Nat /\ spent.sum \in Nat
  BY DEF RecIInv, RecTyped, RecSpent
<1>b. RecBacked(handling[r])
  BY DEF RecIInv
<1> DEFINE h == handling[r]
<1>h. h.amount \in Nat /\ h.seen \in R!Account /\ h.seen.recovered \in Int /\ h.seen.owed \in Int
      /\ h.seen.expenses \in Int
  BY <1>0 DEF RecHandler, R!Account
<1>i. \A q \in Requests : handling' = [handling EXCEPT ![r] = R!Idle] =>
        /\ handling' \in [Requests -> RecHandler]
        /\ handling'[q] = handling[q] \/ handling'[q] = R!Idle
  BY <1>0, RecIdleOK
<1>1. CASE R!VerifyCredit(r)
  <2> DEFINE left == h.seen.owed - h.amount
             owed == R!Balance(left)
             recovered == h.seen.recovered + h.amount
             net == recovered - h.seen.expenses
  <2>1. /\ h.pc = "credit" /\ UNCHANGED <<payment, spent, approvals, edited, cut>>
        /\ handling' = [handling EXCEPT ![r] = R!Idle]
        /\ account' = [account EXCEPT !.recovered = recovered, !.owed = owed, !.net = net]
    BY <1>1, Zenon DEF R!VerifyCredit, R!history
  <2>2. owed \in Int /\ owed >= left /\ recovered \in Int /\ net \in Int
    BY <1>h DEF R!Balance
  <2>3. account.status # "none" /\ h.seen.recovered + h.amount <= approvals /\ (edited \/ left >= account.opening - approvals)
    BY <1>b, <2>1 DEF RecBacked
  <2>9. recovered = h.seen.recovered + h.amount
    OBVIOUS
  <2> HIDE DEF owed, left, h, recovered, net
  <2>4. /\ account' \in R!Account /\ account'.status = account.status /\ account'.opening = account.opening
        /\ account'.owed = owed /\ account'.recovered = h.seen.recovered + h.amount /\ account'.expenses = account.expenses
    BY <1>0, <2>1, <2>2, <2>9 DEF R!Account
  <2>5. R!TotalsBacked'
    <3>1. left \in Int /\ account.opening \in Int
      BY <1>0, <1>h DEF left, R!Account
    <3> QED
      BY <1>0, <2>1, <2>2, <2>3, <2>4, <3>1 DEF R!TotalsBacked
  <2> QED
    BY <1>0, <1>i, <2>1, <2>3, <2>4, <2>5, RecWrites
<1>2. CASE R!TotalExpense(r)
  <2> DEFINE expenses == h.seen.expenses + h.amount
             net == h.seen.recovered - expenses
  <2>1. /\ h.pc = "total" /\ UNCHANGED <<payment, spent, approvals, edited, cut>>
        /\ handling' = [handling EXCEPT ![r] = R!Idle]
        /\ account' = [account EXCEPT !.expenses = expenses, !.net = net]
    BY <1>2, Zenon DEF R!TotalExpense, R!history, R!NetAfter
  <2>2. expenses \in Int /\ net \in Int /\ expenses = h.seen.expenses + h.amount
    BY <1>h
  <2>3. account.status # "none" /\ h.seen.expenses + h.amount <= spent.sum
    BY <1>b, <2>1 DEF RecBacked
  <2> HIDE DEF h, expenses, net
  <2>4. /\ account' \in R!Account /\ account'.status = account.status /\ account'.opening = account.opening
        /\ account'.owed = account.owed /\ account'.recovered = account.recovered /\ account'.expenses = h.seen.expenses + h.amount
    BY <1>0, <2>1, <2>2 DEF R!Account
  <2>5. R!TotalsBacked'
    BY <1>0, <2>1, <2>3, <2>4 DEF R!TotalsBacked
  <2> QED
    BY <1>0, <1>i, <2>1, <2>3, <2>4, <2>5, RecWrites
<1> QED
  BY <1>1, <1>2

LEMMA RecExpenseInv ==
  ASSUME RecIInv, NEW r \in Requests, (\E a \in Amounts : R!CreateExpense(r, a)) \/ R!InsertExpense(r) \/ R!Fail(r)
  PROVE  RecIInv'
<1>0. /\ account \in R!Account /\ handling \in [Requests -> RecHandler] /\ R!TotalsBacked
      /\ edited \in BOOLEAN /\ cut \in BOOLEAN /\ approvals \in Nat /\ spent \in RecSpent
      /\ payment \in RecRows
      /\ \A p \in Payments : payment[p].status # "none" => account.status # "none"
  BY DEF RecIInv, RecTyped
<1>b. RecBacked(handling[r])
  BY DEF RecIInv
<1>s. spent.sum \in Nat /\ spent.rows \in Nat /\ spent.sum >= spent.sum /\ approvals >= approvals
  BY <1>0 DEF RecSpent
<1>1. ASSUME NEW a \in Amounts, R!CreateExpense(r, a) PROVE RecIInv'
  <2> DEFINE h == [R!Idle EXCEPT !.pc = "insert", !.amount = a, !.seen = account]
  <2>1. /\ UNCHANGED <<account, payment, spent, approvals, edited, cut>> /\ account.status = "open"
        /\ handling' = [handling EXCEPT ![r] = h]
    BY <1>1 DEF R!CreateExpense, R!history
  <2>2. h \in RecHandler /\ h.pc = "insert" /\ h.seen = account
    BY <1>0, RecIdleOK, AmountsPositive DEF RecHandler
  <2> HIDE DEF h
  <2>3. PICK g \in RecHandler : g = h
    BY <2>2
  <2>4. account.status # "none"
    BY <2>1
  <2>5. RecBacked(g)'
    BY <1>0, <2>1, <2>2, <2>3, <2>4 DEF RecBacked, R!TotalsBacked
  <2>6. handling' = [handling EXCEPT ![r] = g]
    BY <2>1, <2>3
  <2>7. approvals' \in Nat /\ approvals' >= approvals /\ payment' \in RecRows
    BY <1>0, <2>1
  <2> QED
    BY <2>1, <2>4, <2>5, <2>6, <2>7, RecReads
<1>2. CASE R!InsertExpense(r)
  <2> DEFINE h == [handling[r] EXCEPT !.pc = "total"]
  <2>1. /\ UNCHANGED <<account, payment, approvals, edited, cut>> /\ handling[r].pc = "insert"
        /\ handling' = [handling EXCEPT ![r] = h]
        /\ spent' = [rows |-> spent.rows + 1, sum |-> spent.sum + handling[r].amount]
    BY <1>0, <1>2 DEF R!InsertExpense, R!history
  <2>2. /\ h \in RecHandler /\ h.pc = "total" /\ h.seen = handling[r].seen /\ h.amount = handling[r].amount
        /\ h.amount \in Nat /\ h.seen.expenses \in Int
    BY <1>0 DEF RecHandler, R!Account
  <2> HIDE DEF h
  <2>3. PICK g \in RecHandler : g = h
    BY <2>2
  <2>4. spent' \in RecSpent /\ spent'.sum = spent.sum + g.amount /\ spent'.sum >= spent.sum
    BY <1>s, <2>1, <2>2, <2>3 DEF RecSpent
  <2>5. RecBacked(g)'
    BY <1>b, <1>s, <2>1, <2>2, <2>3, <2>4 DEF RecBacked
  <2>6. handling' = [handling EXCEPT ![r] = g]
    BY <2>1, <2>3
  <2> QED
    BY <1>0, <1>s, <2>1, <2>4, <2>5, <2>6, RecMoves
<1>3. CASE R!Fail(r)
  <2>1. /\ UNCHANGED <<account, payment, spent, approvals, edited>>
        /\ handling' = [handling EXCEPT ![r] = R!Idle]
    BY <1>3 DEF R!Fail
  <2>2. cut' \in BOOLEAN
    BY <1>0, <1>3 DEF R!Fail
  <2>3. PICK g \in RecHandler : g = R!Idle
    BY RecIdleOK
  <2>5. RecBacked(g)'
    BY <2>3, RecIdleOK DEF RecBacked
  <2>6. handling' = [handling EXCEPT ![r] = g]
    BY <2>1, <2>3
  <2> QED
    BY <1>0, <1>s, <2>1, <2>2, <2>5, <2>6, RecMoves
<1> QED
  BY <1>1, <1>2, <1>3

LEMMA RecInit == R!Init => RecIInv
<1> SUFFICES ASSUME R!Init PROVE RecIInv
  OBVIOUS
<1>1. RecTyped
  BY RecIdleOK DEF R!Init, RecTyped, RecRows, RecSpent
<1> QED
  BY <1>1, RecIdleOK DEF R!Init, RecIInv, RecBacked, R!TotalsBacked, R!NoAccount

LEMMA RecStep == RecIInv /\ [R!Next]_recovery => RecIInv'
<1> SUFFICES ASSUME RecIInv, [R!Next]_recovery PROVE RecIInv'
  OBVIOUS
<1>1. CASE UNCHANGED recovery
  BY <1>1 DEF recovery, RecIInv, RecTyped, RecBacked, R!TotalsBacked
<1>2. CASE R!Next
  BY <1>2, RecAccountInv, RecPaymentInv, RecVerifyInv, RecCreditInv, RecExpenseInv DEF R!Next
<1> QED
  BY <1>1, <1>2

-----------------------------------------------------------------------------
(* Recovery, one request at a time: what a handler has read is still so when it  *)
(* writes, so that no total is lost.                                             *)

PaidOf == [p \in Payments |-> payment[p].amount]
VerifiedTotal == Total(PaidOf, R!Verified)

OneRecovering == \A r, q \in Requests : handling[r].pc # "idle" /\ handling[q].pc # "idle" => r = q

RecHeld(h) ==
  /\ h.pc \in {"look", "decide"} =>
       payment[h.payment].status = "pending" /\ h.amount = payment[h.payment].amount
  /\ h.pc \in {"decide", "credit", "insert", "total"} =>
       /\ h.seen.recovered = account.recovered /\ h.seen.expenses = account.expenses
       /\ edited \/ h.seen.owed = account.owed
  /\ h.pc = "credit" => h.amount > 0 /\ (cut \/ account.recovered + h.amount = VerifiedTotal)

RecBooks ==
  /\ account.recovered >= 0
  /\ \A p \in Payments : payment[p].status # "none" => payment[p].amount > 0
  /\ account.net = account.recovered - account.expenses
  /\ edited \/ account.owed = IF account.recovered = 0 THEN account.opening
                              ELSE R!Balance(account.opening - account.recovered)
  /\ (\A r \in Requests : handling[r].pc # "credit") => cut \/ account.recovered = VerifiedTotal

RecAloneInv == alone => OneRecovering /\ RecBooks /\ \A r \in Requests : RecHeld(handling[r])

LEMMA VerifiedSum == RecIInv => /\ IsFiniteSet(R!Verified) /\ Numbers(PaidOf, R!Verified)
                                /\ VerifiedTotal \in Int
<1> SUFFICES ASSUME RecIInv PROVE IsFiniteSet(R!Verified) /\ Numbers(PaidOf, R!Verified) /\ VerifiedTotal \in Int
  OBVIOUS
<1>1. IsFiniteSet(R!Verified)
  BY AmountsPositive, FS_Subset DEF R!Verified
<1>2. Numbers(PaidOf, R!Verified)
  BY DEF Numbers, PaidOf, R!Verified, RecIInv, RecTyped, RecRows
<1> QED
  BY <1>1, <1>2, TotalInt DEF VerifiedTotal

\* The sum does not move when the verified payments and their amounts do not.
LEMMA VerifiedKept ==
  ASSUME RecIInv, R!Verified' = R!Verified, \A p \in R!Verified : payment'[p].amount = payment[p].amount
  PROVE  VerifiedTotal' = VerifiedTotal
<1>1. \A p \in R!Verified : PaidOf[p] = PaidOf'[p]
  BY DEF PaidOf, R!Verified
<1> DEFINE new == PaidOf'
           old == PaidOf
           some == R!Verified
<1>2. Total(old, some) = Total(new, some)
  <2>1. IsFiniteSet(some) /\ Numbers(old, some)
    BY VerifiedSum
  <2>2. \A p \in some : old[p] = new[p]
    BY <1>1
  <2> HIDE DEF new, old, some
  <2> QED
    BY <2>1, <2>2, TotalSame
<1> QED
  BY <1>2 DEF VerifiedTotal

\* One more is verified.
LEMMA VerifiedGrows ==
  ASSUME RecIInv, NEW p \in Payments, payment[p].status # "verified",
         R!Verified' = R!Verified \cup {p}, \A q \in Payments : payment'[q].amount = payment[q].amount
  PROVE  VerifiedTotal' = VerifiedTotal + payment[p].amount
<1> DEFINE some == R!Verified
           more == R!Verified \cup {p}
           old == PaidOf
<1>1. PaidOf' = PaidOf
  BY DEF PaidOf
<1>2. IsFiniteSet(more) /\ Numbers(old, more) /\ p \in more /\ more \ {p} = some /\ old[p] = payment[p].amount
  <2>1. IsFiniteSet(more)
    BY AmountsPositive, FS_Subset DEF R!Verified
  <2>2. Numbers(old, more)
    BY DEF Numbers, PaidOf, R!Verified, RecIInv, RecTyped, RecRows
  <2>3. more \ {p} = some
    BY DEF R!Verified
  <2> QED
    BY <2>1, <2>2, <2>3 DEF PaidOf
<1>3. Total(old, more) = old[p] + Total(old, some)
  <2> HIDE DEF old, more, some
  <2> QED
    BY <1>2, TotalTake
<1>4. Total(old, some) \in Int /\ payment[p].amount \in Int
  BY VerifiedSum DEF VerifiedTotal, RecIInv, RecTyped, RecRows
<1> QED
  BY <1>1, <1>2, <1>3, <1>4 DEF VerifiedTotal

LEMMA RecTurn ==
  ASSUME RecIInv, NEW r \in Requests, NEW h, handling' = [handling EXCEPT ![r] = h],
         OneRecovering, OneRecovering', h.pc # "idle" \/ handling[r].pc # "idle"
  PROVE  \A q \in Requests : (q = r /\ handling'[q] = h) \/ (q # r /\ handling'[q] = handling[q] /\ handling[q].pc = "idle")
BY DEF RecIInv, RecTyped, OneRecovering

LEMMA RecAloneMoves ==
  ASSUME RecIInv, NEW r \in Requests, NEW h, handling' = [handling EXCEPT ![r] = h],
         OneRecovering, OneRecovering', h.pc # "idle" \/ handling[r].pc # "idle",
         RecHeld(h)', UNCHANGED alone,
         /\ account'.recovered >= 0
         /\ \A p \in Payments : payment'[p].status # "none" => payment'[p].amount > 0
         /\ account'.net = account'.recovered - account'.expenses
         /\ edited' \/ account'.owed = IF account'.recovered = 0 THEN account'.opening
                                       ELSE R!Balance(account'.opening - account'.recovered),
         h.pc # "credit" => cut' \/ account'.recovered = VerifiedTotal'
  PROVE  RecAloneInv'
<1>0. \A q \in Requests : (q = r /\ handling'[q] = h) \/ (q # r /\ handling'[q] = handling[q] /\ handling[q].pc = "idle")
  BY RecTurn
<1>1. ASSUME NEW q \in Requests PROVE RecHeld(handling[q])'
  <2>1. CASE handling'[q] = h
    BY <2>1 DEF RecHeld
  <2>2. CASE handling'[q].pc = "idle"
    BY <2>2 DEF RecHeld
  <2> QED
    BY <1>0, <2>1, <2>2
<1>2. (\A q \in Requests : handling'[q].pc # "credit") => h.pc # "credit"
  BY <1>0
<1>3. RecBooks'
  BY <1>2 DEF RecBooks, R!Balance
<1> QED
  BY <1>1, <1>3 DEF RecAloneInv

\* No row is written, and no payment.
LEMMA RecAloneReads ==
  ASSUME RecIInv, RecAloneInv, alone, UNCHANGED <<alone, account, payment, edited>>, cut => cut', cut' \in BOOLEAN,
         NEW r \in Requests, NEW h, handling' = [handling EXCEPT ![r] = h], OneRecovering',
         h.pc # "idle" \/ handling[r].pc # "idle", RecHeld(h)', h.pc # "credit", handling[r].pc = "credit" => cut'
  PROVE  RecAloneInv'
<1>1. OneRecovering /\ RecBooks
  BY DEF RecAloneInv
<1>2. VerifiedTotal' = VerifiedTotal
  BY VerifiedKept DEF R!Verified
<1>3. (\A q \in Requests : handling[q].pc # "credit") \/ handling[r].pc = "credit"
  BY RecTurn, <1>1
<1>4. cut' \/ account'.recovered = VerifiedTotal'
  BY <1>1, <1>2, <1>3 DEF RecBooks
<1> QED
  BY <1>1, <1>4, RecAloneMoves DEF RecBooks, R!Balance

LEMMA RecAloneRead ==
  ASSUME RecIInv, RecAloneInv, alone, UNCHANGED alone, OneRecovering', NEW r \in Requests,
         \/ \E p \in Payments, yes \in BOOLEAN : R!VerifyPayment(r, p, yes)
         \/ R!VerifyLook(r) \/ \E a \in Amounts : R!CreateExpense(r, a)
         \/ R!InsertExpense(r) \/ R!Fail(r)
  PROVE  RecAloneInv'
<1>0. handling \in [Requests -> RecHandler] /\ cut \in BOOLEAN /\ RecHeld(handling[r])
  BY DEF RecIInv, RecTyped, RecAloneInv
<1>1. ASSUME NEW p \in Payments, NEW yes \in BOOLEAN, R!VerifyPayment(r, p, yes) PROVE RecAloneInv'
  <2> DEFINE h == [R!Idle EXCEPT !.pc = "look", !.payment = p, !.approved = yes, !.amount = payment[p].amount]
  <2>1. /\ UNCHANGED <<account, payment, spent, approvals, edited, cut>> /\ payment[p].status = "pending"
        /\ handling' = [handling EXCEPT ![r] = h] /\ handling[r].pc = "idle"
    BY <1>1 DEF R!VerifyPayment, R!history, R!Awaiting
  <2>2. h.pc = "look" /\ h.payment = p /\ h.amount = payment[p].amount
    BY RecIdleOK DEF RecHandler
  <2> HIDE DEF h
  <2>3. PICK g : g = h
    OBVIOUS
  <2>4. RecHeld(g)'
    BY <2>1, <2>2, <2>3 DEF RecHeld
  <2> QED
    BY <1>0, <2>1, <2>2, <2>3, <2>4, RecAloneReads
<1>2. CASE R!VerifyLook(r)
  <2> DEFINE h == [handling[r] EXCEPT !.pc = "decide", !.seen = account]
  <2>1. /\ UNCHANGED <<account, payment, spent, approvals, edited, cut>> /\ handling[r].pc = "look"
        /\ handling' = [handling EXCEPT ![r] = h]
    BY <1>0, <1>2 DEF R!VerifyLook, R!history
  <2>2. h.pc = "decide" /\ h.payment = handling[r].payment /\ h.seen = account /\ h.amount = handling[r].amount
    BY <1>0 DEF RecHandler
  <2> HIDE DEF h
  <2>3. PICK g : g = h
    OBVIOUS
  <2>4. RecHeld(g)'
    BY <1>0, <2>1, <2>2, <2>3 DEF RecHeld
  <2> QED
    BY <1>0, <2>1, <2>2, <2>3, <2>4, RecAloneReads
<1>3. ASSUME NEW a \in Amounts, R!CreateExpense(r, a) PROVE RecAloneInv'
  <2> DEFINE h == [R!Idle EXCEPT !.pc = "insert", !.amount = a, !.seen = account]
  <2>1. /\ UNCHANGED <<account, payment, spent, approvals, edited, cut>> /\ handling[r].pc = "idle"
        /\ handling' = [handling EXCEPT ![r] = h]
    BY <1>3 DEF R!CreateExpense, R!history
  <2>2. h.pc = "insert" /\ h.seen = account
    BY RecIdleOK DEF RecHandler
  <2> HIDE DEF h
  <2>3. PICK g : g = h
    OBVIOUS
  <2>4. RecHeld(g)'
    BY <1>0, <2>1, <2>2, <2>3 DEF RecHeld
  <2> QED
    BY <1>0, <2>1, <2>2, <2>3, <2>4, RecAloneReads
<1>4. CASE R!InsertExpense(r)
  <2> DEFINE h == [handling[r] EXCEPT !.pc = "total"]
  <2>1. /\ UNCHANGED <<account, payment, approvals, edited, cut>> /\ handling[r].pc = "insert"
        /\ handling' = [handling EXCEPT ![r] = h]
    BY <1>0, <1>4 DEF R!InsertExpense, R!history
  <2>2. h.pc = "total" /\ h.seen = handling[r].seen
    BY <1>0 DEF RecHandler
  <2> HIDE DEF h
  <2>3. PICK g : g = h
    OBVIOUS
  <2>4. RecHeld(g)'
    BY <1>0, <2>1, <2>2, <2>3 DEF RecHeld
  <2> QED
    BY <1>0, <2>1, <2>2, <2>3, <2>4, RecAloneReads
<1>5. CASE R!Fail(r)
  <2>1. /\ UNCHANGED <<account, payment, spent, approvals, edited>> /\ handling[r].pc # "idle"
        /\ handling' = [handling EXCEPT ![r] = R!Idle]
    BY <1>5 DEF R!Fail
  <2>2. cut' = (cut \/ handling[r].pc \in {"credit", "total"})
    BY <1>5, Zenon DEF R!Fail
  <2>3. PICK g : g = R!Idle
    OBVIOUS
  <2>4. RecHeld(g)'
    BY <2>3, RecIdleOK DEF RecHeld
  <2>5. (cut => cut') /\ cut' \in BOOLEAN /\ (handling[r].pc = "credit" => cut')
    BY <1>0, <2>2
  <2> QED
    BY <1>0, <2>1, <2>3, <2>4, <2>5, RecIdleOK, RecAloneReads
<1> QED
  BY <1>1, <1>2, <1>3, <1>4, <1>5
LEMMA BalanceTwice ==
  \A n, a \in Int : a >= 0 => R!Balance(R!Balance(n) - a) = R!Balance(n - a)
BY DEF R!Balance

\* The account is opened, edited or deleted while no handler runs, or beside one
\* that does not look at what changes.
LEMMA RecAloneAccount ==
  ASSUME RecIInv, RecAloneInv, alone, UNCHANGED alone, OneRecovering',
         (\E o \in Openings : R!CreateAccount(o)) \/ (\E n \in Amounts : R!UpdateAccount(n)) \/ R!DeleteAccount
  PROVE  RecAloneInv'
<1>0. /\ account \in R!Account /\ RecBooks /\ \A q \in Requests : RecHeld(handling[q])
      /\ account.status = "none" => account = R!NoAccount
  BY DEF RecIInv, RecTyped, RecAloneInv
<1>1. UNCHANGED <<payment, handling, cut>> /\ VerifiedTotal' = VerifiedTotal
  <2>1. UNCHANGED <<payment, handling, cut>>
    BY DEF R!CreateAccount, R!UpdateAccount, R!DeleteAccount, R!history
  <2> QED
    BY <2>1, VerifiedKept DEF R!Verified
<1>2. account'.recovered = account.recovered /\ account'.expenses = account.expenses /\ account'.net = account.net
  <2>1. ASSUME NEW o \in Openings, R!CreateAccount(o)
        PROVE  account'.recovered = account.recovered /\ account'.expenses = account.expenses /\ account'.net = account.net
    BY <1>0, <2>1 DEF R!CreateAccount, R!NoAccount, R!Account
  <2>2. ASSUME NEW n \in Amounts, R!UpdateAccount(n)
        PROVE  account'.recovered = account.recovered /\ account'.expenses = account.expenses /\ account'.net = account.net
    BY <1>0, <2>2 DEF R!UpdateAccount, R!Account
  <2>3. CASE R!DeleteAccount
    BY <1>0, <2>3 DEF R!DeleteAccount, R!Account
  <2> QED
    BY <2>1, <2>2, <2>3
<1>3. (edited' \/ account'.owed = IF account'.recovered = 0 THEN account'.opening
                                 ELSE R!Balance(account'.opening - account'.recovered))
      /\ \A q \in Requests : RecHeld(handling[q])'
  <2>1. ASSUME NEW o \in Openings, R!CreateAccount(o)
        PROVE  account'.owed = account'.opening /\ account'.recovered = 0 /\ \A q \in Requests : handling[q].pc = "idle"
    BY <1>0, <2>1 DEF R!CreateAccount, R!NoAccount, R!Account, RecIInv, RecBacked
  <2>2. ASSUME NEW n \in Amounts, R!UpdateAccount(n) PROVE edited' = TRUE
    BY <2>2 DEF R!UpdateAccount
  <2>3. CASE R!DeleteAccount
    <3>1. account'.owed = account.owed /\ account'.opening = account.opening /\ edited' = edited
      BY <1>0, <2>3 DEF R!DeleteAccount, R!Account, R!history
    <3> QED
      BY <1>0, <1>1, <1>2, <3>1 DEF RecBooks, RecHeld, R!Balance
  <2>4. CASE \E o \in Openings : R!CreateAccount(o)
    BY <1>1, <2>1, <2>4 DEF RecHeld
  <2>5. CASE \E n \in Amounts : R!UpdateAccount(n)
    BY <1>0, <1>1, <1>2, <2>2, <2>5 DEF RecHeld
  <2> QED
    BY <2>3, <2>4, <2>5
<1>4. RecBooks'
  BY <1>0, <1>1, <1>2, <1>3 DEF RecBooks, R!Balance
<1> QED
  BY <1>3, <1>4 DEF RecAloneInv

LEMMA RecAlonePayment ==
  ASSUME RecIInv, RecAloneInv, alone, UNCHANGED alone, OneRecovering',
         NEW p \in Payments, NEW a \in Amounts, R!RecordPayment(p, a)
  PROVE  RecAloneInv'
<1>1. /\ UNCHANGED <<account, handling, edited, cut>> /\ payment[p].status = "none"
      /\ payment' = [payment EXCEPT ![p] = [status |-> "pending", amount |-> a]] /\ a > 0
      /\ payment \in RecRows
  BY AmountsPositive DEF R!RecordPayment, R!history, RecIInv, RecTyped
<1>2. /\ \A q \in Payments : q # p => payment'[q] = payment[q]
      /\ payment'[p].status = "pending" /\ payment'[p].amount = a
  BY <1>1 DEF RecRows
<1>3. VerifiedTotal' = VerifiedTotal
  <2>1. R!Verified' = R!Verified /\ \A q \in R!Verified : payment'[q].amount = payment[q].amount
    BY <1>1, <1>2 DEF R!Verified
  <2> QED
    BY <2>1, VerifiedKept
<1>4. RecBooks'
  BY <1>1, <1>2, <1>3 DEF RecBooks, RecAloneInv, R!Balance
<1>5. ASSUME NEW q \in Requests PROVE RecHeld(handling[q])'
  <2>1. RecHeld(handling[q])
    BY DEF RecAloneInv
  <2>2. handling[q].pc \in {"look", "decide"} => handling[q].payment # p /\ handling[q].payment \in Payments
    BY <1>1, <2>1 DEF RecHeld, RecIInv, RecBacked
  <2> QED
    BY <1>1, <1>2, <1>3, <2>1, <2>2 DEF RecHeld
<1> QED
  BY <1>4, <1>5 DEF RecAloneInv

LEMMA RecAloneDecide ==
  ASSUME RecIInv, RecAloneInv, alone, UNCHANGED alone, OneRecovering', NEW r \in Requests, R!VerifyDecide(r)
  PROVE  RecAloneInv'
<1> DEFINE h == handling[r]
           g == [h EXCEPT !.pc = "credit"]
           p == h.payment
<1>1. /\ UNCHANGED <<account, spent, edited, cut>> /\ h.pc = "decide"
      /\ payment' = [payment EXCEPT ![p].status = IF h.approved THEN "verified" ELSE "rejected"]
      /\ handling' = [handling EXCEPT ![r] = IF h.approved THEN g ELSE R!Idle]
  BY DEF R!VerifyDecide, R!Credits
<1>2. /\ h \in RecHandler /\ RecBacked(h) /\ RecHeld(h) /\ RecBooks /\ OneRecovering
      /\ payment \in RecRows /\ handling \in [Requests -> RecHandler] /\ cut \in BOOLEAN
  BY DEF RecIInv, RecTyped, RecAloneInv
<1>3. p \in Payments /\ payment[p].status = "pending" /\ h.amount = payment[p].amount
  BY <1>1, <1>2 DEF RecBacked, RecHeld
<1>4. h.approved \in BOOLEAN /\ h.amount \in Nat
  BY <1>2 DEF RecHandler
<1>5. g.pc = "credit" /\ g.seen = h.seen /\ g.amount = h.amount
  BY <1>2 DEF RecHandler
<1> HIDE DEF h, g, p
<1>6. /\ \A q \in Payments : q # p => payment'[q] = payment[q]
      /\ \A q \in Payments : payment'[q].amount = payment[q].amount
      /\ payment'[p].status = IF h.approved THEN "verified" ELSE "rejected"
  BY <1>1, <1>2, <1>3 DEF RecRows
<1>7. (\A q \in Requests : handling[q].pc # "credit")
  BY <1>1, <1>2 DEF OneRecovering, h
<1>8. cut \/ account.recovered = VerifiedTotal
  BY <1>2, <1>7 DEF RecBooks
<1>9. /\ account'.recovered >= 0
      /\ \A q \in Payments : payment'[q].status # "none" => payment'[q].amount > 0
      /\ account'.net = account'.recovered - account'.expenses
      /\ edited' \/ account'.owed = IF account'.recovered = 0 THEN account'.opening
                                    ELSE R!Balance(account'.opening - account'.recovered)
  BY <1>1, <1>2, <1>3, <1>6 DEF RecBooks, R!Balance
<1>10. CASE h.approved
  <2>1. PICK f : f = g
    OBVIOUS
  <2>2. handling' = [handling EXCEPT ![r] = f]
    BY <1>1, <1>10, <2>1
  <2>3. VerifiedTotal' = VerifiedTotal + payment[p].amount
    <3>1. R!Verified' = R!Verified \cup {p}
      BY <1>3, <1>6, <1>10 DEF R!Verified
    <3> QED
      BY <3>1, <1>3, <1>6, VerifiedGrows
  <2>4. RecHeld(f)'
    <3>1. h.amount > 0
      BY <1>2, <1>3 DEF RecBooks
    <3> QED
      BY <1>1, <1>2, <1>3, <1>5, <1>8, <2>1, <2>3, <3>1 DEF RecHeld
  <2>5. f.pc = "credit"
    BY <1>5, <2>1
  <2> QED
    BY <1>2, <1>9, <2>2, <2>4, <2>5, RecAloneMoves
<1>11. CASE ~h.approved
  <2>1. PICK f : f = R!Idle
    OBVIOUS
  <2>2. handling' = [handling EXCEPT ![r] = f]
    BY <1>1, <1>11, <2>1
  <2>3. VerifiedTotal' = VerifiedTotal
    <3>1. R!Verified' = R!Verified /\ \A q \in R!Verified : payment'[q].amount = payment[q].amount
      BY <1>3, <1>6, <1>11 DEF R!Verified
    <3> QED
      BY <3>1, VerifiedKept
  <2>4. RecHeld(f)' /\ f.pc = "idle" /\ handling[r].pc = "decide"
    BY <1>1, <2>1, RecIdleOK DEF RecHeld, h
  <2>5. cut' \/ account'.recovered = VerifiedTotal'
    BY <1>1, <1>8, <2>3
  <2> QED
    BY <1>2, <1>9, <2>2, <2>4, <2>5, RecAloneMoves
<1> QED
  BY <1>4, <1>10, <1>11

\* What the handler has read is the row it writes: nothing is lost.
LEMMA RecAloneWrite ==
  ASSUME RecIInv, RecAloneInv, alone, UNCHANGED alone, OneRecovering', NEW r \in Requests,
         R!VerifyCredit(r) \/ R!TotalExpense(r)
  PROVE  RecAloneInv'
<1> DEFINE h == handling[r]
<1>1. /\ UNCHANGED <<payment, spent, approvals, edited, cut>>
      /\ handling' = [handling EXCEPT ![r] = R!Idle] /\ h.pc \in {"credit", "total"}
  BY DEF R!VerifyCredit, R!TotalExpense, R!history
<1>2. /\ h \in RecHandler /\ RecBacked(h) /\ RecHeld(h) /\ RecBooks /\ OneRecovering
      /\ account \in R!Account
  BY DEF RecIInv, RecTyped, RecAloneInv
<1>3. /\ account.recovered \in Int /\ account.owed \in Int /\ account.opening \in Int /\ account.expenses \in Int
      /\ h.seen.recovered = account.recovered /\ h.seen.expenses = account.expenses /\ h.seen.owed \in Int
      /\ h.amount \in Nat /\ (edited \/ h.seen.owed = account.owed)
  BY <1>1, <1>2 DEF R!Account, RecHandler, RecHeld
<1>4. VerifiedTotal' = VerifiedTotal
  BY <1>1, VerifiedKept DEF R!Verified
<1>5. PICK f : f = R!Idle
  OBVIOUS
<1>6. handling' = [handling EXCEPT ![r] = f] /\ f.pc = "idle" /\ handling[r].pc # "idle" /\ RecHeld(f)'
  BY <1>1, <1>5, RecIdleOK DEF RecHeld
<1>7. \A q \in Payments : payment'[q].status # "none" => payment'[q].amount > 0
  BY <1>1, <1>2 DEF RecBooks
<1>8. CASE R!VerifyCredit(r)
  <2> DEFINE recovered == h.seen.recovered + h.amount
             owed == R!Balance(h.seen.owed - h.amount)
             net == recovered - h.seen.expenses
  <2>1. account' = [account EXCEPT !.recovered = recovered, !.owed = owed, !.net = net] /\ h.pc = "credit"
    BY <1>8, Zenon DEF R!VerifyCredit
  <2>2. /\ recovered = account.recovered + h.amount /\ recovered > 0 /\ h.amount > 0
        /\ cut \/ recovered = VerifiedTotal
    BY <1>2, <1>3, <2>1 DEF RecHeld, RecBooks
  <2>3. edited \/ owed = R!Balance(account.opening - recovered)
    <3>1. edited \/ account.owed = account.opening - account.recovered
                 \/ account.owed = R!Balance(account.opening - account.recovered)
      BY <1>2, <1>3 DEF RecBooks
    <3> QED
      BY <1>3, <2>2, <3>1 DEF R!Balance
  <2>4. net = recovered - account.expenses
    BY <1>3
  <2> HIDE DEF recovered, owed, net, h
  <2>5. account'.recovered = recovered /\ account'.owed = owed /\ account'.net = net
        /\ account'.expenses = account.expenses /\ account'.opening = account.opening
    BY <1>2, <2>1 DEF R!Account
  <2>6. /\ account'.recovered >= 0
        /\ account'.net = account'.recovered - account'.expenses
        /\ edited' \/ account'.owed = IF account'.recovered = 0 THEN account'.opening
                                      ELSE R!Balance(account'.opening - account'.recovered)
        /\ cut' \/ account'.recovered = VerifiedTotal'
    BY <1>1, <1>3, <1>4, <2>2, <2>3, <2>4, <2>5
  <2> QED
    BY <1>2, <1>6, <1>7, <2>6, RecAloneMoves
<1>9. CASE R!TotalExpense(r)
  <2> DEFINE expenses == h.seen.expenses + h.amount
             net == h.seen.recovered - expenses
  <2>1. account' = [account EXCEPT !.expenses = expenses, !.net = net] /\ h.pc = "total"
    BY <1>9, Zenon DEF R!TotalExpense, R!NetAfter
  <2>2. net = account.recovered - expenses
    BY <1>3
  <2>3. cut \/ account.recovered = VerifiedTotal
    BY <1>2, <2>1 DEF RecBooks, OneRecovering
  <2> HIDE DEF expenses, net, h
  <2>4. account'.expenses = expenses /\ account'.net = net /\ account'.recovered = account.recovered
        /\ account'.owed = account.owed /\ account'.opening = account.opening
    BY <1>2, <2>1 DEF R!Account
  <2>6. /\ account'.recovered >= 0
        /\ account'.net = account'.recovered - account'.expenses
        /\ edited' \/ account'.owed = IF account'.recovered = 0 THEN account'.opening
                                      ELSE R!Balance(account'.opening - account'.recovered)
        /\ cut' \/ account'.recovered = VerifiedTotal'
    BY <1>1, <1>2, <1>4, <2>2, <2>3, <2>4 DEF RecBooks, R!Balance
  <2> QED
    BY <1>2, <1>6, <1>7, <2>6, RecAloneMoves
<1> QED
  BY <1>8, <1>9

LEMMA RecAloneInit == RecIInv /\ R!Init => RecAloneInv
<1> SUFFICES ASSUME RecIInv, R!Init PROVE RecAloneInv
  OBVIOUS
<1>1. VerifiedTotal = 0
  <2>1. R!Verified = {}
    BY DEF R!Init, R!Verified
  <2> DEFINE old == PaidOf
  <2>2. Numbers(old, {})
    BY DEF Numbers
  <2> HIDE DEF old
  <2>3. Total(old, {}) = 0
    BY <2>2, TotalEmpty
  <2> QED
    BY <2>1, <2>3 DEF VerifiedTotal, old
<1> QED
  BY <1>1, RecIdleOK DEF R!Init, RecAloneInv, OneRecovering, RecBooks, RecHeld, R!NoAccount

LEMMA RecAloneStep ==
  ASSUME RecIInv, RecAloneInv, [R!Next /\ RecoveryLone']_recovery, UNCHANGED alone
  PROVE  RecAloneInv'
<1>1. CASE UNCHANGED recovery
  BY <1>1, VerifiedKept DEF recovery, RecAloneInv, OneRecovering, RecBooks, RecHeld, R!Verified, R!Balance
<1>2. CASE R!Next /\ RecoveryLone' /\ alone
  <2>1. OneRecovering'
    BY <1>2 DEF RecoveryLone, Lone, OneRecovering
  <2> QED
    BY <1>2, <2>1, RecAloneAccount, RecAlonePayment, RecAloneRead, RecAloneDecide, RecAloneWrite DEF R!Next
<1>3. CASE ~alone
  BY <1>3 DEF RecAloneInv
<1> QED
  BY <1>1, <1>2, <1>3

LEMMA RecoverySteps == [Next]_vars => [R!Next /\ RecoveryLone']_recovery /\ UNCHANGED alone
<1> SUFFICES ASSUME [Next]_vars PROVE [R!Next /\ RecoveryLone']_recovery /\ UNCHANGED alone
  OBVIOUS
<1>1. CASE UNCHANGED vars
  BY <1>1 DEF vars, recovery
<1>2. CASE Next /\ part # "recovery"
  BY <1>2 DEF Next, Rest
<1>3. CASE Next /\ part = "recovery"
  BY <1>3 DEF Next
<1> QED
  BY <1>1, <1>2, <1>3

\* The sum the property speaks of.
LEMMA VerifiedIsSum ==
  ASSUME RecIInv
  PROVE  VerifiedTotal = R!MapThenSumSet(LAMBDA p : payment[p].amount, R!Verified)
<1> DEFINE some == R!Verified
           g == PaidOf
           body(h) == [s \in SUBSET some |-> IF s = {} THEN 0 ELSE payment[CHOOSE x \in s : TRUE].amount + h[s \ {CHOOSE x \in s : TRUE}]]
           iter == CHOOSE h : h = body(h)
<1>1. PICK f : Table(f, g, some)
  BY VerifiedSum, SumsFor
<1> DEFINE e == [s \in SUBSET some |-> f[s]]
<1>2. R!MapThenSumSet(LAMBDA p : payment[p].amount, some) = iter[some]
  BY DEF R!MapThenSumSet, R!MapThenFoldSet
<1>f. \A s \in SUBSET some : s # {} => First(s) \in s /\ g[First(s)] = payment[First(s)].amount
  BY FirstIn DEF R!Verified, PaidOf
<1>3. e = body(e)
  BY <1>1, <1>f DEF First, Adding, Table
<1>4. ASSUME NEW h, h = body(h) PROVE h = e
  <2>1. Adding(h, g, some)
    BY <1>4, <1>f DEF First, Adding
  <2>2. \A s \in SUBSET some : h[s] = f[s]
    <3> HIDE DEF g, some
    <3> QED
      BY <1>1, <2>1, VerifiedSum, SumsAgree DEF Table, some
  <2> QED
    BY <2>2, <1>4
<1>5. iter = e
  <2> HIDE DEF body, e
  <2> QED
    BY <1>3, <1>4
<1> QED
  BY <1>1, <1>2, <1>5 DEF VerifiedTotal, Table

LEMMA BooksKept == RecIInv /\ RecAloneInv => RecoveryBooks
<1> SUFFICES ASSUME RecIInv, RecAloneInv PROVE RecoveryBooks
  OBVIOUS
<1>1. R!TotalsBacked
  BY DEF RecIInv
<1>2. ASSUME alone PROVE R!RecoveredIsVerified
  <2>1. R!Settled => account.recovered = VerifiedTotal
    BY <1>2 DEF RecAloneInv, RecBooks, R!Settled
  <2> QED
    BY <2>1, VerifiedIsSum DEF R!RecoveredIsVerified
<1>3. ASSUME alone PROVE R!NetIsDifference
  BY <1>3 DEF RecAloneInv, RecBooks, R!NetIsDifference
<1>4. ASSUME alone PROVE R!OwedIsRemainder
  <2> DEFINE n == account.opening - account.recovered
  <2>1. n \in Int
    BY DEF RecIInv, RecTyped, R!Account
  <2>2. \A k \in Int : R!Max({0, k}) = R!Balance(k)
    <3> SUFFICES ASSUME NEW k \in Int PROVE R!Max({0, k}) = R!Balance(k)
      OBVIOUS
    <3>1. R!Balance(k) \in {0, k} /\ \A m \in {0, k} : R!Balance(k) >= m
      BY DEF R!Balance
    <3>2. \A b \in {0, k} : (\A m \in {0, k} : b >= m) => b = R!Balance(k)
      BY DEF R!Balance
    <3> QED
      BY <3>1, <3>2 DEF R!Max
  <2>3. R!Max({0, n}) = R!Balance(n)
    BY <2>1, <2>2
  <2> QED
    BY <1>4, <2>3 DEF RecAloneInv, RecBooks, R!OwedIsRemainder
<1> QED
  BY <1>1, <1>2, <1>3, <1>4 DEF RecoveryBooks

\* However verifications, expenses, edits and failures interleave, the totals of a
\* recovery account show nothing nobody approved or spent; with one request at a time
\* they are the sum of the verified payments, the net of it and the remainder
\* (recovery.service.ts:450).
THEOREM RecoveryKeepsBooks == Spec => []RecoveryBooks
<1>1. Init => RecIInv /\ RecAloneInv
  BY RecInit, RecAloneInit DEF Init
<1>2. RecIInv /\ RecAloneInv /\ [Next]_vars => RecIInv' /\ RecAloneInv'
  <2> SUFFICES ASSUME RecIInv, RecAloneInv, [Next]_vars PROVE RecIInv' /\ RecAloneInv'
    OBVIOUS
  <2>1. [R!Next /\ RecoveryLone']_recovery /\ UNCHANGED alone
    BY RecoverySteps
  <2> QED
    BY <2>1, RecStep, RecAloneStep
<1>3. RecIInv /\ RecAloneInv => RecoveryBooks
  BY BooksKept
<1> QED
  BY <1>1, <1>2, <1>3, PTL DEF Spec
-----------------------------------------------------------------------------
(* CreditRisk. Each share of the risk score grows as the report gets worse, that of  *)
(* the payments because its one exception is past the cap.                         *)

\* A quotient of naturals.
LEMMA DivIs ==
  ASSUME NEW a \in Nat, NEW d \in Nat, d > 0
  PROVE  a \div d \in Nat /\ d * (a \div d) <= a /\ a < d * (a \div d) + d
<1>1. a \div d \in Int /\ d * (a \div d) <= a /\ a < d * (a \div d) + d
  OBVIOUS
<1>2. a \div d >= 0
  <2>1. 0 < d * ((a \div d) + 1)
    BY <1>1
  <2> DEFINE q == (a \div d) + 1
  <2>2. q \in Int /\ 0 < d * q
    BY <1>1, <2>1
  <2> HIDE DEF q
  <2>3. q > 0
    BY <2>2
  <2> QED
    BY <1>1, <2>3 DEF q
<1> QED
  BY <1>1, <1>2

\* The larger fraction has the larger quotient.
LEMMA DivMonotonic ==
  ASSUME NEW a \in Nat, NEW b \in Nat, NEW d \in Nat, NEW e \in Nat, d > 0, e > 0, a * e <= b * d
  PROVE  a \div d <= b \div e
<1> DEFINE q == a \div d
           p == b \div e
<1>1. q \in Nat /\ d * q <= a /\ p \in Nat /\ b < e * p + e
  BY DivIs
<1> HIDE DEF q, p
<1>2. (d * q) * e <= a * e
  <2> DEFINE x == d * q
  <2>1. x \in Int /\ x <= a
    BY <1>1
  <2> HIDE DEF x
  <2>2. x * e <= a * e
    BY <2>1
  <2> QED
    BY <2>2 DEF x
<1>3. b * d < (e * p + e) * d
  <2> DEFINE y == e * p + e
  <2>1. y \in Int /\ b < y
    BY <1>1
  <2> HIDE DEF y
  <2>2. b * d < y * d
    BY <2>1
  <2> QED
    BY <2>2 DEF y
<1>4. q * (d * e) < (p + 1) * (d * e)
  BY <1>1, <1>2, <1>3
<1>5. q < p + 1
  <2> DEFINE f == d * e
  <2>1. f \in Nat /\ f > 0 /\ q * f < (p + 1) * f
    BY <1>4
  <2> HIDE DEF f
  <2> QED
    BY <1>1, <2>1
<1> QED
  BY <1>1, <1>5 DEF q, p

LEMMA LeastOfTwo == \A a, b \in Int : F!Min({a, b}) = IF a <= b THEN a ELSE b
<1> SUFFICES ASSUME NEW a \in Int, NEW b \in Int PROVE F!Min({a, b}) = IF a <= b THEN a ELSE b
  OBVIOUS
<1> DEFINE c == IF a <= b THEN a ELSE b
<1>1. c \in {a, b} /\ \A y \in {a, b} : c <= y
  OBVIOUS
<1>2. \A x \in {a, b} : (\A y \in {a, b} : x <= y) => x = c
  OBVIOUS
<1> QED
  BY <1>1, <1>2 DEF F!Min

ReportForm == [score : Nat, defaulted : Nat, onTime : Nat, late : Nat, missed : Nat, active : Nat, debt : Nat]

\* The points of the history of o payments on time, l late and m missed.
Percent(o, l, m) == (100 * (l + 2 * m)) \div (o + l + m)
History(o, l, m) == IF o + l + m = 0 THEN 0 ELSE IF 20 <= Percent(o, l, m) THEN 20 ELSE Percent(o, l, m)

LEMMA HistoryIs ==
  \A f \in ReportForm : /\ F!HistoryPoints(f) = History(f.onTime, f.late, f.missed)
                        /\ F!HistoryPoints(f) \in 0 .. 20
<1> SUFFICES ASSUME NEW f \in ReportForm
             PROVE  F!HistoryPoints(f) = History(f.onTime, f.late, f.missed) /\ F!HistoryPoints(f) \in 0 .. 20
  OBVIOUS
<1> DEFINE a == 100 * (f.late + 2 * f.missed)
           d == f.onTime + f.late + f.missed
<1>1. a \in Nat /\ d \in Nat
  BY DEF ReportForm
<1>2. F!PaymentsDue(f) = d /\ F!LatePercent(f) = a \div d /\ Percent(f.onTime, f.late, f.missed) = a \div d
  BY DEF F!PaymentsDue, F!LatePercent, Percent
<1> HIDE DEF a
<1>3. CASE d = 0
  BY <1>2, <1>3 DEF F!HistoryPoints, History
<1>4. CASE d > 0
  <2>1. a \div d \in Nat
    BY <1>1, <1>4, DivIs
  <2>2. F!Min({20, a \div d}) = IF 20 <= a \div d THEN 20 ELSE a \div d
    BY <2>1, LeastOfTwo
  <2> QED
    BY <1>2, <1>4, <2>1, <2>2 DEF F!HistoryPoints, History
<1> QED
  BY <1>1, <1>3, <1>4

\* The share of late payments falls when one more is late and the missed ones, which
\* count twice, outnumber those on time; but then it is past the cap.
LEMMA OneMoreLate ==
  ASSUME NEW o \in Nat, NEW l \in Nat, NEW m \in Nat, NEW k \in Nat, k >= l
  PROVE  History(o, l, m) <= History(o, k, m)
<1> DEFINE a == 100 * (l + 2 * m)
           b == 100 * (k + 2 * m)
           d == o + l + m
           e == o + k + m
<1>1. a \in Nat /\ b \in Nat /\ d \in Nat /\ e \in Nat /\ d <= e
  OBVIOUS
<1>2. CASE d = 0
  <2>1. e > 0 => b \div e \in Nat
    BY <1>1, DivIs
  <2> QED
    BY <1>1, <1>2, <2>1 DEF History, Percent
<1>3. CASE d > 0 /\ o >= m
  <2>1. b * d - a * e = 100 * ((k - l) * (o - m))
    OBVIOUS
  <2>2. (k - l) * (o - m) >= 0
    BY <1>3
  <2>3. a * e <= b * d
    <3> DEFINE x == (k - l) * (o - m)
               y == b * d
               z == a * e
    <3>1. x \in Int /\ y \in Int /\ z \in Int /\ y - z = 100 * x /\ x >= 0
      BY <2>1, <2>2
    <3> HIDE DEF x, y, z
    <3>2. z <= y
      BY <3>1
    <3> QED
      BY <3>2 DEF y, z
  <2>4. a \div d <= b \div e /\ a \div d \in Nat /\ b \div e \in Nat
    BY <1>1, <1>3, <2>3, DivMonotonic, DivIs
  <2> QED
    BY <1>1, <1>3, <2>4 DEF History, Percent
<1>4. CASE d > 0 /\ o < m
  <2>1. 100 * e <= b
    BY <1>4
  <2>2. b \div e \in Nat /\ b < e * (b \div e) + e
    BY <1>1, <1>4, DivIs
  <2>3. 100 < (b \div e) + 1
    <3> DEFINE q == b \div e
    <3>1. 100 * e < e * (q + 1)
      BY <2>1, <2>2
    <3>2. q \in Nat /\ e \in Nat /\ e > 0 /\ 100 * e < e * (q + 1)
      BY <1>1, <1>4, <2>2, <3>1
    <3> HIDE DEF q, e
    <3>3. 100 < q + 1
      BY <3>2
    <3> QED
      BY <3>3 DEF q
  <2>4. History(o, k, m) = 20
    BY <1>1, <1>4, <2>2, <2>3 DEF History, Percent
  <2>5. History(o, l, m) <= 20
    BY <1>1, <1>4, DivIs DEF History, Percent
  <2> QED
    BY <2>4, <2>5
<1> QED
  BY <1>1, <1>3, <1>4, <1>2

LEMMA OneMoreMissed ==
  ASSUME NEW o \in Nat, NEW l \in Nat, NEW m \in Nat, NEW k \in Nat, k >= m
  PROVE  History(o, l, m) <= History(o, l, k)
<1> DEFINE a == 100 * (l + 2 * m)
           b == 100 * (l + 2 * k)
           d == o + l + m
           e == o + l + k
<1>1. a \in Nat /\ b \in Nat /\ d \in Nat /\ e \in Nat /\ d <= e
  OBVIOUS
<1>2. CASE d = 0
  <2>1. e > 0 => b \div e \in Nat
    BY <1>1, DivIs
  <2> QED
    BY <1>1, <1>2, <2>1 DEF History, Percent
<1>3. CASE d > 0
  <2>1. b * d - a * e = 100 * ((k - m) * (2 * o + l))
    OBVIOUS
  <2>2. (k - m) * (2 * o + l) >= 0
    OBVIOUS
  <2>3. a * e <= b * d
    <3> DEFINE x == (k - m) * (2 * o + l)
               y == b * d
               z == a * e
    <3>1. x \in Int /\ y \in Int /\ z \in Int /\ y - z = 100 * x /\ x >= 0
      BY <2>1, <2>2
    <3> HIDE DEF x, y, z
    <3>2. z <= y
      BY <3>1
    <3> QED
      BY <3>2 DEF y, z
  <2>4. a \div d <= b \div e /\ a \div d \in Nat /\ b \div e \in Nat
    BY <1>1, <1>3, <2>3, DivMonotonic, DivIs
  <2> QED
    BY <1>1, <1>3, <2>4 DEF History, Percent
<1> QED
  BY <1>1, <1>3, <1>2

\* A report that is as good in no respect, or the same.
Worse(f, g) ==
  /\ g.score <= f.score /\ g.onTime = f.onTime
  /\ g.defaulted >= f.defaulted /\ g.late >= f.late /\ g.missed >= f.missed
  /\ g.active >= f.active /\ g.debt >= f.debt

LEMMA PointsMonotonic ==
  ASSUME NEW f \in ReportForm, NEW g \in ReportForm, Worse(f, g)
  PROVE  F!RiskScore(f) <= F!RiskScore(g) /\ F!RiskScore(f) \in Nat /\ F!RiskScore(g) \in Nat
<1>0. /\ f.score \in Nat /\ f.defaulted \in Nat /\ f.onTime \in Nat /\ f.late \in Nat /\ f.missed \in Nat /\ f.active \in Nat
      /\ g.score \in Nat /\ g.defaulted \in Nat /\ g.onTime \in Nat /\ g.late \in Nat /\ g.missed \in Nat /\ g.active \in Nat
  BY DEF ReportForm
<1>1. F!ScorePoints(f) <= F!ScorePoints(g) /\ F!ScorePoints(f) \in Nat /\ F!ScorePoints(g) \in Nat
  <2>1. \A h \in ReportForm : F!ScorePoints(h) = IF h.score < 300 THEN 40 ELSE IF h.score < 500 THEN 30
                                                ELSE IF h.score < 650 THEN 20 ELSE IF h.score < 750 THEN 10 ELSE 0
    <3> SUFFICES ASSUME NEW h \in ReportForm
                 PROVE  F!ScorePoints(h) = IF h.score < 300 THEN 40 ELSE IF h.score < 500 THEN 30
                                           ELSE IF h.score < 650 THEN 20 ELSE IF h.score < 750 THEN 10 ELSE 0
      OBVIOUS
    <3>1. h.score \in Nat
      BY DEF ReportForm
    <3>2. /\ h.score \in 300 .. 499 <=> h.score >= 300 /\ h.score < 500
          /\ h.score \in 500 .. 649 <=> h.score >= 500 /\ h.score < 650
          /\ h.score \in 650 .. 749 <=> h.score >= 650 /\ h.score < 750
      BY <3>1
    <3> QED
      BY <3>1, <3>2 DEF F!ScorePoints
  <2> QED
    BY <1>0, <2>1 DEF Worse
<1>2. F!DefaultPoints(f) <= F!DefaultPoints(g) /\ F!DefaultPoints(f) \in Nat /\ F!DefaultPoints(g) \in Nat
  BY <1>0, LeastOfTwo DEF Worse, F!DefaultPoints
<1>3. F!HistoryPoints(f) <= F!HistoryPoints(g) /\ F!HistoryPoints(f) \in Nat /\ F!HistoryPoints(g) \in Nat
  <2>1. History(f.onTime, f.late, f.missed) <= History(f.onTime, g.late, f.missed)
    BY <1>0, OneMoreLate DEF Worse
  <2>2. History(f.onTime, g.late, f.missed) <= History(f.onTime, g.late, g.missed)
    BY <1>0, OneMoreMissed DEF Worse
  <2>3. History(f.onTime, g.late, f.missed) \in Int
    BY <1>0, DivIs DEF History, Percent
  <2> QED
    BY <2>1, <2>2, <2>3, HistoryIs DEF Worse
<1>4. F!ActivePoints(f) <= F!ActivePoints(g) /\ F!ActivePoints(f) \in Nat /\ F!ActivePoints(g) \in Nat
  BY <1>0 DEF Worse, F!ActivePoints
<1> DEFINE x == F!ScorePoints(f) + F!DefaultPoints(f) + F!HistoryPoints(f) + F!ActivePoints(f)
           y == F!ScorePoints(g) + F!DefaultPoints(g) + F!HistoryPoints(g) + F!ActivePoints(g)
<1>5. x \in Nat /\ y \in Nat /\ x <= y
  BY <1>1, <1>2, <1>3, <1>4
<1>6. F!RiskScore(f) = F!Min({100, x}) /\ F!RiskScore(g) = F!Min({100, y})
  BY DEF F!RiskScore
<1> HIDE DEF x, y
<1> QED
  BY <1>5, <1>6, LeastOfTwo

LEMMA WorseIsWorse ==
  ASSUME NEW f \in ReportForm, NEW g \in ReportForm, Worse(f, g)
  PROVE  F!Severity[F!Recommendation(f)] <= F!Severity[F!Recommendation(g)]
<1>1. F!Rejected(f) => F!Rejected(g)
  BY DEF F!Rejected, Worse, ReportForm
<1>2. F!Doubtful(f) => F!Doubtful(g)
  BY PointsMonotonic DEF F!Doubtful, Worse, ReportForm
<1> QED
  BY <1>1, <1>2 DEF F!Recommendation, F!Severity

ReportTyped == report \in ReportForm

NoSafer ==
  /\ F!RiskScore(report') >= F!RiskScore(report)
  /\ F!Severity[F!Recommendation(report')] >= F!Severity[F!Recommendation(report)]

\* Whatever of a credit report gets worse, the risk score does not fall and the
\* recommendation is no better (credit-bureau.service.ts:353).
THEOREM WorseNeverSafer == Spec => WorseIsNeverSafer
<1>1. Init => ReportTyped
  BY ReportsCounted DEF Init, F!Init, F!Reports, ReportTyped, ReportForm, Clean
<1>2. ReportTyped /\ [Next]_vars => ReportTyped' /\ [Worse(report, report')]_report
  <2> SUFFICES ASSUME ReportTyped, [Next]_vars PROVE ReportTyped' /\ [Worse(report, report')]_report
    OBVIOUS
  <2>1. CASE UNCHANGED vars
    BY <2>1 DEF vars, ReportTyped
  <2>2. CASE Next /\ part # "credit"
    BY <2>2 DEF Next, Rest, ReportTyped
  <2>3. CASE Next /\ part = "credit"
    <3>1. F!Worsen
      BY <2>3 DEF Next, F!Next
    <3> QED
      BY <3>1, ReportsCounted DEF F!Worsen, ReportTyped, ReportForm, Worse
  <2> QED
    BY <2>1, <2>2, <2>3
<1>3. ASSUME ReportTyped, ReportTyped', [Worse(report, report')]_report
      PROVE  [NoSafer]_report
  <2>1. CASE Worse(report, report')
    BY <1>3, <2>1, PointsMonotonic, WorseIsWorse DEF NoSafer, ReportTyped
  <2> QED
    BY <1>3, <2>1
<1>4. ReportTyped /\ [Next]_vars => ReportTyped' /\ [NoSafer]_report
  BY <1>2, <1>3
<1>5. [][NoSafer]_report => WorseIsNeverSafer
  BY DEF WorseIsNeverSafer, F!WorseIsNeverSafer, NoSafer
<1> QED
  BY <1>1, <1>4, <1>5, PTL DEF Spec

-----------------------------------------------------------------------------
(* Amortization. An installment that reads PAID got its due, up to a cent, so what   *)
(* a closed loan brought in is between the installments' sum and a cent less for    *)
(* each; and each is the quote's share, up to half a cent.                         *)

Schedule == [principal : Nat, rate : Nat, tenure : Nat]

ScheduleInv ==
  IF part = "schedule"
  THEN /\ terms \in Schedule
       /\ amount \in [M!Installments -> Int]
       /\ settled \subseteq M!Installments
       /\ \A i \in M!Installments :
            /\ amount[i] <= M!Due(terms)
            /\ i \in settled => amount[i] >= M!Due(terms) - 1
  ELSE terms \in Schedule /\ settled = {}

LEMMA GreatestOfTwo == \A a, b \in Int : M!Max({a, b}) = IF a >= b THEN a ELSE b
<1> SUFFICES ASSUME NEW a \in Int, NEW b \in Int PROVE M!Max({a, b}) = IF a >= b THEN a ELSE b
  OBVIOUS
<1> DEFINE c == IF a >= b THEN a ELSE b
<1>1. c \in {a, b} /\ \A y \in {a, b} : c >= y
  OBVIOUS
<1>2. \A x \in {a, b} : (\A y \in {a, b} : x >= y) => x = c
  OBVIOUS
<1> QED
  BY <1>1, <1>2 DEF M!Max

LEMMA SmallestOfTwo == \A a, b \in Int : M!Min({a, b}) = IF a <= b THEN a ELSE b
<1> SUFFICES ASSUME NEW a \in Int, NEW b \in Int PROVE M!Min({a, b}) = IF a <= b THEN a ELSE b
  OBVIOUS
<1> DEFINE c == IF a <= b THEN a ELSE b
<1>1. c \in {a, b} /\ \A y \in {a, b} : c <= y
  OBVIOUS
<1>2. \A x \in {a, b} : (\A y \in {a, b} : x <= y) => x = c
  OBVIOUS
<1> QED
  BY <1>1, <1>2 DEF M!Min

\* Rounding half up: the quotient is within half of the divisor.
LEMMA RoundedIs ==
  ASSUME NEW a \in Nat, NEW b \in Nat, b > 0
  PROVE  /\ M!Rounded(a, b) \in Nat
         /\ 2 * (b * M!Rounded(a, b)) <= 2 * a + b /\ 2 * a < 2 * (b * M!Rounded(a, b)) + b
<1> DEFINE n == 2 * a + b
           d == 2 * b
           q == n \div d
<1>1. n \in Nat /\ d \in Nat /\ d > 0
  OBVIOUS
<1>2. q \in Nat /\ d * q <= n /\ n < d * q + d
  <2> HIDE DEF n, d
  <2> QED
    BY <1>1, DivIs
<1>3. q = M!Rounded(a, b)
  BY DEF M!Rounded
<1> HIDE DEF q
<1>4. d * q = 2 * (b * q)
  BY <1>2
<1> QED
  BY <1>2, <1>3, <1>4

LEMMA PeriodsAre ==
  \A t \in Schedule : M!Periods(t) \in Nat /\ M!Periods(t) >= 1 /\ M!Due(t) \in Nat /\ M!Quoted(t) \in Nat
<1> SUFFICES ASSUME NEW t \in Schedule
             PROVE  M!Periods(t) \in Nat /\ M!Periods(t) >= 1 /\ M!Due(t) \in Nat /\ M!Quoted(t) \in Nat
  OBVIOUS
<1>1. t.tenure \in Nat /\ t.principal \in Nat /\ t.rate \in Nat /\ Period \in Nat /\ Period > 0
  BY TermsCounted DEF Schedule
<1> DEFINE days == t.tenure + Period - 1
           q == days \div Period
<1>2. days \in Nat /\ q \in Nat
  <2>1. days \in Nat
    BY <1>1
  <2> HIDE DEF days
  <2> QED
    BY <1>1, <2>1, DivIs
<1>3. M!Periods(t) = M!Max({1, q})
  BY DEF M!Periods
<1> HIDE DEF q
<1>4. M!Periods(t) \in Nat /\ M!Periods(t) >= 1
  BY <1>2, <1>3, GreatestOfTwo
<1> DEFINE x == t.principal * (100 + t.rate)
           n == M!Periods(t)
<1>5. x \in Nat
  BY <1>1
<1>6. 100 * n \in Nat /\ 100 * n > 0
  BY <1>4
<1>7. M!Due(t) = M!Rounded(x, 100 * n) /\ M!Quoted(t) = M!Rounded(x, 100)
  BY DEF M!Due, M!Quoted
<1> HIDE DEF x, n
<1>8. M!Due(t) \in Nat /\ M!Quoted(t) \in Nat
  BY <1>5, <1>6, <1>7, RoundedIs
<1> QED
  BY <1>4, <1>8

\* What the installments ask for is what was quoted, up to half a cent for each.
LEMMA DuesNearQuote ==
  \A t \in Schedule : /\ 2 * M!Quoted(t) <= 2 * (M!Periods(t) * M!Due(t)) + M!Periods(t)
                      /\ 2 * (M!Periods(t) * M!Due(t)) <= 2 * M!Quoted(t) + M!Periods(t)
<1> SUFFICES ASSUME NEW t \in Schedule
             PROVE  /\ 2 * M!Quoted(t) <= 2 * (M!Periods(t) * M!Due(t)) + M!Periods(t)
                    /\ 2 * (M!Periods(t) * M!Due(t)) <= 2 * M!Quoted(t) + M!Periods(t)
  OBVIOUS
<1> DEFINE x == t.principal * (100 + t.rate)
           n == M!Periods(t)
           d == M!Due(t)
           q == M!Quoted(t)
           m == 100 * n
<1>1. n \in Nat /\ n >= 1 /\ d \in Nat /\ q \in Nat
  BY PeriodsAre
<1>2. x \in Nat
  BY DEF Schedule
<1>3. d = M!Rounded(x, m) /\ q = M!Rounded(x, 100)
  BY DEF M!Due, M!Quoted
<1>4. m \in Nat /\ m > 0
  BY <1>1
<1> HIDE DEF x, n, d, q
<1>5. 2 * (100 * q) <= 2 * x + 100 /\ 2 * x < 2 * (100 * q) + 100
  BY <1>2, <1>3, RoundedIs
<1>6. 2 * (m * d) <= 2 * x + m /\ 2 * x < 2 * (m * d) + m
  <2> HIDE DEF m
  <2> QED
    BY <1>2, <1>3, <1>4, RoundedIs
<1>7. m * d = 100 * (n * d) /\ n * d \in Nat
  BY <1>1
<1> DEFINE p == n * d
<1>8. 200 * p <= 2 * x + 100 * n /\ 2 * x < 200 * p + 100 * n /\ p \in Nat
  BY <1>1, <1>2, <1>6, <1>7
<1> HIDE DEF p
<1>9. 2 * q <= 2 * p + n /\ 2 * p <= 2 * q + n
  BY <1>1, <1>2, <1>5, <1>8
<1> QED
  BY <1>9 DEF p, n, d, q

LEMMA OutstandingIs ==
  ASSUME ScheduleInv, part = "schedule"
  PROVE  \A i \in M!Installments : M!Outstanding(i) \in Nat
<1>1. M!Due(terms) \in Nat
  BY PeriodsAre DEF ScheduleInv
<1> QED
  BY <1>1 DEF M!Outstanding, ScheduleInv

\* What the installments before one still ask for is a number.
LEMMA BeforeIs ==
  ASSUME ScheduleInv, part = "schedule", NEW i \in M!Installments
  PROVE  M!MapThenSumSet(M!Outstanding, 1 .. i - 1) \in Int
<1> DEFINE D == 1 .. i - 1
           g == [j \in D |-> M!Outstanding(j)]
           body(h) == [s \in SUBSET D |-> IF s = {} THEN 0 ELSE M!Outstanding(CHOOSE x \in s : TRUE) + h[s \ {CHOOSE x \in s : TRUE}]]
           iter == CHOOSE h : h = body(h)
<1>0. IsFiniteSet(D) /\ D \subseteq M!Installments /\ Numbers(g, D)
  <2>1. M!Periods(terms) \in Nat
    BY PeriodsAre DEF ScheduleInv
  <2>2. i \in Int /\ i - 1 \in Int /\ D \subseteq M!Installments
    BY <2>1 DEF M!Installments
  <2>3. IsFiniteSet(D)
    BY <2>2, FS_Interval
  <2> QED
    BY <2>2, <2>3, OutstandingIs DEF Numbers
<1>1. PICK f : Table(f, g, D)
  BY <1>0, SumsFor
<1> DEFINE e == [s \in SUBSET D |-> f[s]]
<1>2. M!MapThenSumSet(M!Outstanding, D) = iter[D]
  BY DEF M!MapThenSumSet, M!MapThenFoldSet
<1>f. \A s \in SUBSET D : s # {} => First(s) \in s /\ g[First(s)] = M!Outstanding(First(s))
  BY FirstIn
<1>3. e = body(e)
  BY <1>1, <1>f DEF First, Adding, Table
<1>4. ASSUME NEW h, h = body(h) PROVE h = e
  <2>1. Adding(h, g, D)
    BY <1>4, <1>f DEF First, Adding
  <2>2. \A s \in SUBSET D : h[s] = f[s]
    <3> HIDE DEF g, D
    <3> QED
      BY <1>0, <1>1, <2>1, SumsAgree DEF Table
  <2> QED
    BY <2>2, <1>4
<1>5. iter = e
  <2> HIDE DEF body, e
  <2> QED
    BY <1>3, <1>4
<1>6. D \in SUBSET D
  OBVIOUS
<1>7. iter[D] = f[D] /\ f[D] \in Int
  <2> HIDE DEF iter, D, g
  <2> QED
    BY <1>1, <1>5, <1>6 DEF Table
<1> QED
  BY <1>2, <1>7

\* Nothing takes more than is outstanding.
LEMMA ShareIs ==
  ASSUME ScheduleInv, part = "schedule", NEW i \in M!Installments, NEW a \in Int
  PROVE  M!Share(i, a) \in Nat /\ M!Share(i, a) <= M!Outstanding(i) /\ M!Outstanding(i) \in Nat
<1> DEFINE left == a - M!MapThenSumSet(M!Outstanding, 1 .. i - 1)
<1>1. left \in Int
  BY BeforeIs
<1>2. M!LeftFor(i, a) = M!Max({0, left})
  BY DEF M!LeftFor
<1> HIDE DEF left
<1>3. M!LeftFor(i, a) \in Nat
  BY <1>1, <1>2, GreatestOfTwo
<1>4. M!Outstanding(i) \in Nat
  BY OutstandingIs
<1> QED
  BY <1>3, <1>4, SmallestOfTwo DEF M!Share

LEMMA PayInv == ASSUME ScheduleInv, part = "schedule", UNCHANGED part, NEW a \in Int, M!Pay(a) PROVE ScheduleInv'
<1>1. /\ terms \in Schedule /\ terms' = terms /\ amount \in [M!Installments -> Int]
      /\ settled \subseteq M!Installments /\ M!Due(terms) \in Nat
      /\ amount' = [i \in M!Installments |-> amount[i] + M!Share(i, a)]
  BY PeriodsAre DEF ScheduleInv, M!Pay
<1>2. PICK s \in SUBSET M!Perhaps(a) : settled' = settled \cup M!Surely(a) \cup s
  BY DEF M!Pay
<1>3. M!Installments' = M!Installments /\ M!Due(terms)' = M!Due(terms)
  BY <1>1 DEF M!Installments, M!Due, M!Periods
<1>4. settled' \subseteq M!Installments
  BY <1>1, <1>2 DEF M!Perhaps, M!Surely, M!Touched
<1>5. ASSUME NEW i \in M!Installments
      PROVE  /\ amount'[i] \in Int /\ amount'[i] <= M!Due(terms)
             /\ i \in settled' => amount'[i] >= M!Due(terms) - 1
  <2>1. amount'[i] = amount[i] + M!Share(i, a) /\ amount[i] \in Int /\ amount[i] <= M!Due(terms)
        /\ (i \in settled => amount[i] >= M!Due(terms) - 1)
    BY <1>1 DEF ScheduleInv
  <2>2. M!Share(i, a) \in Nat /\ M!Share(i, a) <= M!Outstanding(i)
    BY ShareIs
  <2>3. M!Outstanding(i) = IF i \in settled THEN 0 ELSE M!Due(terms) - amount[i]
    BY DEF M!Outstanding
  <2>4. i \in settled' => i \in settled \/ M!Outstanding(i) - M!Share(i, a) \in {0, 1}
    BY <1>2 DEF M!Surely, M!Perhaps, M!Missing
  <2> QED
    BY <1>1, <2>1, <2>2, <2>3, <2>4
<1>6. amount' \in [M!Installments -> Int]
  BY <1>1, <1>5
<1> QED
  BY <1>1, <1>3, <1>4, <1>5, <1>6 DEF ScheduleInv

LEMMA ScheduleStep == ScheduleInv /\ [Next]_vars => ScheduleInv'
<1> SUFFICES ASSUME ScheduleInv, [Next]_vars PROVE ScheduleInv'
  OBVIOUS
<1>1. CASE UNCHANGED vars
  BY <1>1 DEF vars, schedule, ScheduleInv, M!Installments, M!Due, M!Periods
<1>2. CASE Next /\ part # "schedule"
  BY <1>2 DEF Next, Rest, schedule, ScheduleInv
<1>3. CASE Next /\ part = "schedule"
  <2>1. M!Next /\ UNCHANGED part
    BY <1>3 DEF Next
  <2>2. PICK a \in {M!Due(terms) - 1, M!Due(terms), M!Due(terms) + 1, M!Quoted(terms)} : M!Pay(a)
    BY <2>1 DEF M!Next
  <2>3. a \in Int
    BY <1>3, PeriodsAre DEF ScheduleInv
  <2> QED
    BY <1>3, <2>1, <2>2, <2>3, PayInv
<1> QED
  BY <1>1, <1>2, <1>3

LEMMA ScheduleInit == Init => ScheduleInv
<1> SUFFICES ASSUME Init PROVE ScheduleInv
  OBVIOUS
<1>1. CASE part # "schedule"
  BY <1>1 DEF Init, ScheduleInv, Schedule
<1>2. CASE part = "schedule"
  <2>1. terms \in Schedule /\ amount = [i \in M!Installments |-> 0] /\ settled = {}
    BY <1>2, TermsCounted DEF Init, M!Init, Schedule
  <2>2. M!Due(terms) \in Nat
    BY <2>1, PeriodsAre
  <2> QED
    BY <1>2, <2>1, <2>2 DEF ScheduleInv
<1> QED
  BY <1>1, <1>2

\* What has come in, once every installment reads PAID.
LEMMA ClosedReceived ==
  ASSUME ScheduleInv, part = "schedule", M!Closed
  PROVE  /\ M!Received \in Int
         /\ (M!Due(terms) - 1) * M!Periods(terms) <= M!Received /\ M!Received <= M!Due(terms) * M!Periods(terms)
<1> DEFINE D == M!Installments
           g == amount
           n == M!Periods(terms)
           lo == M!Due(terms) - 1
           hi == M!Due(terms)
           body(h) == [s \in SUBSET D |-> IF s = {} THEN 0 ELSE amount[CHOOSE x \in s : TRUE] + h[s \ {CHOOSE x \in s : TRUE}]]
           iter == CHOOSE h : h = body(h)
<1>a. n \in Nat /\ lo \in Int /\ hi \in Int
  BY PeriodsAre DEF ScheduleInv
<1>0. IsFiniteSet(D) /\ Cardinality(D) = n
  BY <1>a, FS_Interval DEF M!Installments
<1>b. \A x \in D : g[x] \in Int /\ lo <= g[x] /\ g[x] <= hi
  BY DEF ScheduleInv, M!Closed
<1>c. Numbers(g, D)
  BY <1>b DEF Numbers
<1>1. PICK f : Table(f, g, D)
  BY <1>0, <1>c, SumsFor
<1> DEFINE e == [s \in SUBSET D |-> f[s]]
<1>2. M!Received = iter[D]
  BY DEF M!Received, M!MapThenSumSet, M!MapThenFoldSet
<1>3. e = body(e)
  BY <1>1, FirstIn DEF First, Adding, Table
<1>4. ASSUME NEW h, h = body(h) PROVE h = e
  <2>1. Adding(h, g, D)
    BY <1>4, FirstIn DEF First, Adding
  <2>2. \A s \in SUBSET D : h[s] = f[s]
    <3> HIDE DEF D
    <3> QED
      BY <1>0, <1>1, <2>1, SumsAgree DEF Table
  <2> QED
    BY <2>2, <1>4
<1>5. iter = e
  <2> HIDE DEF body, e
  <2> QED
    BY <1>3, <1>4
<1>6. D \in SUBSET D
  OBVIOUS
<1>7. iter[D] = f[D] /\ f[D] \in Int /\ f[D] = Total(g, D)
  <2> HIDE DEF iter, D, g
  <2> QED
    BY <1>1, <1>5, <1>6 DEF Table
<1>8. lo * n <= Total(g, D) /\ Total(g, D) <= hi * n
  <2> HIDE DEF D, g, lo, hi, n
  <2> QED
    BY <1>0, <1>a, <1>b, TotalBetween
<1> QED
  BY <1>2, <1>7, <1>8

\* Whatever was paid in whatever order, a loan whose installments all read PAID has
\* brought in what was quoted, up to a cent and a half per installment
\* (loan-applications.service.ts:791).
THEOREM LoansCloseNearQuote == Spec => []ClosesNearQuote
<1>1. ScheduleInv => ClosesNearQuote
  <2> SUFFICES ASSUME ScheduleInv, M!Closed
               PROVE  /\ 2 * (M!Quoted(terms) - M!Received) <= 3 * M!Periods(terms)
                      /\ 2 * (M!Received - M!Quoted(terms)) <= M!Periods(terms)
    BY DEF ClosesNearQuote, M!ClosesNearQuote
  <2> DEFINE n == M!Periods(terms)
             d == M!Due(terms)
             q == M!Quoted(terms)
             r == M!Received
             p == n * d
  <2>1. terms \in Schedule
    BY DEF ScheduleInv
  <2>2. n \in Nat /\ n >= 1 /\ d \in Nat /\ q \in Nat /\ 2 * q <= 2 * p + n /\ 2 * p <= 2 * q + n
    BY <2>1, PeriodsAre, DuesNearQuote
  <2>3. part = "schedule"
    BY <2>2 DEF ScheduleInv, M!Closed, M!Installments
  <2>4. r \in Int /\ (d - 1) * n <= r /\ r <= d * n
    BY <2>3, ClosedReceived
  <2> HIDE DEF n, d, q, r
  <2>5. p \in Nat /\ p - n <= r /\ r <= p
    BY <2>2, <2>4
  <2> HIDE DEF p
  <2>6. 2 * (q - r) <= 3 * n /\ 2 * (r - q) <= n
    BY <2>2, <2>4, <2>5
  <2> QED
    BY <2>6 DEF n, q, r
<1> QED
  BY <1>1, ScheduleInit, ScheduleStep, PTL DEF Spec


===================================================================================
