---------------------------------- MODULE Access ---------------------------------
(***************************************************************************)
(* What a user may do: roles with permissions, roles given to the user for a *)
(* time or for good, and permissions given to the user or denied.            *)
(* PermissionResolverService works it out at every request, in two queries,  *)
(* while administrators go on changing it. One user stands for all: their    *)
(* rows have nothing to do with each other.                                  *)
(***************************************************************************)
EXTENDS Integers, FiniteSets

CONSTANTS
  Roles,        \* roles
  Permissions,  \* permission codes
  Requests,     \* request slots: how many handlers may be in flight at once
  None          \* no role

VARIABLES
  role,      \* [Roles -> row and its permissions]
  given,     \* [Roles -> the user's assignment: none, valid or expired]
  override,  \* [Permissions -> the user's override: none, granted, denied or expired]
  handler,   \* [Requests -> handler in flight]
  changes,   \* history: [Requests -> changes since the handler began], up to two
  held       \* history: [Requests -> what the user could do at some moment since then]

vars == <<role, given, override, handler, changes, held>>

Row == [present : BOOLEAN, deleted : BOOLEAN, active : BOOLEAN, perms : SUBSET Permissions]
NoRow == [present |-> FALSE, deleted |-> FALSE, active |-> FALSE, perms |-> {}]

Idle == [op |-> "none", step |-> 0, role |-> None, set |-> {}]

\* What the permissions amount to: those of the active roles the user has and that
\* have not expired, and those granted, without those denied.
Effective ==
  ((UNION {role[x].perms : x \in {y \in Roles : role[y].active /\ given[y] = "valid"}})
     \cup {p \in Permissions : override[p] = "granted"})
  \ {p \in Permissions : override[p] = "denied"}

Init ==
  /\ role = [x \in Roles |-> NoRow]
  /\ given = [x \in Roles |-> "none"]
  /\ override = [p \in Permissions |-> "none"]
  /\ handler = [r \in Requests |-> Idle]
  /\ changes = [r \in Requests |-> 0]
  /\ held = [r \in Requests |-> {}]

Live(x) == role[x].present /\ ~role[x].deleted
Start(r, h) == handler[r] = Idle /\ handler' = [handler EXCEPT ![r] = h]
At(r, op, step) == handler[r].op = op /\ handler[r].step = step
Finish(r) == handler' = [handler EXCEPT ![r] = Idle]

Capped(n) == IF n > 2 THEN 2 ELSE n

\* What every change of permissions means for the resolutions in flight.
Noted ==
  /\ changes' = [r \in Requests |-> IF handler[r].op = "resolve" THEN Capped(changes[r] + 1) ELSE 0]
  /\ held' = [r \in Requests |-> IF handler[r].op = "resolve" THEN held[r] \cup Effective' ELSE {}]
Unnoted == UNCHANGED <<changes, held>>

-----------------------------------------------------------------------------
(* Roles *)

\* create: the row, then its permissions by syncPermissions.
CreateRole(r, x, perms) ==
  /\ ~role[x].present
  /\ Start(r, [Idle EXCEPT !.op = "sync", !.role = x, !.set = perms])
  /\ role' = [role EXCEPT ![x] = [NoRow EXCEPT !.present = TRUE, !.active = TRUE]]
  /\ UNCHANGED <<given, override>> /\ Noted

\* The role is looked up first, its permissions replaced in one transaction.
SyncPermissions(r, x, perms) ==
  /\ Live(x) /\ Start(r, [Idle EXCEPT !.op = "sync", !.role = x, !.set = perms])
  /\ Unnoted /\ UNCHANGED <<role, given, override>>

SyncWrite(r) ==
  /\ At(r, "sync", 0) /\ Finish(r)
  /\ role' = [role EXCEPT ![handler[r].role].perms = handler[r].set]
  /\ UNCHANGED <<given, override>> /\ Noted

\* isActive as asked, of a role that was there when it was looked up.
UpdateRole(r, x) ==
  /\ Live(x) /\ \E on \in BOOLEAN : Start(r, [Idle EXCEPT !.op = IF on THEN "enable" ELSE "disable", !.role = x])
  /\ Unnoted /\ UNCHANGED <<role, given, override>>

UpdateWrite(r) ==
  /\ At(r, "enable", 0) \/ At(r, "disable", 0)
  /\ Finish(r)
  /\ role' = [role EXCEPT ![handler[r].role].active = handler[r].op = "enable"]
  /\ UNCHANGED <<given, override>> /\ Noted

\* The assignments are counted, expired ones too; then the row is marked.
RemoveRole(r, x) ==
  /\ Live(x) /\ given[x] = "none"
  /\ Start(r, [Idle EXCEPT !.op = "remove", !.role = x])
  /\ Unnoted /\ UNCHANGED <<role, given, override>>

DeletedRow(row) == [row EXCEPT !.deleted = TRUE, !.active = FALSE]

RemoveWrite(r) ==
  /\ At(r, "remove", 0) /\ Finish(r)
  /\ role' = [role EXCEPT ![handler[r].role] = DeletedRow(role[handler[r].role])]
  /\ UNCHANGED <<given, override>> /\ Noted

-----------------------------------------------------------------------------
(* What users are given *)

AssignRole(r, x) ==
  /\ Live(x) /\ role[x].active
  /\ Start(r, [Idle EXCEPT !.op = "assign", !.role = x])
  /\ Unnoted /\ UNCHANGED <<role, given, override>>

AssignWrite(r) ==
  /\ At(r, "assign", 0) /\ Finish(r)
  /\ given' = [given EXCEPT ![handler[r].role] = "valid"]
  /\ UNCHANGED <<role, override>> /\ Noted

RevokeRole(x) ==
  /\ given[x] # "none" /\ given' = [given EXCEPT ![x] = "none"]
  /\ UNCHANGED <<role, override, handler>> /\ Noted

RoleExpires(x) ==
  /\ given[x] = "valid" /\ given' = [given EXCEPT ![x] = "expired"]
  /\ UNCHANGED <<role, override, handler>> /\ Noted

\* assignPermissions, revokePermissions, and an override that expires.
Override(p, o) ==
  /\ override[p] # o /\ (o = "expired" => override[p] # "none")
  /\ override' = [override EXCEPT ![p] = o]
  /\ UNCHANGED <<role, given, handler>> /\ Noted

-----------------------------------------------------------------------------
(* The resolver: first what the roles give, then the overrides. *)

GivenAny(x) == given[x] # "none"                           \* mutant: expired too
GivenNow(x) == given[x] = "valid"
RolesGive == UNION {role[x].perms : x \in {y \in Roles : GivenNow(y) /\ role[y].active}}
Overridden(set) ==
  (set \cup {p \in Permissions : override[p] = "granted"}) \ {p \in Permissions : override[p] = "denied"}

ResolveRoles(r) ==
  /\ Start(r, [Idle EXCEPT !.op = "resolve", !.set = RolesGive])
  /\ changes' = [changes EXCEPT ![r] = 0]
  /\ held' = [held EXCEPT ![r] = Effective]
  /\ UNCHANGED <<role, given, override>>

ResolveOverrides(r) ==
  /\ At(r, "resolve", 0)
  /\ handler' = [handler EXCEPT ![r].step = 1, ![r].set = Overridden(handler[r].set)]
  /\ Unnoted /\ UNCHANGED <<role, given, override>>

\* The request is served with the permissions resolved, and over.
Served(r) ==
  /\ At(r, "resolve", 1) /\ Finish(r)
  /\ changes' = [changes EXCEPT ![r] = 0] /\ held' = [held EXCEPT ![r] = {}]
  /\ UNCHANGED <<role, given, override>>

-----------------------------------------------------------------------------
Next ==
  \/ \E r \in Requests, x \in Roles :
       \/ \E perms \in SUBSET Permissions : CreateRole(r, x, perms) \/ SyncPermissions(r, x, perms)
       \/ UpdateRole(r, x) \/ RemoveRole(r, x) \/ AssignRole(r, x)
  \/ \E r \in Requests :
       \/ SyncWrite(r) \/ UpdateWrite(r) \/ RemoveWrite(r) \/ AssignWrite(r)
       \/ ResolveRoles(r) \/ ResolveOverrides(r) \/ Served(r)
  \/ \E x \in Roles : RevokeRole(x) \/ RoleExpires(x)
  \/ \E p \in Permissions, o \in {"none", "granted", "denied", "expired"} : Override(p, o)

Spec == Init /\ [][Next]_vars

-----------------------------------------------------------------------------
(* Properties *)

\* A request is served with permissions the user had at some moment while they
\* were resolved, as long as no more than one change fell between the two
\* queries. Two can make a permission nobody ever gave: a role is revoked after
\* it was read and the denial lifted before that is (permission-resolver.service.ts:29).
ResolvedWasHeld ==
  \A r \in Requests :
    At(r, "resolve", 1) /\ changes[r] <= 1 => handler[r].set \subseteq held[r]

=============================================================================
