------------------------------ MODULE MCBackOffice ------------------------------
(* Instances for TLC of components that share no state, explored side by side:  *)
(* in each behaviour one of them runs and the others rest in an initial state.  *)
EXTENDS Integers, FiniteSets, TLC

CONSTANTS
  Requests, None,                              \* every component
  Payments, Amounts, Openings, MaxExpenses,    \* Recovery
  Trips,                                       \* Transport
  Loans, Officers,                             \* Collections
  Customers, Phones, Bvns, MaxApps,            \* Customers
  Base, Width, Tries, MaxRows, Clocks,         \* Numbering
  Roles, Permissions,                          \* Access
  Branches, Departments, Limits, DocTypes,     \* Organisation
  Scores, Counts, Actives, Debts,              \* CreditRisk
  Templates, Filled, Sections, Fields, Codes, MaxSubmissions,   \* Forms
  Users, RoleOf, Assigned,                     \* ReviewScreens
  Principals, Rates, Tenures, Period           \* Amortization

VARIABLES
  part,       \* the component that runs
  alone,      \* whether its requests run one at a time
  account, payment, spent, handling, approvals, edited, cut,
  trip, shown, reviewing, approved,
  loan, case, panel,
  customer, docs, apps, lent, handler,
  looks, rows, gone, creating, clocked, refused,
  role, given, override, resolving, changes, held,
  branch, head, dept, parent, seat, product, sold, working,
  report,
  template, default, section, field, submission, filling,
  status, stage, screen, serving, tangled, decision,
  terms, amount, settled

recovery == <<account, payment, spent, handling, approvals, edited, cut>>
transport == <<trip, shown, reviewing, approved>>
collections == <<loan, case, panel>>
customers == <<customer, docs, apps, lent, handler>>
numbering == <<looks, rows, gone, creating, clocked, refused>>
access == <<role, given, override, resolving, changes, held>>
organisation == <<branch, head, dept, parent, seat, product, sold, working>>
forms == <<template, default, section, field, submission, filling>>
screens == <<status, stage, screen, serving, tangled, decision>>
schedule == <<terms, amount, settled>>
vars == <<part, alone, recovery, transport, collections, customers, numbering, access, organisation, report, forms,
          screens, schedule>>

R == INSTANCE Recovery
T == INSTANCE Transport WITH People <- Requests
C == INSTANCE Collections
U == INSTANCE Customers
N == INSTANCE Numbering
A == INSTANCE Access WITH handler <- resolving
O == INSTANCE Organisation WITH handler <- working
F == INSTANCE CreditRisk
G == INSTANCE Forms WITH MaxRows <- MaxSubmissions, handler <- filling
S == INSTANCE ReviewScreens
M == INSTANCE Amortization

\* No value of a customer's row is None, and applications are counted.
ASSUME CustomersApart == None \notin U!Statuses /\ MaxApps \in Nat

\* Amounts are more than nothing, and there are finitely many payments.
ASSUME AmountsPositive == Amounts \subseteq Nat \ {0} /\ Openings \subseteq Int /\ IsFiniteSet(Payments)

\* What a credit report says is counted.
ASSUME ReportsCounted == Scores \cup Counts \cup Actives \cup Debts \subseteq Nat

\* What is lent, the interest and the days are numbers, and a period has days.
ASSUME TermsCounted == Principals \cup Rates \cup Tenures \subseteq Nat /\ Period \in Nat \ {0}

\* A number has digits, in a base.
ASSUME DigitsCounted == Base \in Nat \ {0} /\ Width \in 1 .. 16 /\ Clocks \subseteq Nat

\* None is no department.
ASSUME DepartmentsApart == None \notin Departments

\* None is no row.
ASSUME NoneNoRow == None # 1

\* Every user has a seeded role.
ASSUME RolesSeeded == RoleOf \in [Users -> DOMAIN S!Grants]

\* Every seeded role has a user; a loan officer created the application.
ASSUME RolesStaffed ==
  /\ \A x \in DOMAIN S!Grants : \E u \in Users : RoleOf[u] = x
  /\ Assigned \in Users /\ RoleOf[Assigned] = "LOAN_OFFICER"

\* A debt, and an account opened overpaid.
Balances == {-1, 2}

\* One user of each seeded role.
Staff == [officer |-> "LOAN_OFFICER", compliance |-> "COMPLIANCE_OFFICER", control |-> "INTERNAL_CONTROL",
          admin |-> "SYSTEM_ADMIN"]

\* A customer with nothing against them.
Clean == [score |-> 750, defaulted |-> 0, onTime |-> 0, late |-> 0, missed |-> 0, active |-> 3, debt |-> 5]

-----------------------------------------------------------------------------
(* One component runs, its requests one at a time or interleaved *)

\* The requests in flight are one when they run one at a time.
Lone(busy) == alone => \A r, q \in busy : r = q

RecoveryLone == Lone({r \in Requests : handling[r].pc # "idle"})
CustomersLone == Lone({r \in Requests : handler[r] # U!Idle})
AccessLone == Lone({r \in Requests : resolving[r] # A!Idle})
FormsLone == Lone({r \in Requests : filling[r] # G!Idle})
OrganisationLone == Lone({r \in Requests : working[r] # O!Idle})

Parts == {"recovery", "transport", "collections", "customers", "numbering", "access",
          "branches", "departments", "products", "credit",
          "templates", "filling", "screens", "schedule"}

Init ==
  /\ part \in Parts
  /\ alone \in BOOLEAN
  /\ part \in {"customers", "departments", "products", "templates", "filling"} => alone
  /\ part \in {"transport", "collections", "numbering", "credit", "screens", "schedule"} => ~alone
  /\ R!Init /\ T!Init /\ C!Init /\ U!Init /\ N!Init /\ A!Init /\ O!Init
  /\ IF part = "credit" THEN F!Init ELSE report = Clean
  /\ G!Init /\ S!Init
  /\ IF part = "schedule" THEN M!Init
     ELSE terms = [principal |-> 1000, rate |-> 0, tenure |-> 20] /\ amount = <<0>> /\ settled = {}
  /\ part # "numbering" => looks

\* Everything but the state of the component that runs.
Rest(p) ==
  /\ IF p = "recovery" THEN TRUE ELSE UNCHANGED recovery
  /\ IF p = "transport" THEN TRUE ELSE UNCHANGED transport
  /\ IF p = "collections" THEN TRUE ELSE UNCHANGED collections
  /\ IF p = "customers" THEN TRUE ELSE UNCHANGED customers
  /\ IF p = "numbering" THEN TRUE ELSE UNCHANGED numbering
  /\ IF p = "access" THEN TRUE ELSE UNCHANGED access
  /\ IF p \in {"branches", "departments", "products"} THEN TRUE ELSE UNCHANGED organisation
  /\ IF p = "credit" THEN TRUE ELSE UNCHANGED report
  /\ IF p \in {"templates", "filling"} THEN TRUE ELSE UNCHANGED forms
  /\ IF p = "screens" THEN TRUE ELSE UNCHANGED screens
  /\ IF p = "schedule" THEN TRUE ELSE UNCHANGED schedule

Next ==
  /\ UNCHANGED <<part, alone>>
  /\ \/ part = "recovery" /\ R!Next /\ RecoveryLone'
     \/ part = "transport" /\ T!Next
     \/ part = "collections" /\ C!Next
     \/ part = "customers" /\ U!Next /\ CustomersLone'
     \/ part = "numbering" /\ N!Next
     \/ part = "access" /\ A!Next /\ AccessLone'
     \/ part = "credit" /\ F!Next
     \/ part = "screens" /\ S!Next
     \/ part = "schedule" /\ M!Next
     \/ part \in {"templates", "filling"} /\ G!Next /\ FormsLone'
     \/ part \in {"branches", "departments", "products"} /\ O!Next /\ OrganisationLone'
  /\ Rest(part)

Spec == Init /\ [][Next]_vars

-----------------------------------------------------------------------------
(* Bounds of the exploration, no part of the specification *)

\* A balance is edited or a handler dies, not both; or two requests run at a time,
\* with one expense and neither of these.
RecoveryBound ==
  part = "recovery" =>
    /\ ~edited \/ ~cut
    /\ ~alone =>
         /\ ~edited /\ ~cut /\ account.opening >= 0 /\ account.status # "deleted"
         /\ spent.rows + Cardinality({r \in Requests : handling[r].pc = "insert"}) <= 1

\* Two customers are on record together while neither has applied.
CustomersBound ==
  part = "customers" => \/ \E c \in Customers : ~U!Present(c)
                        \/ \A c \in Customers : apps[c] = 0

\* Templates that are not filled in; or one that stays and is.
FormsBound ==
  /\ part = "templates" =>
       /\ \A s \in Sections : section[s] = "none"
       /\ \A r \in Requests : filling[r].op # "submit"
  /\ part = "filling" =>
       /\ \A t \in Templates : template[t] \in IF t = Filled THEN {"none", "on"} ELSE {"none"}
       /\ default = {}
       /\ \A r \in Requests : \/ filling[r].op \in {"none", "submit"}
                              \/ filling[r].op = "create" /\ filling[r].on = Filled

\* The handlers of the three tables do not meet.
OrganisationBound ==
  \A r \in Requests :
    /\ part = "branches" => working[r].op \in {"none", "headOffice", "branch", "closeBranch"}
    /\ part = "departments" => working[r].op \in {"none", "dept", "move", "closeDept"}
    /\ part = "products" => working[r].op \in {"none", "product", "change", "withdraw", "apply"}

\* Two users at a time have a screen open or a call under way, one of them not both;
\* two screens or calls in all once calls have failed or crossed, or when an
\* administrator works through the queue of a reviewer.
ScreensBound ==
  LET open == {u \in Users : screen[u] # S!Nowhere}
      calling == {u \in Users : serving[u] # S!Idle}
      queued == {u \in open : S!Admin(u) /\ screen[u].page \in {"compliance", "control"}}
  IN /\ Cardinality(open \cup calling) <= 2
     /\ Cardinality(open) + Cardinality(calling) <= IF tangled \/ queued # {} THEN 2 ELSE 3

Interchangeable == Permutations(Customers)

(* What the components promise; the comment of each names what it is there. *)

\* However requests interleave, the totals of a recovery account never show money
\* nobody verified or spent; with one request at a time they show as recovered the
\* sum of the verified payments, as net what that leaves after the expenses, and as
\* owed the remainder (Recovery!TotalsBacked, RecoveredIsVerified, NetIsDifference,
\* OwedIsRemainder).
RecoveryBooks ==
  /\ R!TotalsBacked
  /\ alone => R!RecoveredIsVerified /\ R!NetIsDifference /\ R!OwedIsRemainder
\* Nothing is paid for transport that was never approved (Transport!PaidWasApproved).
PaidWasApproved == T!PaidWasApproved
\* The status of a collections case is one that an officer picked
\* (Collections!StatusIsPicked).
StatusIsPicked == C!StatusIsPicked
\* With one request at a time, a removed customer has no application
\* (Customers!RemovedIsBare).
AloneRemovedIsBare == alone => U!RemovedIsBare
\* A creation that nobody raced is not refused its number
\* (Numbering!LoneCreationsSucceed).
LoneCreationsSucceed == N!LoneCreationsSucceed
\* A worse credit history never gets a better score (CreditRisk!WorseIsNeverSafer).
WorseIsNeverSafer == F!WorseIsNeverSafer
\* With one request at a time, one template is the default, and a form is submitted
\* once for what it is about (Forms!OneDefault, OneSubmission).
AloneOneForm == alone => G!OneDefault /\ G!OneSubmission
\* A permission set that was resolved was held at some moment
\* (Access!ResolvedWasHeld).
ResolvedWasHeld == A!ResolvedWasHeld
\* The head office is never closed (Organisation!HeadOfficeStands).
HeadOfficeStands == O!HeadOfficeStands
\* With one request at a time, one branch is the head office, no department is above
\* itself, and the least a product lends is below the most
\* (Organisation!OneHeadOffice, Acyclic, LimitsOrdered).
AloneOrganised == alone => O!OneHeadOffice /\ O!Acyclic /\ O!LimitsOrdered
\* What anyone but an administrator decides is recorded for the stage on the screen
\* (ReviewScreens!DecidedAsShown).
DecidedAsShown == S!DecidedAsShown
\* An application that is not at its end has someone who can move it on, unless calls
\* failed halfway or wrote over each other (ReviewScreens!SomeoneCanAct).
SomeoneCanAct == S!SomeoneCanAct
\* A loan closes when about what was quoted has come in (Amortization!ClosesNearQuote).
ClosesNearQuote == M!ClosesNearQuote
=============================================================================
