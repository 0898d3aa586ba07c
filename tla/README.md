# A TLA+ verification of VCLOP

VCLOP is a loan operations platform: a NestJS backend over MySQL (through
Prisma) and a React client. Loan officers create applications for customers,
compliance and internal control approve them, Accounting disburses, customers
repay by bank transfer to a virtual account or by hand, recovery agents follow
up. This directory models the system in TLA+, model-checks it with TLC and
proves theorems about it with TLAPS. Paths below are relative to
`src/vclop-backend/src/modules/` unless they begin with `src/`.

1. [Inventory](#1-inventory) 2. [Modules](#2-modules) 3. [How code becomes
actions](#3-how-code-becomes-actions) 4. [Runs](#4-runs) 5. [Fairness](#5-fairness)
6. [Proofs](#6-proofs) 7. [Where the code departs from what it
says](#7-where-the-code-departs-from-what-it-says) 8. [Not modelled](#8-not-modelled)
9. [What is left](#9-what-is-left)

## 1. Inventory

Every component of the backend is a NestJS service whose state is rows in
MySQL. Nothing else is shared: no cache, no queue, no lock. Components interact
by direct calls, by reading each other's tables and by an in-process event
emitter (`loan.disbursed`). The client keeps a session of its own.

What makes the system hard is the same everywhere:

- A handler awaits each database call. Between two calls, handlers of other
  requests run, so whatever was read may be stale when it is used. Only a
  `$transaction` or a single statement is atomic, and the transactions write
  values computed before they began.
- A call may throw or the process may die between two calls. What was committed
  stays and no later step happens; there is no job that repairs it.
- Updates are by id, unconditional, rarely guarded by the status that was
  checked. What protects an invariant is often a unique or a foreign key.
- The provider's webhooks may come twice, late or never; staff click twice.
- Browser tabs share a refresh token and refresh on their own.

| component | state | operations | what makes it correct | module |
|---|---|---|---|---|
| loan applications (`loan-applications/`) | application rows with a status, guarantors, collateral, loan rows | create, submit, review, complianceReview, resubmit, disburse, remove, guarantors, collateral | no loan without both approvals; a disbursed loan is kept; one open loan per customer | `LoanApplications` |
| workflow engine (`workflows/`) | one instance per application with its stage and tasks | start, claimTask, transition | stage, open tasks and denormalised status agree; an unfinished stage has an open task | `LoanApplications` |
| seeded definition (`src/vclop-backend/prisma/seed.ts`) | stages and edges | (constant) | the edges force both approvals | `WorkflowDefinition` |
| repayments (`loan-applications/`) | installments, loan status, repayment rows | recordRepayment, applyRepayment | the books balance; a loan is closed exactly when paid | `Repayments` |
| reconciliation of transfers (`virtual-accounts/`) | transfer rows with a status | handleWebhook, reconcile, resolveUnmatched, fetchPaystackTransactions | each transfer credited once; each reconciled or queued | `Repayments` |
| virtual account numbers (`virtual-accounts/`) | account rows, PENDING until numbered | createForLoan, handleDvaAssigned, bulkCreateMissing, bulkSyncPending, syncFromPaystack, details | a number reaches the loan of the customer it was issued to; it comes in the end | `VirtualAccounts` |
| numbering (five generators) | highest number in a table, as a string | read, candidate, probe, insert | a creation nobody races succeeds | `Numbering` |
| authentication (`auth/`) | refresh tokens, reset tokens, one-time codes, failure counter | login, refresh, logout, reset, change, change with code, forced change, lock | a token rotates once; a code works once; no session of an old password lives on | `Sessions` |
| client session (`src/vclop-frontend/src/lib/axios.ts`, `stores/`, `App.tsx`) | the store of each tab, localStorage, the queue of waiting calls | send, 401, refresh, retry, login, logout, reload | every call is answered; the profile shown is the tokens' owner; no session left behind | `ClientSession` |
| effective permissions (`auth/permission-resolver.service.ts`, `roles/`, `permissions/`) | roles, grants, denials | resolve against every change | what is resolved was held | `Access` |
| customers (`customers/`) | customer rows, documents | create, update, updateStatus, remove, upload | a removed one has no application | `Customers` |
| recovery (`recovery/`) | account totals, payments, expenses | create, record, verify, reject, expense, update, remove | totals equal what was verified and spent | `Recovery` |
| transport (`transport/`) | requests | create, review, markPaid; the pages that offer them | what is paid was approved | `Transport` |
| collections (`collections/`) | cases, activities | open, update, addActivity; the panel over the list | the status of a case is one that an officer picked | `Collections` |
| branches, departments, loan products | rows, a head office, a tree, limits | create, update, remove, requirements | one head office; no cycle; limits in order | `Organisation` |
| forms (`forms/`) | templates, sections, fields, submissions | create, activate, edit, submit | one default; one submission per entity | `Forms` |
| credit bureau (`compliance/`) | none, an algorithm | risk score, recommendation | a worse report never scores better | `CreditRisk` |
| amortization (`loan-applications/`) | the installments of a loan, in cents | schedule, payment | a closed loan has brought in what was quoted, up to the rounding | `Amortization` |
| approval screens (`LoanDetailPage`, `CompliancePage`, `ComplianceReviewPanel`, `InternalControlPage`, `AccountingPage`) | what was fetched, which panels are open | open, refetch, press a button | a decision lands on the stage it was taken on; somebody is offered the next step | `ReviewScreens` |
| targets, performance, receipts, reports, dashboard, notifications, audit, settings, storage, health | nothing another component depends on over several steps | queries, rendering, single-row writes | | (section 8) |

`PROJECT.json` lists the same components with their status, and the hazards of
this code, each at the line where it bites with the properties that cover it.

## 2. Modules

| module | what it is |
|---|---|
| `WorkflowDefinition` | the stages, permissions and edges that `seed.ts` installs (constant-level) |
| `DisbursementPolicy` | abstract specification: what the approval chain promises about money |
| `LoanApplications` | the application service, the workflow engine and the document checks, step by step; implements `DisbursementPolicy` |
| `Repayments` | applyRepayment and its three callers, step by step |
| `VirtualAccounts` | how a loan gets its account number, with Paystack as an external process; safety and liveness |
| `Sessions` | one account: tokens, codes, passwords, the lock |
| `ClientSession` | the tabs of a browser against the tokens of the server |
| `Access`, `Customers`, `Organisation`, `Forms`, `Recovery`, `Transport`, `Collections`, `Numbering`, `CreditRisk`, `Amortization` | one component each |
| `ReviewScreens` | the screens an application is approved on, against the server |
| `LoanApplications_proofs`, `Repayments_proofs`, `RepaymentsAlone_proofs`, `VirtualAccounts_proofs`, `SignIn_proofs`, `BackOfficeRecords_proofs`, `BackOfficeReviews_proofs` | theorems |
| `Sums_proofs` | lemmas on sums over a finite set |
| `MCLoanApplications`, `MCRepayments`, `MCVirtualAccounts` | instances for TLC of one module with interleaving handlers |
| `MCSignIn`, `MCBackOffice`, `MCEventually` | instances for TLC of several modules side by side |

A side-by-side module declares the variables of components that share no state,
chooses in `Init` which of them runs (`part`, `load`), and lets the others rest.
(`MCSignIn` extends `Sessions` and instantiates `ClientSession` beside it.)
The set of behaviours is the union of those of the components, so an invariant of
the whole is an invariant of each, and a state space costs a sum and not a
product. `alone` (whether requests run one at a time) and `open` (which tabs) are
chosen the same way, so one run asks both what holds of requests that race and
what holds of requests that do not: a name that begins with `Alone` is the latter.
The only restriction such a specification adds to its components is that one
(`RecoveryLone`, `AccountLone`, ...). What keeps a state space small is a
constraint of the `.cfg` (`RecoveryBound`, `AccountBound`, ...) and no part of the
specification, so that the theorems are about the components without it.

Where components do interact, one module holds both sides: the application
service, the workflow engine and the document checks in `LoanApplications`;
applyRepayment and its three callers in `Repayments`; the tabs and the tokens in
`ClientSession`. Where the interface is narrow, one module reduces the other to
what it sees: `Customers` has application creation as a check and an insert,
`Collections` has the loan as a status, `Repayments` has the account number as
`numbered`, `ClientSession` has `Sessions` as which refresh tokens are good, and `ReviewScreens` has
the application service and the workflow engine as the database calls that read or write one
application's status and stage, in their order. `Transport` and `Collections` hold the
pages that make their calls, since what those may do is decided there.

## 3. How code becomes actions

`Requests` is a set of request slots. `req[r]` (in other modules `handler[r]`,
`handling[r]`, `creating[r]`) is the handler in slot `r`: its program counter `pc`
names the next database call, the other fields are the local variables that
survive an await. An endpoint's first action (`Submit`, `Remove`, `Webhook`, ...)
does the first read and the checks on it; each later action (`SubmitWrite`,
`StartInsert`, ...) is the next call with everything the code does up to the one
after it. A failed check throws: `Finish(r)` frees the slot. A check that fails
before anything was written is simply a guard, since a request that is refused
there leaves no trace. `Fail(r)` is a throwing call or a crash at any await.

With one slot the handlers run one at a time (but may still fail halfway), with
two they interleave. Both matter: some properties hold only one at a time, and
with two slots then is where the code fails (section 7).

A `$transaction` is one step, at its commit. The database is InnoDB at its
default, REPEATABLE READ, where a read inside a transaction sees the snapshot of
its first read, so this needs an argument for each:

- disburse and remove read nothing that they then use; their writes and the
  unique and foreign keys act on current rows under row locks.
- transition first completes the open tasks it read, which locks their rows, and
  only then reads anything. remove deletes the same rows with the instance. So
  one waits for the other: a transition that waited finds the instance gone and
  throws, as in `CommitTransition`.
- applyRepayment counts the unpaid installments in its transaction. It draws its
  receipt number, the highest plus one, before the transaction and inserts it
  first. Of two payments that draw before either commits, one violates the unique
  key. So of two that commit, one commits before the other draws, and the
  snapshot of the later one contains the earlier.
- The transaction of a form's submission reads whether there is one and inserts:
  no lock, no key. It is two steps in `Forms`.

**LoanApplications.** `status`, `deleted`, `assignedTo` are columns of the
application row; `instance[a]` is its workflow instance with its PENDING (`todo`)
and IN_PROGRESS (`claimed`) tasks; `loan[a]` its loan row. `serial[a]` draws the
ids of instances, tasks and loans. The unique keys on the instance's entity and on
`loanApplicationId` are the guards `instance[a].id = 0` and `loan[a].id = 0`.
`approvals` is a history variable: the APPROVE transitions that committed. A
task's assignee is not kept: findAssignee may choose the caller, nobody or someone
else, and the guard refuses only a task that is somebody else's. Reasons are
given; a profile is complete or not, bank details included; amounts and terms of a
loan do not appear. updateGuarantor changes a name and is left out. The deletion
of an application refuses when rows of other tables refer to the loan
(`referenced`): `ReferenceLoan` is the virtual account of the handler of
`loan.disbursed`, `CompleteLoan` the effect of the last repayment.

**Repayments.** `paid[l]` is the amountPaid of the loan's installments, oldest
first; an installment reads PAID when it has what it asks for. `repayments` is the
table of repayment rows; receipt numbers are drawn as the highest plus one under a
unique key, so a row's position is its receipt number. `transfer[p]` is the status
of the row with provider reference `p`, whose unique key is `Insertable`. The loop
of applyRepayment becomes `Share`, a closed form: installment `i` gets
`min(left, outstanding)` of what the older ones left; only installments with a
share are written, as the amounts read plus the share. An amount is an integer of
a unit coarser than the code's 0.01 tolerance; loan statuses that only hand-run
SQL sets (DEFAULTED, WRITTEN_OFF) do not occur.

**VirtualAccounts.** `number[l]` and `code[l]` are the account row of a loan:
`NoNumber` before there is a row, `Pending` while its number is a placeholder.
`issued`, `assigning`, `announced`, `refused` are what Paystack knows: an
assignment that was asked for ends with a number or a refusal (`AssignSucceeds`,
`AssignFails`), the success event may be delivered any number of times
(`HandleDvaAssigned` may be called for any announced number), a failure is announced to
nobody. A creation returns the row there is and refuses a customer without a BVN
(`CheckAccount`), then asks Paystack for a number at once (`CreateViaMultiStep`); when
that fails, as it may for any customer, it asks for an assignment (`SubmitAssign`); then
it inserts the row with the number or a placeholder (`InsertAccount`). A lookup asks
once whether the number is pending, before Paystack is asked, and writes by id whatever the
row has by then (`SyncWrite`); its bulk form does so for each account of its list
(`CheckPending`). The
placeholder is what the 20 characters of the column keep of it, the customer's id:
`SamePlaceholder`. `strayed` is history: the customers one of whose numbers the
webhook gave to an account of another.

**Sessions** numbers the passwords of one account, and keeps for each refresh token
which password and login it comes from. **ClientSession** numbers token pairs; a tab
has its memory, and shares `storage` with the other tabs; `leader` is the call that
refreshes, `call[t][c].pc = "queued"` the ones that wait. A login is a call like the others:
it is sent, the server opens a session (`Grant`), and only when its answer arrives does
LoginPage put user and tokens into the store, whatever the store has by then; a wrong
password is a 401 that goes through the interceptor. The answer of /auth/me is put beside
the tokens that are there when it arrives (`src/vclop-frontend/src/App.tsx:26`). `crossed` is
history: a profile was asked for while a login was under way, after which it may arrive beside
the tokens of the other user (section 7).

**Access** keeps one user, whose row nothing of another user touches; `held` collects what
the user could do at each moment since a resolution began. The query of the roles includes
their grants: Prisma sends it as several statements, one step here, after which only the
overrides are read (the property speaks of changes between the two queries of the service).
**Transport** and **Collections** keep, per person, what the page was fetched with: the status of
each request in the list (`shown`), and the case a panel was opened with and what was picked on
it since (`panel`). **Organisation** keeps
three tables whose handlers do not meet, apart from a user's seat. **Numbering** writes numbers
as strings of digits: `Width` is the padding and `Base` the number of digits, so
that numbers outgrow the padding within reach. **CreditRisk** is the score as a
function of a report that gets worse from one pull to the next. **Amortization** is the
arithmetic that `Repayments` leaves out: integers are cents, a quotient is rounded half
up as round2 does, and an installment that is a cent short may or may not count as
paid, since the code compares doubles.

**ReviewScreens.** `screen[u]` is what the browser of `u` shows: the page, the status
it was fetched with, the panels that are open. A button of the loan page depends on
the fetched status, a button in a panel only on the panel, so both can be old
(`Refetch` replaces the status and leaves the panels). `Press` sends a call, which carries
the application and the action; `Call`'s `meant` is the stage its button belongs to,
which the server never sees. `serving[u]` is that call on the server with what it has read. The
calls go step by step: transition commits the stage (`Transition`) and writes the status later
(`WritesStatus`); submit writes the status (`Submit`), starts the workflow (`Start`) and takes the
status back when that throws (`Undo`); review and disburse read the status first and the workflow
in a query of its own (`ReadsStage`). A call may fail between any two steps (`Fails`), and its
answer may be lost, so that the screen stays and the button can be pressed again (`Ends`). `tangled`
is history: a call failed halfway, wrote over what another wrote since it read, or undid a
submission that has a workflow. One user of each seeded role that has a part in the approval, and
an administrator.

## 4. Runs

Passing:

| run | module | bounds | what it shows |
|---|---|---|---|
| `interleaved` | `MCLoanApplications` | 1 application of a product that asks for nothing, 2 slots, an administrator and a compliance officer, 1 guarantor, 1 document, 4 row ids; documents, profile and guarantors change where a handler reads them | no loan without both approvals, DISBURSED has its loan, no instance is stuck; every step is a step of `DisbursementPolicy` or a stutter |
| `payments_interleaved` | `MCRepayments` | 2 loans, of 2 installments and of 1, 2 transfers, 2 slots, 3 payments by staff, failures anywhere; handlers that interleave meet at the first loan (`MeetAtFirst`), handlers one at a time (`alone`) use both | a transfer is credited once by the provider's side, nothing is overpaid, a loan is closed exactly when its installments are paid, no money is credited that never came; one at a time, the installments show exactly what was received, oldest first |
| `accounts_interleaved` | `MCVirtualAccounts` | 3 loans (2 of one customer), 2 numbers, 2 slots, failures anywhere | numbers go to their customer unless the webhook strayed one; code and number stay together; details reach their owner |
| `one_at_a_time` | `MCLoanApplications` | 1 application that needs everything, 4 users, 5 row ids, 1 slot | status, workflow, tasks and loan agree, whatever fails halfway |
| `sign_in` | `MCSignIn` | 2 refresh tokens, 2 codes of each kind, up to 3 passwords, the lock at 2 failures, 2 slots (`AccountBound`); or 2 tabs or one, 2 users, 4 pairs for one tab and 3 for several (`TabsBound`) | what survives a change of the password, what works twice, when an account locks; whose profile a tab shows |
| `back_office` | `MCBackOffice` | up to 2 slots, 1 to 3 rows of each table (`RecoveryBound`, `CustomersBound`, `FormsBound`, `OrganisationBound`), customers, departments, products and forms with one request at a time; 4 users of whom 2 have a screen open or a call under way (`ScreensBound`); 27 flat-rate loans of about 1000 cents in 1, 3 or 4 installments | the components around lending keep their books, decisions, tree and forms; decisions land on the stage they were taken on and somebody can take the next; a closed loan has brought in what was quoted |
| `eventually` | `MCEventually` | 2 loans of 2 customers, 1 slot; or 1 tab with 2 calls | a pursued loan gets its number; every call of the client ends, unless its refresh never does |

Violated: `delete_while_disbursing`, `second_loan`, `payment_lost`, `transfer_stuck`,
`number_of_another` (section 7).

**Why the bounds suffice.** Two slots are the smallest number that interleaves, and
every hazard found is between two handlers, one of which may repeat. An application
needs one id for its instance and first task, one for the second task and one for
the loan, so four ids leave one for a RETURN, for a second instance after a removal
or for a second loan; five leave two. Two installments show an order, and amounts 1
to 3 cover a partial payment, an exact one, one that spills into the next
installment and one that exceeds the loan. Three loans of two customers are the
least for which a webhook can choose between a customer's own two accounts and
another's. Three departments are the least for a cycle that two moves close and for
one above another's child. Two passwords and their change are what a session can
outlive; the third is for a code used again after another change. Numbers with two
digits of padding in base two outgrow it at the fourth row, and six rows follow the
wedge. The scores of `CreditRisk` are those on both sides of every threshold of the
code.

**Bounds that cut behaviours**, each named in its module: `MaxSerial`, `MaxByHand`,
`MaxNumbers`, `MaxTokens`, `MaxCodes`, `MaxVersions`, `MaxTried`, `MaxPairs`, `MaxRows`,
`MaxExpenses`, `MaxApps`, `MaxSubmissions` in guards; in the MC modules, as constraints,
`ProfilesWhereRead`, `DocumentsWhereRead` and `GuarantorsOfDrafts` (what no handler
reads at that status does not vary; `one_at_a_time` varies everything); `MeetAtFirst`;
`RepairedEarly` (after the repair calls only fail less, so nothing new is reachable);
and in the side-by-side modules, per component: recovery has edits of balances or handlers
that died, not both, and with two requests in flight neither of them and one expense; two
customers are on record together while neither has applied; templates are edited, or one
that stays is filled in; handlers of branches, of departments and of
products do not meet; two users at a time have a screen open or a call under way, one of them
not both, and two screens or calls in all once calls have failed or crossed, or when an
administrator works through a reviewer's queue; logins race under the lockout load with one
token; of several tabs each has one call in flight. `MaxPairs` bounds logins and refreshes
together: a refresh that finds no pair left can only fail. The theorems hold for every value of the bounds in guards and do
without the constraints.

Deadlock is checked where every state has a step: `payments_interleaved`,
`accounts_interleaved`, `sign_in`, `eventually`. It is not checked for the
applications (a removed application of a customer with nothing left to edit is an
end) nor for `back_office`, where a resolved case, a paid request or a full table may
be one.

`SYMMETRY` is used for slots, for calls of a tab, users and customers, in runs whose
temporal properties are at most action properties; `eventually` has none.

**Some properties and what they are about.** `DetailsReachOwner` relates what a
handler read before an await to the state after it. `EstablishedSessionsEnd` says
which sessions survive a new password: only those whose login or refresh had passed
its check before. `LockedForCause` holds although the counter is written from a
stale read. `ResolvedWasHeld` compares the outcome of two queries with every state in
between; it needs the condition that at most one change fell between them.
`RecoveryBooks` says what remains true of the recovery totals when two handlers lose an
amount, that they never show money nobody verified, and the exact sums one handler at
a time. `DecidedAsShown` rests on each seeded role holding the permission of one stage:
transition asks for the permission of the stage there is, so that an old screen is
refused. `LoneCreationsSucceed` excuses what
makes a lone creation fail: a number that outgrew its padding, a number from the
clock.
`SomeoneCanAct` says that nobody waits for everybody although stage and status are written in
separate calls: it may fail only while a call is between two of its writes, or after one
failed there, wrote over another or undid a submission (`tangled`); and it takes an
administrator only to disburse or to move on what complianceReview approved past the
workflow. `StatusIsPicked` is an action property over old panels: the client sends a status
only when it is not the one the panel was opened with. `PaidWasApproved` rests on the pages
alone, since markPaid asks for nothing.

## 5. Fairness

No job and no timer of the backend repeats anything, so `LoanApplications`,
`Repayments` and `Sessions` are checked without fairness: a request may die, and
every step but a handler's next one waits for a person. What must eventually
happen there is stated as safety: a stage has an open task, a transfer is
reconciled or queued.

Two components do owe an answer, and `eventually` checks them.

- `VirtualAccounts!Fairness`: the event loop resumes a handler whose call has
  returned (`WF` of `Step`); Paystack ends an assignment one way or the other (`WF`);
  staff who pursue a loan repeat the creation or the lookup until it has a number,
  as `src/vclop-backend/docs/VIRTUAL_ACCOUNT_RECOVERY.md` tells them to (`SF`, since
  the slot may be taken by others); faults are repaired some day (`WF` of `Settle`),
  not before. `EveryLoanNumbered` then names each reason for which a loan may wait
  for ever all the same: the customer has no readable BVN, an assignment was refused
  (nothing asks again for an account that exists), a number has strayed, or the
  customer has a second loan.
- `ClientSession!Fairness`: every call is answered or times out (the axios instance has a
  timeout, `src/vclop-frontend/src/lib/axios.ts:9`), and a tab that was told to load a page
  does. Nothing is assumed about what the answer is, and nothing about the refresh, which is
  posted without that timeout (`axios.ts:62`). `CallsEnd`: each call is resolved or rejected,
  those that queued behind a refresh included, unless the refresh of its tab never settles.

## 6. Proofs

Every invariant and every action property that a passing run checks is a theorem of the table
in `PROJECT.json`. The
theorems hold for all values of the constants under these named assumptions, which TLC
evaluates on every run:

- types of the constants: `ConstantsAssumption`, `BoundAssumption`, `LoansAssumption`
  (a schedule is not empty and asks for something in each installment; amounts are
  positive), `ByHandAssumption`, `AccountsAssumption`, `BoundsAssumption`;
- `AmountsPositive`: amounts of recovery are positive (`@Min(0.01)`,
  `recovery/dto/create-recovery-payment.dto.ts:11`, `create-recovery-expense.dto.ts:16`),
  opening balances integers, payments finitely many rows;
- `ReportsCounted`, `TermsCounted`, `DigitsCounted`: scores, counts, debts, principals,
  rates and terms are natural numbers, a month has days, a base has digits, and a number
  is padded to at most 16 (six in the code);
- `CustomersApart`, `DepartmentsApart`, `NoneNoRow`, `NamesApart`: null is no value;
- `RolesSeeded`, `RolesStaffed`: every user has one of the seeded roles, each of them
  has a user, and a loan officer created the application (`src/vclop-backend/prisma/seed.ts`).

Strengthenings (`ApprovalChain`, `RemovalIsStale`, `Entitlement`, `LoneInv`, ...) are
stated in the proof modules; no run lists them.

**One request at a time.** Four proof modules have theorems of this kind, and all use
the same argument: what the handler in flight read at its last await is still the
table's, since nobody else ran. In the side-by-side modules the hypothesis is
`alone`, in `LoanApplications_proofs` it is `OneAtATime`, that `Requests` is a
singleton. A handler may still die at each await, so the rows must be in order
between any two writes of a handler, and not only when it ends.

**`LoanApplications_proofs`**

- `TypeCorrect`: `Spec => []TypeOK`, one lemma per group of actions.
- `TwoStageCorrect`: `Spec => [](ApprovalChain /\ TwoStageApproval)`. Neither the
  status nor the loan tells why an approval happened, so `TwoStageApproval` is
  not inductive. `ApprovalChain` strengthens it on two sides. For rows: an
  instance at a stage has the approvals up to it. For handlers: one about to
  commit an edge holds the id of an instance that had the approvals up to the
  edge's source when it was read. That read may be stale, but approvals are
  never withdrawn and belong to an instance id, and a deleted instance's id is
  never used again; so the approvals still hold of the instance that is written,
  or the write fails.
- `DisbursedCorrect`: `Spec => [](RemovalIsStale /\ DisbursedHasLoan)`. A removal
  in flight holds the loan id it read. If the application reads DISBURSED when
  the removal commits, a disbursement came after the read and made a loan with a
  fresh id, so the removal's delete misses.
- `TaskCorrect`: `Spec => []StageHasOpenTask`. A transition completes only tasks it
  read and adds one for a stage that is not terminal; a claim moves a task.
- `PolicyCorrect`: `Spec => ImplementsPolicy`, from `ApprovalChain` and
  `RemovalIsStale`: each step maps to `ComplianceClears`, `ControlClears`,
  `PayOut`, `Withdraw` or a stutter.
- `TasksAlone`, `StatusAlone`, `LoanAlone`: `OneOpenTask`, `ApprovedStatusBacked` and
  `LoanKeepsApplication` under `OneAtATime`. They need each other: that a late status
  write does not fall on a disbursed application rests on transition having found an
  open task, which an instance that ended does not have, and on a loan having an ended
  instance. `LoneHandler` carries this across the awaits: whoever is about to write a
  status, an instance or a loan does it for an application that has no loan.

**`Repayments_proofs`**

- `TypeCorrect` and `OverpaidCorrect`: `Spec => []TypeOK`, `Spec => []NeverOverpaid`. They
  need each other: that a share is a natural number rests on the amounts read
  being within the schedule. The argument never asks what the older
  installments left of the payment: `ShareBound` holds for any value of it.
- `PaidCorrect`, `ClosedCorrect`: `PaidLoanIsClosed` and `ClosedOnlyWhenPaid`. The
  transaction compares the installments as they are after its own writes, and
  within the schedule "none left unpaid" is equality with `Due`.
- `CreditCorrect`, `ReconciledCorrect`: `Entitlement`, `ProviderOnce` and
  `ReconciledIsCredited`. `ProviderOnce` alone is not inductive. `Entitlement` says why a
  second handler cannot come to a transfer: the one that inserted the row is alone with it
  while the row is MATCHED and has no repayment; Accounting starts only from
  UNMATCHED, which no row credited for the provider's side ever is; and a handler
  that is about to mark a transfer has credited it. The unique key on the
  provider's reference is what the argument hangs on (its mutant breaks it).
- `CreditedCorrect`: `CreditedWasReceived`, for interleaving payments. The sum of the
  installments may jump up as well as down, since a stale write replaces some of
  them. `CoverInv` looks at each installment apart: there are amounts, one per
  installment, that are above everything the table shows and everything any handler in
  flight has read, and whose sum is at most what was received. A payment raises
  them by its shares, whose sum is at most the payment, and its row enters in the same
  transaction.

**`RepaymentsAlone_proofs`**: `AloneBalance`, `MCSpec => []AloneBooks`. With one payment at
a time the installments show exactly what was received (up to what they ask for),
oldest first, and a loan is COMPLETED exactly while they are paid. `SharesSpread` is
the loop of applyRepayment: the oldest installments take what they ask for as long as
the payment lasts, and the sum of the shares is the payment or all that was asked.
`SeenIsSo` says that what was read to compute the shares is the table's.

**`Sums_proofs`**: `MapThenSumSet` of the community modules is a fold that takes elements in
the order CHOOSE gives. That it is a sum in any order needs induction over the set,
which the library's theorems cannot give here; it is proved from the least counterexample
instead: the sums over all subsets of at most `n` elements are a function whose existence
is shown for the least `n` that lacks one. From it follow the sum of a set with one more
element, of two functions, and bounds by the summands.

**`VirtualAccounts_proofs`**: `TypeCorrect`, `Owned`, `CodeWithNumber` and
`DetailsToOwner`, all from one inductive invariant, `IInv`:

- `TableInv`: the number of a row belongs to its code (`AccountOK`), and, unless
  strayed, to its customer.
- `RowsInv`: the order of rows has each row once.
- `PaystackInv`: what is announced was issued.
- `HandlersInv`: what a handler holds across an await (a number with its code, a
  code with its customer) was true when it was read, and stays so because numbers
  are issued once and `strayed` only grows. This is where the stale reads of the
  lookup and of the webhook come in: they overwrite a row with a pair that is
  consistent in itself, whatever the row has by then.

**`SignIn_proofs`**

- `TypeCorrect`, `EstablishedEnd` and `LockedAfterTries`, for requests that interleave. The
  sessions: a live token carries the version of the password at its insertion, and the
  versions can only differ while some handler stands before its last call, or one ended
  there (`Revoking`); a token that a login or a refresh inserts after its checks carries
  the version of that moment, so stale checks do no harm to this property. The lock:
  `failed` is written from what was read, but what was read is always below the wrong
  passwords tried (`HandlerOK`), and `tried` only grows.
- `AloneInOrder`: with one request at a time, which may die anywhere, live sessions are of
  the present password, one per login, and a link or a code works once. `AloneInv` adds
  that a link or code which has not been used is unspoilt, and what the handler in
  flight holds (`HeldAlone`): the code it is about to spend, the token it replaces.
- `TabsOrder`: whoever a tab shows owns its tokens, unless `crossed` says that a profile was
  asked for while a login was under way. `BrowserInv` says of everything that a
  tab, a call in flight, a queue behind a refresh or localStorage carries that it was
  issued, and to whom; owners never change (`Lasting`). A profile in flight belongs to the
  owner of the tokens in the store (`ProfileInv`): a refresh replaces them by the same user's,
  and a login, which could bring another's, has no other call beside it (`LoginAlone`). `SoleInv` adds, for one open
  tab, which token is the good one at each point of a refresh or a login, so that the tab
  neither loses its session to its own rotation nor leaves one behind at logout, unless the
  history variable `broken` says that an answer was lost, that the page was reloaded during a
  refresh or before a login that was granted had answered, or that a logout overlapped a
  refresh.

**`BackOfficeRecords_proofs`** and **`BackOfficeReviews_proofs`** are about `MCBackOffice`, whose
running component changes its own state only, so that an invariant of a component is
one of the whole.

- `RemovedIsBareAlone`: what remove counted is so until the row is marked (`BareInv`). The
  statuses that other components write never make a row, because only rows are live, apply or
  have a loan (`CustomersIInv`).
- `HeadOfficeKeptOpen`: a branch on its way to be closed is a row, and only an insertion,
  which fails on a row, makes a head office.
- `OrganisedAlone`: one head office, no cycle among departments, limits in order.
  `Acyclic` is stated without paths: among any departments one has its parent outside.
  A move that climbs from the new parent has not met the department it moves, and the
  departments it has been at contain their parents but for its last stop (`ClimbOK`); when
  it comes to the top, none of them can be in a cycle with the one that moves.
- `StatusesPicked`: an action property. A panel on which no status was picked holds the one
  it was opened with (`CasesInv`), however old, and the client sends a status only when it
  is another one; so whatever a save writes was picked.
- `OneFormAlone`: a handler about to write a default has taken the flag from all the others,
  and one about to store a submission has found none; one at a time, both are still so
  (`FlagOK`, `FormsAloneInv`).
- `LoneCreationsNumbered`: until the clock is asked or the padding outgrown, the table
  has the numbers from 1 on without a gap and every candidate in flight is at most the
  next one (`NumbersInv`), however stale what it was drawn from. So the greatest string is the
  greatest number, and a creation without company holds a free one. That a number below
  the power of the padding has no more digits than it rests on `Powers`: the powers of
  `Base` are a recursive function, whose existence and growth are proved by the least
  counterexample, as the sums are.
- `ResolvedHeld`: between the two queries the set read from the roles is what they give
  now, until a change. After one, either the roles changed and the overrides did not, or
  the other way round; in both cases applying the overrides gives what the user could
  do on one side of it (`Knows`). After two, nothing holds.
- `DecisionsAsShown`: a screen may be as old as it likes: which queue it shows and which
  panel is open go by the user's role (`ScreenOK`), roles do not change while a screen is
  open, and no role but the administrator's may act for both stages (`OneStageEach`). A call
  on the server has passed the permission of the stage that it read (`ServedOK`), so that
  this stage is the one its button belongs to, unless an administrator pressed it
  (`TakenAsMeant`).
- `SomeoneActs`: `Fits` says which status goes with which stage. `Settled`: they fit, or a
  call stands between two of its writes (`Halfway`), or calls have `tangled`. What another
  call writes meanwhile either leaves alone what the first one read, or tangles. `ActorThere`
  then gives for every pair that fits the role whose page offers a call that the server
  accepts.
- `PaidWereApproved`: what a page shows as approved was approved once, and is in a history
  that only grows (`TransportInv`), whatever a later review does to the row; so reviews may
  race.
- `RecoveryKeepsBooks`: for requests that interleave, the verified payments and the
  expenses only grow, and what a handler read of the totals is bounded by them, so that what it
  writes is too, though it may lose what another wrote. One at a time: the totals are the sums.
- `WorseNeverSafer`: the percentage of late payments is monotone in each count, by the
  arithmetic of the quotient; every other part of the score is a table of thresholds.
- `LoansCloseNearQuote`: an installment that is PAID lacks a cent at most, and asks for
  its share of the total within half a cent, so a loan of `n` installments closes
  with at most `3n/2` cents less or `n/2` more than was quoted.

**Only model-checked.** Liveness (`EveryLoanNumbered`, `CallsEnd`), which is out of the
provers' reach. The five violated runs are counterexamples and no theorem's business.

## 7. Where the code departs from what it says

Each of these is a run whose property states a comment or document of the
repository, and which TLC finds violated. `PROJECT.json` quotes the lines.

- `delete_while_disbursing`: a transition commits its stage, the other approval
  and the disbursement run, then the transition's late status write replaces
  DISBURSED; remove's guard passes and the loan goes.
- `second_loan`: NEEDS_ATTENTION does not block a new application, which takes no
  concurrency. With `Decisions = {"APPROVE"}`, so that no application is returned,
  the property holds for two applications and one slot.
- `payment_lost`: a payment writes absolute amounts computed from installments read
  before another payment. The same stale write reopens an installment of a loan
  that another payment has closed meanwhile.
- `transfer_stuck`: a transfer inserted as MATCHED whose repayment is refused is
  neither reconciled nor in the queue.
- `number_of_another`: the success event of one customer's account is written to the
  newest placeholder, which may be another customer's.

The models show more of this kind; each can be seen by stating the property and
running it.

- complianceReview's "permanently reject" leaves the workflow open, and the next
  transition writes its stage over REJECTED (`loan-applications.service.ts:1168`).
- complianceReview approves past the workflow that "all approvals MUST go through"
  (`:509`, `:1116`).
- Two uploads of one required type pass the document check for two types (`:468`).
- Two resolutions of one unmatched transfer credit it twice
  (`virtual-accounts.service.ts:774`).
- Two creations for one customer both pass the checks of create
  (`loan-applications.service.ts:268`); removeGuarantor asks for no status (`:370`).
- The rollback of submit always writes DRAFT: an application out for changes that is
  submitted again, which the comment on the guard allows (`:402`), ends there, since its
  instance exists (`StartFails`).
- The transaction of recovery's account numbers, "to avoid race conditions"
  (`recovery.service.ts:28`), reads without a lock and avoids none.
- A disbursement and a last repayment write the customer's status over BLACKLISTED
  (`loan-applications.service.ts:668`, `:763`).
- A profile that was asked for while a login was under way may arrive after the login and
  be shown beside the tokens of the other user (`src/vclop-frontend/src/App.tsx:26`,
  `.../pages/auth/LoginPage.tsx:35`).
- The refresh is posted without the timeout of the instance (`axios.ts:62`): one that never
  settles leaves every call that queued behind it pending until the page is loaded again.
- markPaid asks for no status (`transport.service.ts:85`), and a review in flight makes
  a paid request payable again, or reverses a decision (`:78`).
- Opening a case that ended leaves it ended (`collections.service.ts:84`), and an empty
  write-off reason replaces the one given (`:91`).
- Once numbers outgrow their padding, the highest string stays the last padded one.
- The head office flag is taken away before an insert that can fail, and two
  racing creations leave two head offices (`branches.service.ts:79`).
- update of a department accepts a deleted parent (`departments.service.ts:112`).
- A lock expires (`Lockout Duration (minutes)`, `src/vclop-backend/prisma/seed.ts:143`)
  and leaves the status LOCKED, which login ignores and the check on every later
  request does not.
- changePasswordWithOtp spends the code before it judges the new password
  (`auth.service.ts:393`).
- Once complianceReview has approved, internal control's decision is refused, since the
  workflow is still at COMPLIANCE_REVIEW, whose permission that role does not have:
  the client's two ways to approve for compliance do not lead to the same place
  (`src/vclop-frontend/src/pages/loans/LoanDetailPage.tsx:153`,
  `.../compliance/ComplianceReviewPanel.tsx:168`).
- An administrator holds the permission of every stage, so that an approval pressed
  again after a lost answer approves the next stage too.
- Internal control's "Confirm Rejection" on the loan page calls review, which asks for
  another permission and another status: it is always refused
  (`LoanDetailPage.tsx:431`, `loan-applications.service.ts:519`).
- The compliance panel offers RETURN and REQUEST_INFORMATION, for which the seeded
  definition has no edge (`ComplianceReviewPanel.tsx:1016`).
- `bvnEncrypted` stays as it was when a BVN is changed (`customers.service.ts:298`), and
  `createForLoan` decrypts it (`virtual-accounts.service.ts:271`).

## 8. Not modelled

- The reducing-balance schedule: a power of a fraction, in doubles.
- Targets and performance, reports, dashboard, reconciliation, receipts: they aggregate
  or render rows that the components above write, and write nothing those read.
- Notifications and the audit log: written on events, read by no component. That
  writing a notification may fail inside start is in `StartFails`.
- Settings, storage, health, configuration, guards other than the permission guard,
  filters, DTO validation, encryption: framework configuration, single-row
  key-value writes and I/O.
- The compliance assessment row: whoever writes last wins, and no component reads it.
- Recovery's promises, activities and documents, the assignment, dates and activities of
  collections cases, the cloning and reordering of forms,
  e-mail verification, profile fields of users: single rows that no check reads.
- The pages of the client other than the approval screens, the list of transport requests
  and the panel of a collections case: forms and tables over the API. Two thirds of the lines of
  this repository are pages, DTOs, controllers that forward to a service, and
  queries, which is why the mapped share of lines is far below the modelled share of
  the state changes.
- SQL run by hand on production data.

## 9. What is left

1. A composition of `VirtualAccounts` and `Repayments` in one module, so that a strayed
   number is followed to the installment it credits.
2. The reducing-balance schedule, with its rounding.
3. The components of section 8 that write rows of their own: officer targets,
   promises and activities of recovery, settings.
