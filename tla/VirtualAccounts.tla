---------------------------- MODULE VirtualAccounts ----------------------------
(***************************************************************************)
(* How a loan gets the bank account number its customer pays to:            *)
(* VirtualAccountsService and the Paystack provider behind it. A number is  *)
(* issued at once (multi-step), or promised (/assign) and announced later   *)
(* by the dedicatedaccount.assign.success webhook, or looked up by hand     *)
(* when that webhook never came. Staff repeat for all loans what failed for *)
(* some (docs/VIRTUAL_ACCOUNT_RECOVERY.md).                                  *)
(*                                                                         *)
(* Paystack is external: the variables issued, assigning, announced and     *)
(* refused are what it knows. Whatever the other modules call a virtual     *)
(* account with a number is a loan with number[l] \in Numbers here.         *)
(***************************************************************************)
EXTENDS Integers, Sequences, FiniteSets

CONSTANTS
  Loans,       \* disbursed loans
  Customers,   \* their customers
  CustomerOf,  \* loan -> its customer
  Identified,  \* customers with a readable BVN of eleven digits
  Banked,      \* customers with a bank account and bank code
  Repaired,    \* whether what makes calls fail is repaired some day
  MaxNumbers,  \* bound: how many account numbers Paystack may issue
  Pursued,     \* the loans staff try again until they have a number
  Requests,    \* request slots: how many handlers may be in flight at once
  None         \* no row, no number, nobody

ASSUME AccountsAssumption ==
  /\ CustomerOf \in [Loans -> Customers]
  /\ Identified \subseteq Customers /\ Banked \subseteq Customers
  /\ MaxNumbers \in Nat /\ Repaired \in BOOLEAN
  /\ Pursued \subseteq Loans
  /\ None \notin Loans \cup Customers

\* An account number is its place in the order in which Paystack issues them.
Numbers == 1 .. MaxNumbers

\* What accountNumber holds before there is a row, and until the real one is known.
NoNumber == 0
Pending == -1

VARIABLES
  number,     \* [Loans -> accountNumber of its row], NoNumber before there is one
  code,       \* [Loans -> whose provider customer code the row carries]
  rows,       \* the loans with a row, in the order of createdAt
  strayed,    \* history: customers a number of whom went to another's account
  issued,     \* Paystack: the customers numbers were issued to, in order
  assigning,  \* Paystack: customers with an assignment in progress
  announced,  \* Paystack: numbers whose success event is sent, once or more
  refused,    \* Paystack: customers an assignment of whom has failed
  settled,    \* no call fails from now on
  req         \* [Requests -> handler state]

table == <<number, code, rows, strayed>>
paystack == <<issued, assigning, announced, refused>>
vars == <<table, paystack, settled, req>>

-----------------------------------------------------------------------------
(* State *)

PC == {"idle", "existing", "provider", "insert", "dvaWrite",
       "pending", "lookup", "syncWrite", "put"}

\* What a handler holds: the loans a bulk operation has left, the loan it is
\* at, the number it was given with the customer code that goes with it, and
\* the customer whose details it writes.
Handler == [pc : PC, kind : {"create", "sync", "dva", "push"}, todo : SUBSET Loans,
            loan : Loans \cup {None}, number : Numbers \cup {NoNumber, Pending},
            code : Customers \cup {None}, customer : Customers \cup {None}]

Idle == [pc |-> "idle", kind |-> "create", todo |-> {}, loan |-> None, number |-> NoNumber,
         code |-> None, customer |-> None]

TypeOK ==
  /\ number \in [Loans -> Numbers \cup {NoNumber, Pending}]
  /\ code \in [Loans -> Customers \cup {None}]
  /\ rows \in Seq(Loans) /\ \A i, j \in DOMAIN rows : rows[i] = rows[j] => i = j
  /\ strayed \subseteq Customers
  /\ issued \in Seq(Customers) /\ Len(issued) <= MaxNumbers
  /\ assigning \subseteq Customers
  /\ announced \subseteq Numbers
  /\ refused \subseteq Customers
  /\ settled \in BOOLEAN
  /\ req \in [Requests -> Handler]
  /\ \A r \in Requests : req[r].pc # "idle" /\ req[r].kind \in {"create", "sync"} =>
                            req[r].loan \in Loans

Init ==
  /\ number = [l \in Loans |-> NoNumber]
  /\ code = [l \in Loans |-> None]
  /\ rows = <<>>
  /\ strayed = {}
  /\ issued = <<>>
  /\ assigning = {} /\ announced = {} /\ refused = {}
  /\ settled = FALSE
  /\ req = [r \in Requests |-> Idle]

-----------------------------------------------------------------------------
(* Helpers *)

Finish(r) == req' = [req EXCEPT ![r] = Idle]

\* The handler is done with its loan; a bulk operation, which catches what
\* happened to one loan, goes on to the next.
NextLoan(r) ==
  \/ req[r].todo = {} /\ Finish(r)
  \/ \E l \in req[r].todo :
       req' = [req EXCEPT ![r] = [Idle EXCEPT
                 !.kind = req[r].kind, !.loan = l, !.todo = req[r].todo \ {l},
                 !.pc = IF req[r].kind = "sync" THEN "pending" ELSE "existing"]]

Begin(r, kind, pc, l) ==
  req' = [req EXCEPT ![r] = [Idle EXCEPT !.kind = kind, !.pc = pc, !.loan = l]]

\* The column takes 20 characters of PENDING-<customer id>-<time>: what is kept
\* names the customer and not the time. Numbers are Paystack's own.
SamePlaceholder(l, m) == CustomerOf[l] = CustomerOf[m]

\* accountNumber is unique: what loan l may write.
Free(l, n) ==
  \A m \in Loans \ {l} :
    /\ n \in Numbers => number[m] # n
    /\ n = Pending => ~(number[m] = Pending /\ SamePlaceholder(l, m))

\* loanId is unique: whether the insert of a row for the loan succeeds.
NoRow(l) == number[l] = NoNumber

\* Loans of findLoansWithoutVirtualAccounts, accounts of findPendingVirtualAccounts.
MissingLoans == {l \in Loans : NoRow(l)}
PendingLoans == {l \in Loans : number[l] = Pending}

\* A row gets a number and the customer code it belongs to, together.
WriteNumberOnly(l, n, c) ==                             \* mutant: the old code stays
  number' = [number EXCEPT ![l] = n] /\ UNCHANGED code
WriteNumber(l, n, c) ==
  /\ number' = [number EXCEPT ![l] = n]
  /\ code' = [code EXCEPT ![l] = c]

-----------------------------------------------------------------------------
(* createForLoan and what calls it *)

\* handleLoanDisbursed, which swallows every error, so that the loan may stay
\* without an account; createForLoanApplication, by which staff try again.
CreateForLoan(r, l) ==
  /\ req[r].pc = "idle"
  /\ Begin(r, "create", "existing", l)
  /\ UNCHANGED <<settled, table, paystack>>

BulkCreateMissing(r) ==
  LET listed == {l \in MissingLoans : CustomerOf[l] \in Banked}
  IN  /\ req[r].pc = "idle"
      /\ \E l \in listed :
           req' = [req EXCEPT ![r] = [Idle EXCEPT !.pc = "existing", !.loan = l,
                                                    !.todo = listed \ {l}]]
      /\ UNCHANGED <<settled, table, paystack>>

\* An account that exists is returned as it is; no BVN, no account.
CheckAccount(r) ==
  LET l == req[r].loan
  IN  /\ req[r].pc = "existing"
      /\ \/ /\ number[l] = NoNumber /\ CustomerOf[l] \in Identified
            /\ req' = [req EXCEPT ![r].pc = "provider"]
         \/ /\ number[l] # NoNumber \/ CustomerOf[l] \notin Identified
            /\ NextLoan(r)
      /\ UNCHANGED <<settled, table, paystack>>

\* Paystack issues a number to a customer: one it has, or a fresh one. Bound:
\* fresh numbers are left for the customers that have none.
Unserved == {c \in Customers : \A n \in DOMAIN issued : issued[n] # c}

IssueTo(c, n) ==
  \/ /\ n \in DOMAIN issued /\ issued[n] = c
     /\ UNCHANGED issued
  \/ /\ n = Len(issued) + 1
     /\ c \in Unserved \/ n + Cardinality(Unserved) <= MaxNumbers
     /\ issued' = Append(issued, c)

\* createViaMultiStep: customer, identification, dedicated account.
CreateViaMultiStep(r) ==
  LET c == CustomerOf[req[r].loan]
  IN  /\ req[r].pc = "provider"
      /\ \E n \in Numbers :
           /\ IssueTo(c, n)
           /\ req' = [req EXCEPT ![r].pc = "insert", ![r].number = n]
      /\ UNCHANGED <<settled, table, assigning, announced, refused>>

\* It failed, and /assign accepts the request: a placeholder for now.
SubmitAssign(r) ==
  /\ req[r].pc = "provider"
  /\ assigning' = assigning \cup {CustomerOf[req[r].loan]}
  /\ req' = [req EXCEPT ![r].pc = "insert", ![r].number = Pending]
  /\ UNCHANGED <<settled, table, issued, announced, refused>>

\* The insert, which two unique keys may refuse: the loan's, or the number's.
InsertAccount(r) ==
  LET l == req[r].loan
      n == req[r].number
  IN  /\ req[r].pc = "insert"
      /\ \/ /\ NoRow(l) /\ Free(l, n)
            /\ WriteNumber(l, n, IF n = Pending THEN None ELSE CustomerOf[l])
            /\ rows' = Append(rows, l)
            /\ UNCHANGED strayed
         \/ /\ ~(NoRow(l) /\ Free(l, n))
            /\ UNCHANGED table
      /\ NextLoan(r)
      /\ UNCHANGED <<settled, paystack>>

-----------------------------------------------------------------------------
(* The announcement: Paystack assigns, and tells *)

\* External: an assignment ends with a number and its event, or in failure,
\* whose event handleWebhook ignores.
AssignSucceeds(c) ==
  /\ c \in assigning
  /\ \E n \in Numbers : IssueTo(c, n) /\ announced' = announced \cup {n}
  /\ assigning' = assigning \ {c}
  /\ UNCHANGED <<settled, table, refused, req>>

AssignFails(c) ==
  /\ c \in assigning
  /\ assigning' = assigning \ {c}
  /\ refused' = refused \cup {c}
  /\ UNCHANGED <<settled, table, issued, announced, req>>

\* handleDvaAssigned: the event is delivered for the first time or again, and
\* goes to the newest row with a placeholder, whoever its customer is.
NewestPending ==
  {rows[i] : i \in {j \in DOMAIN rows :
                      /\ number[rows[j]] = Pending
                      /\ \A k \in j + 1 .. Len(rows) : number[rows[k]] # Pending}}

HandleDvaAssigned(r, n) ==
  /\ req[r].pc = "idle" /\ n \in announced
  /\ \E l \in NewestPending :
       req' = [req EXCEPT ![r] = [Idle EXCEPT !.kind = "dva", !.pc = "dvaWrite", !.loan = l,
                                               !.number = n, !.code = issued[n]]]
  /\ UNCHANGED <<settled, table, paystack>>

DvaWrite(r) ==
  LET l == req[r].loan
      n == req[r].number
  IN  /\ req[r].pc = "dvaWrite"
      /\ \/ /\ Free(l, n)
            /\ WriteNumber(l, n, req[r].code)
            /\ strayed' = strayed \cup ({req[r].code} \ {CustomerOf[l]})
            /\ UNCHANGED rows
         \/ ~Free(l, n) /\ UNCHANGED table
      /\ Finish(r)
      /\ UNCHANGED <<settled, paystack>>

-----------------------------------------------------------------------------
(* Looking the number up: syncFromPaystack and its bulk form *)

SyncFromPaystack(r, l) ==
  /\ req[r].pc = "idle" /\ number[l] = Pending
  /\ Begin(r, "sync", "lookup", l)
  /\ UNCHANGED <<settled, table, paystack>>

BulkSyncPending(r) ==
  /\ req[r].pc = "idle"
  /\ \E l \in PendingLoans :
       req' = [req EXCEPT ![r] = [Idle EXCEPT !.kind = "sync", !.pc = "pending", !.loan = l,
                                              !.todo = PendingLoans \ {l}]]
  /\ UNCHANGED <<settled, table, paystack>>

\* The bulk form calls syncFromPaystack for each account of its list, which reads
\* the account again.
CheckPending(r) ==
  /\ req[r].pc = "pending"
  /\ \/ number[req[r].loan] = Pending /\ req' = [req EXCEPT ![r].pc = "lookup"]
     \/ number[req[r].loan] # Pending /\ NextLoan(r)
  /\ UNCHANGED <<settled, table, paystack>>

\* Paystack's answer for the customer's email. The account is not read again: the
\* webhook may have given it a number meanwhile.
FoundByOtherEmail(l) == {}                            \* mutant: a default email of its own
FoundAnyones(l) == DOMAIN issued             \* mutant: not by email
FoundFor(l) == {n \in DOMAIN issued : issued[n] = CustomerOf[l]}

LookUp(r) ==
  LET l == req[r].loan
  IN  /\ req[r].pc = "lookup"
      /\ \/ \E n \in FoundFor(l) :
              req' = [req EXCEPT ![r].pc = "syncWrite", ![r].number = n]
         \/ FoundFor(l) = {} /\ NextLoan(r)
      /\ UNCHANGED <<settled, table, paystack>>

SyncWrite(r) ==
  LET l == req[r].loan
      n == req[r].number
  IN  /\ req[r].pc = "syncWrite"
      /\ \/ /\ Free(l, n)
            /\ WriteNumber(l, n, CustomerOf[l])
            /\ UNCHANGED <<rows, strayed>>
         \/ ~Free(l, n) /\ UNCHANGED table
      /\ NextLoan(r)
      /\ UNCHANGED <<settled, paystack>>

-----------------------------------------------------------------------------
(* Keeping Paystack's record of a customer up to date *)

\* handleCustomerDetailsUpdated and syncCustomerToPaystack: the first of the
\* customer's accounts tells the code to write to.
AccountsOfAll(c) == {l \in Loans : code[l] # None}           \* mutant: anybody's account
AccountsOf(c) == {l \in Loans : CustomerOf[l] = c /\ code[l] # None}

ReadCode(r, c) ==
  /\ req[r].pc = "idle"
  /\ \E l \in AccountsOf(c) :
       req' = [req EXCEPT ![r] = [Idle EXCEPT !.kind = "push", !.pc = "put",
                                              !.code = code[l], !.customer = c]]
  /\ UNCHANGED <<settled, table, paystack>>

PutDetails(r) ==
  /\ req[r].pc = "put"
  /\ Finish(r)
  /\ UNCHANGED <<settled, table, paystack>>

\* A call throws, or the process dies, at any await. In a bulk operation a call
\* that throws costs one loan, a crash all that are left.
Fail(r) ==
  /\ req[r].pc # "idle" /\ ~settled
  /\ \/ Finish(r)
     \/ req[r].todo # {} /\ NextLoan(r)
  /\ UNCHANGED <<settled, table, paystack>>

\* Whatever was failing is repaired.
Settle ==
  /\ Repaired /\ ~settled
  /\ settled' = TRUE
  /\ UNCHANGED <<table, paystack, req>>

-----------------------------------------------------------------------------
(* Specification *)

Endpoint(r) ==
  \/ \E l \in Loans : CreateForLoan(r, l) \/ SyncFromPaystack(r, l)
  \/ BulkCreateMissing(r) \/ BulkSyncPending(r)
  \/ \E n \in Numbers : HandleDvaAssigned(r, n)
  \/ \E c \in Customers : ReadCode(r, c)

Step(r) ==
  \/ CheckAccount(r) \/ CreateViaMultiStep(r) \/ SubmitAssign(r) \/ InsertAccount(r)
  \/ DvaWrite(r) \/ CheckPending(r) \/ LookUp(r) \/ SyncWrite(r) \/ PutDetails(r)

Next ==
  \/ \E r \in Requests : Endpoint(r) \/ Step(r) \/ Fail(r)
  \/ \E c \in Customers : AssignSucceeds(c) \/ AssignFails(c)
  \/ Settle

Spec == Init /\ [][Next]_vars

-----------------------------------------------------------------------------
(* Fairness. No timer repeats anything: what is fair is the event loop, which    *)
(* resumes a handler, and staff who follow docs/VIRTUAL_ACCOUNT_RECOVERY.md and  *)
(* repeat the creation or the lookup for a loan they care about until it is      *)
(* done. Faults may come at any time, but from some time on there are none.      *)

Fairness ==
  /\ WF_vars(Settle)
  /\ \A r \in Requests : WF_vars(Step(r))
  /\ \A c \in Customers : WF_vars(AssignSucceeds(c) \/ AssignFails(c))
  /\ \A l \in Pursued :
       /\ SF_vars(\E r \in Requests : CreateForLoan(r, l))
       /\ SF_vars(\E r \in Requests : SyncFromPaystack(r, l))

FairSpec == Spec /\ Fairness

-----------------------------------------------------------------------------
(* Properties *)

\* A number on an account was issued to the customer of its loan, unless the
\* webhook ever gave a number of that customer's to another: what
\* createForLoan and syncFromPaystack write, they write for the right customer,
\* whatever arrives in between (virtual-accounts.service.ts:296, 842).
OwnedUnlessStrayed ==
  \A l \in Loans :
    number[l] \in Numbers =>
      issued[number[l]] = CustomerOf[l] \/ issued[number[l]] \in strayed

\* The provider customer code of an account is the one its number was issued
\* to, though the webhook and the lookup overwrite each other's rows: details
\* are pushed to the code, payments come to the number.
CodeGoesWithNumber ==
  \A l \in Loans : number[l] \in Numbers => code[l] = issued[number[l]]

\* A handler that puts a customer's details puts them to that customer's own
\* code, read before the call and perhaps overwritten since, unless a number of
\* the code's owner has strayed (virtual-accounts.service.ts:98).
DetailsReachOwner ==
  \A r \in Requests :
    req[r].pc = "put" =>
      req[r].code = req[r].customer \/ req[r].code \in strayed

\* A disbursed loan gets a number in the end when staff keep at it, its customer
\* is identified and has no other loan, Paystack never refused them an
\* assignment, and no number has strayed. Each condition is needed: a refused
\* assignment leaves the placeholder for ever, because nothing asks again for an
\* account that exists; a second loan may be given the number of the first.
EveryLoanNumbered ==
  \A l \in Pursued :
    CustomerOf[l] \in Identified ~>
      \/ number[l] \in Numbers
      \/ CustomerOf[l] \in refused
      \/ strayed # {}
      \/ \E m \in Loans \ {l} : CustomerOf[m] = CustomerOf[l]

\* What the comment above the query of handleDvaAssigned says it finds: the
\* account of this Paystack customer (virtual-accounts.service.ts:393).
NumberReachesItsCustomer == strayed = {}
=============================================================================
