-------------------------------- MODULE Customers -------------------------------
(***************************************************************************)
(* Customers: registration, changes, documents and removal, with the unique  *)
(* keys of the table. A row stays when a customer is removed: deletedAt is   *)
(* set, and the row keeps its phone number and its BVN.                      *)
(*                                                                         *)
(* Handlers check, and write later what they checked. An application is what *)
(* LoanApplications makes it, reduced here to its check of the customer and  *)
(* the insertion that follows.                                               *)
(***************************************************************************)
EXTENDS Integers, FiniteSets

CONSTANTS
  Customers,  \* rows of customers
  Phones,     \* values of a unique key every customer has; e-mail is another
  Bvns,       \* values of the key that is also stored encrypted; NIN is another
  MaxApps,    \* bound: applications of a customer
  Requests,   \* handlers in flight
  None        \* no value

VARIABLES
  customer,  \* [Customers -> row]
  docs,      \* the customers with documents
  apps,      \* [Customers -> number of applications on record]
  lent,      \* the customers with a running loan
  handler    \* [Requests -> handler in flight]

vars == <<customer, docs, apps, lent, handler>>

Statuses == {"REGISTERED", "ELIGIBLE", "ACTIVE_BORROWER", "BLACKLISTED"}   \* of eight
Row == [status : Statuses \cup {None}, phone : Phones \cup {None},
        bvn : Bvns \cup {None}, sealed : Bvns \cup {None}, live : BOOLEAN]
NoRow == [status |-> None, phone |-> None, bvn |-> None, sealed |-> None, live |-> FALSE]

Handler == [op : {"none", "register", "update", "remove", "upload", "apply"},
            step : 0 .. 3, customer : Customers \cup {None},
            phone : Phones \cup {None}, bvn : Bvns \cup {None}, status : Statuses \cup {None}]
Idle == [op |-> "none", step |-> 0, customer |-> None, phone |-> None, bvn |-> None, status |-> None]

Init ==
  /\ customer = [c \in Customers |-> NoRow]
  /\ docs = {} /\ apps = [c \in Customers |-> 0] /\ lent = {}
  /\ handler = [r \in Requests |-> Idle]

Live(c) == customer[c].live
Present(c) == customer[c].status # None
Start(r, h) == handler[r] = Idle /\ handler' = [handler EXCEPT ![r] = h]
Proceed(r) == handler' = [handler EXCEPT ![r].step = @ + 1]
Finish(r) == handler' = [handler EXCEPT ![r] = Idle]
At(r, op, step) == handler[r].op = op /\ handler[r].step = step

-----------------------------------------------------------------------------
(* Registration and changes *)

\* assertNoDuplicates looks at the customers there are.
NoDuplicates(c, phone, bvn) ==
  \A d \in Customers \ {c} : Live(d) => customer[d].phone # phone /\ customer[d].bvn # bvn

\* The unique keys of the table hold for the removed ones too.
KeysFree(c, phone, bvn) ==
  \A d \in Customers \ {c} : Present(d) => customer[d].phone # phone /\ customer[d].bvn # bvn

RegisterCheck(r, c, phone, bvn) ==
  /\ ~Present(c) /\ NoDuplicates(c, phone, bvn)
  /\ Start(r, [Idle EXCEPT !.op = "register", !.customer = c, !.phone = phone, !.bvn = bvn])
  /\ UNCHANGED <<customer, docs, apps, lent>>

RegisterWrite(r) ==
  LET h == handler[r]
  IN  /\ At(r, "register", 0) /\ ~Present(h.customer)
      /\ KeysFree(h.customer, h.phone, h.bvn)
      /\ customer' = [customer EXCEPT ![h.customer] =
           [status |-> "REGISTERED", phone |-> h.phone, bvn |-> h.bvn, sealed |-> h.bvn, live |-> TRUE]]
      /\ Finish(r)
      /\ UNCHANGED <<docs, apps, lent>>

UpdateCheck(r, c, phone, bvn) ==
  /\ Live(c) /\ NoDuplicates(c, phone, bvn)
  /\ Start(r, [Idle EXCEPT !.op = "update", !.customer = c, !.phone = phone, !.bvn = bvn])
  /\ UNCHANGED <<customer, docs, apps, lent>>

\* The plain BVN is written and the encrypted one is not.
UpdateWrite(r) ==
  LET h == handler[r]
  IN  /\ At(r, "update", 0) /\ KeysFree(h.customer, h.phone, h.bvn)
      /\ customer' = [customer EXCEPT ![h.customer].phone = h.phone, ![h.customer].bvn = h.bvn]
      /\ Finish(r)
      /\ UNCHANGED <<docs, apps, lent>>

\* Any status may follow any other.
UpdateStatus(c, s) ==
  /\ Live(c) /\ s # customer[c].status
  /\ customer' = [customer EXCEPT ![c].status = s]
  /\ UNCHANGED <<docs, apps, lent, handler>>

-----------------------------------------------------------------------------
(* Removal: the customer is read, the applications and the documents counted,  *)
(* the status judged as it was read, and the row marked.                       *)

RemoveRead(r, c) ==
  /\ Live(c)
  /\ Start(r, [Idle EXCEPT !.op = "remove", !.customer = c, !.status = customer[c].status])
  /\ UNCHANGED <<customer, docs, apps, lent>>

UncountedApps(c) == TRUE                           \* mutant: applications are not counted
NoApplications(c) == apps[c] = 0

RemoveCountApps(r) ==
  /\ At(r, "remove", 0) /\ NoApplications(handler[r].customer) /\ Proceed(r)
  /\ UNCHANGED <<customer, docs, apps, lent>>

RemoveCountDocs(r) ==
  /\ At(r, "remove", 1) /\ handler[r].customer \notin docs
  /\ handler[r].status = "REGISTERED"
  /\ Proceed(r)
  /\ UNCHANGED <<customer, docs, apps, lent>>

RemoveWrite(r) ==
  /\ At(r, "remove", 2)
  /\ customer' = [customer EXCEPT ![handler[r].customer].live = FALSE]
  /\ Finish(r)
  /\ UNCHANGED <<docs, apps, lent>>

-----------------------------------------------------------------------------
(* Documents *)

UploadCheck(r, c) ==
  /\ Live(c) /\ Start(r, [Idle EXCEPT !.op = "upload", !.customer = c])
  /\ UNCHANGED <<customer, docs, apps, lent>>

UploadWrite(r) ==
  /\ At(r, "upload", 0) /\ docs' = docs \cup {handler[r].customer} /\ Finish(r)
  /\ UNCHANGED <<customer, apps, lent>>

\* Documents go whatever depends on them.
RemoveDocuments(c) ==
  /\ c \in docs /\ docs' = docs \ {c}
  /\ UNCHANGED <<customer, apps, lent, handler>>

-----------------------------------------------------------------------------
(* Applications and loans *)


ApplyCheck(r, c) ==
  /\ Live(c) /\ c \notin lent /\ c \in docs /\ customer[c].status # "BLACKLISTED" /\ apps[c] < MaxApps
  /\ Start(r, [Idle EXCEPT !.op = "apply", !.customer = c])
  /\ UNCHANGED <<customer, docs, apps, lent>>

ApplyWrite(r) ==
  LET c == handler[r].customer
  IN  /\ At(r, "apply", 0) /\ apps' = [apps EXCEPT ![c] = @ + 1] /\ Finish(r)
      /\ UNCHANGED <<customer, docs, lent>>

\* Disbursement and the last repayment set the status whatever it was.
Disburse(c) ==
  /\ apps[c] > 0 /\ c \notin lent
  /\ lent' = lent \cup {c}
  /\ customer' = [customer EXCEPT ![c].status = "ACTIVE_BORROWER"]
  /\ UNCHANGED <<docs, apps, handler>>

RepayLast(c) ==
  /\ c \in lent /\ lent' = lent \ {c}
  /\ customer' = [customer EXCEPT ![c].status = "ELIGIBLE"]
  /\ UNCHANGED <<docs, apps, handler>>

\* A check that fails, a refused key, or a failure ends a handler.
Fail(r) ==
  /\ handler[r] # Idle /\ Finish(r)
  /\ UNCHANGED <<customer, docs, apps, lent>>

-----------------------------------------------------------------------------
Next ==
  \/ \E r \in Requests, c \in Customers :
       \/ \E phone \in Phones, bvn \in Bvns : RegisterCheck(r, c, phone, bvn) \/ UpdateCheck(r, c, phone, bvn)
       \/ RemoveRead(r, c) \/ UploadCheck(r, c) \/ ApplyCheck(r, c)
  \/ \E r \in Requests :
       \/ RegisterWrite(r) \/ UpdateWrite(r)
       \/ RemoveCountApps(r) \/ RemoveCountDocs(r) \/ RemoveWrite(r)
       \/ UploadWrite(r) \/ ApplyWrite(r) \/ Fail(r)
  \/ \E c \in Customers :
       \/ \E s \in Statuses : UpdateStatus(c, s)
       \/ RemoveDocuments(c) \/ Disburse(c) \/ RepayLast(c)

Spec == Init /\ [][Next]_vars

-----------------------------------------------------------------------------
(* Properties *)

\* With one request at a time, a removed customer has no application and no
\* document: they are counted before the row is marked (customers.service.ts:391).
RemovedIsBare ==
  \A c \in Customers : Present(c) /\ ~Live(c) => apps[c] = 0 /\ c \notin docs
=============================================================================
