-------------------------------- MODULE Recovery --------------------------------
(***************************************************************************)
(* One recovery account: the payments recorded on it and verified by the     *)
(* accounting head, the expenses of recovering it, and the running totals    *)
(* recovery.service keeps on the account row.                                *)
(*                                                                         *)
(* The totals are written as absolute values computed from an earlier read.  *)
(* A request slot holds what a handler has read and what it has still to do. *)
(***************************************************************************)
EXTENDS Integers, FiniteSets, FiniteSetsExt

CONSTANTS
  Payments,     \* rows of recovery_payments
  Amounts,      \* amounts paid or spent
  Openings,     \* balances an account is opened with; it may be overpaid
  MaxExpenses,  \* bound: expenses recorded
  Requests      \* handlers in flight

VARIABLES
  account,    \* the row, with the balance it was opened with
  payment,    \* [Payments -> status and amount]
  spent,      \* the recorded expenses: their number and their sum
  handling,   \* [Requests -> handler in flight]
  approvals,  \* history: sum of the amounts approved, call by call
  edited,     \* history: updateAccount wrote the balance
  cut         \* history: a handler died between its two writes

vars == <<account, payment, spent, handling, approvals, edited, cut>>
history == <<approvals, edited, cut>>

Account == [status : {"none", "open", "deleted"}, opening : Int, owed : Int,
            recovered : Int, expenses : Int, net : Int]
NoAccount == [status |-> "none", opening |-> 0, owed |-> 0, recovered |-> 0,
              expenses |-> 0, net |-> 0]

Payment == [status : {"none", "pending", "verified", "rejected"}, amount : {0} \cup Amounts]

\* A handler: its step, the payment or the amount it is about, the decision and
\* the account it has read.
Handler == [pc : {"idle", "look", "decide", "credit", "insert", "total"},
            payment : Payments, amount : {0} \cup Amounts, approved : BOOLEAN, seen : Account]
Idle == [pc |-> "idle", payment |-> CHOOSE p \in Payments : TRUE, amount |-> 0,
         approved |-> FALSE, seen |-> NoAccount]

Init ==
  /\ account = NoAccount
  /\ payment = [p \in Payments |-> [status |-> "none", amount |-> 0]]
  /\ spent = [rows |-> 0, sum |-> 0]
  /\ handling = [r \in Requests |-> Idle]
  /\ approvals = 0 /\ edited = FALSE /\ cut = FALSE

-----------------------------------------------------------------------------
(* The account *)

CreateAccount(o) ==
  /\ account.status = "none"
  /\ account' = [NoAccount EXCEPT !.status = "open", !.opening = o, !.owed = o]
  /\ UNCHANGED <<payment, spent, handling, history>>

\* The status and the rest of the row are written as given; no total follows.
UpdateAccount(n) ==
  /\ account.status = "open" /\ n # account.owed
  /\ account' = [account EXCEPT !.owed = n]
  /\ edited' = TRUE
  /\ UNCHANGED <<payment, spent, handling, approvals, cut>>

DeleteAccount ==
  /\ account.status = "open"
  /\ account' = [account EXCEPT !.status = "deleted"]
  /\ UNCHANGED <<payment, spent, handling, history>>

-----------------------------------------------------------------------------
(* Payments *)

RecordPayment(p, a) ==
  /\ account.status = "open" /\ payment[p].status = "none"
  /\ payment' = [payment EXCEPT ![p] = [status |-> "pending", amount |-> a]]
  /\ UNCHANGED <<account, spent, handling, history>>

AwaitingAny(p) == payment[p].status # "none"       \* mutant: the status is not asked
Awaiting(p) == payment[p].status = "pending"

\* verifyPayment: the payment is read, then the account it includes, which may
\* have been deleted since; then the payment is written, then the account.
VerifyPayment(r, p, approved) ==
  /\ handling[r].pc = "idle" /\ Awaiting(p)
  /\ handling' = [handling EXCEPT ![r] =
       [Idle EXCEPT !.pc = "look", !.payment = p, !.approved = approved,
                    !.amount = payment[p].amount]]
  /\ UNCHANGED <<account, payment, spent, history>>

VerifyLook(r) ==
  /\ handling[r].pc = "look"
  /\ handling' = [handling EXCEPT ![r].pc = "decide", ![r].seen = account]
  /\ UNCHANGED <<account, payment, spent, history>>

CreditsAlways(r) == TRUE                           \* mutant: a rejected payment too
Credits(r) == handling[r].approved

VerifyDecide(r) ==
  LET h == handling[r]
  IN  /\ h.pc = "decide"
      /\ payment' = [payment EXCEPT ![h.payment].status =
                       IF h.approved THEN "verified" ELSE "rejected"]
      /\ handling' = [handling EXCEPT ![r] =
                        IF Credits(r) THEN [h EXCEPT !.pc = "credit"] ELSE Idle]
      /\ approvals' = approvals + (IF h.approved THEN h.amount ELSE 0)
      /\ UNCHANGED <<account, spent, edited, cut>>

Balance(n) == IF n < 0 THEN 0 ELSE n

VerifyCredit(r) ==
  LET h == handling[r]
      recovered == h.seen.recovered + h.amount
  IN  /\ h.pc = "credit"
      /\ account' = [account EXCEPT !.recovered = recovered,
                                    !.owed = Balance(h.seen.owed - h.amount),
                                    !.net = recovered - h.seen.expenses]
      /\ handling' = [handling EXCEPT ![r] = Idle]
      /\ UNCHANGED <<payment, spent, history>>

-----------------------------------------------------------------------------
(* Expenses *)

CreateExpense(r, a) ==
  /\ handling[r].pc = "idle" /\ account.status = "open" /\ spent.rows < MaxExpenses
  /\ handling' = [handling EXCEPT ![r] =
       [Idle EXCEPT !.pc = "insert", !.amount = a, !.seen = account]]
  /\ UNCHANGED <<account, payment, spent, history>>

InsertExpense(r) ==
  /\ handling[r].pc = "insert"
  /\ spent' = [rows |-> spent.rows + 1, sum |-> spent.sum + handling[r].amount]
  /\ handling' = [handling EXCEPT ![r].pc = "total"]
  /\ UNCHANGED <<account, payment, history>>

NetAfter(seen, expenses) == seen.recovered - expenses

TotalExpense(r) ==
  LET h == handling[r]
      expenses == h.seen.expenses + h.amount
  IN  /\ h.pc = "total"
      /\ account' = [account EXCEPT !.expenses = expenses, !.net = NetAfter(h.seen, expenses)]
      /\ handling' = [handling EXCEPT ![r] = Idle]
      /\ UNCHANGED <<payment, spent, history>>

\* The process or the database fails under a handler.
Fail(r) ==
  /\ handling[r].pc # "idle"
  /\ cut' = (cut \/ handling[r].pc \in {"credit", "total"})
  /\ handling' = [handling EXCEPT ![r] = Idle]
  /\ UNCHANGED <<account, payment, spent, approvals, edited>>

-----------------------------------------------------------------------------
Next ==
  \/ \E o \in Openings : CreateAccount(o)
  \/ \E n \in Amounts : UpdateAccount(n)
  \/ DeleteAccount
  \/ \E p \in Payments, a \in Amounts : RecordPayment(p, a)
  \/ \E r \in Requests :
       \/ \E p \in Payments, approved \in BOOLEAN : VerifyPayment(r, p, approved)
       \/ VerifyLook(r) \/ VerifyDecide(r) \/ VerifyCredit(r)
       \/ \E a \in Amounts : CreateExpense(r, a)
       \/ InsertExpense(r) \/ TotalExpense(r) \/ Fail(r)

Spec == Init /\ [][Next]_vars

-----------------------------------------------------------------------------
(* Properties *)

Verified == {p \in Payments : payment[p].status = "verified"}
Settled == ~cut /\ \A r \in Requests : handling[r].pc = "idle"

\* With one request at a time, and unless one died halfway, what was recovered is
\* what the verified payments sum up to (recovery.service.ts:450).
RecoveredIsVerified ==
  Settled => account.recovered = MapThenSumSet(LAMBDA p : payment[p].amount, Verified)

\* With one request at a time the net recovery is what was recovered less the
\* expenses, though two handlers write it, and even if one dies halfway
\* (RECOVERY_MODULE_DEPLOYMENT.md:341).
NetIsDifference == account.net = account.recovered - account.expenses

\* With one request at a time, and unless the balance was edited, what is owed is
\* what was owed at first less what was recovered, never below nothing once a
\* payment was verified (recovery.service.ts:458).
OwedIsRemainder ==
  ~edited => account.owed = IF account.recovered = 0 THEN account.opening
                            ELSE Max({0, account.opening - account.recovered})

\* However the handlers interleave, the totals lose amounts but invent none:
\* nothing is recovered that no call approved, nothing spent that no row says,
\* and the balance does not fall by more than was approved.
TotalsBacked ==
  /\ account.recovered <= approvals
  /\ account.expenses <= spent.sum
  /\ edited \/ account.owed >= account.opening - approvals
=============================================================================
