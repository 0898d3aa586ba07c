------------------------------ MODULE Repayments ------------------------------
(***************************************************************************)
(* Money coming in: LoanApplicationsService.applyRepayment, which spreads   *)
(* a payment over the oldest unpaid installments of a loan, and its three   *)
(* callers: staff who record a payment by hand, the provider's webhook      *)
(* (and the fetch that repeats it), and Accounting resolving a transfer     *)
(* that matched no account.                                                 *)
(*                                                                         *)
(* Requests interleave at every database call as in LoanApplications: what  *)
(* a handler read is kept in req[r] and may be stale when it is used.       *)
(***************************************************************************)
EXTENDS Integers, Sequences, FiniteSets, FiniteSetsExt

CONSTANTS
  Loans,          \* disbursed loans, each with its virtual account
  Due,            \* loan -> what each installment asks for, oldest first
  Transfers,      \* provider references of the transfers that reach the bank
  AmountOf,       \* transfer -> its amount
  TargetOf,       \* transfer -> the loan whose account it was sent to, or None
  ManualAmounts,  \* the amounts staff record by hand
  Requests,       \* request slots: how many handlers may be in flight at once
  Failures,       \* whether handlers may fail or die halfway
  MaxByHand,      \* bound: payments recorded or resolved by staff
  None            \* no loan, no transfer

Installments(l) == DOMAIN Due[l]

ASSUME LoansAssumption ==
  /\ Due \in [Loans -> Seq(Nat \ {0})]
  /\ \A l \in Loans : Due[l] # <<>>
  /\ AmountOf \in [Transfers -> Nat \ {0}]
  /\ TargetOf \in [Transfers -> Loans \cup {None}]
  /\ ManualAmounts \subseteq Nat \ {0}
  /\ Failures \in BOOLEAN
  /\ None \notin Loans \cup Transfers

ASSUME ByHandAssumption == MaxByHand \in Nat

VARIABLES
  paid,        \* [Loans -> Seq(Nat)] amountPaid of each installment
  loanStatus,  \* [Loans -> {"ACTIVE", "COMPLETED"}]
  numbered,    \* the loans whose virtual account has a real number by now
  repayments,  \* sequence of repayment rows, each at its receipt number
  transfer,    \* [Transfers -> status of its row], "NONE" before there is one
  req          \* [Requests -> handler state]

books == <<paid, loanStatus, repayments>>
vars == <<paid, loanStatus, numbered, repayments, transfer, req>>

-----------------------------------------------------------------------------
(* Rows *)

TransferStatus == {"NONE", "UNMATCHED", "MATCHED", "RECONCILED"}

\* Where a payment comes from: staff, the provider, or a resolved transfer.
Source == {"MANUAL", "PROVIDER", "RESOLVED"}

\* A row is never deleted and its receipt number is unique, so receipt numbers
\* run from 1 without gaps and the rows are a sequence.
Repayment == [loan : Loans, amount : Nat, source : Source,
              transfer : Transfers \cup {None}]

\* What each installment reads as paid, oldest first.
Amounts == Seq(Nat)

PC == {"idle", "check", "find", "insert", "loan", "receipt", "apply", "mark"}

\* What a handler holds: the transfers it still has to look at, the one it is
\* at, the loan it credits, the amount, the installments it read and the
\* receipt number it drew.
Handler == [pc : PC, batch : SUBSET Transfers, transfer : Transfers \cup {None},
            loan : Loans \cup {None}, amount : Nat, source : Source,
            seen : Amounts, receipt : Nat]

Idle == [pc |-> "idle", batch |-> {}, transfer |-> None, loan |-> None, amount |-> 0,
         source |-> "MANUAL", seen |-> <<>>, receipt |-> 0]

TypeOK ==
  /\ paid \in [Loans -> Amounts]
  /\ \A l \in Loans : DOMAIN paid[l] = Installments(l)
  /\ loanStatus \in [Loans -> {"ACTIVE", "COMPLETED"}]
  /\ numbered \subseteq Loans
  /\ repayments \in Seq(Repayment)
  /\ transfer \in [Transfers -> TransferStatus]
  /\ req \in [Requests -> Handler]
  /\ \A r \in Requests :
       /\ req[r].pc \in {"find", "insert", "mark"} => req[r].transfer \in Transfers
       /\ req[r].pc \in {"loan", "receipt", "apply"} => req[r].loan \in Loans
       /\ req[r].pc \in {"receipt", "apply"} =>
            DOMAIN req[r].seen = Installments(req[r].loan)

Init ==
  /\ paid = [l \in Loans |-> [i \in Installments(l) |-> 0]]
  /\ loanStatus = [l \in Loans |-> "ACTIVE"]
  /\ numbered \in SUBSET Loans
  /\ repayments = <<>>
  /\ transfer = [p \in Transfers |-> "NONE"]
  /\ req = [r \in Requests |-> Idle]

-----------------------------------------------------------------------------
(* Helpers *)

Finish(r) == req' = [req EXCEPT ![r] = Idle]

\* A transfer is done with; fetchPaystackTransactions goes on to the next one.
Continue(r) ==
  LET rest == req[r].batch
  IN  IF rest = {} THEN Finish(r)
      ELSE req' = [req EXCEPT ![r] = [Idle EXCEPT !.pc = "check", !.batch = rest]]

\* Bound: rows that staff have added or are about to add.
ByHand ==
    Cardinality({n \in DOMAIN repayments : repayments[n].source # "PROVIDER"})
  + Cardinality({q \in Requests : req[q].pc # "idle" /\ req[q].source # "PROVIDER"})

-----------------------------------------------------------------------------
(* The provider's transfers: handleWebhook and fetchPaystackTransactions *)

\* The webhook, delivered for the first time or again.
Webhook(r, p) ==
  /\ req[r].pc = "idle"
  /\ req' = [req EXCEPT ![r] = [Idle EXCEPT !.pc = "check", !.batch = {p}]]
  /\ UNCHANGED <<books, numbered, transfer>>

\* Staff have the provider list what it received for an account with a number.
Fetch(r, l) ==
  LET listed == {p \in Transfers : TargetOf[p] = l}
  IN  /\ req[r].pc = "idle" /\ l \in numbered /\ listed # {}
      /\ req' = [req EXCEPT ![r] = [Idle EXCEPT !.pc = "check", !.batch = listed]]
      /\ UNCHANGED <<books, numbered, transfer>>

\* A reference that has a row already, whatever its status, is done with.
CheckExisting(r) ==
  /\ req[r].pc = "check"
  /\ \E p \in req[r].batch :
       LET rest == req[r].batch \ {p}
       IN  \/ /\ transfer[p] = "NONE"
              /\ req' = [req EXCEPT ![r] = [Idle EXCEPT !.pc = "find", !.batch = rest,
                                                       !.transfer = p, !.amount = AmountOf[p],
                                                       !.source = "PROVIDER"]]
           \/ /\ transfer[p] # "NONE" /\ rest # {}
              /\ req' = [req EXCEPT ![r] = [Idle EXCEPT !.pc = "check", !.batch = rest]]
           \/ /\ transfer[p] # "NONE" /\ rest = {}
              /\ Finish(r)
  /\ UNCHANGED <<books, numbered, transfer>>

\* An account that waits for its number has a placeholder nobody pays to.
FindAccount(r) ==
  LET l == TargetOf[req[r].transfer]
  IN  /\ req[r].pc = "find"
      /\ req' = [req EXCEPT ![r] = [req[r] EXCEPT !.pc = "insert",
                                     !.loan = IF l \in numbered THEN l ELSE None]]
      /\ UNCHANGED <<books, numbered, transfer>>

\* providerReference is unique: the second insert of a reference throws.
InsertableAlways(p) == TRUE                          \* mutant: no unique key
Insertable(p) == transfer[p] = "NONE"

\* The status a transfer enters with, given the account that was found.
StatusReconciled(account) ==                         \* mutant: reconciled from the start
  IF account = None THEN "UNMATCHED" ELSE "RECONCILED"
StatusFor(account) == IF account = None THEN "UNMATCHED" ELSE "MATCHED"

InsertTransfer(r) ==
  LET p == req[r].transfer
  IN  /\ req[r].pc = "insert"
      /\ \/ /\ Insertable(p)
            /\ transfer' = [transfer EXCEPT ![p] = StatusFor(req[r].loan)]
            /\ \/ /\ req[r].loan # None
                  /\ req' = [req EXCEPT ![r] = [req[r] EXCEPT !.pc = "loan"]]
               \/ /\ req[r].loan = None
                  /\ Continue(r)
         \/ /\ ~Insertable(p)
            /\ Finish(r)
            /\ UNCHANGED transfer
      /\ UNCHANGED <<books, numbered>>

\* The last call of reconcile and of resolveUnmatched, by id alone.
MarkReconciled(r) ==
  /\ req[r].pc = "mark"
  /\ transfer' = [transfer EXCEPT ![req[r].transfer] = "RECONCILED"]
  /\ Continue(r)
  /\ UNCHANGED <<books, numbered>>

-----------------------------------------------------------------------------
(* Staff: recordRepayment and resolveUnmatched *)

RecordRepayment(r, l, amount) ==
  /\ req[r].pc = "idle" /\ ByHand < MaxByHand
  /\ req' = [req EXCEPT ![r] = [Idle EXCEPT !.pc = "loan", !.loan = l, !.amount = amount]]
  /\ UNCHANGED <<books, numbered, transfer>>

Resolvable(p) == transfer[p] = "UNMATCHED"

\* The account to credit is Accounting's choice.
Resolve(r, p, l) ==
  /\ req[r].pc = "idle" /\ ByHand < MaxByHand
  /\ Resolvable(p)
  /\ req' = [req EXCEPT ![r] = [Idle EXCEPT !.pc = "loan", !.transfer = p, !.loan = l,
                                           !.amount = AmountOf[p], !.source = "RESOLVED"]]
  /\ UNCHANGED <<books, numbered, transfer>>

-----------------------------------------------------------------------------
(* applyRepayment *)

\* The loan is read with its installments; one that is not ACTIVE is refused.
ReadLoan(r) ==
  LET l == req[r].loan
  IN  /\ req[r].pc = "loan"
      /\ \/ /\ loanStatus[l] = "ACTIVE"
            /\ req' = [req EXCEPT ![r] = [req[r] EXCEPT !.pc = "receipt", !.seen = paid[l]]]
         \/ /\ loanStatus[l] # "ACTIVE"
            /\ Finish(r)
      /\ UNCHANGED <<books, numbered, transfer>>

\* generateReceiptNumber: one more than the highest so far.
DrawReceipt(r) ==
  /\ req[r].pc = "receipt"
  /\ req' = [req EXCEPT ![r] = [req[r] EXCEPT !.pc = "apply",
                                 !.receipt = Len(repayments) + 1]]
  /\ UNCHANGED <<books, numbered, transfer>>

\* What installment i of l still asks for, according to amounts s.
Outstanding(l, s, i) == Due[l][i] - s[i]

\* What is left of amount once the installments before i have had theirs.
LeftNewestFirst(l, s, amount, i) ==                  \* mutant: order of installments
  amount - MapThenSumSet(LAMBDA j : Outstanding(l, s, j), {j \in DOMAIN s : j > i})
LeftFor(l, s, amount, i) ==
  amount - MapThenSumSet(LAMBDA j : Outstanding(l, s, j), {j \in DOMAIN s : j < i})

\* The share of an installment that asks for at most outstanding.
ShareUncapped(left, outstanding) ==                  \* mutant: remaining, not the minimum
  IF left < 0 THEN 0 ELSE left
Share(left, outstanding) ==
  IF left \in 0..outstanding THEN left
  ELSE IF left < 0 THEN 0 ELSE outstanding

\* The installments after the loop: those that get a share are written with
\* the amount that was read plus the share, the others keep what they have.
\* An installment that is paid gets none, its outstanding amount being 0.
Allocated(l, now, s, amount) ==
  [i \in Installments(l) |->
     LET share == Share(LeftFor(l, s, amount, i), Outstanding(l, s, i))
     IN  IF share = 0 THEN now[i] ELSE s[i] + share]

\* Mutants: only untouched installments count as unpaid; > for >=.
NoneUntouched(l, amounts) == \A i \in Installments(l) : amounts[i] > 0
AllExceeded(l, amounts) == \A i \in Installments(l) : amounts[i] > Due[l][i]
\* No installment is left that is not PAID, counted in the table after the loop.
AllPaid(l, amounts) == \A i \in Installments(l) : amounts[i] >= Due[l][i]

\* The transaction: the row with its receipt number, which is unique, the
\* installments, and the loan once no installment is left unpaid.
ApplyRepayment(r) ==
  LET l == req[r].loan
      after == Allocated(l, paid[l], req[r].seen, req[r].amount)
  IN  /\ req[r].pc = "apply"
      /\ \/ /\ req[r].receipt \notin DOMAIN repayments
            /\ repayments' = Append(repayments,
                 [loan |-> l, amount |-> req[r].amount, source |-> req[r].source,
                  transfer |-> req[r].transfer])
            /\ paid' = [paid EXCEPT ![l] = after]
            /\ loanStatus' = IF AllPaid(l, after)
                             THEN [loanStatus EXCEPT ![l] = "COMPLETED"]
                             ELSE loanStatus
            /\ \/ /\ req[r].source = "MANUAL"
                  /\ Finish(r)
               \/ /\ req[r].source # "MANUAL"
                  /\ req' = [req EXCEPT ![r] = [req[r] EXCEPT !.pc = "mark"]]
         \/ /\ req[r].receipt \in DOMAIN repayments
            /\ Finish(r)
            /\ UNCHANGED books
      /\ UNCHANGED <<numbered, transfer>>

-----------------------------------------------------------------------------
(* The system *)

\* The provider assigns the account its number, at some time or never.
AssignNumber(l) ==
  /\ l \notin numbered
  /\ numbered' = numbered \cup {l}
  /\ UNCHANGED <<books, transfer, req>>

\* A database call throws, or the process dies with the request in flight.
Fail(r) ==
  /\ Failures /\ req[r].pc # "idle"
  /\ Finish(r)
  /\ UNCHANGED <<books, numbered, transfer>>

Step(r) ==
  \/ CheckExisting(r) \/ FindAccount(r) \/ InsertTransfer(r) \/ MarkReconciled(r)
  \/ ReadLoan(r) \/ DrawReceipt(r) \/ ApplyRepayment(r)

Call(r) ==
  \/ \E p \in Transfers : Webhook(r, p)
  \/ \E l \in Loans : Fetch(r, l)
  \/ \E l \in Loans, amount \in ManualAmounts : RecordRepayment(r, l, amount)
  \/ \E p \in Transfers, l \in Loans : Resolve(r, p, l)

Next ==
  \/ \E r \in Requests : Step(r) \/ Fail(r) \/ Call(r)
  \/ \E l \in Loans : AssignNumber(l)

Spec == Init /\ [][Next]_vars

-----------------------------------------------------------------------------
(* What holds however requests interleave and fail *)

Rows(p) == {n \in DOMAIN repayments : repayments[n].transfer = p}

\* A transfer the provider's side credits is credited once and never again,
\* not by a webhook delivered twice or at once, not by a fetch, not after a
\* crash, and not by Accounting either (reconcile, lines 456-458).
ProviderOnce ==
  \A p \in Transfers : \A m, n \in Rows(p) :
    repayments[m].source = "PROVIDER" => m = n

\* A transfer that reads RECONCILED has been credited with its amount: the mark
\* never comes first and never survives a repayment that was refused
\* (reconcile, lines 484-495; resolveUnmatched, lines 781-792).
ReconciledIsCredited ==
  \A p \in Transfers : transfer[p] = "RECONCILED" =>
    \E n \in Rows(p) : repayments[n].amount = AmountOf[p]

\* No installment is ever paid more than it asks for, also when the amounts
\* written were computed from an older read (applyRepayment, lines 740-761).
NeverOverpaid ==
  \A l \in Loans : \A i \in Installments(l) : paid[l][i] <= Due[l][i]

\* A loan all of whose installments are paid is never left ACTIVE: whichever
\* payment makes the last of them full closes it (applyRepayment, 763-765).
PaidLoanIsClosed ==
  \A l \in Loans : paid[l] = Due[l] => loanStatus[l] = "COMPLETED"

\* A loan is closed only by a step after which every installment is paid, and
\* is never opened again (applyRepayment, lines 763-765).
ClosedOnlyWhenPaid ==
  [][\A l \in Loans : loanStatus'[l] # loanStatus[l] =>
       loanStatus'[l] = "COMPLETED" /\ paid'[l] = Due[l]]_vars

Received(l) ==
  MapThenSumSet(LAMBDA n : repayments[n].amount,
                {n \in DOMAIN repayments : repayments[n].loan = l})
Credited(l) == MapThenSumSet(LAMBDA i : paid[l][i], Installments(l))
Payable(l) == MapThenSumSet(LAMBDA i : Due[l][i], Installments(l))

\* However stale the reads, the installments of a loan never show more than
\* the payments recorded for it (applyRepayment, lines 726-761).
CreditedWasReceived ==
  \A l \in Loans : Credited(l) <= Received(l)

-----------------------------------------------------------------------------
(* Why it holds: what a handler relies on from its check to its last write *)

\* The handler is between the start of applyRepayment and its transaction.
Applying(r) == req[r].pc \in {"loan", "receipt", "apply"}
Crediting(r) == Applying(r) /\ req[r].source # "MANUAL"

\* The one handler the provider's side credits p with: it inserted p's row.
Exclusive(r, p) ==
  /\ transfer[p] = "MATCHED" /\ Rows(p) = {}
  /\ \A q \in Requests : Crediting(q) /\ req[q].transfer = p => q = r

HandlerEntitled(r) ==
  LET p == req[r].transfer
  IN  /\ Crediting(r) \/ req[r].pc \in {"find", "insert", "mark"} =>
           p \in Transfers /\ req[r].amount = AmountOf[p]
      /\ req[r].pc \in {"find", "insert"} => req[r].source = "PROVIDER"
      /\ Applying(r) /\ req[r].source = "MANUAL" => p = None
      /\ Crediting(r) /\ req[r].source = "PROVIDER" => Exclusive(r, p)
      /\ req[r].pc = "mark" =>
           /\ req[r].source # "MANUAL"
           /\ \E n \in Rows(p) : repayments[n].amount = AmountOf[p]
      /\ (Crediting(r) \/ req[r].pc = "mark") /\ req[r].source = "RESOLVED" =>
           /\ transfer[p] \in {"UNMATCHED", "RECONCILED"}
           /\ \A n \in Rows(p) : repayments[n].source # "PROVIDER"

RowEntitled(n) ==
  LET p == repayments[n].transfer
  IN  p # None => /\ transfer[p] # "NONE"
                  /\ repayments[n].source = "PROVIDER" => transfer[p] # "UNMATCHED"

\* A handler that credits a transfer for the provider's side is alone with it
\* and the transfer has no repayment yet; one that Accounting started works on a
\* transfer the provider's side never credited; one that is about to mark a
\* transfer has credited it (reconcile, 456-495; resolveUnmatched, 771-792).
Entitlement ==
  /\ \A r \in Requests : HandlerEntitled(r)
  /\ \A n \in DOMAIN repayments : RowEntitled(n)

-----------------------------------------------------------------------------
(* What holds while handlers run one at a time, failures included *)

\* The installments show exactly what was received, up to what the loan asks
\* for, and "oldest unpaid installment(s) first": an installment has money only
\* if the one before it is full (applyRepayment, lines 713-714).
BooksBalance ==
  \A l \in Loans :
    /\ Credited(l) = Min({Received(l), Payable(l)})
    /\ \A i, j \in Installments(l) : i < j /\ paid[l][j] > 0 => paid[l][i] = Due[l][i]

\* "marks the loan COMPLETED once nothing is left outstanding" (applyRepayment,
\* line 715): a loan is COMPLETED exactly while every installment is paid.
CompletedIsPaid ==
  \A l \in Loans : loanStatus[l] = "COMPLETED" <=> paid[l] = Due[l]

-----------------------------------------------------------------------------
(* What comments of the repository say, and the code does not do *)

\* "either reconciles it against the matching loan or leaves it in the
\* reconciliation queue" (handleWebhook, lines 341-343): a transfer with a row
\* is one of the two once no handler is at it any more.
ReconciledOrQueued ==
  \A p \in Transfers :
    transfer[p] = "MATCHED" => \E r \in Requests : req[r].transfer = p

=============================================================================
