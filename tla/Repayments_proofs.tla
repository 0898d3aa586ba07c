-------------------------- MODULE Repayments_proofs --------------------------
(***************************************************************************)
(* What Repayments promises for every set of loans, schedules, transfers   *)
(* and requests in flight: type correctness, that no installment is ever   *)
(* overpaid, that a loan closes exactly with the payment that makes it     *)
(* full, that the provider's side credits a transfer once, and that no     *)
(* more is credited than was received.                                     *)
(***************************************************************************)
EXTENDS Repayments, SequenceTheorems, Sums_proofs, TLAPS

-----------------------------------------------------------------------------
(* Amounts *)

\* A schedule has installments 1 to n, each with a positive amount.
LEMMA Schedule ==
  ASSUME NEW l \in Loans
  PROVE  /\ \E n \in Nat \ {0} : Installments(l) = 1..n
         /\ \A i \in Installments(l) : Due[l][i] \in Nat \ {0}
<1>1. Due[l] \in Seq(Nat \ {0}) /\ Due[l] # <<>>
  BY LoansAssumption
<1>2. Len(Due[l]) \in Nat \ {0} /\ DOMAIN Due[l] = 1..Len(Due[l])
  BY <1>1, EmptySeq, LenProperties
<1>3. \A i \in 1..Len(Due[l]) : Due[l][i] \in Nat \ {0}
  BY <1>1, ElementOfSeq
<1> QED
  BY <1>2, <1>3 DEF Installments

\* An amount for each installment of a loan, none above what it asks for.
Within(l, amounts) ==
  /\ amounts \in Seq(Nat)
  /\ DOMAIN amounts = Installments(l)
  /\ \A i \in Installments(l) : amounts[i] <= Due[l][i]

\* A list of amounts is a function on the installments, and conversely.
LEMMA WithinFunction ==
  ASSUME NEW l \in Loans, NEW amounts
  PROVE  Within(l, amounts) <=>
           /\ amounts \in [Installments(l) -> Nat]
           /\ \A i \in Installments(l) : amounts[i] <= Due[l][i]
<1>1. PICK n \in Nat \ {0} : Installments(l) = 1..n
  BY Schedule
<1>2. ASSUME amounts \in Seq(Nat), DOMAIN amounts = Installments(l)
      PROVE  amounts \in [Installments(l) -> Nat]
  BY <1>2, LenProperties
<1>3. ASSUME amounts \in [Installments(l) -> Nat]
      PROVE  amounts \in Seq(Nat) /\ DOMAIN amounts = Installments(l)
  BY <1>1, <1>3, SeqDef
<1> QED
  BY <1>2, <1>3 DEF Within

\* A share is never more than what the installment still asks for, whatever the
\* older installments left of the payment.
LEMMA ShareBound ==
  ASSUME NEW left, NEW outstanding \in Nat
  PROVE  Share(left, outstanding) \in 0..outstanding
BY DEF Share

\* The installments after the loop are within what they ask for, also when the
\* amounts that were read are no longer those in the table.
LEMMA AllocatedWithin ==
  ASSUME NEW l \in Loans, NEW now, NEW s, NEW amount, Within(l, now), Within(l, s)
  PROVE  Within(l, Allocated(l, now, s, amount))
<1> DEFINE after == Allocated(l, now, s, amount)
<1>1. now \in [Installments(l) -> Nat] /\ s \in [Installments(l) -> Nat]
  BY WithinFunction
<1>2. \A i \in Installments(l) : now[i] <= Due[l][i] /\ s[i] <= Due[l][i]
  BY DEF Within
<1>3. ASSUME NEW i \in Installments(l)
      PROVE  after[i] \in Nat /\ after[i] <= Due[l][i]
  <2> DEFINE share == Share(LeftFor(l, s, amount, i), Outstanding(l, s, i))
  <2>1. Due[l][i] \in Nat /\ now[i] \in Nat /\ s[i] \in Nat
    BY <1>1, Schedule
  <2>2. Outstanding(l, s, i) \in Nat /\ s[i] + Outstanding(l, s, i) = Due[l][i]
    BY <1>2, <2>1 DEF Outstanding
  <2>3. share \in 0..Outstanding(l, s, i)
    BY <2>2, ShareBound
  <2>4. after[i] = IF share = 0 THEN now[i] ELSE s[i] + share
    BY DEF Allocated
  <2> HIDE DEF share, after
  <2> QED
    BY <1>2, <2>1, <2>2, <2>3, <2>4
<1>4. after \in [Installments(l) -> Nat]
  BY <1>3 DEF Allocated
<1> QED
  BY <1>3, <1>4, WithinFunction

-----------------------------------------------------------------------------
(* Type correctness, with what it takes: no overpayment, and handlers that    *)
(* read amounts within the schedule and know their transfer and loan         *)

HandlerOK(h) ==
  /\ h \in Handler
  /\ h.pc \in {"find", "insert", "mark"} => h.transfer \in Transfers
  /\ h.pc \in {"loan", "receipt", "apply"} =>
       h.loan \in Loans /\ (h.source # "MANUAL" => h.transfer \in Transfers)
  /\ h.pc \in {"receipt", "apply"} => Within(h.loan, h.seen)

TypeInv ==
  /\ \A l \in Loans : Within(l, paid[l])
  /\ paid \in [Loans -> Seq(Nat)]
  /\ loanStatus \in [Loans -> {"ACTIVE", "COMPLETED"}]
  /\ numbered \subseteq Loans
  /\ repayments \in Seq(Repayment)
  /\ transfer \in [Transfers -> TransferStatus]
  /\ req \in [Requests -> Handler]
  /\ \A r \in Requests : HandlerOK(req[r])

\* The strengthening says the types.
LEMMA TypeInvType == TypeInv => TypeOK /\ NeverOverpaid
<1> SUFFICES ASSUME TypeInv PROVE TypeOK /\ NeverOverpaid
  OBVIOUS
<1>1. NeverOverpaid /\ \A l \in Loans : DOMAIN paid[l] = Installments(l)
  BY DEF TypeInv, Within, NeverOverpaid
<1> QED
  BY <1>1 DEF TypeInv, TypeOK, HandlerOK, Within, Amounts

LEMMA IdleOK == HandlerOK(Idle)
<1>1. Idle \in Handler
  BY EmptySeq DEF Idle, Handler, PC, Source, Amounts
<1> QED
  BY <1>1 DEF HandlerOK, Idle

\* A handler that is idle or checks its batch holds nothing else.
LEMMA CheckOK ==
  ASSUME NEW batch \in SUBSET Transfers
  PROVE  HandlerOK([Idle EXCEPT !.pc = "check", !.batch = batch])
<1> DEFINE h == [Idle EXCEPT !.pc = "check", !.batch = batch]
<1>1. h \in Handler /\ h.pc = "check"
  BY EmptySeq DEF Idle, Handler, PC, Source, Amounts
<1> HIDE DEF h
<1>2. HandlerOK(h)
  BY <1>1 DEF HandlerOK
<1> QED
  BY <1>2 DEF h

\* One handler moves on, everything else keeps its type.
LEMMA ReqStep ==
  ASSUME TypeInv, NEW r \in Requests, NEW h, HandlerOK(h), req' = [req EXCEPT ![r] = h]
  PROVE  req' \in [Requests -> Handler] /\ \A q \in Requests : HandlerOK(req'[q])
<1>1. req \in [Requests -> Handler] /\ \A q \in Requests : HandlerOK(req[q])
  BY DEF TypeInv
<1>2. h \in Handler /\ req' \in [Requests -> Handler]
  BY <1>1 DEF HandlerOK
<1>3. \A q \in Requests : req'[q] = IF q = r THEN h ELSE req[q]
  BY <1>1
<1> QED
  BY <1>1, <1>2, <1>3

LEMMA FinishOK ==
  ASSUME TypeInv, NEW r \in Requests, Finish(r)
  PROVE  req' \in [Requests -> Handler] /\ \A q \in Requests : HandlerOK(req'[q])
BY IdleOK, ReqStep DEF Finish

LEMMA ContinueOK ==
  ASSUME TypeInv, NEW r \in Requests, Continue(r)
  PROVE  req' \in [Requests -> Handler] /\ \A q \in Requests : HandlerOK(req'[q])
<1>1. req[r].batch \in SUBSET Transfers
  BY DEF TypeInv, HandlerOK, Handler
<1>2. CASE req[r].batch = {}
  BY <1>2, FinishOK DEF Continue
<1>3. CASE req[r].batch # {}
  <2>1. req' = [req EXCEPT ![r] = [Idle EXCEPT !.pc = "check", !.batch = req[r].batch]]
    BY <1>3 DEF Continue
  <2> QED
    BY <1>1, <2>1, CheckOK, ReqStep
<1> QED
  BY <1>2, <1>3

\* A handler whose next step is given: the record it holds then.
LEMMA MovedOK ==
  ASSUME TypeInv, NEW r \in Requests, NEW h, h \in Handler,
         h.pc \in {"find", "insert", "mark"} => h.transfer \in Transfers,
         h.pc \in {"loan", "receipt", "apply"} =>
           h.loan \in Loans /\ (h.source # "MANUAL" => h.transfer \in Transfers),
         h.pc \in {"receipt", "apply"} => Within(h.loan, h.seen),
         req' = [req EXCEPT ![r] = h]
  PROVE  req' \in [Requests -> Handler] /\ \A q \in Requests : HandlerOK(req'[q])
<1>1. HandlerOK(h)
  BY DEF HandlerOK
<1> QED
  BY <1>1, ReqStep

\* Steps that only move a handler.
LEMMA HandlerOnly ==
  ASSUME TypeInv, req' \in [Requests -> Handler], \A q \in Requests : HandlerOK(req'[q]),
         UNCHANGED <<books, numbered, transfer>>
  PROVE  TypeInv'
BY DEF TypeInv, books, HandlerOK, Within, Handler, Amounts, Installments

LEMMA WebhookType ==
  ASSUME TypeInv, NEW r \in Requests, NEW p \in Transfers, Webhook(r, p)
  PROVE  TypeInv'
<1>1. HandlerOK([Idle EXCEPT !.pc = "check", !.batch = {p}])
  BY CheckOK
<1> QED
  BY <1>1, ReqStep, HandlerOnly DEF Webhook

LEMMA FetchType ==
  ASSUME TypeInv, NEW r \in Requests, NEW l \in Loans, Fetch(r, l)
  PROVE  TypeInv'
<1> DEFINE listed == {p \in Transfers : TargetOf[p] = l}
<1>1. HandlerOK([Idle EXCEPT !.pc = "check", !.batch = listed])
  BY CheckOK
<1> QED
  BY <1>1, ReqStep, HandlerOnly DEF Fetch

LEMMA CheckExistingType ==
  ASSUME TypeInv, NEW r \in Requests, CheckExisting(r)
  PROVE  TypeInv'
<1>1. req[r].batch \in SUBSET Transfers
  BY DEF TypeInv, Handler
<1>2. PICK p \in req[r].batch :
        LET rest == req[r].batch \ {p}
        IN  \/ req' = [req EXCEPT ![r] = [Idle EXCEPT !.pc = "find", !.batch = rest,
                                            !.transfer = p, !.amount = AmountOf[p],
                                            !.source = "PROVIDER"]]
            \/ req' = [req EXCEPT ![r] = [Idle EXCEPT !.pc = "check", !.batch = rest]]
            \/ Finish(r)
  BY DEF CheckExisting
<1> DEFINE rest == req[r].batch \ {p}
           found == [Idle EXCEPT !.pc = "find", !.batch = rest, !.transfer = p,
                                 !.amount = AmountOf[p], !.source = "PROVIDER"]
<1>3. p \in Transfers /\ rest \in SUBSET Transfers /\ AmountOf[p] \in Nat
  BY <1>1, LoansAssumption
<1>4. HandlerOK(found)
  <2>1. found \in Handler /\ found.pc = "find" /\ found.transfer = p
    BY <1>3, EmptySeq DEF Idle, Handler, PC, Source, Amounts
  <2> HIDE DEF found
  <2> QED
    BY <1>3, <2>1 DEF HandlerOK
<1>5. HandlerOK([Idle EXCEPT !.pc = "check", !.batch = rest])
  BY <1>3, CheckOK
<1>6. req' \in [Requests -> Handler] /\ \A q \in Requests : HandlerOK(req'[q])
  BY <1>2, <1>4, <1>5, ReqStep, FinishOK
<1> QED
  BY <1>6, HandlerOnly DEF CheckExisting

LEMMA FindAccountType ==
  ASSUME TypeInv, NEW r \in Requests, FindAccount(r)
  PROVE  TypeInv'
<1> DEFINE l == TargetOf[req[r].transfer]
           h == [req[r] EXCEPT !.pc = "insert", !.loan = IF l \in numbered THEN l ELSE None]
<1>1. req[r] \in Handler /\ req[r].transfer \in Transfers
  BY DEF TypeInv, HandlerOK, FindAccount
<1>2. l \in Loans \cup {None}
  BY <1>1, LoansAssumption
<1>3. h \in Handler /\ h.pc = "insert" /\ h.transfer = req[r].transfer
  BY <1>1, <1>2 DEF Handler, PC
<1>4. req' = [req EXCEPT ![r] = h]
  BY DEF FindAccount
<1> HIDE DEF h
<1> QED
  BY <1>1, <1>3, <1>4, MovedOK, HandlerOnly DEF FindAccount

LEMMA InsertTransferType ==
  ASSUME TypeInv, NEW r \in Requests, InsertTransfer(r)
  PROVE  TypeInv'
<1> DEFINE h == [req[r] EXCEPT !.pc = "loan"]
<1>1. req[r] \in Handler /\ req[r].transfer \in Transfers
  BY DEF TypeInv, HandlerOK, InsertTransfer
<1>2. h \in Handler /\ h.pc = "loan" /\ h.transfer = req[r].transfer /\ h.loan = req[r].loan
  BY <1>1 DEF Handler, PC
<1>3. req[r].loan # None => req[r].loan \in Loans
  BY <1>1 DEF Handler
<1>4. \/ req[r].loan # None /\ req' = [req EXCEPT ![r] = h]
      \/ Continue(r) \/ Finish(r)
  BY DEF InsertTransfer
<1> HIDE DEF h
<1>5. req' \in [Requests -> Handler] /\ \A q \in Requests : HandlerOK(req'[q])
  BY <1>1, <1>2, <1>3, <1>4, MovedOK, ContinueOK, FinishOK
<1>6. transfer' \in [Transfers -> TransferStatus]
  BY DEF InsertTransfer, TypeInv, TransferStatus, StatusFor
<1> QED
  BY <1>5, <1>6 DEF InsertTransfer, TypeInv, books, HandlerOK, Within, Handler, Amounts,
                    Installments

LEMMA MarkReconciledType ==
  ASSUME TypeInv, NEW r \in Requests, MarkReconciled(r)
  PROVE  TypeInv'
<1>1. req' \in [Requests -> Handler] /\ \A q \in Requests : HandlerOK(req'[q])
  BY ContinueOK DEF MarkReconciled
<1>2. transfer' \in [Transfers -> TransferStatus]
  BY DEF MarkReconciled, TypeInv, TransferStatus
<1> QED
  BY <1>1, <1>2 DEF MarkReconciled, TypeInv, books, HandlerOK, Within, Handler, Amounts,
                    Installments

LEMMA RecordRepaymentType ==
  ASSUME TypeInv, NEW r \in Requests, NEW l \in Loans, NEW amount \in ManualAmounts,
         RecordRepayment(r, l, amount)
  PROVE  TypeInv'
<1> DEFINE h == [Idle EXCEPT !.pc = "loan", !.loan = l, !.amount = amount]
<1>1. amount \in Nat
  BY LoansAssumption
<1>2. h \in Handler /\ h.pc = "loan" /\ h.loan = l /\ h.source = "MANUAL"
  BY <1>1, EmptySeq DEF Idle, Handler, PC, Source, Amounts
<1>3. req' = [req EXCEPT ![r] = h]
  BY DEF RecordRepayment
<1> HIDE DEF h
<1> QED
  BY <1>2, <1>3, MovedOK, HandlerOnly DEF RecordRepayment

LEMMA ResolveType ==
  ASSUME TypeInv, NEW r \in Requests, NEW p \in Transfers, NEW l \in Loans, Resolve(r, p, l)
  PROVE  TypeInv'
<1> DEFINE h == [Idle EXCEPT !.pc = "loan", !.transfer = p, !.loan = l,
                             !.amount = AmountOf[p], !.source = "RESOLVED"]
<1>1. AmountOf[p] \in Nat
  BY LoansAssumption
<1>2. h \in Handler /\ h.pc = "loan" /\ h.loan = l /\ h.transfer = p
  BY <1>1, EmptySeq DEF Idle, Handler, PC, Source, Amounts
<1>3. req' = [req EXCEPT ![r] = h]
  BY DEF Resolve
<1> HIDE DEF h
<1> QED
  BY <1>2, <1>3, MovedOK, HandlerOnly DEF Resolve

LEMMA ReadLoanType ==
  ASSUME TypeInv, NEW r \in Requests, ReadLoan(r)
  PROVE  TypeInv'
<1> DEFINE l == req[r].loan
           h == [req[r] EXCEPT !.pc = "receipt", !.seen = paid[l]]
<1>1. /\ req[r] \in Handler /\ l \in Loans
      /\ req[r].source # "MANUAL" => req[r].transfer \in Transfers
      /\ Within(l, paid[l]) /\ paid[l] \in Amounts
  BY DEF TypeInv, HandlerOK, ReadLoan, Amounts
<1>2. /\ h \in Handler /\ h.pc = "receipt" /\ h.loan = l /\ h.seen = paid[l]
      /\ h.source = req[r].source /\ h.transfer = req[r].transfer
  BY <1>1 DEF Handler, PC
<1>3. req' = [req EXCEPT ![r] = h] \/ Finish(r)
  BY DEF ReadLoan
<1> HIDE DEF h
<1> QED
  BY <1>1, <1>2, <1>3, MovedOK, FinishOK, HandlerOnly DEF ReadLoan

LEMMA DrawReceiptType ==
  ASSUME TypeInv, NEW r \in Requests, DrawReceipt(r)
  PROVE  TypeInv'
<1>0. PICK n \in Nat : n = Len(repayments) + 1
  BY LenProperties DEF TypeInv
<1> DEFINE h == [req[r] EXCEPT !.pc = "apply", !.receipt = n]
<1>1. /\ req[r] \in Handler /\ req[r].loan \in Loans /\ Within(req[r].loan, req[r].seen)
      /\ req[r].source # "MANUAL" => req[r].transfer \in Transfers
  BY DEF TypeInv, HandlerOK, DrawReceipt
<1>2. /\ h \in Handler /\ h.pc = "apply" /\ h.loan = req[r].loan /\ h.seen = req[r].seen
      /\ h.source = req[r].source /\ h.transfer = req[r].transfer
  BY <1>1 DEF Handler, PC
<1>3. req' = [req EXCEPT ![r] = h]
  BY <1>0 DEF DrawReceipt
<1> HIDE DEF h
<1> QED
  BY <1>1, <1>2, <1>3, MovedOK, HandlerOnly DEF DrawReceipt

\* The repayment row that a handler writes.
Row(h) == [loan |-> h.loan, amount |-> h.amount, source |-> h.source, transfer |-> h.transfer]

\* What the transaction of applyRepayment does to the tables, or nothing.
Applied(r) ==
  LET l == req[r].loan
      after == Allocated(l, paid[l], req[r].seen, req[r].amount)
  IN  /\ repayments' = Append(repayments, Row(req[r]))
      /\ paid' = [paid EXCEPT ![l] = after]
      /\ loanStatus' = IF AllPaid(l, after)
                       THEN [loanStatus EXCEPT ![l] = "COMPLETED"]
                       ELSE loanStatus

LEMMA ApplyCases ==
  ASSUME NEW r \in Requests, ApplyRepayment(r)
  PROVE  /\ req[r].pc = "apply" /\ UNCHANGED <<numbered, transfer>>
         /\ \/ Applied(r) /\ req[r].source = "MANUAL" /\ Finish(r)
            \/ /\ Applied(r) /\ req[r].source # "MANUAL"
               /\ req' = [req EXCEPT ![r] = [req[r] EXCEPT !.pc = "mark"]]
            \/ UNCHANGED books /\ Finish(r)
BY DEF ApplyRepayment, Applied, Row

LEMMA ApplyRepaymentType ==
  ASSUME TypeInv, NEW r \in Requests, ApplyRepayment(r)
  PROVE  TypeInv'
<1> DEFINE l == req[r].loan
           after == Allocated(l, paid[l], req[r].seen, req[r].amount)
           h == [req[r] EXCEPT !.pc = "mark"]
<1>1. /\ req[r] \in Handler /\ l \in Loans /\ Within(l, req[r].seen) /\ Within(l, paid[l])
      /\ req[r].source # "MANUAL" => req[r].transfer \in Transfers
  BY ApplyCases DEF TypeInv, HandlerOK
<1>2. Within(l, after)
  BY <1>1, AllocatedWithin
<1>3. h \in Handler /\ h.pc = "mark" /\ h.transfer = req[r].transfer
  BY <1>1 DEF Handler, PC
<1> HIDE DEF h, after
<1>4. req' \in [Requests -> Handler] /\ \A q \in Requests : HandlerOK(req'[q])
  BY <1>1, <1>3, ApplyCases, MovedOK, FinishOK DEF h
<1>5. CASE UNCHANGED books
  BY <1>4, <1>5, ApplyCases, HandlerOnly
<1>6. CASE Applied(r)
  <2>1. Row(req[r]) \in Repayment
    BY <1>1 DEF Row, Repayment, Handler
  <2>2. repayments' \in Seq(Repayment)
    BY <1>6, <2>1, AppendProperties DEF Applied, TypeInv
  <2>3. paid' = [paid EXCEPT ![l] = after]
    BY <1>6 DEF Applied, after
  <2>4. after \in Seq(Nat)
    BY <1>2 DEF Within
  <2>5. paid' \in [Loans -> Seq(Nat)]
    BY <2>3, <2>4 DEF TypeInv
  <2>6. ASSUME NEW k \in Loans PROVE Within(k, paid'[k])
    <3>1. paid'[k] = IF k = l THEN after ELSE paid[k]
      BY <2>3 DEF TypeInv
    <3> QED
      BY <1>2, <3>1 DEF TypeInv
  <2>7. loanStatus' \in [Loans -> {"ACTIVE", "COMPLETED"}]
    BY <1>1, <1>6 DEF Applied, TypeInv
  <2>8. numbered' = numbered /\ transfer' = transfer
    BY ApplyCases
  <2> QED
    BY <1>4, <2>2, <2>5, <2>6, <2>7, <2>8
    DEF TypeInv, Within, HandlerOK, Handler, Amounts, Installments
<1> QED
  BY <1>5, <1>6, ApplyCases

LEMMA StepType ==
  ASSUME TypeInv, NEW r \in Requests, Step(r) \/ Fail(r)
  PROVE  TypeInv'
<1>1. CASE Fail(r)
  BY <1>1, FinishOK, HandlerOnly DEF Fail
<1> QED
  BY <1>1, CheckExistingType, FindAccountType, InsertTransferType, MarkReconciledType,
     ReadLoanType, DrawReceiptType, ApplyRepaymentType DEF Step

LEMMA CallType ==
  ASSUME TypeInv, NEW r \in Requests, Call(r)
  PROVE  TypeInv'
BY WebhookType, FetchType, RecordRepaymentType, ResolveType DEF Call

LEMMA TypeStep == TypeInv /\ [Next]_vars => TypeInv'
<1> SUFFICES ASSUME TypeInv, [Next]_vars PROVE TypeInv'
  OBVIOUS
<1>1. ASSUME NEW l \in Loans, AssignNumber(l) PROVE TypeInv'
  BY <1>1 DEF AssignNumber, TypeInv, books, HandlerOK, Within, Handler, Amounts, Installments
<1>2. CASE UNCHANGED vars
  BY <1>2 DEF vars, TypeInv, HandlerOK, Within, Handler, Amounts, Installments
<1> QED
  BY <1>1, <1>2, StepType, CallType DEF Next

LEMMA TypeInit == Init => TypeInv
<1> SUFFICES ASSUME Init PROVE TypeInv
  OBVIOUS
<1>1. ASSUME NEW l \in Loans PROVE Within(l, paid[l])
  <2>1. paid[l] = [i \in Installments(l) |-> 0]
    BY DEF Init
  <2>2. paid[l] \in [Installments(l) -> Nat]
        /\ \A i \in Installments(l) : paid[l][i] <= Due[l][i]
    BY <2>1, Schedule
  <2> QED
    BY <2>2, WithinFunction
<1>2. paid \in [Loans -> Seq(Nat)]
  <2>1. \A l \in Loans : [i \in Installments(l) |-> 0] \in Seq(Nat)
    BY <1>1 DEF Init, Within
  <2> QED
    BY <2>1 DEF Init
<1>3. req \in [Requests -> Handler] /\ \A r \in Requests : HandlerOK(req[r])
  BY IdleOK DEF Init, HandlerOK
<1> QED
  BY <1>1, <1>2, <1>3, EmptySeq DEF Init, TypeInv, TransferStatus

LEMMA TypeInvariant == Spec => []TypeInv
BY TypeInit, TypeStep, PTL DEF Spec

\* Every variable keeps its type: handlers hold the loan, the transfer and the
\* amounts that the step they are at needs (the whole of Repayments).
THEOREM TypeCorrect == Spec => []TypeOK
BY TypeInvariant, TypeInvType, PTL

\* No installment is ever paid more than it asks for, although the amounts that
\* applyRepayment writes were computed from an older read (lines 740-761).
THEOREM OverpaidCorrect == Spec => []NeverOverpaid
BY TypeInvariant, TypeInvType, PTL

-----------------------------------------------------------------------------
(* A loan closes with the payment that makes it full *)

\* Every step leaves the books alone or is the transaction of applyRepayment.
LEMMA BooksStep ==
  ASSUME [Next]_vars
  PROVE  \/ UNCHANGED books
         \/ \E r \in Requests : req[r].pc = "apply" /\ Applied(r)
<1>1. ASSUME NEW r \in Requests, Step(r)
      PROVE  UNCHANGED books \/ (req[r].pc = "apply" /\ Applied(r))
  BY <1>1, ApplyCases
  DEF Step, CheckExisting, FindAccount, InsertTransfer, MarkReconciled, ReadLoan, DrawReceipt
<1>2. ASSUME NEW r \in Requests, Call(r) PROVE UNCHANGED books
  BY <1>2 DEF Call, Webhook, Fetch, RecordRepayment, Resolve
<1> QED
  BY <1>1, <1>2 DEF Next, Fail, AssignNumber, vars, books

\* Amounts within the schedule are those of a paid loan exactly if none is left.
LEMMA AllPaidMeansDue ==
  ASSUME NEW l \in Loans, NEW amounts, Within(l, amounts)
  PROVE  AllPaid(l, amounts) <=> amounts = Due[l]
<1>1. amounts \in [Installments(l) -> Nat]
  BY WithinFunction
<1>2. PICK n \in Nat \ {0} : Installments(l) = 1..n
  BY Schedule
<1>3. Due[l] \in [Installments(l) -> Nat]
  BY Schedule, LoansAssumption, LenProperties DEF Installments
<1>4. ASSUME AllPaid(l, amounts) PROVE amounts = Due[l]
  <2>1. \A i \in Installments(l) : amounts[i] = Due[l][i]
    BY <1>1, <1>3, <1>4 DEF AllPaid, Within
  <2> QED
    BY <1>1, <1>3, <2>1
<1>5. ASSUME amounts = Due[l] PROVE AllPaid(l, amounts)
  BY <1>3, <1>5 DEF AllPaid
<1> QED
  BY <1>4, <1>5

\* The transaction on one loan: what it closes is paid, and what it pays closes.
LEMMA AppliedCloses ==
  ASSUME TypeInv, NEW r \in Requests, req[r].pc = "apply", Applied(r), NEW l \in Loans
  PROVE  \/ paid'[l] = paid[l] /\ loanStatus'[l] = loanStatus[l]
         \/ paid'[l] = Due[l] /\ loanStatus'[l] = "COMPLETED"
         \/ paid'[l] # Due[l] /\ loanStatus'[l] = loanStatus[l]
<1> DEFINE after == Allocated(l, paid[l], req[r].seen, req[r].amount)
<1>1. paid \in [Loans -> Seq(Nat)] /\ loanStatus \in [Loans -> {"ACTIVE", "COMPLETED"}]
  BY DEF TypeInv
<1>2. CASE req[r].loan # l
  BY <1>1, <1>2 DEF Applied
<1>3. CASE req[r].loan = l
  <2>1. Within(l, paid[l]) /\ Within(l, req[r].seen)
    BY <1>3 DEF TypeInv, HandlerOK
  <2>2. AllPaid(l, after) <=> after = Due[l]
    BY <2>1, AllocatedWithin, AllPaidMeansDue
  <2>3. paid'[l] = after
    BY <1>1, <1>3 DEF Applied
  <2>4. loanStatus'[l] = IF AllPaid(l, after) THEN "COMPLETED" ELSE loanStatus[l]
    BY <1>1, <1>3 DEF Applied
  <2> QED
    BY <2>2, <2>3, <2>4
<1> QED
  BY <1>2, <1>3

LEMMA ClosedStep ==
  TypeInv /\ PaidLoanIsClosed /\ [Next]_vars => PaidLoanIsClosed'
<1> SUFFICES ASSUME TypeInv, PaidLoanIsClosed, [Next]_vars, NEW l \in Loans,
                    paid'[l] = Due[l]
             PROVE  loanStatus'[l] = "COMPLETED"
  BY DEF PaidLoanIsClosed
<1>1. CASE UNCHANGED books
  BY <1>1 DEF books, PaidLoanIsClosed
<1>2. ASSUME NEW r \in Requests, req[r].pc = "apply", Applied(r)
      PROVE  \/ loanStatus'[l] = "COMPLETED"
             \/ paid'[l] = paid[l] /\ loanStatus'[l] = loanStatus[l]
  BY <1>2, AppliedCloses
<1> QED
  BY <1>1, <1>2, BooksStep DEF PaidLoanIsClosed

LEMMA ClosedInit == Init => PaidLoanIsClosed
<1> SUFFICES ASSUME Init, NEW l \in Loans PROVE paid[l] # Due[l]
  BY DEF PaidLoanIsClosed
<1>1. PICK n \in Nat \ {0} : Installments(l) = 1..n
  BY Schedule
<1>2. 1 \in Installments(l) /\ paid[l][1] = 0
  BY <1>1 DEF Init
<1> QED
  BY <1>2, Schedule

\* A loan all of whose installments are paid is never left ACTIVE: whichever
\* payment makes the last of them full closes it (applyRepayment, 763-765).
THEOREM PaidCorrect == Spec => []PaidLoanIsClosed
BY TypeInvariant, ClosedInit, ClosedStep, PTL DEF Spec

\* A loan is closed only by a step after which every installment is paid, and is
\* never opened again, however stale the amounts that are written (763-765).
THEOREM ClosedCorrect == Spec => ClosedOnlyWhenPaid
<1>1. TypeInv /\ [Next]_vars =>
        \A l \in Loans : loanStatus'[l] # loanStatus[l] =>
          loanStatus'[l] = "COMPLETED" /\ paid'[l] = Due[l]
  <2> SUFFICES ASSUME TypeInv, [Next]_vars, NEW l \in Loans, loanStatus'[l] # loanStatus[l]
               PROVE  loanStatus'[l] = "COMPLETED" /\ paid'[l] = Due[l]
    OBVIOUS
  <2>1. ~UNCHANGED books
    BY DEF books
  <2> QED
    BY <2>1, BooksStep, AppliedCloses
<1> QED
  BY <1>1, TypeInvariant, PTL DEF Spec, ClosedOnlyWhenPaid

-----------------------------------------------------------------------------
(* A transfer the provider's side credits is credited once *)

\* ProviderOnce is not inductive: what keeps a second handler away from a
\* transfer is what the handlers hold (Entitlement).
CreditInv == Entitlement /\ ProviderOnce /\ ReconciledIsCredited

\* The repayments of a transfer are those in the table.
LEMMA SameRows ==
  ASSUME repayments' = repayments
  PROVE  \A p : Rows(p)' = Rows(p)
BY DEF Rows

\* A handler that does not move keeps its entitlement if its transfer keeps its
\* status and no other handler has begun to credit the transfer.
LEMMA OtherEntitled ==
  ASSUME NEW q \in Requests, HandlerEntitled(q), req'[q] = req[q], repayments' = repayments,
         Crediting(q) \/ req[q].pc = "mark" =>
           transfer'[req[q].transfer] = transfer[req[q].transfer],
         Crediting(q) /\ req[q].source = "PROVIDER" =>
           \A k \in Requests : Crediting(k)' /\ req'[k].transfer = req[q].transfer => k = q
  PROVE  HandlerEntitled(q)'
<1>1. \A p : Rows(p)' = Rows(p)
  BY SameRows
<1> QED
  BY <1>1 DEF HandlerEntitled, Crediting, Applying, Exclusive

\* What the tables say of transfers is kept while they are.
LEMMA TablesKept ==
  ASSUME CreditInv, UNCHANGED <<transfer, repayments>>
  PROVE  /\ \A n \in DOMAIN repayments' : RowEntitled(n)'
         /\ ProviderOnce' /\ ReconciledIsCredited'
<1>1. \A p : Rows(p)' = Rows(p)
  BY SameRows
<1> QED
  BY <1>1 DEF CreditInv, Entitlement, RowEntitled, ProviderOnce, ReconciledIsCredited

\* No handler but r moves.
OnlyMoves(r) == \A q \in Requests \ {r} : req'[q] = req[q]

\* How one handler's move reads in req.
LEMMA Moves ==
  ASSUME TypeInv, NEW r \in Requests, NEW h, req' = [req EXCEPT ![r] = h]
  PROVE  req'[r] = h /\ OnlyMoves(r)
BY DEF TypeInv, OnlyMoves

\* A step of handler r that leaves the tables alone. If it credits a transfer
\* from now on, it did before or the transfer is UNMATCHED.
LEMMA MoveCredit ==
  ASSUME TypeInv, CreditInv, NEW r \in Requests, UNCHANGED <<transfer, repayments>>,
         OnlyMoves(r),
         Crediting(r)' =>
           \/ Crediting(r) /\ req'[r].transfer = req[r].transfer
           \/ transfer[req'[r].transfer] = "UNMATCHED",
         HandlerEntitled(r)'
  PROVE  CreditInv'
<1>1. ASSUME NEW q \in Requests \ {r} PROVE HandlerEntitled(q)'
  <2>1. HandlerEntitled(q)
    BY DEF CreditInv, Entitlement
  <2>2. ASSUME Crediting(q), req[q].source = "PROVIDER", NEW k \in Requests,
               Crediting(k)', req'[k].transfer = req[q].transfer
        PROVE  k = q
    <3>1. Exclusive(q, req[q].transfer)
      BY <2>1, <2>2 DEF HandlerEntitled
    <3>2. CASE k = r
      BY <2>2, <3>1, <3>2 DEF Exclusive
    <3>3. CASE k # r
      BY <2>2, <3>1, <3>3 DEF Exclusive, Crediting, Applying, OnlyMoves
    <3> QED
      BY <3>2, <3>3
  <2> QED
    BY <2>1, <2>2, OtherEntitled DEF OnlyMoves
<1> QED
  BY <1>1, TablesKept DEF CreditInv, Entitlement


\* A handler that credits and marks nothing, and has no transfer at hand.
LEMMA LeaveCredit ==
  ASSUME TypeInv, CreditInv, NEW r \in Requests, UNCHANGED <<transfer, repayments>>,
         OnlyMoves(r), req'[r].pc \in {"idle", "check"}
  PROVE  CreditInv'
<1>1. HandlerEntitled(r)' /\ ~Crediting(r)'
  BY DEF HandlerEntitled, Crediting, Applying
<1> QED
  BY <1>1, MoveCredit

\* How the end of a request and the move to the next transfer read in req.
LEMMA Leaves ==
  ASSUME TypeInv, NEW r \in Requests
  PROVE  /\ Finish(r) => req'[r].pc = "idle" /\ OnlyMoves(r)
         /\ \A batch : req' = [req EXCEPT ![r] = [Idle EXCEPT !.pc = "check", !.batch = batch]]
              => req'[r].pc = "check" /\ OnlyMoves(r)
         /\ Continue(r) => req'[r].pc \in {"idle", "check"} /\ OnlyMoves(r)
<1>1. Finish(r) => req'[r].pc = "idle" /\ OnlyMoves(r)
  BY DEF Finish, Idle, TypeInv, OnlyMoves
<1>2. ASSUME NEW batch,
             req' = [req EXCEPT ![r] = [Idle EXCEPT !.pc = "check", !.batch = batch]]
      PROVE  req'[r].pc = "check" /\ OnlyMoves(r)
  BY <1>2 DEF Idle, TypeInv, OnlyMoves
<1>3. Continue(r) => \/ Finish(r)
                     \/ req' = [req EXCEPT ![r] = [Idle EXCEPT !.pc = "check",
                                                               !.batch = req[r].batch]]
  BY DEF Continue
<1> QED
  BY <1>1, <1>2, <1>3

LEMMA FinishCredit ==
  ASSUME TypeInv, CreditInv, NEW r \in Requests, UNCHANGED <<transfer, repayments>>, Finish(r)
  PROVE  CreditInv'
BY LeaveCredit, Leaves

LEMMA CheckExistingCredit ==
  ASSUME TypeInv, CreditInv, NEW r \in Requests, CheckExisting(r)
  PROVE  CreditInv'
<1>1. UNCHANGED <<transfer, repayments>>
  BY DEF CheckExisting, books
<1>2. PICK p \in req[r].batch :
        LET rest == req[r].batch \ {p}
        IN  \/ req' = [req EXCEPT ![r] = [Idle EXCEPT !.pc = "find", !.batch = rest,
                                            !.transfer = p, !.amount = AmountOf[p],
                                            !.source = "PROVIDER"]]
            \/ req' = [req EXCEPT ![r] = [Idle EXCEPT !.pc = "check", !.batch = rest]]
            \/ Finish(r)
  BY DEF CheckExisting
<1> DEFINE h == [Idle EXCEPT !.pc = "find", !.batch = req[r].batch \ {p},
                             !.transfer = p, !.amount = AmountOf[p], !.source = "PROVIDER"]
<1>3. p \in Transfers
  BY DEF TypeInv, Handler
<1>4. h.pc = "find" /\ h.transfer = p /\ h.amount = AmountOf[p] /\ h.source = "PROVIDER"
  BY DEF Idle
<1>5. CASE req' = [req EXCEPT ![r] = h]
  <2> HIDE DEF h
  <2>1. req'[r] = h /\ OnlyMoves(r)
    BY <1>5, Moves
  <2>2. HandlerEntitled(r)' /\ ~Crediting(r)'
    BY <1>3, <1>4, <2>1 DEF HandlerEntitled, Crediting, Applying
  <2> QED
    BY <1>1, <2>1, <2>2, MoveCredit
<1> QED
  BY <1>1, <1>2, <1>5, Leaves, LeaveCredit

LEMMA FindAccountCredit ==
  ASSUME TypeInv, CreditInv, NEW r \in Requests, FindAccount(r)
  PROVE  CreditInv'
<1> DEFINE h == [req[r] EXCEPT !.pc = "insert",
                   !.loan = IF TargetOf[req[r].transfer] \in numbered
                            THEN TargetOf[req[r].transfer] ELSE None]
<1>1. UNCHANGED <<transfer, repayments>> /\ req' = [req EXCEPT ![r] = h]
  BY DEF FindAccount, books
<1>2. /\ req[r] \in Handler /\ req[r].transfer \in Transfers
      /\ req[r].amount = AmountOf[req[r].transfer] /\ req[r].source = "PROVIDER"
  BY DEF TypeInv, HandlerOK, FindAccount, CreditInv, Entitlement, HandlerEntitled
<1>3. /\ h.pc = "insert" /\ h.transfer = req[r].transfer
      /\ h.amount = req[r].amount /\ h.source = req[r].source
  BY <1>2 DEF Handler
<1> HIDE DEF h
<1>4. req'[r] = h /\ OnlyMoves(r)
  BY <1>1, Moves
<1>5. HandlerEntitled(r)' /\ ~Crediting(r)'
  BY <1>1, <1>2, <1>3, <1>4 DEF HandlerEntitled, Crediting, Applying
<1> QED
  BY <1>1, <1>4, <1>5, MoveCredit

\* A handler that goes on in applyRepayment keeps what it may do.
LEMMA ApplyingCredit ==
  ASSUME TypeInv, CreditInv, NEW r \in Requests, UNCHANGED <<transfer, repayments>>,
         OnlyMoves(r), Applying(r), Applying(r)',
         req'[r].transfer = req[r].transfer, req'[r].amount = req[r].amount,
         req'[r].source = req[r].source
  PROVE  CreditInv'
<1>1. HandlerEntitled(r)
  BY DEF CreditInv, Entitlement
<1>2. \A q \in Requests :
        (Crediting(q)' <=> Crediting(q)) /\ req'[q].transfer = req[q].transfer
  BY DEF Crediting, Applying, OnlyMoves
<1>3. \A p : Rows(p)' = Rows(p)
  BY SameRows
<1>4. ASSUME Exclusive(r, req[r].transfer) PROVE Exclusive(r, req[r].transfer)'
  <2>1. \A q \in Requests : Crediting(q)' /\ req'[q].transfer = req[r].transfer => q = r
    BY <1>2, <1>4 DEF Exclusive
  <2> QED
    BY <1>3, <1>4, <2>1 DEF Exclusive
<1>5. HandlerEntitled(r)'
  BY <1>1, <1>2, <1>3, <1>4 DEF HandlerEntitled, Crediting, Applying
<1> QED
  BY <1>2, <1>5, MoveCredit

LEMMA ReadLoanCredit ==
  ASSUME TypeInv, CreditInv, NEW r \in Requests, ReadLoan(r)
  PROVE  CreditInv'
<1> DEFINE h == [req[r] EXCEPT !.pc = "receipt", !.seen = paid[req[r].loan]]
<1>1. UNCHANGED <<transfer, repayments>> /\ (Finish(r) \/ req' = [req EXCEPT ![r] = h])
  BY DEF ReadLoan, books
<1>2. Applying(r) /\ req[r] \in Handler
  BY DEF TypeInv, ReadLoan, Applying
<1>3. /\ h.pc = "receipt" /\ h.transfer = req[r].transfer
      /\ h.amount = req[r].amount /\ h.source = req[r].source
  BY <1>2 DEF Handler
<1> HIDE DEF h
<1>4. ASSUME req' = [req EXCEPT ![r] = h]
      PROVE  req'[r] = h /\ OnlyMoves(r) /\ Applying(r)'
  BY <1>3, <1>4, Moves DEF Applying
<1> QED
  BY <1>1, <1>2, <1>3, <1>4, ApplyingCredit, FinishCredit

LEMMA DrawReceiptCredit ==
  ASSUME TypeInv, CreditInv, NEW r \in Requests, DrawReceipt(r)
  PROVE  CreditInv'
<1> DEFINE h == [req[r] EXCEPT !.pc = "apply", !.receipt = Len(repayments) + 1]
<1>1. UNCHANGED <<transfer, repayments>> /\ req' = [req EXCEPT ![r] = h]
  BY DEF DrawReceipt, books
<1>2. Applying(r) /\ req[r] \in Handler
  BY DEF TypeInv, DrawReceipt, Applying
<1>3. /\ h.pc = "apply" /\ h.transfer = req[r].transfer
      /\ h.amount = req[r].amount /\ h.source = req[r].source
  BY <1>2 DEF Handler
<1> HIDE DEF h
<1>4. req'[r] = h /\ OnlyMoves(r) /\ Applying(r)'
  BY <1>1, <1>3, Moves DEF Applying
<1> QED
  BY <1>1, <1>2, <1>3, <1>4, ApplyingCredit

LEMMA RecordRepaymentCredit ==
  ASSUME TypeInv, CreditInv, NEW r \in Requests, NEW l \in Loans, NEW amount,
         RecordRepayment(r, l, amount)
  PROVE  CreditInv'
<1> DEFINE h == [Idle EXCEPT !.pc = "loan", !.loan = l, !.amount = amount]
<1>1. UNCHANGED <<transfer, repayments>> /\ req' = [req EXCEPT ![r] = h]
  BY DEF RecordRepayment, books
<1>2. h.pc = "loan" /\ h.transfer = None /\ h.source = "MANUAL"
  BY DEF Idle
<1> HIDE DEF h
<1>3. req'[r] = h /\ OnlyMoves(r)
  BY <1>1, Moves
<1>4. HandlerEntitled(r)' /\ ~Crediting(r)'
  BY <1>2, <1>3 DEF HandlerEntitled, Crediting, Applying
<1> QED
  BY <1>1, <1>3, <1>4, MoveCredit

\* An UNMATCHED transfer has no repayment of the provider's side.
LEMMA ResolveCredit ==
  ASSUME TypeInv, CreditInv, NEW r \in Requests, NEW p \in Transfers, NEW l \in Loans,
         Resolve(r, p, l)
  PROVE  CreditInv'
<1> DEFINE h == [Idle EXCEPT !.pc = "loan", !.transfer = p, !.loan = l,
                             !.amount = AmountOf[p], !.source = "RESOLVED"]
<1>1. UNCHANGED <<transfer, repayments>> /\ req' = [req EXCEPT ![r] = h]
  BY DEF Resolve, books
<1>2. h.pc = "loan" /\ h.transfer = p /\ h.source = "RESOLVED" /\ h.amount = AmountOf[p]
  BY DEF Idle
<1> HIDE DEF h
<1>3. req'[r] = h /\ OnlyMoves(r)
  BY <1>1, Moves
<1>4. transfer[p] = "UNMATCHED"
  BY DEF Resolve, Resolvable
<1>5. \A n \in Rows(p) : repayments[n].source # "PROVIDER"
  <2>1. p # None
    BY LoansAssumption
  <2> QED
    BY <1>4, <2>1 DEF CreditInv, Entitlement, RowEntitled, Rows
<1>6. Rows(p)' = Rows(p)
  BY <1>1, SameRows
<1>7. HandlerEntitled(r)'
  BY <1>1, <1>2, <1>3, <1>4, <1>5, <1>6 DEF HandlerEntitled, Crediting, Applying
<1> QED
  BY <1>1, <1>2, <1>3, <1>4, <1>7, MoveCredit

\* Every row names a transfer or none.
LEMMA RowType ==
  ASSUME TypeInv, NEW n \in DOMAIN repayments
  PROVE  repayments[n] \in Repayment /\ repayments[n].transfer \in Transfers \cup {None}
<1>1. repayments \in Seq(Repayment) /\ n \in 1..Len(repayments)
  BY LenProperties DEF TypeInv
<1>2. repayments[n] \in Repayment
  BY <1>1, ElementOfSeq
<1> QED
  BY <1>2 DEF Repayment

\* The insert: no handler relies on a transfer without a row, and it has no
\* repayment.
LEMMA InsertCredit ==
  ASSUME TypeInv, CreditInv, NEW r \in Requests, InsertTransfer(r)
  PROVE  CreditInv'
<1>0. PICK p : p = req[r].transfer
  OBVIOUS
<1> DEFINE h == [req[r] EXCEPT !.pc = "loan"]
<1>1. CASE ~Insertable(p)
  BY <1>0, <1>1, FinishCredit DEF InsertTransfer, books
<1>2. CASE Insertable(p)
  <2>1. HandlerEntitled(r) /\ \A q \in Requests : HandlerEntitled(q)
    BY DEF CreditInv, Entitlement
  <2>2. /\ p \in Transfers /\ req[r].amount = AmountOf[p] /\ req[r].source = "PROVIDER"
        /\ req[r] \in Handler /\ p # None
    BY <1>0, <2>1, LoansAssumption DEF InsertTransfer, HandlerEntitled, TypeInv
  <2>3. transfer[p] = "NONE" /\ transfer \in [Transfers -> TransferStatus]
    BY <1>2 DEF Insertable, TypeInv
  <2>4. /\ transfer' = [transfer EXCEPT ![p] = StatusFor(req[r].loan)]
        /\ repayments' = repayments
        /\ \/ req[r].loan # None /\ req' = [req EXCEPT ![r] = h]
           \/ req[r].loan = None /\ Continue(r)
    BY <1>0, <1>2 DEF InsertTransfer, books
  <2>5. /\ transfer'[p] = StatusFor(req[r].loan)
        /\ \A x \in Transfers \ {p} : transfer'[x] = transfer[x]
    BY <2>2, <2>3, <2>4
  <2>6. /\ \A x : Rows(x)' = Rows(x)
        /\ Rows(p) = {}
    BY <2>2, <2>3, <2>4, SameRows DEF CreditInv, Entitlement, RowEntitled, Rows
  <2>7. ASSUME NEW q \in Requests, Crediting(q) \/ req[q].pc = "mark"
        PROVE  req[q].transfer \in Transfers \ {p}
    <3>1. HandlerEntitled(q) /\ req[q].source \in Source
      BY <2>1 DEF TypeInv, Handler
    <3> QED
      BY <2>3, <2>6, <2>7, <3>1 DEF HandlerEntitled, Exclusive, Crediting, Source
  <2>8. /\ h.pc = "loan" /\ h.transfer = p /\ h.amount = req[r].amount
        /\ h.source = req[r].source
    BY <1>0, <2>2 DEF Handler
  <2> HIDE DEF h
  <2>9. /\ OnlyMoves(r)
        /\ \/ req[r].loan # None /\ req'[r] = h
           \/ req'[r].pc \in {"idle", "check"}
    BY <2>4, Moves, Leaves
  <2>10. Crediting(r)' => req'[r].transfer = p
    BY <2>8, <2>9 DEF Crediting, Applying
  <2>11. ASSUME NEW q \in Requests \ {r} PROVE HandlerEntitled(q)'
    <3>1. HandlerEntitled(q) /\ req'[q] = req[q]
      BY <2>1, <2>9 DEF OnlyMoves
    <3>2. Crediting(q) \/ req[q].pc = "mark" =>
            transfer'[req[q].transfer] = transfer[req[q].transfer]
      BY <2>5, <2>7
    <3>3. ASSUME Crediting(q), req[q].source = "PROVIDER", NEW k \in Requests,
                 Crediting(k)', req'[k].transfer = req[q].transfer
          PROVE  k = q
      <4>1. k # r
        BY <2>7, <2>10, <3>3
      <4>2. Crediting(k) /\ req[k].transfer = req[q].transfer
        BY <2>9, <3>3, <4>1 DEF Crediting, Applying, OnlyMoves
      <4> QED
        BY <3>1, <3>3, <4>2 DEF HandlerEntitled, Exclusive
    <3> QED
      BY <2>4, <3>1, <3>2, <3>3, OtherEntitled
  <2>12. HandlerEntitled(r)'
    <3>1. CASE req'[r].pc \in {"idle", "check"}
      BY <3>1 DEF HandlerEntitled, Crediting, Applying
    <3>2. CASE req[r].loan # None /\ req'[r] = h
      <4>1. transfer'[p] = "MATCHED" /\ Rows(p)' = {}
        BY <2>5, <2>6, <3>2 DEF StatusFor
      <4>2. ASSUME NEW q \in Requests, Crediting(q)', req'[q].transfer = p PROVE q = r
        BY <2>7, <2>9, <4>2 DEF Crediting, Applying, OnlyMoves
      <4>3. Exclusive(r, p)'
        BY <2>8, <3>2, <4>1, <4>2 DEF Exclusive
      <4> QED
        BY <2>2, <2>8, <3>2, <4>3 DEF HandlerEntitled, Crediting, Applying
    <3> QED
      BY <2>9, <3>1, <3>2
  <2>13. ASSUME NEW n \in DOMAIN repayments PROVE RowEntitled(n)'
    <3>1. RowEntitled(n) /\ repayments[n].transfer \in Transfers \cup {None}
      BY RowType DEF CreditInv, Entitlement
    <3>2. repayments[n].transfer # p
      BY <2>6 DEF Rows
    <3> QED
      BY <2>4, <2>5, <3>1, <3>2 DEF RowEntitled
  <2>14. ProviderOnce'
    BY <2>4, <2>6 DEF CreditInv, ProviderOnce
  <2>15. ReconciledIsCredited'
    <3>1. transfer'[p] # "RECONCILED"
      BY <2>5 DEF StatusFor
    <3> QED
      BY <2>4, <2>5, <2>6, <3>1 DEF CreditInv, ReconciledIsCredited
  <2> QED
    BY <2>4, <2>11, <2>12, <2>13, <2>14, <2>15 DEF CreditInv, Entitlement
<1> QED
  BY <1>1, <1>2

\* The mark: the transfer has its repayment, so no handler is still to credit it
\* for the provider's side.
LEMMA MarkCredit ==
  ASSUME TypeInv, CreditInv, NEW r \in Requests, MarkReconciled(r)
  PROVE  CreditInv'
<1>0. PICK p : p = req[r].transfer
  OBVIOUS
<1>1. /\ \A q \in Requests : HandlerEntitled(q)
      /\ req[r].pc = "mark" /\ repayments' = repayments
      /\ transfer' = [transfer EXCEPT ![p] = "RECONCILED"]
  BY <1>0 DEF CreditInv, Entitlement, MarkReconciled, books
<1>2. p \in Transfers /\ \E n \in Rows(p) : repayments[n].amount = AmountOf[p]
  BY <1>0, <1>1 DEF HandlerEntitled
<1>3. /\ transfer'[p] = "RECONCILED"
      /\ \A x \in Transfers \ {p} : transfer'[x] = transfer[x]
  BY <1>1, <1>2 DEF TypeInv
<1>4. \A x : Rows(x)' = Rows(x)
  BY <1>1, SameRows
<1>5. OnlyMoves(r) /\ req'[r].pc \in {"idle", "check"}
  BY Leaves DEF MarkReconciled
<1>6. ASSUME NEW q \in Requests \ {r} PROVE HandlerEntitled(q)'
  <2>1. HandlerEntitled(q) /\ req'[q] = req[q]
    BY <1>1, <1>5 DEF OnlyMoves
  <2>2. \A k \in Requests : Crediting(k)' =>
          Crediting(k) /\ req'[k].transfer = req[k].transfer
    BY <1>5 DEF Crediting, Applying, OnlyMoves
  <2>3. ASSUME Exclusive(q, req[q].transfer), req[q].transfer \in Transfers
        PROVE  Exclusive(q, req[q].transfer)'
    <3>1. req[q].transfer # p
      BY <1>2, <2>3 DEF Exclusive
    <3> QED
      BY <1>3, <1>4, <2>1, <2>2, <2>3, <3>1 DEF Exclusive
  <2> QED
    BY <1>1, <1>3, <1>4, <2>1, <2>3 DEF HandlerEntitled, Crediting, Applying
<1>7. HandlerEntitled(r)'
  BY <1>5 DEF HandlerEntitled, Crediting, Applying
<1>8. ASSUME NEW n \in DOMAIN repayments PROVE RowEntitled(n)'
  <2>1. RowEntitled(n) /\ repayments[n].transfer \in Transfers \cup {None}
    BY RowType DEF CreditInv, Entitlement
  <2> QED
    BY <1>1, <1>3, <2>1 DEF RowEntitled
<1>9. ProviderOnce' /\ ReconciledIsCredited'
  BY <1>1, <1>2, <1>3, <1>4 DEF CreditInv, ProviderOnce, ReconciledIsCredited
<1> QED
  BY <1>1, <1>6, <1>7, <1>8, <1>9 DEF CreditInv, Entitlement

\* The transaction adds one row and keeps the others.
LEMMA AppliedRows ==
  ASSUME TypeInv, NEW r \in Requests, Applied(r)
  PROVE  \E N : /\ N \notin DOMAIN repayments
                /\ DOMAIN repayments' = DOMAIN repayments \cup {N}
                /\ repayments'[N] = Row(req[r])
                /\ \A n \in DOMAIN repayments : repayments'[n] = repayments[n]
<1> DEFINE N == Len(repayments) + 1
<1>1. repayments \in Seq(Repayment \cup {Row(req[r])})
  BY SeqMonotonic DEF TypeInv
<1>2. repayments' = Append(repayments, Row(req[r]))
  BY DEF Applied
<1>3. /\ Len(repayments) \in Nat /\ DOMAIN repayments = 1..Len(repayments)
      /\ DOMAIN repayments' = 1..N
      /\ repayments'[N] = Row(req[r])
      /\ \A n \in 1..Len(repayments) : repayments'[n] = repayments[n]
  BY <1>1, <1>2, AppendProperties, LenProperties
<1> QED
  BY <1>3

\* The transaction of applyRepayment: only the one handler the provider's side
\* credits the transfer with, or handlers Accounting started, come to it.
LEMMA AppliedCredit ==
  ASSUME TypeInv, CreditInv, NEW r \in Requests, req[r].pc = "apply", Applied(r),
         transfer' = transfer, OnlyMoves(r),
         \/ req[r].source = "MANUAL" /\ req'[r].pc = "idle"
         \/ /\ req[r].source # "MANUAL"
            /\ req'[r] = [req[r] EXCEPT !.pc = "mark"]
  PROVE  CreditInv'
<1>0. PICK p : p = req[r].transfer
  OBVIOUS
<1>1. PICK N : /\ N \notin DOMAIN repayments
               /\ DOMAIN repayments' = DOMAIN repayments \cup {N}
               /\ repayments'[N] = Row(req[r])
               /\ \A n \in DOMAIN repayments : repayments'[n] = repayments[n]
  BY AppliedRows
<1>2. /\ \A q \in Requests : HandlerEntitled(q) /\ req[q] \in Handler
      /\ Applying(r)
  BY DEF CreditInv, Entitlement, TypeInv, Applying
<1>3. /\ repayments'[N].transfer = p /\ repayments'[N].amount = req[r].amount
      /\ repayments'[N].source = req[r].source
  BY <1>0, <1>1 DEF Row
<1>4. \A x : Rows(x)' = IF x = p THEN Rows(x) \cup {N} ELSE Rows(x)
  BY <1>1, <1>3 DEF Rows
<1>5. req[r].source = "MANUAL" => p = None
  BY <1>0, <1>2 DEF HandlerEntitled
<1>6. req[r].source # "MANUAL" =>
        /\ p \in Transfers /\ p # None /\ req[r].amount = AmountOf[p]
        /\ req[r].source \in {"PROVIDER", "RESOLVED"}
        /\ req[r].source = "PROVIDER" => Exclusive(r, p)
        /\ req[r].source = "RESOLVED" =>
             /\ transfer[p] \in {"UNMATCHED", "RECONCILED"}
             /\ \A n \in Rows(p) : repayments[n].source # "PROVIDER"
  BY <1>0, <1>2, LoansAssumption DEF HandlerEntitled, Crediting, Handler, Source
<1>7. /\ req[r].source = "MANUAL" => ~Crediting(r)' /\ req'[r].pc # "mark"
      /\ req[r].source # "MANUAL" =>
           /\ req'[r].pc = "mark" /\ req'[r].transfer = p
           /\ req'[r].source = req[r].source /\ req'[r].amount = req[r].amount
      /\ ~Applying(r)'
      /\ req'[r].pc \notin {"find", "insert"}
  BY <1>0, <1>2 DEF Handler, Crediting, Applying
<1>8. ASSUME NEW q \in Requests \ {r} PROVE HandlerEntitled(q)'
  <2>1. HandlerEntitled(q) /\ req'[q] = req[q]
    BY <1>2 DEF OnlyMoves
  <2>2. \A k \in Requests : Crediting(k)' =>
          Crediting(k) /\ req'[k].transfer = req[k].transfer
    BY <1>7 DEF Crediting, Applying, OnlyMoves
  <2>3. ASSUME Crediting(q), Exclusive(q, req[q].transfer), req[q].transfer \in Transfers
        PROVE  Exclusive(q, req[q].transfer)'
    <3>1. req[q].transfer # p
      <4>1. CASE req[r].source = "MANUAL"
        BY <1>5, <2>3, <4>1, LoansAssumption
      <4>2. CASE req[r].source # "MANUAL"
        BY <1>0, <1>2, <2>3, <4>2 DEF Exclusive, Crediting
      <4> QED
        BY <4>1, <4>2
    <3> QED
      BY <1>4, <2>1, <2>2, <2>3, <3>1 DEF Exclusive
  <2>4. ASSUME req[q].transfer \in Transfers,
               transfer[req[q].transfer] \in {"UNMATCHED", "RECONCILED"},
               Crediting(q) \/ req[q].pc = "mark",
               \A n \in Rows(req[q].transfer) : repayments[n].source # "PROVIDER"
        PROVE  \A n \in Rows(req[q].transfer)' : repayments'[n].source # "PROVIDER"
    <3>1. \A n \in Rows(req[q].transfer) :
            n \in DOMAIN repayments /\ repayments'[n].source # "PROVIDER"
      BY <1>1, <2>4 DEF Rows
    <3>2. CASE req[q].transfer # p
      BY <1>4, <2>1, <3>1, <3>2
    <3>3. CASE req[q].transfer = p
      <4>1. req[r].source # "MANUAL"
        BY <1>5, <2>4, <3>3, LoansAssumption
      <4>2. req[r].source = "RESOLVED"
        BY <1>6, <2>4, <3>3, <4>1 DEF Exclusive
      <4> QED
        BY <1>3, <1>4, <2>1, <3>1, <3>3, <4>2
    <3> QED
      BY <3>2, <3>3
  <2>5. ASSUME NEW n \in Rows(req[q].transfer)
        PROVE  n \in Rows(req[q].transfer)' /\ repayments'[n] = repayments[n]
    BY <1>1, <1>4, <2>1, <2>5 DEF Rows
  <2>6. (Crediting(q)' <=> Crediting(q)) /\ (Applying(q)' <=> Applying(q))
    BY <2>1 DEF Crediting, Applying
  <2> QED
    BY <2>1, <2>3, <2>4, <2>5, <2>6 DEF HandlerEntitled
<1>9. HandlerEntitled(r)'
  <2>1. CASE req[r].source = "MANUAL"
    BY <1>7, <2>1 DEF HandlerEntitled, Crediting
  <2>2. CASE req[r].source # "MANUAL"
    <3>1. \E n \in Rows(p)' : repayments'[n].amount = AmountOf[p]
      BY <1>3, <1>4, <1>6, <2>2
    <3>2. ASSUME req[r].source = "RESOLVED", NEW n \in Rows(p)'
          PROVE  repayments'[n].source # "PROVIDER"
      BY <1>1, <1>3, <1>4, <1>6, <2>2, <3>2 DEF Rows
    <3> QED
      BY <1>6, <1>7, <2>2, <3>1, <3>2 DEF HandlerEntitled, Crediting
  <2> QED
    BY <2>1, <2>2
<1>10. ASSUME NEW n \in DOMAIN repayments' PROVE RowEntitled(n)'
  <2>1. CASE n = N
    BY <1>2, <1>3, <1>5, <1>6, <2>1 DEF RowEntitled, Exclusive
  <2>2. CASE n # N
    BY <1>1, <2>2 DEF CreditInv, Entitlement, RowEntitled
  <2> QED
    BY <2>1, <2>2
<1>11. ASSUME NEW x \in Transfers, NEW m \in Rows(x)', NEW n \in Rows(x)',
              repayments'[m].source = "PROVIDER"
       PROVE  m = n
  <2>1. CASE x # p
    BY <1>1, <1>4, <1>11, <2>1 DEF CreditInv, ProviderOnce, Rows
  <2>2. CASE x = p
    <3>1. req[r].source # "MANUAL"
      BY <1>5, <2>2, LoansAssumption
    <3>2. CASE req[r].source = "PROVIDER"
      BY <1>4, <1>6, <1>11, <2>2, <3>2 DEF Exclusive
    <3>3. CASE req[r].source = "RESOLVED"
      BY <1>1, <1>3, <1>4, <1>6, <1>11, <2>2, <3>3 DEF Rows
    <3> QED
      BY <1>6, <3>1, <3>2, <3>3
  <2> QED
    BY <2>1, <2>2
<1>12. ReconciledIsCredited'
  <2> SUFFICES ASSUME NEW x \in Transfers, transfer[x] = "RECONCILED"
               PROVE  \E n \in Rows(x)' : repayments'[n].amount = AmountOf[x]
    BY DEF ReconciledIsCredited
  <2>1. PICK n \in Rows(x) : repayments[n].amount = AmountOf[x]
    BY DEF CreditInv, ReconciledIsCredited
  <2>2. n \in Rows(x)' /\ repayments'[n] = repayments[n]
    BY <1>1, <1>4 DEF Rows
  <2> QED
    BY <2>1, <2>2
<1> QED
  BY <1>8, <1>9, <1>10, <1>11, <1>12 DEF CreditInv, Entitlement, ProviderOnce

LEMMA ApplyRepaymentCredit ==
  ASSUME TypeInv, CreditInv, NEW r \in Requests, ApplyRepayment(r)
  PROVE  CreditInv'
<1>1. CASE UNCHANGED books /\ Finish(r)
  BY <1>1, ApplyCases, FinishCredit DEF books
<1>2. CASE Applied(r) /\ req[r].source = "MANUAL" /\ Finish(r)
  BY <1>2, ApplyCases, Leaves, AppliedCredit
<1>3. CASE /\ Applied(r) /\ req[r].source # "MANUAL"
           /\ req' = [req EXCEPT ![r] = [req[r] EXCEPT !.pc = "mark"]]
  <2> DEFINE h == [req[r] EXCEPT !.pc = "mark"]
  <2>1. req' = [req EXCEPT ![r] = h]
    BY <1>3
  <2> HIDE DEF h
  <2>2. req'[r] = h /\ OnlyMoves(r)
    BY <2>1, Moves
  <2>3. req'[r] = [req[r] EXCEPT !.pc = "mark"]
    BY <2>2 DEF h
  <2> QED
    BY <1>3, <2>2, <2>3, ApplyCases, AppliedCredit
<1> QED
  BY <1>1, <1>2, <1>3, ApplyCases

LEMMA CreditStep == TypeInv /\ CreditInv /\ [Next]_vars => CreditInv'
<1> SUFFICES ASSUME TypeInv, CreditInv, [Next]_vars PROVE CreditInv'
  OBVIOUS
<1>1. ASSUME NEW r \in Requests, Step(r) PROVE CreditInv'
  BY <1>1, CheckExistingCredit, FindAccountCredit, InsertCredit, MarkCredit, ReadLoanCredit,
     DrawReceiptCredit, ApplyRepaymentCredit DEF Step
<1>2. ASSUME NEW r \in Requests, Fail(r) PROVE CreditInv'
  BY <1>2, FinishCredit DEF Fail, books
<1>3. ASSUME NEW r \in Requests, NEW p \in Transfers, Webhook(r, p) PROVE CreditInv'
  BY <1>3, Leaves, LeaveCredit DEF Webhook, books
<1>4. ASSUME NEW r \in Requests, NEW l \in Loans, Fetch(r, l) PROVE CreditInv'
  BY <1>4, Leaves, LeaveCredit DEF Fetch, books
<1>5. ASSUME UNCHANGED <<transfer, repayments, req>> PROVE CreditInv'
  <2>1. \A p : Rows(p)' = Rows(p)
    BY <1>5, SameRows
  <2>2. ASSUME NEW r \in Requests PROVE HandlerEntitled(r)'
    BY <1>5, <2>1 DEF CreditInv, Entitlement, HandlerEntitled, Exclusive, Crediting, Applying
  <2> QED
    BY <1>5, <2>2, TablesKept DEF CreditInv, Entitlement
<1> QED
  BY <1>1, <1>2, <1>3, <1>4, <1>5, RecordRepaymentCredit, ResolveCredit
  DEF Next, Call, AssignNumber, vars, books

LEMMA CreditInit == Init => CreditInv
<1> SUFFICES ASSUME Init PROVE CreditInv
  OBVIOUS
<1>1. \A r \in Requests : req[r].pc = "idle"
  BY DEF Init, Idle
<1>2. DOMAIN repayments = {} /\ \A p \in Transfers : transfer[p] = "NONE"
  BY EmptySeq, LenProperties DEF Init
<1> QED
  BY <1>1, <1>2 DEF CreditInv, Entitlement, ProviderOnce, ReconciledIsCredited, Rows,
                    HandlerEntitled, Crediting, Applying

LEMMA CreditInvariant == Spec => [](TypeInv /\ CreditInv)
BY TypeInvariant, CreditInit, CreditStep, PTL DEF Spec

\* A transfer the provider's side credits is credited once and never again,
\* however often the webhook is delivered, fetched or interrupted
\* (reconcile, 456-495; resolveUnmatched, 771-792).
THEOREM CreditCorrect == Spec => [](Entitlement /\ ProviderOnce)
<1>1. CreditInv => Entitlement /\ ProviderOnce
  BY DEF CreditInv
<1> QED
  BY <1>1, CreditInvariant, PTL

\* What reads RECONCILED has been credited with its amount, also when the
\* handler that marks it died and another took its place (reconcile, 484-495;
\* resolveUnmatched, 781-792).
THEOREM ReconciledCorrect == Spec => []ReconciledIsCredited
<1>1. CreditInv => ReconciledIsCredited
  BY DEF CreditInv
<1> QED
  BY <1>1, CreditInvariant, PTL

-----------------------------------------------------------------------------
(* What is credited was received. A stale read may write an installment lower than *)
(* it was, so the amounts in the table are not inductive; but there are amounts     *)
(* above all that was ever written or read, and what they sum up to was received.   *)

\* Shares are no more than the payment they come from.
Asked(l, s) == [j \in Installments(l) |-> Outstanding(l, s, j)]
Shares(l, s, amount) == [i \in Installments(l) |-> Share(LeftFor(l, s, amount, i), Outstanding(l, s, i))]

LEMMA LeftIs ==
  ASSUME NEW l \in Loans, NEW s, Within(l, s), NEW amount, NEW i \in Installments(l)
  PROVE  LeftFor(l, s, amount, i) = amount - Total(Asked(l, s), 1 .. i - 1)
<1> DEFINE D == {j \in DOMAIN s : j < i}
           g == Asked(l, s)
           body(h) == [d \in SUBSET D |-> IF d = {} THEN 0
                                          ELSE Outstanding(l, s, CHOOSE x \in d : TRUE) + h[d \ {CHOOSE x \in d : TRUE}]]
           iter == CHOOSE h : h = body(h)
<1>0. IsFiniteSet(D) /\ Numbers(g, D) /\ D = 1 .. i - 1
  <2>1. PICK n \in Nat \ {0} : Installments(l) = 1 .. n
    BY Schedule
  <2>2. D = 1 .. i - 1
    BY <2>1 DEF Within
  <2>3. s \in [Installments(l) -> Nat] /\ \A j \in Installments(l) : Due[l][j] \in Nat
    BY WithinFunction, Schedule
  <2>4. Numbers(g, D)
    BY <2>1, <2>2, <2>3 DEF Numbers, Asked, Outstanding
  <2>5. i - 1 \in Int /\ IsFiniteSet(1 .. i - 1)
    BY <2>1, FS_Interval
  <2> QED
    BY <2>2, <2>4, <2>5
<1>1. PICK f : Table(f, g, D)
  BY <1>0, SumsFor
<1> DEFINE e == [d \in SUBSET D |-> f[d]]
<1>2. LeftFor(l, s, amount, i) = amount - iter[D]
  BY DEF LeftFor, MapThenSumSet, MapThenFoldSet
<1>f. \A d \in SUBSET D : d # {} => First(d) \in d /\ g[First(d)] = Outstanding(l, s, First(d))
  BY FirstIn DEF Asked, Within
<1>3. e = body(e)
  BY <1>1, <1>f DEF First, Adding, Table
<1>4. ASSUME NEW h, h = body(h) PROVE h = e
  <2>1. Adding(h, g, D)
    BY <1>4, <1>f DEF First, Adding
  <2>2. \A d \in SUBSET D : h[d] = f[d]
    <3>1. Adding(f, g, D) /\ IsFiniteSet(D) /\ \A x \in D : g[x] = g[x]
      BY <1>0, <1>1 DEF Table
    <3> HIDE DEF D, g
    <3> QED
      BY <2>1, <3>1, SumsAgree
  <2> QED
    BY <2>2, <1>4
<1>5. iter = e
  <2> HIDE DEF body, e
  <2> QED
    BY <1>3, <1>4
<1>6. D \in SUBSET D
  OBVIOUS
<1>7. iter[D] = Total(g, D)
  <2> HIDE DEF iter, D, g
  <2> QED
    BY <1>1, <1>5, <1>6 DEF Table
<1> HIDE DEF iter
<1> QED
  BY <1>0, <1>2, <1>7

\* The oldest installments take what they ask for as long as it lasts.
SpreadOldestFirst(share, asked, D, amount) ==
  /\ share \in [D -> Nat] /\ Total(asked, D) \in Int
  /\ Total(share, D) = IF Total(asked, D) <= amount THEN Total(asked, D) ELSE amount
  /\ \A i \in D : share[i] <= asked[i]
  /\ \A i, j \in D : i < j /\ share[j] > 0 => share[i] = asked[i]

LEMMA SharesSpread ==
  ASSUME NEW l \in Loans, NEW s, Within(l, s), NEW amount \in Nat
  PROVE  SpreadOldestFirst(Shares(l, s, amount), Asked(l, s), Installments(l), amount)
<1> DEFINE out == Asked(l, s)
           sh == Shares(l, s, amount)
<1>1. PICK n \in Nat \ {0} : Installments(l) = 1 .. n
  BY Schedule
<1>2. \A i \in 1 .. n : out[i] \in Nat
  <2>1. s \in [Installments(l) -> Nat] /\ \A j \in Installments(l) : Due[l][j] \in Nat
    BY WithinFunction, Schedule
  <2> QED
    BY <1>1, <2>1 DEF Asked, Outstanding, Within
<1>3. \A i \in 1 .. n : sh[i] = Share(amount - Total(out, 1 .. i - 1), out[i])
  BY <1>1, LeftIs DEF Shares, Asked
<1>4. sh \in [Installments(l) -> Nat]
  <2>1. \A i \in 1 .. n : sh[i] \in Nat
    BY <1>2, <1>3, ShareBound
  <2> QED
    BY <1>1, <2>1 DEF Shares
<1> HIDE DEF out, sh
<1>5. \A k \in 0 .. n : IsFiniteSet(1 .. k) /\ Numbers(out, 1 .. k) /\ Numbers(sh, 1 .. k)
                        /\ Total(out, 1 .. k) \in Int /\ Total(sh, 1 .. k) \in Int
  <2> SUFFICES ASSUME NEW k \in 0 .. n
               PROVE  IsFiniteSet(1 .. k) /\ Numbers(out, 1 .. k) /\ Numbers(sh, 1 .. k)
                      /\ Total(out, 1 .. k) \in Int /\ Total(sh, 1 .. k) \in Int
    OBVIOUS
  <2>1. IsFiniteSet(1 .. k)
    BY FS_Interval
  <2>2. Numbers(out, 1 .. k) /\ Numbers(sh, 1 .. k)
    BY <1>1, <1>2, <1>4 DEF Numbers
  <2> QED
    BY <2>1, <2>2, TotalInt
<1> DEFINE Taken(k) == Total(sh, 1 .. k) = IF Total(out, 1 .. k) <= amount THEN Total(out, 1 .. k) ELSE amount
           bad == {k \in Nat : k \in 0 .. n /\ ~Taken(k)}
<1>6. bad = {}
  <2> SUFFICES ASSUME bad # {} PROVE FALSE
    OBVIOUS
  <2>1. PICK k \in bad : \A m \in bad : k <= m
    BY LessIsWF
  <2>2. CASE k = 0
    <3>1. 1 .. 0 = {}
      OBVIOUS
    <3>2. Total(out, 1 .. 0) = 0 /\ Total(sh, 1 .. 0) = 0
      BY <3>1, TotalEmpty
    <3> QED
      BY <2>1, <2>2, <3>2
  <2>3. CASE k # 0
    <3>1. k \in 1 .. n /\ k - 1 \in 0 .. n /\ k - 1 \notin bad /\ k - 1 \in Nat
      BY <2>1, <2>3
    <3>2. Taken(k - 1)
      BY <3>1
    <3>3. k \in 1 .. k /\ (1 .. k) \ {k} = 1 .. k - 1
      BY <3>1
    <3>4. Total(out, 1 .. k) = out[k] + Total(out, (1 .. k) \ {k}) /\ Total(sh, 1 .. k) = sh[k] + Total(sh, (1 .. k) \ {k})
      BY <1>5, <3>1, <3>3, TotalTake
    <3>5. Total(out, 1 .. k) = out[k] + Total(out, 1 .. k - 1) /\ Total(sh, 1 .. k) = sh[k] + Total(sh, 1 .. k - 1)
      BY <3>3, <3>4
    <3>6. Total(out, 1 .. k - 1) \in Int /\ Total(sh, 1 .. k - 1) \in Int /\ out[k] \in Nat /\ sh[k] \in Nat
          /\ sh[k] = Share(amount - Total(out, 1 .. k - 1), out[k])
      BY <1>1, <1>2, <1>3, <1>4, <1>5, <3>1
    <3>7. \A p, q, o, h \in Int :
            q = (IF p <= amount THEN p ELSE amount) /\ o >= 0 /\ h = Share(amount - p, o)
              => h + q = IF o + p <= amount THEN o + p ELSE amount
      BY DEF Share
    <3>8. Taken(k)
      <4> DEFINE p == Total(out, 1 .. k - 1)
                 q == Total(sh, 1 .. k - 1)
      <4>1. p \in Int /\ q \in Int /\ q = (IF p <= amount THEN p ELSE amount) /\ sh[k] = Share(amount - p, out[k])
            /\ Total(out, 1 .. k) = out[k] + p /\ Total(sh, 1 .. k) = sh[k] + q
        BY <3>2, <3>5, <3>6
      <4> HIDE DEF p, q
      <4>2. out[k] \in Int /\ sh[k] \in Int /\ out[k] >= 0
        BY <3>6
      <4>3. sh[k] + q = IF out[k] + p <= amount THEN out[k] + p ELSE amount
        BY <3>7, <4>1, <4>2
      <4> QED
        BY <4>1, <4>3
    <3> QED
      BY <2>1, <3>8
  <2> QED
    BY <2>2, <2>3
<1>7. \A k \in 0 .. n : Taken(k)
  BY <1>6
<1>8. \A i \in 1 .. n : sh[i] \in Nat /\ sh[i] <= out[i]
  BY <1>2, <1>3, ShareBound
<1>9. ASSUME NEW i \in 1 .. n, NEW j \in 1 .. n, i < j, sh[j] > 0 PROVE sh[i] = out[i]
  <2> DEFINE D == 1 .. j - 1
             p == Total(out, D)
             q == Total(sh, D)
  <2>1. j - 1 \in 0 .. n /\ i \in D /\ \A x \in D : x \in 1 .. n
    BY <1>9
  <2>2. IsFiniteSet(D) /\ Numbers(out, D) /\ Numbers(sh, D) /\ p \in Int /\ q \in Int
    BY <1>5, <2>1
  <2>3. q = (IF p <= amount THEN p ELSE amount) /\ sh[j] = Share(amount - p, out[j]) /\ out[j] \in Nat
    BY <1>2, <1>3, <1>7, <2>1
  <2>4. q = p
    <3> HIDE DEF p, q
    <3> QED
      BY <1>9, <2>2, <2>3 DEF Share
  <2>5. \A x \in D : sh[x] <= out[x]
    BY <1>8, <2>1
  <2>6. p <= q
    <3> HIDE DEF p, q
    <3> QED
      BY <2>2, <2>4
  <2> HIDE DEF D
  <2>7. \A x \in D : sh[x] = out[x]
    BY <2>2, <2>5, <2>6, TotalTight
  <2> QED
    BY <2>1, <2>7
<1>10. n \in 0 .. n
  OBVIOUS
<1>11. Taken(n) /\ Total(out, 1 .. n) \in Int
  BY <1>5, <1>7, <1>10
<1>12. SpreadOldestFirst(sh, out, 1 .. n, amount)
  <2>1. /\ Total(sh, 1 .. n) = IF Total(out, 1 .. n) <= amount THEN Total(out, 1 .. n) ELSE amount
        /\ Total(out, 1 .. n) \in Int
    BY <1>11
  <2>2. sh \in [1 .. n -> Nat]
    BY <1>1, <1>4
  <2> HIDE DEF Taken
  <2>3. \A i, j \in 1 .. n : i < j /\ sh[j] > 0 => sh[i] = out[i]
    BY <1>9
  <2> QED
    BY <1>8, <2>1, <2>2, <2>3 DEF SpreadOldestFirst
<1> QED
  BY <1>1, <1>12 DEF sh, out

LEMMA SharesWithin ==
  ASSUME NEW l \in Loans, NEW s, Within(l, s), NEW amount \in Nat
  PROVE  /\ Shares(l, s, amount) \in [Installments(l) -> Nat]
         /\ Total(Shares(l, s, amount), Installments(l)) <= amount
<1> DEFINE p == Total(Asked(l, s), Installments(l))
           q == Total(Shares(l, s, amount), Installments(l))
<1>1. SpreadOldestFirst(Shares(l, s, amount), Asked(l, s), Installments(l), amount)
  BY SharesSpread
<1>2. p \in Int /\ q = (IF p <= amount THEN p ELSE amount) /\ Shares(l, s, amount) \in [Installments(l) -> Nat]
  BY <1>1 DEF SpreadOldestFirst
<1> HIDE DEF p, q
<1>3. q <= amount
  BY <1>2
<1> QED
  BY <1>2, <1>3 DEF q

-----------------------------------------------------------------------------
\* The amounts of the rows, and the rows of a loan.
RowAmount(rows) == [n \in DOMAIN rows |-> rows[n].amount]
RowsOf(rows, l) == {n \in DOMAIN rows : rows[n].loan = l}

LEMMA RowsAre ==
  ASSUME NEW rows \in Seq(Repayment)
  PROVE  /\ \A n \in DOMAIN rows : rows[n] \in Repayment
         /\ \A l : IsFiniteSet(RowsOf(rows, l)) /\ Numbers(RowAmount(rows), RowsOf(rows, l))
<1>1. /\ Len(rows) \in Nat /\ DOMAIN rows = 1 .. Len(rows)
      /\ \A n \in 1 .. Len(rows) : rows[n] \in Repayment
  BY LenProperties, ElementOfSeq
<1>2. ASSUME NEW l PROVE IsFiniteSet(RowsOf(rows, l)) /\ Numbers(RowAmount(rows), RowsOf(rows, l))
  <2>1. IsFiniteSet(RowsOf(rows, l))
    <3>1. IsFiniteSet(1 .. Len(rows)) /\ RowsOf(rows, l) \subseteq 1 .. Len(rows)
      BY <1>1, FS_Interval DEF RowsOf
    <3> QED
      BY <3>1, FS_Subset
  <2>2. Numbers(RowAmount(rows), RowsOf(rows, l))
    BY <1>1 DEF Numbers, RowAmount, RowsOf, Repayment
  <2> QED
    BY <2>1, <2>2
<1> QED
  BY <1>1, <1>2

LEMMA RowsSum ==
  ASSUME NEW rows \in Seq(Repayment), NEW l
  PROVE  /\ MapThenSumSet(LAMBDA n : rows[n].amount, RowsOf(rows, l)) = Total(RowAmount(rows), RowsOf(rows, l))
         /\ Total(RowAmount(rows), RowsOf(rows, l)) \in Int
<1> DEFINE D == RowsOf(rows, l)
           g == RowAmount(rows)
           body(h) == [d \in SUBSET D |-> IF d = {} THEN 0
                                          ELSE rows[CHOOSE x \in d : TRUE].amount + h[d \ {CHOOSE x \in d : TRUE}]]
           iter == CHOOSE h : h = body(h)
<1>0. IsFiniteSet(D) /\ Numbers(g, D)
  BY RowsAre
<1>1. PICK f : Table(f, g, D)
  BY <1>0, SumsFor
<1> DEFINE e == [d \in SUBSET D |-> f[d]]
<1>2. MapThenSumSet(LAMBDA n : rows[n].amount, D) = iter[D]
  BY DEF MapThenSumSet, MapThenFoldSet
<1>f. \A d \in SUBSET D : d # {} => First(d) \in d /\ g[First(d)] = rows[First(d)].amount
  BY FirstIn DEF RowAmount, RowsOf
<1>3. e = body(e)
  BY <1>1, <1>f DEF First, Adding, Table
<1>4. ASSUME NEW h, h = body(h) PROVE h = e
  <2>1. Adding(h, g, D)
    BY <1>4, <1>f DEF First, Adding
  <2>2. \A d \in SUBSET D : h[d] = f[d]
    <3>1. Adding(f, g, D) /\ IsFiniteSet(D) /\ \A x \in D : g[x] = g[x]
      BY <1>0, <1>1 DEF Table
    <3> HIDE DEF D, g
    <3> QED
      BY <2>1, <3>1, SumsAgree
  <2> QED
    BY <2>2, <1>4
<1>5. iter = e
  <2> HIDE DEF body, e
  <2> QED
    BY <1>3, <1>4
<1>6. D \in SUBSET D
  OBVIOUS
<1>7. iter[D] = Total(g, D) /\ Total(g, D) \in Int
  <2> HIDE DEF iter, D, g
  <2> QED
    BY <1>1, <1>5, <1>6 DEF Table
<1> HIDE DEF iter
<1> QED
  BY <1>2, <1>7

\* What was received, now and after a step.
LEMMA ReceivedIs ==
  ASSUME TypeInv, NEW l
  PROVE  /\ Received(l) = Total(RowAmount(repayments), RowsOf(repayments, l)) /\ Received(l) \in Int
         /\ TypeInv' => Received(l)' = Total(RowAmount(repayments'), RowsOf(repayments', l))
<1>1. repayments \in Seq(Repayment) /\ (TypeInv' => repayments' \in Seq(Repayment))
  BY DEF TypeInv
<1>2. PICK now : now = repayments
  OBVIOUS
<1>3. PICK then : then = repayments'
  OBVIOUS
<1>4. Received(l) = MapThenSumSet(LAMBDA n : now[n].amount, RowsOf(now, l))
  BY <1>2 DEF Received, RowsOf, MapThenSumSet, MapThenFoldSet
<1>5. Received(l)' = MapThenSumSet(LAMBDA n : then[n].amount, RowsOf(then, l))
  BY <1>3 DEF Received, RowsOf, MapThenSumSet, MapThenFoldSet
<1>6. now \in Seq(Repayment) /\ (TypeInv' => then \in Seq(Repayment))
  BY <1>1, <1>2, <1>3
<1>7. Received(l) = Total(RowAmount(now), RowsOf(now, l)) /\ Received(l) \in Int
  BY <1>4, <1>6, RowsSum
<1>8. TypeInv' => Received(l)' = Total(RowAmount(then), RowsOf(then, l))
  BY <1>5, <1>6, RowsSum
<1> QED
  BY <1>2, <1>3, <1>7, <1>8

\* The transaction adds the payment to what its loan received.
LEMMA ReceivedApplied ==
  ASSUME TypeInv, TypeInv', NEW r \in Requests, req[r].pc = "apply", Applied(r), NEW l
  PROVE  /\ Received(l) \in Int /\ req[r].amount \in Nat
         /\ Received(l)' = IF req[r].loan = l THEN Received(l) + req[r].amount ELSE Received(l)
<1>1. PICK N : /\ N \notin DOMAIN repayments
               /\ DOMAIN repayments' = DOMAIN repayments \cup {N}
               /\ repayments'[N] = Row(req[r])
               /\ \A n \in DOMAIN repayments : repayments'[n] = repayments[n]
  BY AppliedRows
<1> DEFINE some == RowsOf(repayments, l)
           all == RowsOf(repayments', l)
           old == RowAmount(repayments)
           new == RowAmount(repayments')
           amount == req[r].amount
<1>2. /\ Received(l) = Total(old, some) /\ Received(l) \in Int
      /\ Received(l)' = Total(new, all)
      /\ IsFiniteSet(some) /\ IsFiniteSet(all) /\ Numbers(old, some) /\ Numbers(new, all)
  <2>1. repayments \in Seq(Repayment) /\ repayments' \in Seq(Repayment)
    BY DEF TypeInv
  <2> QED
    BY <2>1, ReceivedIs, RowsAre
<1>3. amount \in Nat
  BY DEF TypeInv, Handler
<1>4. Total(new, some) = Total(old, some)
  <2>1. \A x \in some : old[x] = new[x]
    BY <1>1 DEF RowAmount, RowsOf
  <2> HIDE DEF new, old, some, all
  <2>2. Total(old, some) = Total(new, some)
    BY <1>2, <2>1, TotalSame
  <2> QED
    BY <2>2
<1>5. CASE req[r].loan # l
  <2>1. all = some
    BY <1>1, <1>5 DEF RowsOf, Row
  <2> HIDE DEF new, old, some, all
  <2> QED
    BY <1>2, <1>3, <1>4, <1>5, <2>1 DEF amount
<1>6. CASE req[r].loan = l
  <2>1. all = some \cup {N} /\ N \notin some
    BY <1>1, <1>6 DEF RowsOf, Row
  <2>2. new[N] = amount
    BY <1>1 DEF RowAmount, Row
  <2> HIDE DEF new, old, some, all, amount
  <2>3. Total(new, all) = new[N] + Total(new, all \ {N})
    BY <1>2, <2>1, TotalTake
  <2>4. all \ {N} = some
    BY <2>1
  <2>5. Received(l)' = amount + Received(l)
    BY <1>2, <1>4, <2>2, <2>3, <2>4
  <2> DEFINE before == Received(l)
             after == Received(l)'
  <2>6. after = amount + before /\ amount \in Nat /\ before \in Int
    BY <1>2, <1>3, <2>5
  <2> HIDE DEF before, after
  <2>7. after = before + amount
    BY <2>6
  <2> QED
    BY <1>2, <1>3, <1>6, <2>7 DEF before, after, amount
<1> QED
  BY <1>5, <1>6

-----------------------------------------------------------------------------
Reading(h) == h.pc \in {"receipt", "apply"}

\* Amounts above all that the table or a handler has for the loan, of which no
\* more was received.
Covers(l, top) ==
  /\ top \in [Installments(l) -> Nat]
  /\ \A i \in Installments(l) : paid[l][i] <= top[i]
  /\ \A r \in Requests : Reading(req[r]) /\ req[r].loan = l =>
       \A i \in Installments(l) : req[r].seen[i] <= top[i]
  /\ Total(top, Installments(l)) <= Received(l)

CoverInv == \A l \in Loans : \E top : Covers(l, top)

\* A handler that has read a loan read it before, or reads it as it is.
ReadBefore(q) ==
  Reading(req'[q]) =>
    \/ Reading(req[q]) /\ req'[q].loan = req[q].loan /\ req'[q].seen = req[q].seen
    \/ req'[q].loan \in Loans /\ req'[q].seen = paid[req'[q].loan]

LEMMA ReadsBefore ==
  ASSUME TypeInv, [Next]_vars
  PROVE  \A q \in Requests : ReadBefore(q)
<1>1. ASSUME NEW r \in Requests, OnlyMoves(r), ReadBefore(r) PROVE \A q \in Requests : ReadBefore(q)
  BY <1>1 DEF OnlyMoves, ReadBefore
<1>2. ASSUME NEW r \in Requests, NEW h, req' = [req EXCEPT ![r] = h],
             Reading(h) => \/ Reading(req[r]) /\ h.loan = req[r].loan /\ h.seen = req[r].seen
                           \/ h.loan \in Loans /\ h.seen = paid[h.loan]
      PROVE  \A q \in Requests : ReadBefore(q)
  BY <1>1, <1>2, Moves DEF ReadBefore
<1>3. ASSUME NEW r \in Requests, Finish(r) \/ Continue(r) PROVE \A q \in Requests : ReadBefore(q)
  <2>1. OnlyMoves(r) /\ req'[r].pc \in {"idle", "check"}
    BY <1>3, Leaves
  <2> QED
    BY <1>1, <2>1 DEF ReadBefore, Reading
<1>4. ASSUME NEW r \in Requests, NEW batch, req' = [req EXCEPT ![r] = [Idle EXCEPT !.pc = "check", !.batch = batch]]
      PROVE  \A q \in Requests : ReadBefore(q)
  <2>1. OnlyMoves(r) /\ req'[r].pc = "check"
    BY <1>4, Leaves
  <2> QED
    BY <1>1, <2>1 DEF ReadBefore, Reading
<1>5. ASSUME UNCHANGED req PROVE \A q \in Requests : ReadBefore(q)
  BY <1>5 DEF ReadBefore
<1>6. ASSUME NEW r \in Requests, CheckExisting(r) PROVE \A q \in Requests : ReadBefore(q)
  <2>1. PICK p \in req[r].batch :
          \/ req' = [req EXCEPT ![r] = [Idle EXCEPT !.pc = "find", !.batch = req[r].batch \ {p}, !.transfer = p,
                                                    !.amount = AmountOf[p], !.source = "PROVIDER"]]
          \/ req' = [req EXCEPT ![r] = [Idle EXCEPT !.pc = "check", !.batch = req[r].batch \ {p}]]
          \/ Finish(r)
    BY <1>6 DEF CheckExisting
  <2> DEFINE h == [Idle EXCEPT !.pc = "find", !.batch = req[r].batch \ {p}, !.transfer = p,
                               !.amount = AmountOf[p], !.source = "PROVIDER"]
  <2>2. ~Reading(h)
    BY DEF Reading, Idle
  <2> HIDE DEF h
  <2>3. ASSUME req' = [req EXCEPT ![r] = h] PROVE \A q \in Requests : ReadBefore(q)
    <3>1. PICK g : g = h
      OBVIOUS
    <3> QED
      BY <1>2, <2>2, <2>3, <3>1
  <2> QED
    BY <1>3, <1>4, <2>1, <2>3 DEF h
<1>7. ASSUME NEW r \in Requests, FindAccount(r) PROVE \A q \in Requests : ReadBefore(q)
  <2> DEFINE h == [req[r] EXCEPT !.pc = "insert",
                     !.loan = IF TargetOf[req[r].transfer] \in numbered THEN TargetOf[req[r].transfer] ELSE None]
  <2>1. req' = [req EXCEPT ![r] = h]
    BY <1>7 DEF FindAccount
  <2>2. ~Reading(h)
    BY DEF Reading, TypeInv, Handler
  <2> HIDE DEF h
  <2>3. PICK g : g = h
    OBVIOUS
  <2> QED
    BY <1>2, <2>1, <2>2, <2>3
<1>8. ASSUME NEW r \in Requests, InsertTransfer(r) PROVE \A q \in Requests : ReadBefore(q)
  <2> DEFINE h == [req[r] EXCEPT !.pc = "loan"]
  <2>1. req' = [req EXCEPT ![r] = h] \/ Continue(r) \/ Finish(r)
    BY <1>8 DEF InsertTransfer
  <2>2. ~Reading(h)
    BY DEF Reading, TypeInv, Handler
  <2> HIDE DEF h
  <2>3. PICK g : g = h
    OBVIOUS
  <2> QED
    BY <1>2, <1>3, <2>1, <2>2, <2>3
<1>9. ASSUME NEW r \in Requests, ReadLoan(r) PROVE \A q \in Requests : ReadBefore(q)
  <2> DEFINE h == [req[r] EXCEPT !.pc = "receipt", !.seen = paid[req[r].loan]]
  <2>1. (req' = [req EXCEPT ![r] = h] \/ Finish(r)) /\ req[r].loan \in Loans /\ req[r] \in Handler
    BY <1>9 DEF ReadLoan, TypeInv, HandlerOK
  <2>2. h.loan \in Loans /\ h.seen = paid[h.loan]
    BY <2>1 DEF Handler
  <2> HIDE DEF h
  <2>3. PICK g : g = h
    OBVIOUS
  <2> QED
    BY <1>2, <1>3, <2>1, <2>2, <2>3
<1>10. ASSUME NEW r \in Requests, DrawReceipt(r) PROVE \A q \in Requests : ReadBefore(q)
  <2> DEFINE h == [req[r] EXCEPT !.pc = "apply", !.receipt = Len(repayments) + 1]
  <2>1. req' = [req EXCEPT ![r] = h] /\ req[r].pc = "receipt" /\ req[r] \in Handler
    BY <1>10 DEF DrawReceipt, TypeInv
  <2>2. h.loan = req[r].loan /\ h.seen = req[r].seen
    BY <2>1 DEF Handler
  <2> HIDE DEF h
  <2>3. PICK g : g = h
    OBVIOUS
  <2> QED
    BY <1>2, <2>1, <2>2, <2>3 DEF Reading
<1>11. ASSUME NEW r \in Requests, ApplyRepayment(r) PROVE \A q \in Requests : ReadBefore(q)
  <2> DEFINE h == [req[r] EXCEPT !.pc = "mark"]
  <2>1. req' = [req EXCEPT ![r] = h] \/ Finish(r)
    BY <1>11, ApplyCases
  <2>2. ~Reading(h)
    BY DEF Reading, TypeInv, Handler
  <2> HIDE DEF h
  <2>3. PICK g : g = h
    OBVIOUS
  <2> QED
    BY <1>2, <1>3, <2>1, <2>2, <2>3
<1>12. ASSUME NEW r \in Requests, NEW l \in Loans, NEW amount \in ManualAmounts, RecordRepayment(r, l, amount)
       PROVE  \A q \in Requests : ReadBefore(q)
  <2> DEFINE h == [Idle EXCEPT !.pc = "loan", !.loan = l, !.amount = amount]
  <2>1. req' = [req EXCEPT ![r] = h]
    BY <1>12 DEF RecordRepayment
  <2>2. ~Reading(h)
    BY DEF Reading, Idle
  <2> HIDE DEF h
  <2>3. PICK g : g = h
    OBVIOUS
  <2> QED
    BY <1>2, <2>1, <2>2, <2>3
<1>13. ASSUME NEW r \in Requests, NEW p \in Transfers, NEW l \in Loans, Resolve(r, p, l)
       PROVE  \A q \in Requests : ReadBefore(q)
  <2> DEFINE h == [Idle EXCEPT !.pc = "loan", !.transfer = p, !.loan = l, !.amount = AmountOf[p], !.source = "RESOLVED"]
  <2>1. req' = [req EXCEPT ![r] = h]
    BY <1>13 DEF Resolve
  <2>2. ~Reading(h)
    BY DEF Reading, Idle
  <2> HIDE DEF h
  <2>3. PICK g : g = h
    OBVIOUS
  <2> QED
    BY <1>2, <2>1, <2>2, <2>3
<1>14. ASSUME NEW r \in Requests, Step(r) \/ Fail(r) PROVE \A q \in Requests : ReadBefore(q)
  BY <1>3, <1>6, <1>7, <1>8, <1>9, <1>10, <1>11, <1>14 DEF Step, Fail, MarkReconciled
<1>15. ASSUME NEW r \in Requests, Call(r) PROVE \A q \in Requests : ReadBefore(q)
  BY <1>4, <1>12, <1>13, <1>15 DEF Call, Webhook, Fetch
<1> QED
  BY <1>5, <1>14, <1>15 DEF Next, AssignNumber, vars

\* The books stay: what was above all there was still is.
LEMMA CoverKept == ASSUME TypeInv, CoverInv, [Next]_vars, UNCHANGED books PROVE CoverInv'
<1> SUFFICES ASSUME NEW l \in Loans PROVE \E top : Covers(l, top)'
  BY DEF CoverInv
<1>1. PICK top : Covers(l, top)
  BY DEF CoverInv
<1>2. \A q \in Requests : ReadBefore(q)
  BY ReadsBefore
<1>3. paid' = paid /\ Received(l)' = Received(l)
  <2>1. paid' = paid /\ repayments' = repayments
    BY DEF books
  <2> QED
    BY <2>1 DEF Received, MapThenSumSet, MapThenFoldSet
<1>4. \A q \in Requests : Reading(req'[q]) /\ req'[q].loan = l =>
         \A i \in Installments(l) : req'[q].seen[i] <= top[i]
  BY <1>1, <1>2 DEF ReadBefore, Covers
<1>5. Covers(l, top)'
  BY <1>1, <1>3, <1>4 DEF Covers, Installments
<1> QED
  BY <1>5

\* The transaction on loan l writes no more than its share above what it covered.
LEMMA CoverApplied ==
  ASSUME TypeInv, TypeInv', CoverInv, [Next]_vars, NEW r \in Requests, req[r].pc = "apply", Applied(r)
  PROVE  CoverInv'
<1> SUFFICES ASSUME NEW l \in Loans PROVE \E top : Covers(l, top)'
  BY DEF CoverInv
<1>1. PICK top : Covers(l, top)
  BY DEF CoverInv
<1>2. \A q \in Requests : ReadBefore(q)
  BY ReadsBefore
<1>4. Received(l) \in Int /\ Received(l)' = IF req[r].loan = l THEN Received(l) + req[r].amount ELSE Received(l)
  BY ReceivedApplied
<1>5. /\ req[r] \in Handler /\ req[r].loan \in Loans /\ req[r].amount \in Nat /\ paid \in [Loans -> Seq(Nat)]
      /\ Within(req[r].loan, req[r].seen) /\ Within(l, paid[l]) /\ Reading(req[r])
  BY DEF TypeInv, HandlerOK, Handler, Reading
<1>7. CASE req[r].loan # l
  <2>2. Received(l)' = Received(l)
    BY <1>4, <1>7
  <2>3. paid'[l] = paid[l]
    BY <1>5, <1>7 DEF Applied
  <2>4. \A q \in Requests : Reading(req'[q]) /\ req'[q].loan = l =>
           \A i \in Installments(l) : req'[q].seen[i] <= top[i]
    BY <1>1, <1>2 DEF ReadBefore, Covers
  <2>5. Covers(l, top)'
    BY <1>1, <2>2, <2>3, <2>4 DEF Covers, Installments
  <2> QED
    BY <2>5
<1>8. CASE req[r].loan = l
  <2> DEFINE s == req[r].seen
             amount == req[r].amount
             sh == Shares(l, s, amount)
             more == [i \in Installments(l) |-> top[i] + sh[i]]
  <2>1. sh \in [Installments(l) -> Nat] /\ Total(sh, Installments(l)) <= amount
    BY <1>5, <1>8, SharesWithin
  <2>2. top \in [Installments(l) -> Nat] /\ Total(top, Installments(l)) <= Received(l)
    BY <1>1 DEF Covers
  <2>3. IsFiniteSet(Installments(l))
    <3>1. PICK n \in Nat \ {0} : Installments(l) = 1 .. n
      BY Schedule
    <3> QED
      BY <3>1, FS_Interval
  <2>4. /\ Total(more, Installments(l)) = Total(top, Installments(l)) + Total(sh, Installments(l))
        /\ Total(top, Installments(l)) \in Int /\ Total(sh, Installments(l)) \in Int
    <3>1. Numbers(top, Installments(l)) /\ Numbers(sh, Installments(l))
      BY <2>1, <2>2 DEF Numbers
    <3>2. \A x \in Installments(l) : more[x] = top[x] + sh[x]
      OBVIOUS
    <3> HIDE DEF more, sh
    <3> QED
      BY <2>3, <3>1, <3>2, TotalPlus, TotalInt
  <2>5. Received(l)' = Received(l) + amount
    BY <1>4, <1>8
  <2>6. \A i \in Installments(l) : top[i] <= more[i] /\ more[i] \in Nat /\ top[i] \in Nat
    BY <2>1, <2>2
  <2>7. paid'[l] = Allocated(l, paid[l], s, amount)
    BY <1>5, <1>8 DEF Applied
  <2>8. \A i \in Installments(l) : s[i] <= top[i] /\ s[i] \in Nat /\ paid[l][i] \in Nat /\ paid[l][i] <= top[i]
    BY <1>1, <1>5, <1>8, WithinFunction DEF Covers
  <2>9. \A i \in Installments(l) : paid'[l][i] <= more[i]
    <3> SUFFICES ASSUME NEW i \in Installments(l) PROVE paid'[l][i] <= more[i]
      OBVIOUS
    <3>1. paid'[l][i] = IF sh[i] = 0 THEN paid[l][i] ELSE s[i] + sh[i]
      BY <2>7 DEF Allocated, Shares
    <3>2. sh[i] \in Nat /\ more[i] = top[i] + sh[i]
      BY <2>1
    <3> HIDE DEF sh, more, s
    <3> QED
      BY <2>6, <2>8, <3>1, <3>2
  <2>10. \A q \in Requests : Reading(req'[q]) /\ req'[q].loan = l =>
            \A i \in Installments(l) : req'[q].seen[i] <= more[i]
    <3> SUFFICES ASSUME NEW q \in Requests, Reading(req'[q]), req'[q].loan = l, NEW i \in Installments(l)
                 PROVE  req'[q].seen[i] <= more[i]
      OBVIOUS
    <3>1. Within(l, req'[q].seen)
      BY DEF TypeInv, HandlerOK, Reading, Within, Installments
    <3>2. req'[q].seen[i] \in Nat
      BY <3>1, WithinFunction
    <3>3. req'[q].seen[i] <= top[i]
      BY <1>1, <1>2, <2>8 DEF ReadBefore, Covers
    <3> HIDE DEF more
    <3> QED
      BY <2>6, <3>2, <3>3
  <2>11. Total(more, Installments(l)) <= Received(l)'
    <3> HIDE DEF more, sh
    <3> QED
      BY <1>4, <1>5, <2>1, <2>2, <2>4, <2>5
  <2>12. more \in [Installments(l) -> Nat]
    BY <2>6
  <2> HIDE DEF more
  <2>13. PICK top2 : top2 = more
    OBVIOUS
  <2>14. Covers(l, top2)'
    BY <2>9, <2>10, <2>11, <2>12, <2>13 DEF Covers, Installments
  <2> QED
    BY <2>14
<1> QED
  BY <1>7, <1>8

LEMMA CoverStep == TypeInv /\ TypeInv' /\ CoverInv /\ [Next]_vars => CoverInv'
BY BooksStep, CoverKept, CoverApplied

LEMMA CoverInit == Init => CoverInv
<1> SUFFICES ASSUME Init, NEW l \in Loans PROVE \E top : Covers(l, top)
  BY DEF CoverInv
<1> DEFINE top == [i \in Installments(l) |-> 0]
<1>1. Received(l) = 0
  <2>1. TypeInv
    BY TypeInit
  <2>2. RowsOf(repayments, l) = {}
    BY EmptySeq, LenProperties DEF Init, RowsOf
  <2> QED
    BY <2>1, <2>2, ReceivedIs, TotalEmpty
<1>2. Total(top, Installments(l)) <= 0
  <2>1. PICK n \in Nat \ {0} : Installments(l) = 1 .. n
    BY Schedule
  <2>2. IsFiniteSet(1 .. n) /\ Cardinality(1 .. n) = n
    BY <2>1, FS_Interval
  <2>3. \A x \in 1 .. n : top[x] \in Int /\ 0 <= top[x] /\ top[x] <= 0
    BY <2>1
  <2> HIDE DEF top
  <2>4. 0 \in Int /\ Total(top, 1 .. n) <= 0 * Cardinality(1 .. n)
    <3> DEFINE D == 1 .. n
    <3>1. IsFiniteSet(D) /\ \A x \in D : top[x] \in Int /\ 0 <= top[x] /\ top[x] <= 0
      BY <2>2, <2>3
    <3> HIDE DEF D
    <3> QED
      BY <3>1, TotalBetween DEF D
  <2> QED
    BY <2>1, <2>2, <2>4
<1>3. Covers(l, top)
  BY <1>1, <1>2 DEF Covers, Init, Reading, Idle
<1> QED
  BY <1>3

\* However stale the amounts a payment was spread over, the installments of a loan
\* never show more than the payments recorded for it (applyRepayment, 726-761).
THEOREM CreditedCorrect == Spec => []CreditedWasReceived
<1>1. TypeInv /\ CoverInv => CreditedWasReceived
  <2> SUFFICES ASSUME TypeInv, CoverInv, NEW l \in Loans PROVE Credited(l) <= Received(l)
    BY DEF CreditedWasReceived
  <2>1. PICK top : Covers(l, top)
    BY DEF CoverInv
  <2>2. Credited(l) = Total(paid[l], Installments(l))
    BY DEF Credited, Total
  <2>3. PICK n \in Nat \ {0} : Installments(l) = 1 .. n
    BY Schedule
  <2>4. IsFiniteSet(Installments(l))
    BY <2>3, FS_Interval
  <2>5. paid[l] \in [Installments(l) -> Nat] /\ top \in [Installments(l) -> Nat]
    BY <2>1, WithinFunction DEF TypeInv, Covers
  <2>6. Numbers(paid[l], Installments(l)) /\ Numbers(top, Installments(l))
    BY <2>5 DEF Numbers
  <2>7. Total(paid[l], Installments(l)) <= Total(top, Installments(l))
    BY <2>1, <2>4, <2>6, TotalLess DEF Covers
  <2>8. Total(paid[l], Installments(l)) \in Int /\ Total(top, Installments(l)) \in Int
        /\ Total(top, Installments(l)) <= Received(l) /\ Received(l) \in Int
    BY <2>1, <2>4, <2>6, TotalInt, ReceivedIs DEF Covers
  <2> QED
    BY <2>2, <2>7, <2>8
<1> QED
  BY <1>1, TypeInvariant, CoverInit, CoverStep, PTL DEF Spec
=============================================================================
