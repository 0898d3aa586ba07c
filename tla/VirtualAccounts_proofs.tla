------------------------ MODULE VirtualAccounts_proofs ------------------------
(***************************************************************************)
(* What VirtualAccounts promises for every set of loans and customers and  *)
(* any number of requests in flight: type correctness; that a number is on *)
(* an account of the customer it was issued to unless the webhook gave one *)
(* away; that the customer code goes with the number; and that details are *)
(* put to their owner's code.                                              *)
(***************************************************************************)
EXTENDS VirtualAccounts, SequenceTheorems, TLAPS

-----------------------------------------------------------------------------
(* The inductive invariant. What a handler holds was true of the customer's   *)
(* numbers when it was read and stays true, because Paystack takes no number  *)
(* back: that is what makes the writes after the await right.                 *)

\* Paystack has issued number n to customer c.
IssuedTo(log, n, c) == n \in DOMAIN log /\ log[n] = c

\* Paystack has issued more since.
Grown(log, later) ==
  /\ Len(log) <= Len(later)
  /\ \A n \in DOMAIN log : n \in DOMAIN later /\ later[n] = log[n]

HandlerOK(h, log, lost) ==
  /\ h \in Handler
  /\ h.pc \notin {"idle", "put"} => h.loan \in Loans
  /\ h.pc = "put" => h.kind = "push" /\ (h.code = h.customer \/ h.code \in lost)
  /\ h.pc = "insert" => h.number = Pending \/ IssuedTo(log, h.number, CustomerOf[h.loan])
  /\ h.pc = "syncWrite" => IssuedTo(log, h.number, CustomerOf[h.loan])
  /\ h.pc = "dvaWrite" => IssuedTo(log, h.number, h.code)

\* The row of a loan with accountNumber n and customer code c.
AccountOK(l, n, c, log, lost) ==
  /\ n \in Numbers => IssuedTo(log, n, c) /\ (c = CustomerOf[l] \/ c \in lost)
  /\ c # None => n \in Numbers

TableInv ==
  /\ number \in [Loans -> Numbers \cup {NoNumber, Pending}]
  /\ code \in [Loans -> Customers \cup {None}]
  /\ \A l \in Loans : AccountOK(l, number[l], code[l], issued, strayed)
  /\ strayed \subseteq Customers

RowsInv ==
  /\ rows \in Seq(Loans)
  /\ \A i, j \in DOMAIN rows : rows[i] = rows[j] => i = j
  /\ \A i \in DOMAIN rows : number[rows[i]] # NoNumber

PaystackInv ==
  /\ issued \in Seq(Customers) /\ Len(issued) <= MaxNumbers
  /\ assigning \subseteq Customers /\ refused \subseteq Customers
  /\ announced \subseteq DOMAIN issued

HandlersInv ==
  /\ settled \in BOOLEAN
  /\ req \in [Requests -> Handler]
  /\ \A r \in Requests : HandlerOK(req[r], issued, strayed)

IInv == TableInv /\ RowsInv /\ PaystackInv /\ HandlersInv

\* The strengthening says what the properties say.
LEMMA Implied ==
  ASSUME IInv
  PROVE  TypeOK /\ OwnedUnlessStrayed /\ CodeGoesWithNumber /\ DetailsReachOwner
<1>1. DOMAIN issued = 1..Len(issued) /\ Len(issued) \in Nat
  BY LenProperties DEF IInv, PaystackInv
<1>2. announced \subseteq Numbers
  BY <1>1, AccountsAssumption DEF IInv, PaystackInv, Numbers
<1>3. TypeOK
  BY <1>2 DEF IInv, TableInv, RowsInv, PaystackInv, HandlersInv, HandlerOK, TypeOK
<1>4. OwnedUnlessStrayed /\ CodeGoesWithNumber
  BY DEF IInv, TableInv, AccountOK, IssuedTo, OwnedUnlessStrayed, CodeGoesWithNumber
<1>5. DetailsReachOwner
  BY DEF IInv, HandlersInv, HandlerOK, DetailsReachOwner
<1> QED
  BY <1>3, <1>4, <1>5

-----------------------------------------------------------------------------
(* What is known stays known *)

LEMMA SameIsGrown ==
  ASSUME NEW log \in Seq(Customers)
  PROVE  Grown(log, log)
BY LenProperties DEF Grown

LEMMA HandlerKept ==
  ASSUME NEW h, NEW log, NEW later, NEW lost, NEW more,
         HandlerOK(h, log, lost), Grown(log, later), lost \subseteq more
  PROVE  HandlerOK(h, later, more)
BY DEF HandlerOK, IssuedTo, Grown

LEMMA AccountKept ==
  ASSUME NEW l, NEW n, NEW c, NEW log, NEW later, NEW lost, NEW more,
         AccountOK(l, n, c, log, lost), Grown(log, later), lost \subseteq more
  PROVE  AccountOK(l, n, c, later, more)
BY DEF AccountOK, IssuedTo, Grown

\* Paystack names a number it gave the customer before, or gives the next one.
LEMMA IssueToGrows ==
  ASSUME PaystackInv, NEW c \in Customers, NEW n \in Numbers, IssueTo(c, n)
  PROVE  /\ issued' \in Seq(Customers) /\ Len(issued') <= MaxNumbers
         /\ Grown(issued, issued')
         /\ IssuedTo(issued', n, c)
<1>1. issued \in Seq(Customers) /\ Len(issued) \in Nat /\ DOMAIN issued = 1..Len(issued)
  BY LenProperties DEF PaystackInv
<1>2. CASE n \in DOMAIN issued /\ issued[n] = c /\ UNCHANGED issued
  BY <1>1, <1>2, SameIsGrown DEF PaystackInv, IssuedTo
<1>3. CASE n = Len(issued) + 1 /\ issued' = Append(issued, c)
  <2>1. /\ issued' \in Seq(Customers) /\ Len(issued') = Len(issued) + 1
        /\ \A i \in 1..Len(issued) : issued'[i] = issued[i]
        /\ issued'[Len(issued) + 1] = c
    BY <1>1, <1>3, AppendProperties
  <2>2. DOMAIN issued' = 1..Len(issued) + 1
    BY <2>1, LenProperties
  <2>3. Len(issued) + 1 <= MaxNumbers
    BY <1>1, <1>3, AccountsAssumption DEF Numbers
  <2> QED
    BY <1>1, <1>3, <2>1, <2>2, <2>3 DEF Grown, IssuedTo
<1> QED
  BY <1>2, <1>3 DEF IssueTo

-----------------------------------------------------------------------------
(* Handlers *)

LEMMA IdleOK ==
  ASSUME NEW log, NEW lost
  PROVE  HandlerOK(Idle, log, lost)
BY DEF HandlerOK, Idle, Handler, PC

\* One handler moves on, while Paystack issues more or a number strays.
LEMMA ReqStep ==
  ASSUME HandlersInv, NEW r \in Requests, NEW h, NEW log, NEW more,
         HandlerOK(h, log, more), Grown(issued, log), strayed \subseteq more,
         req' = [req EXCEPT ![r] = h]
  PROVE  req' \in [Requests -> Handler] /\ \A q \in Requests : HandlerOK(req'[q], log, more)
<1>1. req \in [Requests -> Handler] /\ \A q \in Requests : HandlerOK(req[q], log, more)
  BY HandlerKept DEF HandlersInv
<1>2. h \in Handler
  BY DEF HandlerOK
<1>3. \A q \in Requests : req'[q] = IF q = r THEN h ELSE req[q]
  BY <1>1
<1> QED
  BY <1>1, <1>2, <1>3

LEMMA FinishOK ==
  ASSUME HandlersInv, NEW r \in Requests, NEW log, NEW more,
         Grown(issued, log), strayed \subseteq more, Finish(r)
  PROVE  req' \in [Requests -> Handler] /\ \A q \in Requests : HandlerOK(req'[q], log, more)
<1>1. HandlerOK(Idle, log, more)
  BY IdleOK
<1> QED
  BY <1>1, ReqStep DEF Finish

LEMMA NextLoanOK ==
  ASSUME HandlersInv, NEW r \in Requests, NEW log, NEW more,
         Grown(issued, log), strayed \subseteq more, NextLoan(r)
  PROVE  req' \in [Requests -> Handler] /\ \A q \in Requests : HandlerOK(req'[q], log, more)
<1>1. CASE Finish(r)
  BY <1>1, FinishOK
<1>2. CASE ~Finish(r)
  <2> DEFINE h(l) == [Idle EXCEPT
                 !.kind = req[r].kind, !.loan = l, !.todo = req[r].todo \ {l},
                 !.pc = IF req[r].kind = "sync" THEN "pending" ELSE "existing"]
  <2>1. PICK l \in req[r].todo : req' = [req EXCEPT ![r] = h(l)]
    BY <1>2 DEF NextLoan
  <2>2. req[r].todo \in SUBSET Loans /\ req[r].kind \in {"create", "sync", "dva", "push"}
    BY DEF HandlersInv, Handler
  <2>3. HandlerOK(h(l), log, more)
    BY <2>1, <2>2 DEF HandlerOK, Idle, Handler, PC
  <2> HIDE DEF h
  <2> QED
    BY <2>1, <2>3, ReqStep
<1> QED
  BY <1>1, <1>2

-----------------------------------------------------------------------------
(* Frames: what a step leaves alone *)

HandlersLater == req' \in [Requests -> Handler]
                   /\ \A q \in Requests : HandlerOK(req'[q], issued', strayed')

\* A step that writes no row.
LEMMA NoRowWritten ==
  ASSUME IInv, UNCHANGED table, settled' \in BOOLEAN, Grown(issued, issued'),
         PaystackInv', HandlersLater
  PROVE  IInv'
<1>1. number' = number /\ code' = code /\ rows' = rows /\ strayed' = strayed
  BY DEF table
<1>2. \A l \in Loans : AccountOK(l, number[l], code[l], issued', strayed)
  BY AccountKept DEF IInv, TableInv
<1>3. TableInv'
  BY <1>1, <1>2 DEF IInv, TableInv
<1>4. RowsInv'
  BY <1>1 DEF IInv, RowsInv
<1>5. HandlersInv'
  BY DEF HandlersLater, HandlersInv
<1> QED
  BY <1>3, <1>4, <1>5 DEF IInv

\* A step that only moves a handler.
LEMMA HandlerOnly ==
  ASSUME IInv, UNCHANGED <<table, paystack>>, settled' \in BOOLEAN,
         req' \in [Requests -> Handler],
         \A q \in Requests : HandlerOK(req'[q], issued, strayed)
  PROVE  IInv'
<1>1. issued' = issued /\ strayed' = strayed /\ UNCHANGED table
  BY DEF table, paystack
<1>2. Grown(issued, issued')
  BY <1>1, SameIsGrown DEF IInv, PaystackInv
<1>3. PaystackInv'
  BY DEF IInv, PaystackInv, paystack
<1>4. HandlersLater
  BY <1>1 DEF HandlersLater
<1> QED
  BY <1>1, <1>2, <1>3, <1>4, NoRowWritten

\* The common case: the handler's next record is given.
LEMMA Moved ==
  ASSUME IInv, UNCHANGED <<settled, table, paystack>>, NEW r \in Requests, NEW h,
         HandlerOK(h, issued, strayed), req' = [req EXCEPT ![r] = h]
  PROVE  IInv'
<1>1. Grown(issued, issued) /\ settled' \in BOOLEAN
  BY SameIsGrown DEF IInv, PaystackInv, HandlersInv
<1>2. req' \in [Requests -> Handler] /\ \A q \in Requests : HandlerOK(req'[q], issued, strayed)
  BY <1>1, ReqStep DEF IInv
<1> QED
  BY <1>1, <1>2, HandlerOnly

LEMMA Passed ==
  ASSUME IInv, UNCHANGED <<settled, table, paystack>>, NEW r \in Requests,
         Finish(r) \/ NextLoan(r)
  PROVE  IInv'
<1>1. Grown(issued, issued) /\ settled' \in BOOLEAN
  BY SameIsGrown DEF IInv, PaystackInv, HandlersInv
<1>2. req' \in [Requests -> Handler] /\ \A q \in Requests : HandlerOK(req'[q], issued, strayed)
  BY <1>1, FinishOK, NextLoanOK DEF IInv
<1> QED
  BY <1>1, <1>2, HandlerOnly

\* A step that writes a loan's row: the number with the code it was issued to,
\* or a placeholder without a code.
LEMMA RowWritten ==
  ASSUME IInv, NEW l \in Loans, NEW n \in Numbers \cup {Pending},
         NEW c \in Customers \cup {None},
         WriteNumber(l, n, c),
         UNCHANGED <<settled, paystack>>,
         strayed \subseteq strayed', strayed' \subseteq Customers,
         AccountOK(l, n, c, issued, strayed'),
         RowsInv', HandlersLater
  PROVE  IInv'
<1>1. /\ number' \in [Loans -> Numbers \cup {NoNumber, Pending}]
      /\ code' \in [Loans -> Customers \cup {None}]
      /\ \A m \in Loans : /\ number'[m] = IF m = l THEN n ELSE number[m]
                          /\ code'[m] = IF m = l THEN c ELSE code[m]
  BY DEF IInv, TableInv, WriteNumber
<1>2. issued' = issued /\ Grown(issued, issued)
  BY SameIsGrown DEF paystack, IInv, PaystackInv
<1>3. ASSUME NEW m \in Loans
      PROVE  AccountOK(m, number'[m], code'[m], issued', strayed')
  <2>1. AccountOK(m, number[m], code[m], issued, strayed')
    BY <1>2, AccountKept DEF IInv, TableInv
  <2> QED
    BY <1>1, <1>2, <2>1
<1>4. TableInv'
  BY <1>1, <1>3 DEF TableInv
<1>5. PaystackInv' /\ HandlersInv'
  BY DEF IInv, PaystackInv, HandlersInv, HandlersLater, paystack
<1> QED
  BY <1>4, <1>5 DEF IInv

\* The order of rows is kept by a step that inserts none and empties none.
LEMMA SameRows ==
  ASSUME IInv, NEW l \in Loans, NEW n \in Numbers \cup {Pending}, UNCHANGED rows,
         number' = [number EXCEPT ![l] = n]
  PROVE  RowsInv'
<1>1. n # NoNumber
  BY AccountsAssumption DEF Numbers, Pending, NoNumber
<1>2. \A i \in DOMAIN rows : rows[i] \in Loans
  BY ElementOfSeq, LenProperties DEF IInv, RowsInv
<1>3. \A m \in Loans : number'[m] = IF m = l THEN n ELSE number[m]
  BY DEF IInv, TableInv
<1> QED
  BY <1>1, <1>2, <1>3 DEF IInv, RowsInv

-----------------------------------------------------------------------------
(* Creating an account *)

LEMMA CreateForLoanInv ==
  ASSUME IInv, NEW r \in Requests, NEW l \in Loans, CreateForLoan(r, l)
  PROVE  IInv'
<1> DEFINE h == [Idle EXCEPT !.kind = "create", !.pc = "existing", !.loan = l]
<1>1. HandlerOK(h, issued, strayed)
  BY DEF HandlerOK, Idle, Handler, PC
<1>2. req' = [req EXCEPT ![r] = h] /\ UNCHANGED <<settled, table, paystack>>
  BY DEF CreateForLoan, Begin
<1> HIDE DEF h
<1> QED
  BY <1>1, <1>2, Moved

LEMMA BulkCreateMissingInv ==
  ASSUME IInv, NEW r \in Requests, BulkCreateMissing(r)
  PROVE  IInv'
<1> DEFINE listed == {l \in MissingLoans : CustomerOf[l] \in Banked}
           h(l) == [Idle EXCEPT !.pc = "existing", !.loan = l, !.todo = listed \ {l}]
<1>1. listed \subseteq Loans
  BY DEF MissingLoans
<1>2. PICK l \in listed : req' = [req EXCEPT ![r] = h(l)]
  BY DEF BulkCreateMissing
<1> HIDE DEF listed
<1>3. HandlerOK(h(l), issued, strayed)
  BY <1>1, <1>2 DEF HandlerOK, Idle, Handler, PC
<1> HIDE DEF h
<1> QED
  BY <1>2, <1>3, Moved DEF BulkCreateMissing

\* A handler at its loan goes to another place that says nothing of a number.
LEMMA CheckAccountInv ==
  ASSUME IInv, NEW r \in Requests, CheckAccount(r)
  PROVE  IInv'
<1>1. UNCHANGED <<settled, table, paystack>> /\ req[r].pc = "existing"
  BY DEF CheckAccount
<1>2. CASE req' = [req EXCEPT ![r].pc = "provider"]
  <2> DEFINE h == [req[r] EXCEPT !.pc = "provider"]
  <2>1. HandlerOK(h, issued, strayed)
    BY <1>1 DEF IInv, HandlersInv, HandlerOK, Handler, PC
  <2>2. req' = [req EXCEPT ![r] = h]
    BY <1>2
  <2> HIDE DEF h
  <2> QED
    BY <1>1, <2>1, <2>2, Moved
<1>3. CASE NextLoan(r)
  BY <1>1, <1>3, Passed
<1> QED
  BY <1>2, <1>3 DEF CheckAccount

LEMMA CreateViaMultiStepInv ==
  ASSUME IInv, NEW r \in Requests, CreateViaMultiStep(r)
  PROVE  IInv'
<1> DEFINE c == CustomerOf[req[r].loan]
           h(n) == [req[r] EXCEPT !.pc = "insert", !.number = n]
<1>1. PICK n \in Numbers : IssueTo(c, n) /\ req' = [req EXCEPT ![r] = h(n)]
  BY DEF CreateViaMultiStep
<1>2. req[r] \in Handler /\ req[r].loan \in Loans /\ c \in Customers
  BY AccountsAssumption DEF CreateViaMultiStep, IInv, HandlersInv, HandlerOK
<1>3. /\ issued' \in Seq(Customers) /\ Len(issued') <= MaxNumbers
      /\ Grown(issued, issued') /\ IssuedTo(issued', n, c)
  BY <1>1, <1>2, IssueToGrows DEF IInv
<1>4. UNCHANGED <<settled, table, assigning, announced, refused>> /\ strayed' = strayed
  BY DEF CreateViaMultiStep, table
<1>5. HandlerOK(h(n), issued', strayed')
  BY <1>1, <1>2, <1>3 DEF HandlerOK, Handler, PC
<1> HIDE DEF h
<1>6. HandlersLater
  BY <1>1, <1>3, <1>4, <1>5, ReqStep DEF HandlersLater, IInv
<1>7. PaystackInv'
  BY <1>3, <1>4 DEF IInv, PaystackInv, Grown
<1>8. settled' \in BOOLEAN
  BY <1>4 DEF IInv, HandlersInv
<1> QED
  BY <1>3, <1>4, <1>6, <1>7, <1>8, NoRowWritten

LEMMA SubmitAssignInv ==
  ASSUME IInv, NEW r \in Requests, SubmitAssign(r)
  PROVE  IInv'
<1> DEFINE h == [req[r] EXCEPT !.pc = "insert", !.number = Pending]
<1>1. /\ req' = [req EXCEPT ![r] = h] /\ req[r].pc = "provider"
      /\ UNCHANGED <<settled, table, issued, announced, refused>>
      /\ assigning' = assigning \cup {CustomerOf[req[r].loan]}
  BY DEF SubmitAssign
<1>2. req[r] \in Handler /\ req[r].loan \in Loans /\ CustomerOf[req[r].loan] \in Customers
  BY <1>1, AccountsAssumption DEF IInv, HandlersInv, HandlerOK
<1>3. HandlerOK(h, issued, strayed)
  BY <1>2 DEF HandlerOK, Handler, PC
<1> HIDE DEF h
<1>4. Grown(issued, issued) /\ settled' \in BOOLEAN /\ strayed' = strayed /\ issued' = issued
  BY <1>1, SameIsGrown DEF IInv, PaystackInv, HandlersInv, table
<1>5. HandlersLater
  <2>1. req' \in [Requests -> Handler] /\ \A q \in Requests : HandlerOK(req'[q], issued, strayed)
    BY <1>1, <1>3, <1>4, ReqStep DEF IInv
  <2> QED
    BY <1>4, <2>1 DEF HandlersLater
<1>6. PaystackInv'
  BY <1>1, <1>2 DEF IInv, PaystackInv
<1> QED
  BY <1>1, <1>4, <1>5, <1>6, NoRowWritten

LEMMA InsertAccountInv ==
  ASSUME IInv, NEW r \in Requests, InsertAccount(r)
  PROVE  IInv'
<1> DEFINE l == req[r].loan
           n == req[r].number
           c == IF n = Pending THEN None ELSE CustomerOf[l]
<1>1. /\ NextLoan(r) /\ UNCHANGED <<settled, paystack>> /\ req[r].pc = "insert"
      /\ issued' = issued /\ Grown(issued, issued)
  BY SameIsGrown DEF InsertAccount, paystack, IInv, PaystackInv
<1>2. CASE UNCHANGED table
  BY <1>1, <1>2, Passed
<1>3. CASE NoRow(l) /\ Free(l, n) /\ WriteNumber(l, n, c) /\ rows' = Append(rows, l)
             /\ UNCHANGED strayed
  <2>1. /\ l \in Loans /\ CustomerOf[l] \in Customers
        /\ n = Pending \/ IssuedTo(issued, n, CustomerOf[l])
        /\ n \in Numbers \cup {NoNumber, Pending}
    BY <1>1, AccountsAssumption DEF IInv, HandlersInv, HandlerOK, Handler
  <2>2. DOMAIN issued = 1..Len(issued) /\ Len(issued) \in Nat
    BY LenProperties DEF IInv, PaystackInv
  <2>3. n \in Numbers \cup {Pending} /\ n # NoNumber /\ (n = Pending => n \notin Numbers)
    BY <2>1, <2>2, AccountsAssumption DEF IssuedTo, Numbers, NoNumber, Pending
  <2>4. AccountOK(l, n, c, issued, strayed')
    BY <2>1, <2>3 DEF AccountOK
  <2>5. HandlersLater
    BY <1>1, <1>3, NextLoanOK DEF HandlersLater, IInv
  <2> HIDE DEF n
  <2>6. \A m \in Loans : number'[m] = IF m = l THEN n ELSE number[m]
    BY <1>3 DEF WriteNumber, IInv, TableInv
  <2>7. RowsInv'
    <3>1. rows \in Seq(Loans) /\ Len(rows) \in Nat /\ DOMAIN rows = 1..Len(rows)
      BY LenProperties DEF IInv, RowsInv
    <3>2. \A i \in DOMAIN rows : rows[i] \in Loans /\ rows[i] # l
      BY <1>3, <3>1, ElementOfSeq DEF IInv, RowsInv, NoRow
    <3>3. /\ rows' \in Seq(Loans) /\ Len(rows') = Len(rows) + 1
          /\ \A i \in 1..Len(rows) : rows'[i] = rows[i]
          /\ rows'[Len(rows) + 1] = l
      BY <1>3, <2>1, <3>1, AppendProperties
    <3>4. DOMAIN rows' = 1..Len(rows) + 1
      BY <3>3, LenProperties
    <3>5. \A i, j \in DOMAIN rows' : rows'[i] = rows'[j] => i = j
      BY <3>1, <3>2, <3>3, <3>4 DEF IInv, RowsInv
    <3>6. \A i \in DOMAIN rows' : number'[rows'[i]] # NoNumber
      BY <2>1, <2>3, <2>6, <3>1, <3>2, <3>3, <3>4 DEF IInv, RowsInv
    <3> QED
      BY <3>3, <3>5, <3>6 DEF RowsInv
  <2>8. c \in Customers \cup {None} /\ strayed' \subseteq Customers /\ strayed \subseteq strayed'
    BY <1>3, <2>1 DEF IInv, TableInv
  <2> HIDE DEF l, c
  <2> QED
    BY <1>1, <1>3, <2>1, <2>3, <2>4, <2>5, <2>7, <2>8, RowWritten
<1> QED
  BY <1>2, <1>3 DEF InsertAccount

-----------------------------------------------------------------------------
(* The announcement *)

LEMMA AssignSucceedsInv ==
  ASSUME IInv, NEW c \in Customers, AssignSucceeds(c)
  PROVE  IInv'
<1>1. PICK n \in Numbers : IssueTo(c, n) /\ announced' = announced \cup {n}
  BY DEF AssignSucceeds
<1>2. /\ issued' \in Seq(Customers) /\ Len(issued') <= MaxNumbers
      /\ Grown(issued, issued') /\ IssuedTo(issued', n, c)
  BY <1>1, IssueToGrows DEF IInv
<1>3. UNCHANGED <<settled, table, refused, req>> /\ assigning' = assigning \ {c}
  BY DEF AssignSucceeds
<1>4. PaystackInv'
  BY <1>1, <1>2, <1>3 DEF IInv, PaystackInv, Grown, IssuedTo
<1>5. \A q \in Requests : HandlerOK(req[q], issued', strayed)
  BY <1>2, HandlerKept DEF IInv, HandlersInv
<1>6. HandlersLater /\ settled' \in BOOLEAN
  BY <1>3, <1>5 DEF IInv, HandlersInv, HandlersLater, table
<1> QED
  BY <1>2, <1>3, <1>4, <1>6, NoRowWritten

LEMMA AssignFailsInv ==
  ASSUME IInv, NEW c \in Customers, AssignFails(c)
  PROVE  IInv'
<1>1. /\ UNCHANGED <<settled, table, issued, announced, req>>
      /\ assigning' = assigning \ {c} /\ refused' = refused \cup {c}
  BY DEF AssignFails
<1>2. PaystackInv' /\ Grown(issued, issued')
  BY <1>1, SameIsGrown DEF IInv, PaystackInv
<1>3. HandlersLater /\ settled' \in BOOLEAN
  BY <1>1 DEF IInv, HandlersInv, HandlersLater, table
<1> QED
  BY <1>1, <1>2, <1>3, NoRowWritten

LEMMA HandleDvaAssignedInv ==
  ASSUME IInv, NEW r \in Requests, NEW n \in Numbers, HandleDvaAssigned(r, n)
  PROVE  IInv'
<1> DEFINE h(l) == [Idle EXCEPT !.kind = "dva", !.pc = "dvaWrite", !.loan = l,
                                !.number = n, !.code = issued[n]]
<1>1. PICK l \in NewestPending : req' = [req EXCEPT ![r] = h(l)]
  BY DEF HandleDvaAssigned
<1>2. \A i \in DOMAIN rows : rows[i] \in Loans
  BY ElementOfSeq, LenProperties DEF IInv, RowsInv
<1>3. l \in Loans
  BY <1>2 DEF NewestPending
<1>4. n \in DOMAIN issued /\ issued[n] \in Customers
  BY ElementOfSeq, LenProperties DEF HandleDvaAssigned, IInv, PaystackInv
<1>5. HandlerOK(h(l), issued, strayed)
  BY <1>3, <1>4 DEF HandlerOK, Idle, Handler, PC, IssuedTo
<1> HIDE DEF h
<1> QED
  BY <1>1, <1>5, Moved DEF HandleDvaAssigned

LEMMA DvaWriteInv ==
  ASSUME IInv, NEW r \in Requests, DvaWrite(r)
  PROVE  IInv'
<1> DEFINE l == req[r].loan
           n == req[r].number
           c == req[r].code
<1>1. /\ Finish(r) /\ UNCHANGED <<settled, paystack>> /\ req[r].pc = "dvaWrite"
      /\ issued' = issued /\ Grown(issued, issued)
  BY SameIsGrown DEF DvaWrite, paystack, IInv, PaystackInv
<1>2. CASE UNCHANGED table
  BY <1>1, <1>2, Passed
<1>3. CASE Free(l, n) /\ WriteNumber(l, n, c) /\ UNCHANGED rows
             /\ strayed' = strayed \cup ({c} \ {CustomerOf[l]})
  <2>1. l \in Loans /\ IssuedTo(issued, n, c)
    BY <1>1 DEF IInv, HandlersInv, HandlerOK
  <2>2. DOMAIN issued = 1..Len(issued) /\ Len(issued) \in Nat /\ Len(issued) <= MaxNumbers
    BY LenProperties DEF IInv, PaystackInv
  <2>3. n \in Numbers /\ c \in Customers
    BY <2>1, <2>2, ElementOfSeq, AccountsAssumption DEF IssuedTo, Numbers, IInv, PaystackInv
  <2>4. strayed \subseteq strayed' /\ strayed' \subseteq Customers
    BY <1>3, <2>3 DEF IInv, TableInv
  <2>5. AccountOK(l, n, c, issued, strayed')
    BY <1>3, <2>1, <2>3 DEF AccountOK
  <2>6. HandlersLater
    BY <1>1, <2>4, FinishOK DEF HandlersLater, IInv
  <2> HIDE DEF l, n, c
  <2>7. RowsInv'
    BY <1>3, <2>1, <2>3, SameRows DEF WriteNumber
  <2> QED
    BY <1>1, <1>3, <2>1, <2>3, <2>4, <2>5, <2>6, <2>7, RowWritten
<1> QED
  BY <1>2, <1>3 DEF DvaWrite

-----------------------------------------------------------------------------
(* Looking a number up, and pushing details *)

LEMMA SyncFromPaystackInv ==
  ASSUME IInv, NEW r \in Requests, NEW l \in Loans, SyncFromPaystack(r, l)
  PROVE  IInv'
<1> DEFINE h == [Idle EXCEPT !.kind = "sync", !.pc = "lookup", !.loan = l]
<1>1. HandlerOK(h, issued, strayed)
  BY DEF HandlerOK, Idle, Handler, PC
<1>2. req' = [req EXCEPT ![r] = h] /\ UNCHANGED <<settled, table, paystack>>
  BY DEF SyncFromPaystack, Begin
<1> HIDE DEF h
<1> QED
  BY <1>1, <1>2, Moved

LEMMA BulkSyncPendingInv ==
  ASSUME IInv, NEW r \in Requests, BulkSyncPending(r)
  PROVE  IInv'
<1> DEFINE h(l) == [Idle EXCEPT !.kind = "sync", !.pc = "pending", !.loan = l,
                                !.todo = PendingLoans \ {l}]
<1>1. PendingLoans \subseteq Loans
  BY DEF PendingLoans
<1>2. PICK l \in PendingLoans : req' = [req EXCEPT ![r] = h(l)]
  BY DEF BulkSyncPending
<1>3. HandlerOK(h(l), issued, strayed)
  BY <1>1, <1>2 DEF HandlerOK, Idle, Handler, PC
<1> HIDE DEF h
<1> QED
  BY <1>2, <1>3, Moved DEF BulkSyncPending

LEMMA CheckPendingInv ==
  ASSUME IInv, NEW r \in Requests, CheckPending(r)
  PROVE  IInv'
<1>1. UNCHANGED <<settled, table, paystack>> /\ req[r].pc = "pending"
  BY DEF CheckPending
<1>2. CASE req' = [req EXCEPT ![r].pc = "lookup"]
  <2> DEFINE h == [req[r] EXCEPT !.pc = "lookup"]
  <2>1. HandlerOK(h, issued, strayed)
    BY <1>1 DEF IInv, HandlersInv, HandlerOK, Handler, PC
  <2>2. req' = [req EXCEPT ![r] = h]
    BY <1>2
  <2> HIDE DEF h
  <2> QED
    BY <1>1, <2>1, <2>2, Moved
<1>3. CASE NextLoan(r)
  BY <1>1, <1>3, Passed
<1> QED
  BY <1>2, <1>3 DEF CheckPending

LEMMA LookUpInv ==
  ASSUME IInv, NEW r \in Requests, LookUp(r)
  PROVE  IInv'
<1> DEFINE h(n) == [req[r] EXCEPT !.pc = "syncWrite", !.number = n]
<1>1. UNCHANGED <<settled, table, paystack>> /\ req[r].pc = "lookup"
  BY DEF LookUp
<1>2. ASSUME NEW n \in FoundFor(req[r].loan), req' = [req EXCEPT ![r] = h(n)]
      PROVE  IInv'
  <2>1. req[r] \in Handler /\ req[r].loan \in Loans
    BY <1>1 DEF IInv, HandlersInv, HandlerOK
  <2>2. IssuedTo(issued, n, CustomerOf[req[r].loan])
    BY DEF FoundFor, IssuedTo
  <2>3. DOMAIN issued = 1..Len(issued) /\ Len(issued) \in Nat /\ Len(issued) <= MaxNumbers
    BY LenProperties DEF IInv, PaystackInv
  <2>4. n \in Numbers
    BY <2>2, <2>3, AccountsAssumption DEF IssuedTo, Numbers
  <2>5. HandlerOK(h(n), issued, strayed)
    BY <2>1, <2>2, <2>4 DEF HandlerOK, Handler, PC
  <2> HIDE DEF h
  <2> QED
    BY <1>1, <1>2, <2>5, Moved
<1>3. CASE NextLoan(r)
  BY <1>1, <1>3, Passed
<1> QED
  BY <1>2, <1>3 DEF LookUp

LEMMA SyncWriteInv ==
  ASSUME IInv, NEW r \in Requests, SyncWrite(r)
  PROVE  IInv'
<1> DEFINE l == req[r].loan
           n == req[r].number
           c == CustomerOf[l]
<1>1. /\ NextLoan(r) /\ UNCHANGED <<settled, paystack>> /\ req[r].pc = "syncWrite"
      /\ issued' = issued /\ Grown(issued, issued)
  BY SameIsGrown DEF SyncWrite, paystack, IInv, PaystackInv
<1>2. CASE UNCHANGED table
  BY <1>1, <1>2, Passed
<1>3. CASE Free(l, n) /\ WriteNumber(l, n, c) /\ UNCHANGED <<rows, strayed>>
  <2>1. l \in Loans /\ IssuedTo(issued, n, c) /\ c \in Customers
    BY <1>1, AccountsAssumption DEF IInv, HandlersInv, HandlerOK
  <2>2. DOMAIN issued = 1..Len(issued) /\ Len(issued) \in Nat /\ Len(issued) <= MaxNumbers
    BY LenProperties DEF IInv, PaystackInv
  <2>3. n \in Numbers
    BY <2>1, <2>2, AccountsAssumption DEF IssuedTo, Numbers
  <2>4. strayed \subseteq strayed' /\ strayed' \subseteq Customers
    BY <1>3 DEF IInv, TableInv
  <2>5. AccountOK(l, n, c, issued, strayed')
    BY <2>1, <2>3 DEF AccountOK
  <2>6. HandlersLater
    BY <1>1, <2>4, NextLoanOK DEF HandlersLater, IInv
  <2> HIDE DEF l, n, c
  <2>7. RowsInv'
    BY <1>3, <2>1, <2>3, SameRows DEF WriteNumber
  <2> QED
    BY <1>1, <1>3, <2>1, <2>3, <2>4, <2>5, <2>6, <2>7, RowWritten
<1> QED
  BY <1>2, <1>3 DEF SyncWrite

LEMMA ReadCodeInv ==
  ASSUME IInv, NEW r \in Requests, NEW c \in Customers, ReadCode(r, c)
  PROVE  IInv'
<1> DEFINE h(l) == [Idle EXCEPT !.kind = "push", !.pc = "put",
                                !.code = code[l], !.customer = c]
<1>1. PICK l \in AccountsOf(c) : req' = [req EXCEPT ![r] = h(l)]
  BY DEF ReadCode
<1>2. l \in Loans /\ CustomerOf[l] = c /\ code[l] # None
  BY DEF AccountsOf
<1>3. code[l] \in Customers /\ (code[l] = c \/ code[l] \in strayed)
  BY <1>2 DEF IInv, TableInv, AccountOK
<1>4. HandlerOK(h(l), issued, strayed)
  BY <1>3 DEF HandlerOK, Idle, Handler, PC
<1> HIDE DEF h
<1> QED
  BY <1>1, <1>4, Moved DEF ReadCode

-----------------------------------------------------------------------------
(* The specification *)

LEMMA InitInv == Init => IInv
<1> SUFFICES ASSUME Init PROVE IInv
  OBVIOUS
<1>1. TableInv
  BY AccountsAssumption DEF Init, TableInv, AccountOK, NoNumber, Pending, Numbers
<1>2. RowsInv /\ PaystackInv
  BY EmptySeq, AccountsAssumption DEF Init, RowsInv, PaystackInv
<1>3. HandlersInv
  <2>1. HandlerOK(Idle, issued, strayed) /\ Idle \in Handler
    BY IdleOK DEF HandlerOK
  <2> QED
    BY <2>1 DEF Init, HandlersInv
<1> QED
  BY <1>1, <1>2, <1>3 DEF IInv

LEMMA StepInv == IInv /\ [Next]_vars => IInv'
<1> SUFFICES ASSUME IInv, [Next]_vars PROVE IInv'
  OBVIOUS
<1>1. ASSUME NEW r \in Requests, Endpoint(r) PROVE IInv'
  BY <1>1, CreateForLoanInv, SyncFromPaystackInv, BulkCreateMissingInv, BulkSyncPendingInv,
     HandleDvaAssignedInv, ReadCodeInv DEF Endpoint
<1>2. ASSUME NEW r \in Requests, Step(r) PROVE IInv'
  <2>1. CASE PutDetails(r)
    BY <2>1, Passed DEF PutDetails
  <2> QED
    BY <1>2, <2>1, CheckAccountInv, CreateViaMultiStepInv, SubmitAssignInv, InsertAccountInv,
       DvaWriteInv, CheckPendingInv, LookUpInv, SyncWriteInv DEF Step
<1>3. ASSUME NEW r \in Requests, Fail(r) PROVE IInv'
  BY <1>3, Passed DEF Fail
<1>4. ASSUME NEW c \in Customers, AssignSucceeds(c) \/ AssignFails(c) PROVE IInv'
  BY <1>4, AssignSucceedsInv, AssignFailsInv
<1>5. CASE Settle
  <2>1. UNCHANGED <<table, paystack>> /\ settled' \in BOOLEAN /\ req' = req
    BY <1>5 DEF Settle
  <2> QED
    BY <2>1, HandlerOnly DEF IInv, HandlersInv
<1>6. CASE UNCHANGED vars
  <2>1. UNCHANGED <<table, paystack>> /\ settled' = settled /\ req' = req
    BY <1>6 DEF vars
  <2> QED
    BY <2>1, HandlerOnly DEF IInv, HandlersInv
<1> QED
  BY <1>1, <1>2, <1>3, <1>4, <1>5, <1>6 DEF Next

\* The strengthening holds in every state of the accounts.
THEOREM Invariant == Spec => []IInv
BY InitInv, StepInv, PTL DEF Spec

\* What createForLoan, the webhook, the lookup and Paystack keep has its type,
\* for any number of requests.
THEOREM TypeCorrect == Spec => []TypeOK
<1>1. IInv => TypeOK
  BY Implied
<1> QED
  BY <1>1, Invariant, PTL

\* A number is on an account of the customer it was issued to, unless the
\* webhook gave one of that customer's to another (virtual-accounts.service.ts:394).
THEOREM Owned == Spec => []OwnedUnlessStrayed
<1>1. IInv => OwnedUnlessStrayed
  BY Implied
<1> QED
  BY <1>1, Invariant, PTL

\* Number and customer code of an account are always of one customer.
THEOREM CodeWithNumber == Spec => []CodeGoesWithNumber
<1>1. IInv => CodeGoesWithNumber
  BY Implied
<1> QED
  BY <1>1, Invariant, PTL

\* Details are put to their owner's code, though it was read before the call.
THEOREM DetailsToOwner == Spec => []DetailsReachOwner
<1>1. IInv => DetailsReachOwner
  BY Implied
<1> QED
  BY <1>1, Invariant, PTL
=============================================================================
