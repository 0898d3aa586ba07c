------------------------- MODULE BackOfficeRecords_proofs -------------------------
(* Proofs about the records of the back office: customers, branches, departments,   *)
(* products, collections cases, forms and numbers. The part that runs changes its   *)
(* own state only, so an invariant of a component is one of the whole; what holds   *)
(* with one request at a time is proved of the steps that `alone' allows.           *)
EXTENDS MCBackOffice, FiniteSetTheorems, SequenceTheorems, Sums_proofs, TLAPS

-----------------------------------------------------------------------------
(* Customers. The inductive invariant. A row appears with a registration only.  *)
(* What else writes a status must not make one: it is a row already that is     *)
(* live, has applications or is about to have one.                              *)

CustomersTyped ==
  /\ customer \in [Customers -> U!Row]
  /\ docs \subseteq Customers /\ lent \subseteq Customers
  /\ apps \in [Customers -> Nat]
  /\ handler \in [Requests -> U!Handler]

CustomersRowsInv ==
  /\ \A c \in Customers : U!Live(c) \/ apps[c] > 0 \/ c \in lent => U!Present(c)
  /\ \A r \in Requests : handler[r].op \in {"update", "remove", "upload", "apply"} =>
                            handler[r].customer \in Customers /\ U!Present(handler[r].customer)
  /\ \A r \in Requests : handler[r].op = "register" =>
                            handler[r].customer \in Customers

CustomersIInv == CustomersTyped /\ CustomersRowsInv

-----------------------------------------------------------------------------
(* Customers: what steps have in common *)

LEMMA CustomersIdleOK == U!Idle \in U!Handler /\ U!Idle.op = "none"
BY DEF U!Idle, U!Handler

\* No row changes, and one handler does.
LEMMA RowsKeep ==
  ASSUME CustomersIInv, NEW r \in Requests, NEW h \in U!Handler, handler' = [handler EXCEPT ![r] = h],
         UNCHANGED <<customer, docs, apps, lent>>,
         h.op \in {"update", "remove", "upload", "apply"} => h.customer \in Customers /\ U!Present(h.customer),
         h.op = "register" => h.customer \in Customers
  PROVE  CustomersIInv'
<1>1. CustomersTyped'
  BY DEF CustomersIInv, CustomersTyped
<1>2. CustomersRowsInv'
  BY DEF CustomersIInv, CustomersTyped, CustomersRowsInv, U!Live, U!Present
<1> QED
  BY <1>1, <1>2 DEF CustomersIInv

\* One row changes, and stays or becomes one.
LEMMA RowWriteInv ==
  ASSUME CustomersIInv, NEW c \in Customers, NEW row \in U!Row,
         customer' = [customer EXCEPT ![c] = row], apps' = apps,
         docs' \subseteq Customers, lent' \subseteq lent \cup {c},
         handler' \in [Requests -> U!Handler],
         \A r \in Requests : handler'[r] = handler[r] \/ handler'[r] = U!Idle,
         row.status # None \/ (~U!Present(c) /\ ~row.live /\ c \notin lent')
  PROVE  CustomersIInv'
<1>1. CustomersTyped'
  BY DEF CustomersIInv, CustomersTyped
<1>2. \A d \in Customers : d # c => customer'[d] = customer[d]
  BY DEF CustomersIInv, CustomersTyped
<1>3. customer'[c] = row
  BY DEF CustomersIInv, CustomersTyped
<1>4. \A d \in Customers : U!Present(d) => U!Present(d)'
  BY <1>2, <1>3 DEF U!Present
<1>5. CustomersRowsInv'
  <2>1. \A d \in Customers : (U!Live(d) \/ apps[d] > 0 \/ d \in lent)' => U!Present(d)'
    BY <1>2, <1>3, <1>4 DEF CustomersIInv, CustomersRowsInv, U!Live, U!Present
  <2>2. \A r \in Requests : handler'[r].op \in {"update", "remove", "upload", "apply"} =>
                            handler'[r].customer \in Customers /\ U!Present(handler[r].customer)'
    BY <1>4, CustomersIdleOK DEF CustomersIInv, CustomersRowsInv, U!Present
  <2>3. \A r \in Requests : handler'[r].op = "register" => handler'[r].customer \in Customers
    BY CustomersIdleOK DEF CustomersIInv, CustomersRowsInv
  <2> QED
    BY <2>1, <2>2, <2>3 DEF CustomersRowsInv
<1> QED
  BY <1>1, <1>5 DEF CustomersIInv

\* Nothing changes in the rows but one status, of a row that is there.
LEMMA StatusInv ==
  ASSUME CustomersIInv, NEW c \in Customers, U!Present(c), NEW s \in U!Statuses,
         customer' = [customer EXCEPT ![c].status = s],
         lent' \subseteq lent \cup {c}, UNCHANGED <<docs, apps, handler>>
  PROVE  CustomersIInv'
<1> DEFINE row == [customer[c] EXCEPT !.status = s]
<1>1. row \in U!Row /\ customer' = [customer EXCEPT ![c] = row] /\ row.status # None
  BY CustomersApart DEF CustomersIInv, CustomersTyped, U!Row
<1> QED
  BY <1>1, RowWriteInv DEF CustomersIInv, CustomersTyped

-----------------------------------------------------------------------------
(* Customers: the actions *)

LEMMA CustomersBeginInv ==
  ASSUME CustomersIInv, NEW r \in Requests, NEW c \in Customers,
         \/ \E phone \in Phones, bvn \in Bvns : U!RegisterCheck(r, c, phone, bvn) \/ U!UpdateCheck(r, c, phone, bvn)
         \/ U!RemoveRead(r, c) \/ U!UploadCheck(r, c) \/ U!ApplyCheck(r, c)
  PROVE  CustomersIInv'
<1> USE CustomersIdleOK, RowsKeep DEF U!Start, U!Handler
<1>1. U!Live(c) => U!Present(c)
  BY DEF CustomersIInv, CustomersRowsInv
<1>2. ASSUME NEW phone \in Phones, NEW bvn \in Bvns, U!RegisterCheck(r, c, phone, bvn) PROVE CustomersIInv'
  BY <1>2 DEF U!RegisterCheck
<1>3. ASSUME NEW phone \in Phones, NEW bvn \in Bvns, U!UpdateCheck(r, c, phone, bvn) PROVE CustomersIInv'
  BY <1>1, <1>3 DEF U!UpdateCheck
<1>4. CASE U!RemoveRead(r, c)
  <2>1. customer[c].status \in U!Statuses \cup {None}
    BY DEF CustomersIInv, CustomersTyped, U!Row
  <2> QED
    BY <1>1, <1>4, <2>1 DEF U!RemoveRead
<1>5. CASE U!UploadCheck(r, c)
  BY <1>1, <1>5 DEF U!UploadCheck
<1>6. CASE U!ApplyCheck(r, c)
  BY <1>1, <1>6 DEF U!ApplyCheck
<1> QED
  BY <1>2, <1>3, <1>4, <1>5, <1>6

LEMMA RegisterWriteInv ==
  ASSUME CustomersIInv, NEW r \in Requests, U!RegisterWrite(r)
  PROVE  CustomersIInv'
<1> DEFINE h == handler[r]
           row == [status |-> "REGISTERED", phone |-> h.phone, bvn |-> h.bvn, sealed |-> h.bvn, live |-> TRUE]
<1>1. h \in U!Handler /\ h.customer \in Customers
  BY DEF CustomersIInv, CustomersTyped, CustomersRowsInv, U!RegisterWrite, U!At
<1>2. row \in U!Row /\ row.status # None
  BY <1>1, CustomersApart DEF U!Row, U!Handler, U!Statuses
<1>3. /\ customer' = [customer EXCEPT ![h.customer] = row] /\ UNCHANGED <<docs, apps, lent>>
      /\ handler' = [handler EXCEPT ![r] = U!Idle]
  BY DEF U!RegisterWrite, U!Finish
<1>4. /\ handler' \in [Requests -> U!Handler] /\ docs' \subseteq Customers
      /\ \A q \in Requests : handler'[q] = handler[q] \/ handler'[q] = U!Idle
  BY <1>3, CustomersIdleOK DEF CustomersIInv, CustomersTyped
<1>5. h.customer \in Customers
  BY <1>1
<1> HIDE DEF row, h
<1> QED
  BY <1>2, <1>3, <1>4, <1>5, RowWriteInv

LEMMA UpdateWriteInv ==
  ASSUME CustomersIInv, NEW r \in Requests, U!UpdateWrite(r)
  PROVE  CustomersIInv'
<1> DEFINE h == handler[r]
           row == [customer[h.customer] EXCEPT !.phone = h.phone, !.bvn = h.bvn]
<1>1. h \in U!Handler /\ h.customer \in Customers /\ U!Present(h.customer)
  BY DEF CustomersIInv, CustomersTyped, CustomersRowsInv, U!UpdateWrite, U!At
<1>2. row \in U!Row /\ row.status = customer[h.customer].status
  <2>1. h.phone \in Phones \cup {None} /\ h.bvn \in Bvns \cup {None}
    BY <1>1 DEF U!Handler
  <2>2. customer[h.customer] \in U!Row
    BY <1>1 DEF CustomersIInv, CustomersTyped
  <2> QED
    BY <2>1, <2>2 DEF U!Row
<1>3. /\ customer' = [customer EXCEPT ![h.customer] = row] /\ UNCHANGED <<docs, apps, lent>>
      /\ handler' = [handler EXCEPT ![r] = U!Idle]
  BY <1>1 DEF U!UpdateWrite, U!Finish, CustomersIInv, CustomersTyped
<1>4. /\ handler' \in [Requests -> U!Handler] /\ docs' \subseteq Customers
      /\ \A q \in Requests : handler'[q] = handler[q] \/ handler'[q] = U!Idle
  BY <1>3, CustomersIdleOK DEF CustomersIInv, CustomersTyped
<1>5. row.status # None
  BY <1>1, <1>2 DEF U!Present
<1>6. row \in U!Row /\ h.customer \in Customers
  BY <1>1, <1>2
<1> HIDE DEF row, h
<1> QED
  BY <1>3, <1>4, <1>5, <1>6, RowWriteInv

LEMMA RemoveInv ==
  ASSUME CustomersIInv, NEW r \in Requests,
         U!RemoveCountApps(r) \/ U!RemoveCountDocs(r) \/ U!RemoveWrite(r)
  PROVE  CustomersIInv'
<1> DEFINE h == handler[r]
           c == h.customer
<1>1. /\ h \in U!Handler /\ h.op = "remove" /\ c \in Customers /\ U!Present(c)
      /\ handler \in [Requests -> U!Handler]
  BY DEF CustomersIInv, CustomersTyped, CustomersRowsInv, U!RemoveCountApps, U!RemoveCountDocs, U!RemoveWrite, U!At
<1>2. CASE U!RemoveCountApps(r) \/ U!RemoveCountDocs(r)
  <2> DEFINE next == [h EXCEPT !.step = h.step + 1]
  <2>1. h.step \in {0, 1}
    BY <1>2 DEF U!RemoveCountApps, U!RemoveCountDocs, U!At
  <2>2. next \in U!Handler /\ next.op = "remove" /\ next.customer = c
    BY <1>1, <2>1 DEF U!Handler
  <2>3. handler' = [handler EXCEPT ![r] = next] /\ UNCHANGED <<customer, docs, apps, lent>>
    BY <1>1, <1>2 DEF U!RemoveCountApps, U!RemoveCountDocs, U!Proceed
  <2> QED
    BY <1>1, <2>2, <2>3, RowsKeep
<1>3. CASE U!RemoveWrite(r)
  <2> DEFINE row == [customer[c] EXCEPT !.live = FALSE]
  <2>1. row \in U!Row /\ row.status = customer[c].status
    BY <1>1 DEF CustomersIInv, CustomersTyped, U!Row
  <2>2. /\ customer' = [customer EXCEPT ![c] = row] /\ UNCHANGED <<docs, apps, lent>>
        /\ handler' = [handler EXCEPT ![r] = U!Idle]
    BY <1>1, <1>3 DEF U!RemoveWrite, U!Finish, CustomersIInv, CustomersTyped
  <2>3. /\ handler' \in [Requests -> U!Handler] /\ docs' \subseteq Customers
        /\ \A q \in Requests : handler'[q] = handler[q] \/ handler'[q] = U!Idle
    BY <2>2, CustomersIdleOK DEF CustomersIInv, CustomersTyped
  <2>4. row \in U!Row /\ row.status # None
    BY <1>1, <2>1 DEF U!Present
  <2>5. c \in Customers
    BY <1>1
  <2> HIDE DEF row, c
  <2> QED
    BY <2>2, <2>3, <2>4, <2>5, RowWriteInv
<1> QED
  BY <1>2, <1>3

\* Documents and applications: no row is written.
LEMMA AroundInv ==
  ASSUME CustomersIInv, NEW r \in Requests, U!UploadWrite(r) \/ U!ApplyWrite(r) \/ U!Fail(r)
  PROVE  CustomersIInv'
<1>1. customer' = customer /\ lent' = lent /\ handler' = [handler EXCEPT ![r] = U!Idle]
  BY DEF U!UploadWrite, U!ApplyWrite, U!Fail, U!Finish
<1>2. handler' \in [Requests -> U!Handler] /\ \A q \in Requests : handler'[q] = handler[q] \/ handler'[q] = U!Idle
  BY <1>1, CustomersIdleOK DEF CustomersIInv, CustomersTyped
<1>3. /\ docs' \subseteq Customers /\ apps' \in [Customers -> Nat]
      /\ \A c \in Customers : apps'[c] > 0 => apps[c] > 0 \/ U!Present(c)
  BY DEF CustomersIInv, CustomersTyped, CustomersRowsInv, U!UploadWrite, U!ApplyWrite, U!Fail, U!At
<1>4. CustomersTyped'
  BY <1>1, <1>2, <1>3 DEF CustomersIInv, CustomersTyped
<1>5. CustomersRowsInv'
  BY <1>1, <1>2, <1>3, CustomersIdleOK DEF CustomersIInv, CustomersRowsInv, U!Live, U!Present
<1> QED
  BY <1>4, <1>5 DEF CustomersIInv

LEMMA CustomerInv ==
  ASSUME CustomersIInv, NEW c \in Customers,
         \/ \E s \in U!Statuses : U!UpdateStatus(c, s)
         \/ U!RemoveDocuments(c) \/ U!Disburse(c) \/ U!RepayLast(c)
  PROVE  CustomersIInv'
<1>1. ASSUME NEW s \in U!Statuses, U!UpdateStatus(c, s) PROVE CustomersIInv'
  <2>1. U!Present(c)
    BY <1>1 DEF U!UpdateStatus, CustomersIInv, CustomersRowsInv
  <2> QED
    BY <1>1, <2>1, StatusInv DEF U!UpdateStatus
<1>2. CASE U!RemoveDocuments(c)
  BY <1>2 DEF U!RemoveDocuments, CustomersIInv, CustomersTyped, CustomersRowsInv, U!Live, U!Present
<1>3. CASE U!Disburse(c)
  <2>1. U!Present(c) /\ "ACTIVE_BORROWER" \in U!Statuses
    BY <1>3 DEF U!Disburse, CustomersIInv, CustomersRowsInv, U!Statuses
  <2> QED
    BY <1>3, <2>1, StatusInv DEF U!Disburse
<1>4. CASE U!RepayLast(c)
  <2>1. U!Present(c) /\ "ELIGIBLE" \in U!Statuses
    BY <1>4 DEF U!RepayLast, CustomersIInv, CustomersRowsInv, U!Statuses
  <2> QED
    BY <1>4, <2>1, StatusInv DEF U!RepayLast
<1> QED
  BY <1>1, <1>2, <1>3, <1>4

-----------------------------------------------------------------------------
(* Customers: the specification *)

LEMMA CustomersInit == U!Init => CustomersIInv
<1> SUFFICES ASSUME U!Init PROVE CustomersIInv
  OBVIOUS
<1>1. CustomersTyped
  BY CustomersIdleOK DEF U!Init, CustomersTyped, U!NoRow, U!Row
<1>2. CustomersRowsInv
  BY CustomersIdleOK DEF U!Init, CustomersRowsInv, U!NoRow, U!Live, U!Present
<1> QED
  BY <1>1, <1>2 DEF CustomersIInv

LEMMA CustomersStep == CustomersIInv /\ [U!Next]_customers => CustomersIInv'
<1> SUFFICES ASSUME CustomersIInv, [U!Next]_customers PROVE CustomersIInv'
  OBVIOUS
<1>1. ASSUME NEW r \in Requests, NEW c \in Customers,
             \/ \E phone \in Phones, bvn \in Bvns : U!RegisterCheck(r, c, phone, bvn) \/ U!UpdateCheck(r, c, phone, bvn)
             \/ U!RemoveRead(r, c) \/ U!UploadCheck(r, c) \/ U!ApplyCheck(r, c)
      PROVE  CustomersIInv'
  BY <1>1, CustomersBeginInv
<1>2. ASSUME NEW r \in Requests,
             \/ U!RegisterWrite(r) \/ U!UpdateWrite(r)
             \/ U!RemoveCountApps(r) \/ U!RemoveCountDocs(r) \/ U!RemoveWrite(r)
             \/ U!UploadWrite(r) \/ U!ApplyWrite(r) \/ U!Fail(r)
      PROVE  CustomersIInv'
  BY <1>2, RegisterWriteInv, UpdateWriteInv, RemoveInv, AroundInv
<1>3. ASSUME NEW c \in Customers,
             \/ \E s \in U!Statuses : U!UpdateStatus(c, s)
             \/ U!RemoveDocuments(c) \/ U!Disburse(c) \/ U!RepayLast(c)
      PROVE  CustomersIInv'
  BY <1>3, CustomerInv
<1>4. CASE UNCHANGED customers
  BY <1>4 DEF customers, CustomersIInv, CustomersTyped, CustomersRowsInv, U!Live, U!Present
<1> QED
  BY <1>1, <1>2, <1>3, <1>4 DEF U!Next

-----------------------------------------------------------------------------
(* Customers, one request at a time: what a removal has counted stays so until *)
(* the row is marked, since nobody else uploads or applies meanwhile.          *)

\* What handler h has established.
CountedOK(h) ==
  /\ h.op \in {"upload", "apply"} => U!Live(h.customer)
  /\ h.op = "remove" /\ h.step > 0 => apps[h.customer] = 0
  /\ h.op = "remove" /\ h.step > 1 => h.customer \notin docs

OneCustomerRequest ==
  \A r, q \in Requests : handler[r] # U!Idle /\ handler[q] # U!Idle => r = q

BareInv ==
  alone => OneCustomerRequest /\ U!RemovedIsBare /\ \A r \in Requests : CountedOK(handler[r])

\* When one request moves, the others rest.
LEMMA OthersRest ==
  ASSUME CustomersIInv, NEW r \in Requests, NEW h, handler' = [handler EXCEPT ![r] = h],
         OneCustomerRequest', h # U!Idle \/ (OneCustomerRequest /\ handler[r] # U!Idle)
  PROVE  \A q \in Requests : (q = r /\ handler'[q] = h) \/ handler'[q] = U!Idle
BY DEF CustomersIInv, CustomersTyped, OneCustomerRequest

\* A request begins, goes on or ends, and nothing else happens.
LEMMA QuietBare ==
  ASSUME CustomersIInv, BareInv, alone, NEW r \in Requests, NEW h, handler' = [handler EXCEPT ![r] = h],
         UNCHANGED <<customer, docs, apps, lent>>, OneCustomerRequest', CountedOK(h),
         h # U!Idle \/ handler[r] # U!Idle
  PROVE  BareInv'
<1>1. CountedOK(U!Idle)
  BY DEF CountedOK, U!Idle
<1>2. \A q \in Requests : CountedOK(handler'[q])
  BY <1>1, OthersRest DEF BareInv
<1> QED
  BY <1>2 DEF BareInv, CountedOK, U!RemovedIsBare, U!Live, U!Present

\* Request r begins what is about customer c.
Begins(r, c) ==
  \E h \in U!Handler :
    /\ handler' = [handler EXCEPT ![r] = h] /\ h.customer = c
    /\ h.op \in {"register", "update", "remove", "upload", "apply"} /\ h.step = 0
    /\ h.op \in {"upload", "apply"} => U!Live(c)

LEMMA BeginsWith ==
  ASSUME NEW r \in Requests, NEW c \in Customers, NEW h \in U!Handler, handler' = [handler EXCEPT ![r] = h],
         h.customer = c, h.op \in {"register", "update", "remove", "upload", "apply"}, h.step = 0,
         h.op \in {"upload", "apply"} => U!Live(c)
  PROVE  Begins(r, c)
BY DEF Begins

LEMMA BeginBare ==
  ASSUME CustomersIInv, BareInv, alone, OneCustomerRequest', NEW r \in Requests, NEW c \in Customers,
         \/ \E phone \in Phones, bvn \in Bvns : U!RegisterCheck(r, c, phone, bvn) \/ U!UpdateCheck(r, c, phone, bvn)
         \/ U!RemoveRead(r, c) \/ U!UploadCheck(r, c) \/ U!ApplyCheck(r, c)
  PROVE  BareInv'
<1>1. Begins(r, c)
  <2>1. U!Idle \in U!Handler /\ U!Idle.step = 0
    BY CustomersIdleOK DEF U!Idle
  <2>2. customer[c].status \in U!Statuses \cup {None}
    BY DEF CustomersIInv, CustomersTyped, U!Row
  <2>3. ASSUME NEW phone \in Phones, NEW bvn \in Bvns, U!RegisterCheck(r, c, phone, bvn) PROVE Begins(r, c)
    <3> DEFINE h == [U!Idle EXCEPT !.op = "register", !.customer = c, !.phone = phone, !.bvn = bvn]
    <3>1. h \in U!Handler /\ h.customer = c /\ h.op = "register" /\ h.step = 0
      BY <2>1 DEF U!Handler
    <3>2. handler' = [handler EXCEPT ![r] = h]
      BY <2>3 DEF U!RegisterCheck, U!Start
    <3> HIDE DEF h
    <3> QED
      BY <3>1, <3>2, BeginsWith
  <2>4. ASSUME NEW phone \in Phones, NEW bvn \in Bvns, U!UpdateCheck(r, c, phone, bvn) PROVE Begins(r, c)
    <3> DEFINE h == [U!Idle EXCEPT !.op = "update", !.customer = c, !.phone = phone, !.bvn = bvn]
    <3>1. h \in U!Handler /\ h.customer = c /\ h.op = "update" /\ h.step = 0
      BY <2>1 DEF U!Handler
    <3>2. handler' = [handler EXCEPT ![r] = h]
      BY <2>4 DEF U!UpdateCheck, U!Start
    <3> HIDE DEF h
    <3> QED
      BY <3>1, <3>2, BeginsWith
  <2>5. CASE U!RemoveRead(r, c)
    <3> DEFINE h == [U!Idle EXCEPT !.op = "remove", !.customer = c, !.status = customer[c].status]
    <3>1. h \in U!Handler /\ h.customer = c /\ h.op = "remove" /\ h.step = 0
      BY <2>2, <2>1 DEF U!Handler
    <3>2. handler' = [handler EXCEPT ![r] = h]
      BY <2>5 DEF U!RemoveRead, U!Start
    <3> HIDE DEF h
    <3> QED
      BY <3>1, <3>2, BeginsWith
  <2>6. CASE U!UploadCheck(r, c)
    <3> DEFINE h == [U!Idle EXCEPT !.op = "upload", !.customer = c]
    <3>1. h \in U!Handler /\ h.customer = c /\ h.op = "upload" /\ h.step = 0
      BY <2>1 DEF U!Handler
    <3>2. handler' = [handler EXCEPT ![r] = h] /\ U!Live(c)
      BY <2>6 DEF U!UploadCheck, U!Start
    <3> HIDE DEF h
    <3> QED
      BY <3>1, <3>2, BeginsWith
  <2>7. CASE U!ApplyCheck(r, c)
    <3> DEFINE h == [U!Idle EXCEPT !.op = "apply", !.customer = c]
    <3>1. h \in U!Handler /\ h.customer = c /\ h.op = "apply" /\ h.step = 0
      BY <2>1 DEF U!Handler
    <3>2. handler' = [handler EXCEPT ![r] = h] /\ U!Live(c)
      BY <2>7 DEF U!ApplyCheck, U!Start
    <3> HIDE DEF h
    <3> QED
      BY <3>1, <3>2, BeginsWith
  <2> QED
    BY <2>3, <2>4, <2>5, <2>6, <2>7
<1>2. PICK h \in U!Handler :
        /\ handler' = [handler EXCEPT ![r] = h] /\ h.customer = c
        /\ h.op \in {"register", "update", "remove", "upload", "apply"} /\ h.step = 0
        /\ h.op \in {"upload", "apply"} => U!Live(c)
  BY <1>1 DEF Begins
<1>3. UNCHANGED <<customer, docs, apps, lent>>
  BY DEF U!RegisterCheck, U!UpdateCheck, U!RemoveRead, U!UploadCheck, U!ApplyCheck
<1>4. h # U!Idle /\ CountedOK(h)
  BY <1>2 DEF CountedOK, U!Idle
<1> QED
  BY <1>2, <1>3, <1>4, QuietBare

\* A request ends, and what it wrote leaves the removed customers bare.
LEMMA EndBare ==
  ASSUME CustomersIInv, BareInv, alone, NEW r \in Requests, handler' = [handler EXCEPT ![r] = U!Idle],
         handler[r] # U!Idle, OneCustomerRequest', U!RemovedIsBare'
  PROVE  BareInv'
<1>1. \A q \in Requests : handler'[q] = U!Idle
  BY OthersRest DEF BareInv
<1> QED
  BY <1>1 DEF BareInv, CountedOK, U!Idle

LEMMA WriteBare ==
  ASSUME CustomersIInv, BareInv, alone, OneCustomerRequest', NEW r \in Requests,
         \/ U!RegisterWrite(r) \/ U!UpdateWrite(r) \/ U!RemoveWrite(r)
         \/ U!UploadWrite(r) \/ U!ApplyWrite(r) \/ U!Fail(r)
  PROVE  BareInv'
<1> DEFINE h == handler[r]
           c == h.customer
<1>1. /\ handler' = [handler EXCEPT ![r] = U!Idle] /\ handler[r] # U!Idle
      /\ U!Fail(r) \/ c \in Customers
  BY CustomersIdleOK DEF U!RegisterWrite, U!UpdateWrite, U!RemoveWrite, U!UploadWrite, U!ApplyWrite,
     U!Fail, U!Finish, U!At, U!Idle, CustomersIInv, CustomersRowsInv
<1>2. U!RemovedIsBare /\ CountedOK(h) /\ customer \in [Customers -> U!Row] /\ apps \in [Customers -> Nat]
  BY DEF BareInv, CustomersIInv, CustomersTyped
<1> HIDE DEF c
<1>3. ASSUME U!RegisterWrite(r) PROVE U!RemovedIsBare'
  <2>1. /\ customer' = [customer EXCEPT ![c] = [status |-> "REGISTERED", phone |-> h.phone, bvn |-> h.bvn,
                                                sealed |-> h.bvn, live |-> TRUE]]
        /\ UNCHANGED <<docs, apps>>
    BY <1>3 DEF U!RegisterWrite, c
  <2> QED
    BY <1>2, <2>1 DEF U!RemovedIsBare, U!Live, U!Present
<1>4. ASSUME U!UpdateWrite(r) PROVE U!RemovedIsBare'
  <2>1. /\ \A d \in Customers : customer'[d].live = customer[d].live /\ customer'[d].status = customer[d].status
        /\ UNCHANGED <<docs, apps>>
    BY <1>2, <1>4 DEF U!UpdateWrite, U!Row
  <2> QED
    BY <1>2, <2>1 DEF U!RemovedIsBare, U!Live, U!Present
<1>5. ASSUME U!RemoveWrite(r) PROVE U!RemovedIsBare'
  <2>1. apps[c] = 0 /\ c \notin docs
    BY <1>2, <1>5 DEF U!RemoveWrite, U!At, CountedOK, c
  <2>2. /\ \A d \in Customers \ {c} : customer'[d] = customer[d]
        /\ UNCHANGED <<docs, apps>>
    BY <1>2, <1>5 DEF U!RemoveWrite, c
  <2> QED
    BY <1>2, <2>1, <2>2 DEF U!RemovedIsBare, U!Live, U!Present
<1>6. ASSUME U!UploadWrite(r) PROVE U!RemovedIsBare'
  <2>1. U!Live(c) /\ customer' = customer /\ apps' = apps /\ docs' = docs \cup {c}
    BY <1>2, <1>6 DEF U!UploadWrite, U!At, CountedOK, c
  <2> QED
    BY <1>2, <2>1 DEF U!RemovedIsBare, U!Live, U!Present
<1>7. ASSUME U!ApplyWrite(r) PROVE U!RemovedIsBare'
  <2>1. U!Live(c) /\ customer' = customer /\ docs' = docs /\ \A d \in Customers \ {c} : apps'[d] = apps[d]
    BY <1>2, <1>7 DEF U!ApplyWrite, U!At, CountedOK, c
  <2> QED
    BY <1>2, <2>1 DEF U!RemovedIsBare, U!Live, U!Present
<1>8. ASSUME U!Fail(r) PROVE U!RemovedIsBare'
  BY <1>2, <1>8 DEF U!Fail, U!RemovedIsBare, U!Live, U!Present
<1> QED
  BY <1>1, <1>3, <1>4, <1>5, <1>6, <1>7, <1>8, EndBare

LEMMA CountBare ==
  ASSUME CustomersIInv, BareInv, alone, OneCustomerRequest', NEW r \in Requests,
         U!RemoveCountApps(r) \/ U!RemoveCountDocs(r)
  PROVE  BareInv'
<1> DEFINE h == handler[r]
           next == [h EXCEPT !.step = h.step + 1]
<1>1. h \in U!Handler /\ h.op = "remove" /\ h.step \in {0, 1} /\ handler \in [Requests -> U!Handler]
  BY DEF U!RemoveCountApps, U!RemoveCountDocs, U!At, CustomersIInv, CustomersTyped
<1>2. handler' = [handler EXCEPT ![r] = next] /\ UNCHANGED <<customer, docs, apps, lent>>
  BY <1>1 DEF U!RemoveCountApps, U!RemoveCountDocs, U!Proceed
<1>3. /\ next.op = "remove" /\ next.customer = h.customer /\ next.step = h.step + 1
      /\ h # U!Idle
  BY <1>1 DEF U!Handler, U!Idle
<1>4. CountedOK(next)
  <2>1. CASE U!RemoveCountApps(r)
    BY <1>3, <2>1 DEF U!RemoveCountApps, U!NoApplications, U!At, CountedOK
  <2>2. CASE U!RemoveCountDocs(r)
    BY <1>3, <2>2 DEF U!RemoveCountDocs, U!At, CountedOK, BareInv
  <2> QED
    BY <2>1, <2>2
<1> HIDE DEF next
<1> QED
  BY <1>2, <1>3, <1>4, QuietBare

\* Nobody's request: documents go, loans come and go, a status changes.
LEMMA AroundBare ==
  ASSUME CustomersIInv, BareInv, alone, NEW c \in Customers,
         \/ \E s \in U!Statuses : U!UpdateStatus(c, s)
         \/ U!RemoveDocuments(c) \/ U!Disburse(c) \/ U!RepayLast(c)
  PROVE  BareInv'
<1>1. /\ handler' = handler /\ apps' = apps /\ docs' \subseteq docs
      /\ \A d \in Customers : customer'[d].live = customer[d].live
      /\ \A d \in Customers : U!Present(d)' => U!Present(d)
  <2>1. \A d \in Customers : U!Live(d) \/ apps[d] > 0 \/ d \in lent => U!Present(d)
    BY DEF CustomersIInv, CustomersRowsInv
  <2> QED
    BY <2>1 DEF U!UpdateStatus, U!RemoveDocuments, U!Disburse, U!RepayLast, CustomersIInv, CustomersTyped,
                U!Row, U!Present
<1>2. \A r \in Requests : handler[r].op \in {"upload", "apply"} => handler[r].customer \in Customers
  BY DEF CustomersIInv, CustomersRowsInv
<1> QED
  BY <1>1, <1>2 DEF BareInv, OneCustomerRequest, CountedOK, U!RemovedIsBare, U!Live

LEMMA BareStep ==
  ASSUME CustomersIInv, BareInv, UNCHANGED alone, [U!Next /\ CustomersLone']_customers
  PROVE  BareInv'
<1>1. CASE ~alone
  BY <1>1 DEF BareInv
<1>2. CASE UNCHANGED customers
  BY <1>2 DEF customers, BareInv, OneCustomerRequest, CountedOK, U!RemovedIsBare, U!Live, U!Present
<1>3. CASE alone /\ U!Next /\ CustomersLone'
  <2>1. OneCustomerRequest'
    BY <1>3 DEF CustomersLone, Lone, OneCustomerRequest
  <2> QED
    BY <1>3, <2>1, BeginBare, WriteBare, CountBare, AroundBare DEF U!Next
<1> QED
  BY <1>1, <1>2, <1>3

LEMMA CustomersSteps == [Next]_vars => [U!Next /\ CustomersLone']_customers
<1> SUFFICES ASSUME [Next]_vars PROVE [U!Next /\ CustomersLone']_customers
  OBVIOUS
<1>1. CASE UNCHANGED vars
  BY <1>1 DEF vars, customers
<1>2. CASE Next /\ part # "customers"
  BY <1>2 DEF Next, Rest
<1>3. CASE Next /\ part = "customers"
  BY <1>3 DEF Next
<1> QED
  BY <1>1, <1>2, <1>3

LEMMA CustomersAlways == Spec => []CustomersIInv
<1>1. Init => CustomersIInv
  BY CustomersInit DEF Init
<1>2. CustomersIInv /\ [Next]_vars => CustomersIInv'
  BY CustomersSteps, CustomersStep
<1> QED
  BY <1>1, <1>2, PTL DEF Spec

\* With one request at a time, a customer that was removed has no loan application:
\* what remove counted still holds when it marks the row (customers.service.ts).
THEOREM RemovedIsBareAlone == Spec => []AloneRemovedIsBare
<1>1. Init => BareInv
  <2> SUFFICES ASSUME Init PROVE BareInv
    OBVIOUS
  <2> QED
    BY DEF Init, U!Init, BareInv, OneCustomerRequest, U!RemovedIsBare, U!Present, U!NoRow, CountedOK, U!Idle
<1>2. CustomersIInv /\ BareInv /\ [Next]_vars => BareInv'
  <2>1. [Next]_vars => UNCHANGED alone
    BY DEF Next, vars
  <2> QED
    BY <2>1, CustomersSteps, BareStep
<1>3. BareInv => AloneRemovedIsBare
  BY DEF BareInv, AloneRemovedIsBare
<1>4. Spec => []CustomersIInv
  BY CustomersAlways
<1> QED
  BY <1>1, <1>2, <1>3, <1>4, PTL DEF Spec

-----------------------------------------------------------------------------
(* Organisation. The inductive invariant: a branch on its way to be closed has  *)
(* been inserted, so that nothing can make it the head office any more. It      *)
(* needs the type of no more than the branches and what their handlers hold.    *)

OrgOps == {"none", "headOffice", "branch", "closeBranch", "dept", "move", "closeDept", "product",
        "change", "withdraw", "apply"}
OrgNodes == Departments \cup {None}
OrgHandler == [op : OrgOps, step : {0, 1, 2}, on : Branches \cup OrgNodes, to : OrgNodes, at : OrgNodes,
            seen : SUBSET OrgNodes, limits : (Limits \cup {0}) \X (Limits \cup {0}),
            docs : (SUBSET DocTypes) \cup {None}]

OrgTyped ==
  /\ branch \in [Branches -> {"none", "live", "deleted"}]
  /\ head \subseteq Branches
  /\ parent \in [Departments -> OrgNodes]
  /\ working \in [Requests -> OrgHandler]
  /\ \A r \in Requests : working[r].op \in {"headOffice", "branch", "closeBranch"} =>
                            working[r].on \in Branches
  /\ \A r \in Requests : working[r].op = "dept" => working[r].on \in Departments
  /\ \A r \in Requests : working[r].op = "move" => working[r].on \in Departments

OrgCloseInv ==
  \A r \in Requests : working[r].op = "closeBranch" =>
    branch[working[r].on] # "none" /\ working[r].on \notin head

OrgIInv == OrgTyped /\ OrgCloseInv /\ O!HeadOfficeStands

-----------------------------------------------------------------------------
(* Organisation: what steps have in common *)

LEMMA OrgIdleOK == O!Idle \in OrgHandler /\ O!Idle.op = "none"
BY DEF O!Idle, OrgHandler, OrgOps, OrgNodes

\* No branch changes, and one handler does, which is closing none or was before.
LEMMA OrgQuietInv ==
  ASSUME OrgIInv, NEW r \in Requests, NEW h \in OrgHandler, working' = [working EXCEPT ![r] = h],
         UNCHANGED O!office, parent' \in [Departments -> OrgNodes],
         \/ h.op = "none"
         \/ h.op = working[r].op /\ h.on = working[r].on
         \/ /\ h.op \notin {"headOffice", "branch", "closeBranch"}
            /\ h.op \in {"dept", "move"} => h.on \in Departments
  PROVE  OrgIInv'
<1>1. OrgTyped'
  BY DEF OrgIInv, OrgTyped, O!office
<1>2. OrgCloseInv'
  BY DEF OrgIInv, OrgTyped, OrgCloseInv, O!office
<1>3. O!HeadOfficeStands'
  BY DEF OrgIInv, O!HeadOfficeStands, O!office
<1> QED
  BY <1>1, <1>2, <1>3 DEF OrgIInv

-----------------------------------------------------------------------------
(* Branches *)

LEMMA CreateBranchInv ==
  ASSUME OrgIInv, NEW r \in Requests, NEW b \in Branches, NEW first \in BOOLEAN, O!CreateBranch(r, b, first)
  PROVE  OrgIInv'
<1> DEFINE h == [O!Idle EXCEPT !.op = IF first THEN "headOffice" ELSE "branch", !.on = b]
<1>1. h \in OrgHandler /\ h.op \in {"headOffice", "branch"} /\ h.on = b
  BY OrgIdleOK DEF OrgHandler, OrgOps
<1>2. working' = [working EXCEPT ![r] = h] /\ UNCHANGED <<O!office, O!tree>>
  BY DEF O!CreateBranch, O!Start
<1> HIDE DEF h
<1>3. OrgTyped'
  BY <1>1, <1>2 DEF OrgIInv, OrgTyped, O!office, O!tree
<1>4. OrgCloseInv' /\ O!HeadOfficeStands'
  BY <1>1, <1>2 DEF OrgIInv, OrgTyped, OrgCloseInv, O!HeadOfficeStands, O!office
<1> QED
  BY <1>3, <1>4 DEF OrgIInv

\* The flag is taken from every branch; what handlers hold does not need it.
LEMMA ClearHeadInv ==
  ASSUME OrgIInv, NEW r \in Requests, O!ClearHead(r)
  PROVE  OrgIInv'
<1> DEFINE h == [working[r] EXCEPT !.step = 1]
<1>1. h \in OrgHandler /\ h.op = working[r].op /\ h.on = working[r].on
  BY DEF OrgIInv, OrgTyped, OrgHandler
<1>2. working' = [working EXCEPT ![r] = h] /\ head' = {} /\ UNCHANGED <<branch, O!tree>>
  BY DEF O!ClearHead, O!OthersHead, OrgIInv, OrgTyped
<1> HIDE DEF h
<1>3. OrgTyped'
  BY <1>1, <1>2 DEF OrgIInv, OrgTyped, O!tree
<1>4. OrgCloseInv' /\ O!HeadOfficeStands'
  BY <1>1, <1>2 DEF OrgIInv, OrgTyped, OrgCloseInv, O!HeadOfficeStands
<1> QED
  BY <1>3, <1>4 DEF OrgIInv

\* A branch that becomes the head office was no row before: nobody closes it.
LEMMA InsertBranchInv ==
  ASSUME OrgIInv, NEW r \in Requests, O!InsertBranch(r)
  PROVE  OrgIInv'
<1> DEFINE b == working[r].on
<1>1. b \in Branches /\ working' = [working EXCEPT ![r] = O!Idle] /\ UNCHANGED O!tree
  BY DEF O!InsertBranch, O!Finish, O!At, OrgIInv, OrgTyped
<1>2. CASE branch[b] = "none"
  <2>1. branch' = [branch EXCEPT ![b] = "live"] /\ head' \in {head, head \cup {b}}
    BY <1>2 DEF O!InsertBranch
  <2>2. OrgTyped'
    BY <1>1, <2>1, OrgIdleOK DEF OrgIInv, OrgTyped, O!tree
  <2>3. OrgCloseInv' /\ O!HeadOfficeStands'
    BY <1>1, <1>2, <2>1, OrgIdleOK DEF OrgIInv, OrgTyped, OrgCloseInv, O!HeadOfficeStands
  <2> QED
    BY <2>2, <2>3 DEF OrgIInv
<1>3. CASE branch[b] # "none"
  BY <1>1, <1>3, OrgIdleOK, OrgQuietInv DEF O!InsertBranch, OrgIInv, OrgTyped, O!tree
<1> QED
  BY <1>2, <1>3

\* The head office is refused, and what is read is a row.
LEMMA RemoveBranchInv ==
  ASSUME OrgIInv, NEW r \in Requests, NEW b \in Branches, O!RemoveBranch(r, b)
  PROVE  OrgIInv'
<1> DEFINE h == [O!Idle EXCEPT !.op = "closeBranch", !.on = b]
<1>1. h \in OrgHandler /\ h.op = "closeBranch" /\ h.on = b
  BY OrgIdleOK DEF OrgHandler, OrgOps
<1>2. /\ working' = [working EXCEPT ![r] = h] /\ UNCHANGED <<O!office, O!tree>>
      /\ branch[b] = "live" /\ b \notin head
  BY DEF O!RemoveBranch, O!Start, O!NotHead
<1> HIDE DEF h
<1>3. OrgTyped'
  BY <1>1, <1>2 DEF OrgIInv, OrgTyped, O!office, O!tree
<1>4. OrgCloseInv' /\ O!HeadOfficeStands'
  BY <1>1, <1>2 DEF OrgIInv, OrgTyped, OrgCloseInv, O!HeadOfficeStands, O!office
<1> QED
  BY <1>3, <1>4 DEF OrgIInv

LEMMA CountStaffInv ==
  ASSUME OrgIInv, NEW r \in Requests, O!CountStaff(r)
  PROVE  OrgIInv'
<1> DEFINE h == IF seat.branch = working[r].on THEN O!Idle ELSE [working[r] EXCEPT !.step = 1]
<1>1. h \in OrgHandler /\ (h.op = "none" \/ (h.op = working[r].op /\ h.on = working[r].on))
  BY OrgIdleOK DEF OrgIInv, OrgTyped, OrgHandler
<1>2. working' = [working EXCEPT ![r] = h] /\ UNCHANGED <<O!office, O!tree>>
  BY DEF O!CountStaff, OrgIInv, OrgTyped
<1> HIDE DEF h
<1> QED
  BY <1>1, <1>2, OrgQuietInv DEF OrgIInv, OrgTyped, O!tree

LEMMA CloseBranchInv ==
  ASSUME OrgIInv, NEW r \in Requests, O!CloseBranch(r)
  PROVE  OrgIInv'
<1> DEFINE b == working[r].on
<1>1. /\ b \in Branches /\ b \notin head
      /\ working' = [working EXCEPT ![r] = O!Idle] /\ branch' = [branch EXCEPT ![b] = "deleted"]
      /\ UNCHANGED <<head, O!tree>>
  BY DEF O!CloseBranch, O!Finish, O!At, OrgIInv, OrgTyped, OrgCloseInv, O!tree
<1>2. OrgTyped'
  BY <1>1, OrgIdleOK DEF OrgIInv, OrgTyped, O!tree
<1>3. OrgCloseInv' /\ O!HeadOfficeStands'
  BY <1>1, OrgIdleOK DEF OrgIInv, OrgTyped, OrgCloseInv, O!HeadOfficeStands
<1> QED
  BY <1>2, <1>3 DEF OrgIInv

LEMMA OfBranchesInv == ASSUME OrgIInv, NEW r \in Requests, O!OfBranches(r) PROVE OrgIInv'
BY CreateBranchInv, ClearHeadInv, InsertBranchInv, RemoveBranchInv, CountStaffInv, CloseBranchInv
   DEF O!OfBranches

-----------------------------------------------------------------------------
(* Departments and products, which no branch depends on *)

LEMMA OrgBeginInv ==
  ASSUME OrgIInv, NEW r \in Requests, NEW h \in OrgHandler, O!Start(r, h), UNCHANGED <<O!office, O!tree>>,
         h.op \notin {"headOffice", "branch", "closeBranch"},
         h.op \in {"dept", "move"} => h.on \in Departments
  PROVE  OrgIInv'
BY OrgQuietInv DEF O!Start, OrgIInv, OrgTyped, O!tree

LEMMA OrgFinishInv ==
  ASSUME OrgIInv, NEW r \in Requests, O!Finish(r), UNCHANGED O!office, parent' \in [Departments -> OrgNodes]
  PROVE  OrgIInv'
BY OrgQuietInv, OrgIdleOK DEF O!Finish

LEMMA OfDepartmentsInv ==
  ASSUME OrgIInv, NEW r \in Requests, O!OfDepartments(r)
  PROVE  OrgIInv'
<1>0. parent \in [Departments -> OrgNodes] /\ working \in [Requests -> OrgHandler]
  BY DEF OrgIInv, OrgTyped
<1>1. ASSUME NEW d \in Departments, NEW p \in OrgNodes, O!CreateDept(r, d, p) PROVE OrgIInv'
  <2> DEFINE h == [O!Idle EXCEPT !.op = "dept", !.on = d, !.to = p]
  <2>1. h \in OrgHandler /\ h.op = "dept" /\ h.on = d
    BY OrgIdleOK DEF OrgHandler, OrgOps, OrgNodes
  <2> QED
    BY <1>1, <2>1, OrgBeginInv DEF O!CreateDept
<1>2. ASSUME NEW d \in Departments, NEW p \in OrgNodes, O!MoveDept(r, d, p) PROVE OrgIInv'
  <2> DEFINE h == [O!Idle EXCEPT !.op = "move", !.on = d, !.to = p, !.at = p, !.seen = {p}]
  <2>1. h \in OrgHandler /\ h.op = "move" /\ h.on = d
    BY OrgIdleOK DEF OrgHandler, OrgOps, OrgNodes
  <2> QED
    BY <1>2, <2>1, OrgBeginInv DEF O!MoveDept
<1>3. ASSUME NEW d \in Departments, O!RemoveDept(r, d) PROVE OrgIInv'
  <2> DEFINE h == [O!Idle EXCEPT !.op = "closeDept", !.on = d]
  <2>1. h \in OrgHandler /\ h.op = "closeDept"
    BY OrgIdleOK DEF OrgHandler, OrgOps, OrgNodes
  <2> QED
    BY <1>3, <2>1, OrgBeginInv DEF O!RemoveDept
<1>4. CASE O!InsertDept(r)
  <2>1. working[r].op = "dept" /\ working[r] \in OrgHandler
    BY <1>0, <1>4 DEF O!InsertDept, O!At
  <2>2. parent' \in [Departments -> OrgNodes]
    BY <1>0, <1>4, <2>1 DEF O!InsertDept, OrgHandler, O!tree
  <2> QED
    BY <1>4, <2>2, OrgFinishInv DEF O!InsertDept
<1>5. CASE O!Climb(r)
  <2> DEFINE next == O!Above(working[r].at)
             h == IF next = working[r].on THEN O!Idle
                  ELSE [working[r] EXCEPT !.at = IF next \in working[r].seen THEN None ELSE next,
                                          !.seen = working[r].seen \cup {next}]
  <2>1. working[r] \in OrgHandler /\ working[r].at \in Departments
    BY <1>0, <1>5 DEF O!Climb, OrgHandler, OrgNodes
  <2>2. next \in OrgNodes
    BY <1>0, <2>1 DEF O!Above
  <2> HIDE DEF next
  <2>3. h \in OrgHandler /\ (h.op = "none" \/ (h.op = working[r].op /\ h.on = working[r].on))
    <3> DEFINE higher == IF next \in working[r].seen THEN None ELSE next
               climbed == [working[r] EXCEPT !.at = higher, !.seen = working[r].seen \cup {next}]
    <3>1. higher \in OrgNodes /\ working[r].seen \cup {next} \in SUBSET OrgNodes
      BY <2>1, <2>2 DEF OrgHandler, OrgNodes
    <3> HIDE DEF higher
    <3>2. climbed \in OrgHandler /\ climbed.op = working[r].op /\ climbed.on = working[r].on
      BY <2>1, <3>1 DEF OrgHandler
    <3>3. h \in {O!Idle, climbed}
      BY DEF higher
    <3> HIDE DEF h, climbed
    <3> QED
      BY <3>2, <3>3, OrgIdleOK
  <2>4. working' = [working EXCEPT ![r] = h] /\ UNCHANGED <<O!office, O!tree>>
    BY <1>0, <1>5 DEF O!Climb, next
  <2> HIDE DEF h
  <2> QED
    BY <1>0, <2>3, <2>4, OrgQuietInv DEF O!tree
<1>6. CASE O!WriteParent(r)
  <2>1. parent' \in [Departments -> OrgNodes]
    BY <1>0, <1>6 DEF O!WriteParent, OrgHandler
  <2> QED
    BY <1>6, <2>1, OrgFinishInv DEF O!WriteParent
<1>7. CASE O!CountDepts(r)
  <2> DEFINE h == IF O!Below(working[r].on) # {} THEN O!Idle ELSE [working[r] EXCEPT !.step = 1]
  <2>1. h \in OrgHandler /\ (h.op = "none" \/ (h.op = working[r].op /\ h.on = working[r].on))
    BY <1>0, OrgIdleOK DEF OrgHandler
  <2>2. working' = [working EXCEPT ![r] = h] /\ UNCHANGED <<O!office, O!tree>>
    BY <1>0, <1>7 DEF O!CountDepts
  <2> HIDE DEF h
  <2> QED
    BY <1>0, <2>1, <2>2, OrgQuietInv DEF O!tree
<1>8. CASE O!CloseDept(r)
  BY <1>0, <1>8, OrgFinishInv DEF O!CloseDept
<1> QED
  BY <1>1, <1>2, <1>3, <1>4, <1>5, <1>6, <1>7, <1>8 DEF O!OfDepartments, OrgNodes

LEMMA OfProductsInv ==
  ASSUME OrgIInv, NEW r \in Requests, O!OfProducts(r)
  PROVE  OrgIInv'
<1>0. parent \in [Departments -> OrgNodes] /\ working \in [Requests -> OrgHandler]
  BY DEF OrgIInv, OrgTyped
<1>1. ASSUME NEW min \in Limits, NEW max \in Limits, NEW ds \in SUBSET DocTypes,
             O!CreateProduct(r, min, max, ds)
      PROVE  OrgIInv'
  <2> DEFINE h == [O!Idle EXCEPT !.op = "product", !.limits = <<min, max>>, !.docs = ds]
  <2>1. h \in OrgHandler /\ h.op = "product"
    BY OrgIdleOK DEF OrgHandler, OrgOps
  <2> QED
    BY <1>1, <2>1, OrgBeginInv DEF O!CreateProduct
<1>2. ASSUME NEW min \in Limits \cup {0}, NEW max \in Limits \cup {0},
             NEW ds \in (SUBSET DocTypes) \cup {None}, O!UpdateProduct(r, min, max, ds)
      PROVE  OrgIInv'
  <2> DEFINE h == [O!Idle EXCEPT !.op = "change", !.limits = <<min, max>>, !.docs = ds]
  <2>1. h \in OrgHandler /\ h.op = "change"
    BY OrgIdleOK DEF OrgHandler, OrgOps
  <2> QED
    BY <1>2, <2>1, OrgBeginInv DEF O!UpdateProduct
<1>3. CASE O!ChangeRow(r) \/ O!DropRequirements(r)
  <2> DEFINE g == [working[r] EXCEPT !.step = 1]
             k == [working[r] EXCEPT !.step = 2]
  <2>1. /\ g \in OrgHandler /\ g.op = working[r].op /\ g.on = working[r].on
        /\ k \in OrgHandler /\ k.op = working[r].op /\ k.on = working[r].on
    BY <1>0 DEF OrgHandler
  <2>2. \/ working' = [working EXCEPT ![r] = g]
        \/ working' = [working EXCEPT ![r] = k]
        \/ working' = [working EXCEPT ![r] = O!Idle]
    BY <1>0, <1>3 DEF O!ChangeRow, O!DropRequirements
  <2>3. UNCHANGED <<O!office, parent>>
    BY <1>3 DEF O!ChangeRow, O!DropRequirements, O!tree
  <2> HIDE DEF g, k
  <2>4. CASE working' = [working EXCEPT ![r] = g]
    BY <1>0, <2>1, <2>3, <2>4, OrgQuietInv
  <2>5. CASE working' = [working EXCEPT ![r] = k]
    BY <1>0, <2>1, <2>3, <2>5, OrgQuietInv
  <2>6. CASE working' = [working EXCEPT ![r] = O!Idle]
    BY <1>0, <2>3, <2>6, OrgFinishInv DEF O!Finish
  <2> QED
    BY <2>2, <2>4, <2>5, <2>6
<1>4. CASE O!InsertProduct(r) \/ O!AddRequirements(r) \/ O!WithdrawProduct(r) \/ O!InsertApplication(r)
  <2>1. O!Finish(r) /\ UNCHANGED <<O!office, O!tree>>
    BY <1>4 DEF O!InsertProduct, O!AddRequirements, O!WithdrawProduct, O!InsertApplication
  <2> QED
    BY <1>0, <2>1, OrgFinishInv DEF O!tree
<1>5. CASE O!RemoveProduct(r) \/ O!Apply(r)
  <2>1. \A op \in {"withdraw", "apply"} :
          [O!Idle EXCEPT !.op = op] \in OrgHandler /\ [O!Idle EXCEPT !.op = op].op = op
    BY OrgIdleOK DEF OrgHandler, OrgOps
  <2> QED
    BY <1>5, <2>1, OrgBeginInv DEF O!RemoveProduct, O!Apply
<1> QED
  BY <1>1, <1>2, <1>3, <1>4, <1>5 DEF O!OfProducts

-----------------------------------------------------------------------------
(* Organisation: its specification *)

LEMMA OrgInit == O!Init => OrgIInv
<1> SUFFICES ASSUME O!Init PROVE OrgIInv
  OBVIOUS
<1>1. OrgTyped
  BY OrgIdleOK DEF O!Init, OrgTyped, OrgNodes
<1>2. OrgCloseInv /\ O!HeadOfficeStands
  BY OrgIdleOK DEF O!Init, OrgCloseInv, O!HeadOfficeStands
<1> QED
  BY <1>1, <1>2 DEF OrgIInv

LEMMA OrgStep == OrgIInv /\ [O!Next]_organisation => OrgIInv'
<1> SUFFICES ASSUME OrgIInv, [O!Next]_organisation PROVE OrgIInv'
  OBVIOUS
<1>1. ASSUME NEW r \in Requests, O!Fail(r) PROVE OrgIInv'
  BY <1>1, OrgFinishInv DEF O!Fail, OrgIInv, OrgTyped, O!tree
<1>2. ASSUME NEW b \in Branches \cup {None}, NEW d \in Departments \cup {None}, O!SeatUser(b, d) PROVE OrgIInv'
  BY <1>2 DEF O!SeatUser, OrgIInv, OrgTyped, OrgCloseInv, O!HeadOfficeStands, O!office, O!tree
<1>3. CASE UNCHANGED organisation
  BY <1>3 DEF organisation, OrgIInv, OrgTyped, OrgCloseInv, O!HeadOfficeStands
<1> QED
  BY <1>1, <1>2, <1>3, OfBranchesInv, OfDepartmentsInv, OfProductsInv DEF O!Next

LEMMA HeadOfficeKept == O!Spec => []O!HeadOfficeStands
<1>1. OrgIInv => O!HeadOfficeStands
  BY DEF OrgIInv
<1>2. O!Spec => O!Init /\ [][O!Next]_organisation
  BY DEF O!Spec, O!vars, organisation
<1> QED
  BY <1>1, <1>2, OrgInit, OrgStep, PTL

-----------------------------------------------------------------------------
(* Organisation, one request at a time: one head office, no department above    *)
(* itself, limits in order. What a handler has found holds until it writes.     *)

\* Rows, whatever interleaves: a parent has been inserted.
OrgRows ==
  /\ dept \in [Departments -> {"none", "live", "deleted"}]
  /\ product = [state |-> product.state, limits |-> product.limits, docs |-> product.docs]
  /\ \A d \in Departments : parent[d] # None => dept[parent[d]] # "none"
  /\ \A r \in Requests : working[r].op \in {"dept", "move"} /\ working[r].to # None =>
                            dept[working[r].to] # "none"

\* The climb of h: it began at the new parent, has not met the department that
\* moves, and has been wherever it can get from where it was, but for its last stop.
ClimbOK(h) ==
  /\ h.to \in h.seen /\ h.on \notin h.seen
  /\ h.at = None \/ h.at \in h.seen
  /\ \A d \in h.seen : d # None /\ d # h.at => parent[d] \in h.seen

\* What handler h has established.
WorkOK(h) ==
  /\ h.op = "headOffice" /\ h.step = 1 => head = {}
  /\ h.op = "product" => h.limits[1] < h.limits[2]
  /\ h.op = "change" /\ h.step = 0 => O!Sound(h.limits[1], h.limits[2])
  /\ h.op = "withdraw" => product.state # "none"
  /\ h.op = "move" => ClimbOK(h)

OneAtWork == \A r, q \in Requests : working[r] # O!Idle /\ working[q] # O!Idle => r = q
OneHead == \A b, c \in head : b = c
Ordered == OneHead /\ O!Acyclic /\ O!LimitsOrdered

OrderedInv == alone => OneAtWork /\ Ordered /\ \A r \in Requests : WorkOK(working[r])

OrgAll == OrgIInv /\ OrgRows

LEMMA IdleWorks == \A r \in Requests : working[r] = O!Idle => WorkOK(working[r])
BY DEF WorkOK, O!Idle

\* One request moves on.
LEMMA OneWorks ==
  ASSUME OrgIInv, NEW r \in Requests, NEW h, working' = [working EXCEPT ![r] = h],
         OneAtWork, OneAtWork', h # O!Idle \/ working[r] # O!Idle, WorkOK(h)', Ordered'
  PROVE  OrderedInv'
<1>1. \A q \in Requests : (q = r /\ working'[q] = h) \/ working'[q] = O!Idle
  BY DEF OrgIInv, OrgTyped, OneAtWork
<1>2. \A q \in Requests : working'[q] = O!Idle => WorkOK(working[q])'
  BY DEF WorkOK, O!Idle
<1> QED
  BY <1>1, <1>2 DEF OrderedInv

\* Nothing but a handler changes.
LEMMA QuietOrdered ==
  ASSUME Ordered, UNCHANGED <<O!office, O!tree, O!catalogue>>
  PROVE  Ordered'
BY DEF Ordered, OneHead, O!Acyclic, O!LimitsOrdered, O!office, O!tree, O!catalogue

\* A request begins, goes on or ends without a write.
LEMMA QuietWorks ==
  ASSUME OrgIInv, OrderedInv, alone, NEW r \in Requests, NEW h, working' = [working EXCEPT ![r] = h],
         OneAtWork', h # O!Idle \/ working[r] # O!Idle, WorkOK(h),
         UNCHANGED <<O!office, O!tree, O!catalogue>>
  PROVE  OrderedInv'
<1>1. WorkOK(h)'
  BY DEF WorkOK, ClimbOK, O!Sound, O!Merged, O!office, O!tree, O!catalogue
<1>2. Ordered'
  BY QuietOrdered DEF OrderedInv
<1> QED
  BY <1>1, <1>2, OneWorks DEF OrderedInv

\* A request ends with a write that keeps the order.
LEMMA EndWorks ==
  ASSUME OrgIInv, OrderedInv, alone, NEW r \in Requests, O!Finish(r), working[r] # O!Idle,
         OneAtWork', Ordered'
  PROVE  OrderedInv'
<1>1. WorkOK(O!Idle)'
  BY DEF WorkOK, O!Idle
<1> QED
  BY <1>1, OneWorks DEF OrderedInv, O!Finish

\* A request begins: what it holds is what it has established.
LEMMA BeginWorks ==
  ASSUME OrgIInv, OrderedInv, alone, NEW r \in Requests, NEW h, O!Start(r, h), h # O!Idle, OneAtWork',
         WorkOK(h), UNCHANGED <<O!office, O!tree, O!catalogue>>
  PROVE  OrderedInv'
BY QuietWorks DEF O!Start

-----------------------------------------------------------------------------
(* Organisation, one request at a time: branches *)

LEMMA BranchesOrdered ==
  ASSUME OrgAll, OrderedInv, alone, OneAtWork', NEW r \in Requests, O!OfBranches(r)
  PROVE  OrderedInv'
<1>0. /\ working \in [Requests -> OrgHandler] /\ OrgIInv /\ OneHead /\ O!Acyclic /\ O!LimitsOrdered
      /\ WorkOK(working[r])
  BY DEF OrgAll, OrgIInv, OrgTyped, OrderedInv, Ordered
<1>1. ASSUME NEW b \in Branches, NEW first \in BOOLEAN, O!CreateBranch(r, b, first) PROVE OrderedInv'
  <2> DEFINE h == [O!Idle EXCEPT !.op = IF first THEN "headOffice" ELSE "branch", !.on = b]
  <2>1. h.step = 0 /\ h.op \in {"headOffice", "branch"}
    BY DEF O!Idle
  <2>2. O!Start(r, h) /\ UNCHANGED <<O!office, O!tree, O!catalogue>>
    BY <1>1 DEF O!CreateBranch
  <2> HIDE DEF h
  <2>3. WorkOK(h) /\ h # O!Idle
    BY <2>1 DEF WorkOK, O!Idle
  <2> QED
    BY <1>0, <2>2, <2>3, BeginWorks
<1>2. CASE O!ClearHead(r)
  <2> DEFINE cleared == [working[r] EXCEPT !.step = 1]
  <2>0. working' = [working EXCEPT ![r] = cleared] /\ cleared.op = "headOffice" /\ cleared.step = 1
    BY <1>0, <1>2 DEF O!ClearHead, O!At, OrgHandler
  <2> HIDE DEF cleared
  <2>1. PICK h : working' = [working EXCEPT ![r] = h] /\ h.op = "headOffice" /\ h.step = 1
    BY <2>0
  <2>2. WorkOK(h)' /\ h # O!Idle
    BY <1>2, <2>1 DEF WorkOK, O!ClearHead, O!OthersHead, O!Idle
  <2>3. Ordered'
    BY <1>0, <1>2 DEF Ordered, OneHead, O!Acyclic, O!LimitsOrdered, O!ClearHead, O!OthersHead, O!tree, O!catalogue
  <2> QED
    BY <1>0, <2>1, <2>2, <2>3, OneWorks DEF OrderedInv
<1>3. CASE O!InsertBranch(r)
  <2>1. head' = head \/ (head = {} /\ head' = {working[r].on})
    BY <1>0, <1>3 DEF O!InsertBranch, O!office, O!At, WorkOK
  <2>2. Ordered'
    BY <1>0, <1>3, <2>1 DEF Ordered, OneHead, O!Acyclic, O!LimitsOrdered, O!InsertBranch, O!tree, O!catalogue
  <2>3. O!Finish(r) /\ working[r] # O!Idle
    BY <1>3 DEF O!InsertBranch, O!At, O!Idle
  <2> QED
    BY <1>0, <2>2, <2>3, EndWorks
<1>4. ASSUME NEW b \in Branches, O!RemoveBranch(r, b) PROVE OrderedInv'
  <2> DEFINE h == [O!Idle EXCEPT !.op = "closeBranch", !.on = b]
  <2>1. h.op = "closeBranch"
    BY DEF O!Idle
  <2>2. O!Start(r, h) /\ UNCHANGED <<O!office, O!tree, O!catalogue>>
    BY <1>4 DEF O!RemoveBranch
  <2> HIDE DEF h
  <2>3. WorkOK(h) /\ h # O!Idle
    BY <2>1 DEF WorkOK, O!Idle
  <2> QED
    BY <1>0, <2>2, <2>3, BeginWorks
<1>5. CASE O!CountStaff(r)
  <2> DEFINE h == IF seat.branch = working[r].on THEN O!Idle ELSE [working[r] EXCEPT !.step = 1]
  <2>1. working' = [working EXCEPT ![r] = h] /\ UNCHANGED <<O!office, O!tree, O!catalogue>>
    BY <1>0, <1>5 DEF O!CountStaff
  <2>2. h.op \in {"none", "closeBranch"} /\ working[r] # O!Idle
    BY <1>0, <1>5 DEF O!CountStaff, O!At, OrgHandler, O!Idle
  <2> HIDE DEF h
  <2>3. WorkOK(h)
    BY <2>2 DEF WorkOK
  <2> QED
    BY <1>0, <2>1, <2>2, <2>3, QuietWorks
<1>6. CASE O!CloseBranch(r)
  <2>1. Ordered'
    BY <1>0, <1>6 DEF Ordered, OneHead, O!Acyclic, O!LimitsOrdered, O!CloseBranch, O!tree, O!catalogue
  <2>2. O!Finish(r) /\ working[r] # O!Idle
    BY <1>6 DEF O!CloseBranch, O!At, O!Idle
  <2> QED
    BY <1>0, <2>1, <2>2, EndWorks
<1> QED
  BY <1>1, <1>2, <1>3, <1>4, <1>5, <1>6 DEF O!OfBranches

-----------------------------------------------------------------------------
(* Organisation, one request at a time: departments *)

\* A department that is inserted hangs below another and nothing below it.
LEMMA InsertAcyclic ==
  ASSUME O!Acyclic, NEW d \in Departments, NEW p, p # d,
         \A c \in Departments : parent[c] # d,
         \A c \in Departments \ {d} : parent'[c] = parent[c], parent'[d] = p
  PROVE  O!Acyclic'
<1> SUFFICES ASSUME NEW some \in (SUBSET Departments) \ {{}}, \A c \in some : parent'[c] \in some
             PROVE  FALSE
  BY DEF O!Acyclic
<1>1. CASE d \notin some
  BY <1>1 DEF O!Acyclic
<1>2. CASE d \in some
  <2> DEFINE rest == some \ {d}
  <2>1. rest \in (SUBSET Departments) \ {{}}
    BY <1>2
  <2>2. \A c \in rest : parent[c] \in rest
    OBVIOUS
  <2> QED
    BY <2>1, <2>2 DEF O!Acyclic
<1> QED
  BY <1>1, <1>2

\* A department is hung below one from which the climb did not lead to it.
LEMMA MoveAcyclic ==
  ASSUME O!Acyclic, NEW d \in Departments, NEW p, NEW seen, p \in seen, d \notin seen,
         \A c \in seen : c # None => parent[c] \in seen,
         \A c \in Departments \ {d} : parent'[c] = parent[c], parent'[d] = p
  PROVE  O!Acyclic'
<1> SUFFICES ASSUME NEW some \in (SUBSET Departments) \ {{}}, \A c \in some : parent'[c] \in some
             PROVE  FALSE
  BY DEF O!Acyclic
<1>1. CASE d \notin some
  BY <1>1 DEF O!Acyclic
<1>2. CASE d \in some
  <2> DEFINE rest == some \cap seen
  <2>1. rest \in (SUBSET Departments) \ {{}}
    BY <1>2
  <2>2. \A c \in rest : parent[c] \in rest
    BY DepartmentsApart
  <2> QED
    BY <2>1, <2>2 DEF O!Acyclic
<1> QED
  BY <1>1, <1>2

LEMMA DepartmentsOrdered ==
  ASSUME OrgAll, OrderedInv, alone, OneAtWork', NEW r \in Requests, O!OfDepartments(r)
  PROVE  OrderedInv'
<1>0. /\ working \in [Requests -> OrgHandler] /\ OrgIInv /\ OneHead /\ O!Acyclic /\ O!LimitsOrdered
      /\ WorkOK(working[r]) /\ parent \in [Departments -> OrgNodes]
  BY DEF OrgAll, OrgIInv, OrgTyped, OrderedInv, Ordered
<1>1. ASSUME NEW d \in Departments, NEW p \in OrgNodes, O!CreateDept(r, d, p) PROVE OrderedInv'
  <2> DEFINE h == [O!Idle EXCEPT !.op = "dept", !.on = d, !.to = p]
  <2>1. h.op = "dept"
    BY DEF O!Idle
  <2>2. O!Start(r, h) /\ UNCHANGED <<O!office, O!tree, O!catalogue>>
    BY <1>1 DEF O!CreateDept
  <2> HIDE DEF h
  <2>3. WorkOK(h) /\ h # O!Idle
    BY <2>1 DEF WorkOK, O!Idle
  <2> QED
    BY <1>0, <2>2, <2>3, BeginWorks
<1>2. ASSUME NEW d \in Departments, NEW p \in OrgNodes, O!MoveDept(r, d, p) PROVE OrderedInv'
  <2> DEFINE h == [O!Idle EXCEPT !.op = "move", !.on = d, !.to = p, !.at = p, !.seen = {p}]
  <2>1. h.op = "move" /\ h.on = d /\ h.to = p /\ h.at = p /\ h.seen = {p}
    BY DEF O!Idle
  <2>2. O!Start(r, h) /\ UNCHANGED <<O!office, O!tree, O!catalogue>> /\ p # d
    BY <1>2 DEF O!MoveDept
  <2> HIDE DEF h
  <2>3. WorkOK(h) /\ h # O!Idle
    BY <2>1, <2>2 DEF WorkOK, ClimbOK, O!Idle
  <2> QED
    BY <1>0, <2>2, <2>3, BeginWorks
<1>3. ASSUME NEW d \in Departments, O!RemoveDept(r, d) PROVE OrderedInv'
  <2> DEFINE h == [O!Idle EXCEPT !.op = "closeDept", !.on = d]
  <2>1. h.op = "closeDept"
    BY DEF O!Idle
  <2>2. O!Start(r, h) /\ UNCHANGED <<O!office, O!tree, O!catalogue>>
    BY <1>3 DEF O!RemoveDept
  <2> HIDE DEF h
  <2>3. WorkOK(h) /\ h # O!Idle
    BY <2>1 DEF WorkOK, O!Idle
  <2> QED
    BY <1>0, <2>2, <2>3, BeginWorks
<1>4. CASE O!InsertDept(r)
  <2> DEFINE d == working[r].on
             p == working[r].to
  <2>1. O!Finish(r) /\ working[r] # O!Idle /\ working[r].op = "dept" /\ d \in Departments
    BY <1>4 DEF O!InsertDept, O!At, O!Idle, OrgAll, OrgIInv, OrgTyped
  <2>2. ASSUME dept[d] = "none" PROVE Ordered'
    <3>1. p # d /\ \A c \in Departments : parent[c] # d
      BY <2>1, <2>2, DepartmentsApart DEF OrgAll, OrgRows
    <3>2. parent'[d] = p /\ \A c \in Departments \ {d} : parent'[c] = parent[c]
      BY <1>0, <1>4, <2>1, <2>2 DEF O!InsertDept
    <3> HIDE DEF d, p
    <3>3. O!Acyclic'
      BY <1>0, <2>1, <3>1, <3>2, InsertAcyclic
    <3> QED
      BY <1>0, <1>4, <3>3 DEF O!InsertDept, OneHead, O!LimitsOrdered, O!office, O!catalogue, Ordered
  <2>3. ASSUME dept[d] # "none" PROVE Ordered'
    BY <1>0, <1>4, <2>3, QuietOrdered DEF O!InsertDept, Ordered
  <2> QED
    BY <1>0, <2>1, <2>2, <2>3, EndWorks
<1>5. CASE O!Climb(r)
  <2> DEFINE k == working[r]
             next == O!Above(k.at)
             h == IF next = k.on THEN O!Idle
                  ELSE [k EXCEPT !.at = IF next \in k.seen THEN None ELSE next, !.seen = k.seen \cup {next}]
  <2>1. k \in OrgHandler /\ k.op = "move" /\ k.at # None /\ ClimbOK(k) /\ k # O!Idle
    BY <1>0, <1>5 DEF O!Climb, O!At, WorkOK, O!Idle
  <2>2. working' = [working EXCEPT ![r] = h] /\ UNCHANGED <<O!office, O!tree, O!catalogue>>
    BY <1>0, <1>5 DEF O!Climb
  <2>3. next = parent[k.at]
    BY DEF O!Above
  <2>4. CASE next = k.on
    <3>1. O!Finish(r) /\ WorkOK(O!Idle)
      BY <2>2, <2>4 DEF O!Finish, WorkOK, O!Idle
    <3> QED
      BY <1>0, <2>1, <2>2, <3>1, QuietOrdered, EndWorks DEF Ordered
  <2>5. CASE next # k.on
    <3> HIDE DEF next, k
    <3> DEFINE g == [k EXCEPT !.at = IF next \in k.seen THEN None ELSE next, !.seen = k.seen \cup {next}]
    <3>1. /\ g.op = "move" /\ g.on = k.on /\ g.to = k.to
          /\ g.at = IF next \in k.seen THEN None ELSE next
          /\ g.seen = k.seen \cup {next}
      BY <2>1 DEF OrgHandler
    <3>2. working' = [working EXCEPT ![r] = g]
      BY <2>2, <2>5
    <3> HIDE DEF g
    <3>3. ClimbOK(g)
      BY <2>1, <2>3, <2>5, <3>1 DEF ClimbOK
    <3>4. WorkOK(g) /\ g # O!Idle
      BY <3>1, <3>3 DEF WorkOK, O!Idle
    <3> QED
      BY <1>0, <2>2, <3>2, <3>4, QuietWorks
  <2> QED
    BY <2>4, <2>5
<1>6. CASE O!WriteParent(r)
  <2> DEFINE d == working[r].on
             p == working[r].to
             seen == working[r].seen
  <2>1. /\ O!Finish(r) /\ working[r] # O!Idle /\ working[r].op = "move" /\ working[r].at = None
        /\ d \in Departments
    BY <1>6 DEF O!WriteParent, O!At, O!Idle, OrgAll, OrgIInv, OrgTyped
  <2>2. p \in seen /\ d \notin seen /\ \A c \in seen : c # None => parent[c] \in seen
    BY <1>0, <2>1 DEF WorkOK, ClimbOK
  <2>3. parent'[d] = p /\ \A c \in Departments \ {d} : parent'[c] = parent[c]
    BY <1>0, <1>6, <2>1 DEF O!WriteParent
  <2> HIDE DEF d, p, seen
  <2>4. O!Acyclic'
    BY <1>0, <2>1, <2>2, <2>3, MoveAcyclic
  <2>5. Ordered'
    BY <1>0, <1>6, <2>4 DEF O!WriteParent, OneHead, O!LimitsOrdered, O!office, O!catalogue, Ordered
  <2> QED
    BY <1>0, <2>1, <2>5, EndWorks
<1>7. CASE O!CountDepts(r)
  <2> DEFINE h == IF O!Below(working[r].on) # {} THEN O!Idle ELSE [working[r] EXCEPT !.step = 1]
  <2>1. working' = [working EXCEPT ![r] = h] /\ UNCHANGED <<O!office, O!tree, O!catalogue>>
    BY <1>0, <1>7 DEF O!CountDepts
  <2>2. h.op \in {"none", "closeDept"} /\ working[r] # O!Idle
    BY <1>0, <1>7 DEF O!CountDepts, O!At, OrgHandler, O!Idle
  <2> HIDE DEF h
  <2>3. WorkOK(h)
    BY <2>2 DEF WorkOK
  <2> QED
    BY <1>0, <2>1, <2>2, <2>3, QuietWorks
<1>8. CASE O!CloseDept(r)
  <2>1. Ordered'
    BY <1>0, <1>8 DEF Ordered, OneHead, O!Acyclic, O!LimitsOrdered, O!CloseDept, O!office, O!catalogue
  <2>2. O!Finish(r) /\ working[r] # O!Idle
    BY <1>8 DEF O!CloseDept, O!At, O!Idle
  <2> QED
    BY <1>0, <2>1, <2>2, EndWorks
<1> QED
  BY <1>1, <1>2, <1>3, <1>4, <1>5, <1>6, <1>7, <1>8 DEF O!OfDepartments, OrgNodes

-----------------------------------------------------------------------------
(* Organisation: what is inserted stays inserted, deleted or not *)

\* No hierarchy changes, and no handler asks for a new parent.
LEMMA RowsStay ==
  ASSUME OrgAll, UNCHANGED O!tree,
         product' = [state |-> product'.state, limits |-> product'.limits, docs |-> product'.docs],
         \A q \in Requests : working'[q].op \in {"dept", "move"} =>
                               working'[q].op = working[q].op /\ working'[q].to = working[q].to
  PROVE  OrgRows'
BY DEF OrgAll, OrgRows, O!tree

\* A handler begins an operation about no parent.
LEMMA RowsBegin ==
  ASSUME OrgAll, NEW r \in Requests, NEW h, O!Start(r, h), h.op \notin {"dept", "move"},
         UNCHANGED <<O!tree, O!catalogue>>
  PROVE  OrgRows'
<1>1. \A q \in Requests : working'[q] = IF q = r THEN h ELSE working[q]
  BY DEF O!Start, OrgAll, OrgIInv, OrgTyped
<1>2. product' = [state |-> product'.state, limits |-> product'.limits, docs |-> product'.docs]
  BY DEF OrgAll, OrgRows, O!catalogue
<1> QED
  BY <1>1, <1>2, RowsStay

\* A handler ends.
LEMMA RowsEnd ==
  ASSUME OrgAll, NEW r \in Requests, O!Finish(r), UNCHANGED O!tree,
         product' = [state |-> product'.state, limits |-> product'.limits, docs |-> product'.docs]
  PROVE  OrgRows'
<1>1. \A q \in Requests : working'[q] = IF q = r THEN O!Idle ELSE working[q]
  BY DEF O!Finish, OrgAll, OrgIInv, OrgTyped
<1> QED
  BY <1>1, OrgIdleOK, RowsStay

\* A handler goes on.
LEMMA RowsGoOn ==
  ASSUME OrgAll, NEW r \in Requests, NEW h, working' = [working EXCEPT ![r] = h],
         h.op = "none" \/ (h.op = working[r].op /\ h.to = working[r].to), UNCHANGED O!tree,
         product' = [state |-> product'.state, limits |-> product'.limits, docs |-> product'.docs]
  PROVE  OrgRows'
<1>1. \A q \in Requests : working'[q] = IF q = r THEN h ELSE working[q]
  BY DEF OrgAll, OrgIInv, OrgTyped
<1> QED
  BY <1>1, RowsStay

LEMMA BranchesRows ==
  ASSUME OrgAll, NEW r \in Requests, O!OfBranches(r)
  PROVE  OrgRows'
<1>0. /\ product = [state |-> product.state, limits |-> product.limits, docs |-> product.docs]
      /\ working \in [Requests -> OrgHandler]
  BY DEF OrgAll, OrgRows, OrgIInv, OrgTyped
<1>a. /\ UNCHANGED O!tree
      /\ product' = [state |-> product'.state, limits |-> product'.limits, docs |-> product'.docs]
  BY <1>0 DEF O!OfBranches, O!CreateBranch, O!RemoveBranch, O!ClearHead, O!InsertBranch, O!CountStaff, O!CloseBranch,
              O!catalogue
<1>1. ASSUME NEW b \in Branches, NEW first \in BOOLEAN, O!CreateBranch(r, b, first) PROVE OrgRows'
  <2> DEFINE h == [O!Idle EXCEPT !.op = IF first THEN "headOffice" ELSE "branch", !.on = b]
  <2>1. h.op \notin {"dept", "move"} /\ O!Start(r, h) /\ UNCHANGED <<O!tree, O!catalogue>>
    BY <1>1 DEF O!Idle, O!CreateBranch
  <2> HIDE DEF h
  <2> QED
    BY <2>1, RowsBegin
<1>2. ASSUME NEW b \in Branches, O!RemoveBranch(r, b) PROVE OrgRows'
  <2> DEFINE h == [O!Idle EXCEPT !.op = "closeBranch", !.on = b]
  <2>1. h.op \notin {"dept", "move"} /\ O!Start(r, h) /\ UNCHANGED <<O!tree, O!catalogue>>
    BY <1>2 DEF O!Idle, O!RemoveBranch
  <2> HIDE DEF h
  <2> QED
    BY <2>1, RowsBegin
<1>3. CASE O!ClearHead(r) \/ O!CountStaff(r)
  <2> DEFINE g == [working[r] EXCEPT !.step = 1]
  <2>1. g.op = working[r].op /\ g.to = working[r].to
    BY <1>0 DEF OrgHandler
  <2>2. working' = [working EXCEPT ![r] = g] \/ working' = [working EXCEPT ![r] = O!Idle]
    BY <1>0, <1>3 DEF O!ClearHead, O!CountStaff
  <2> HIDE DEF g
  <2>3. CASE working' = [working EXCEPT ![r] = g]
    BY <1>a, <2>1, <2>3, RowsGoOn
  <2>4. CASE working' = [working EXCEPT ![r] = O!Idle]
    BY <1>a, <2>4, RowsEnd DEF O!Finish
  <2> QED
    BY <2>2, <2>3, <2>4
<1>4. CASE O!InsertBranch(r) \/ O!CloseBranch(r)
  BY <1>a, <1>4, RowsEnd DEF O!InsertBranch, O!CloseBranch
<1> QED
  BY <1>1, <1>2, <1>3, <1>4 DEF O!OfBranches

LEMMA ProductsRows ==
  ASSUME OrgAll, NEW r \in Requests, O!OfProducts(r)
  PROVE  OrgRows'
<1>0. /\ product = [state |-> product.state, limits |-> product.limits, docs |-> product.docs]
      /\ working \in [Requests -> OrgHandler]
  BY DEF OrgAll, OrgRows, OrgIInv, OrgTyped
<1>1. ASSUME NEW min \in Limits, NEW max \in Limits, NEW ds \in SUBSET DocTypes, O!CreateProduct(r, min, max, ds)
      PROVE  OrgRows'
  <2> DEFINE h == [O!Idle EXCEPT !.op = "product", !.limits = <<min, max>>, !.docs = ds]
  <2>1. h.op \notin {"dept", "move"} /\ O!Start(r, h) /\ UNCHANGED <<O!tree, O!catalogue>>
    BY <1>1 DEF O!Idle, O!CreateProduct
  <2> HIDE DEF h
  <2> QED
    BY <2>1, RowsBegin
<1>2. ASSUME NEW min \in Limits \cup {0}, NEW max \in Limits \cup {0},
             NEW ds \in (SUBSET DocTypes) \cup {None}, O!UpdateProduct(r, min, max, ds)
      PROVE  OrgRows'
  <2> DEFINE h == [O!Idle EXCEPT !.op = "change", !.limits = <<min, max>>, !.docs = ds]
  <2>1. h.op \notin {"dept", "move"} /\ O!Start(r, h) /\ UNCHANGED <<O!tree, O!catalogue>>
    BY <1>2 DEF O!Idle, O!UpdateProduct
  <2> HIDE DEF h
  <2> QED
    BY <2>1, RowsBegin
<1>3. CASE O!ChangeRow(r) \/ O!DropRequirements(r)
  <2> DEFINE g == [working[r] EXCEPT !.step = 1]
             k == [working[r] EXCEPT !.step = 2]
  <2>1. g.op = working[r].op /\ g.to = working[r].to /\ k.op = working[r].op /\ k.to = working[r].to
    BY <1>0 DEF OrgHandler
  <2>2. \/ working' = [working EXCEPT ![r] = g]
        \/ working' = [working EXCEPT ![r] = k]
        \/ working' = [working EXCEPT ![r] = O!Idle]
    BY <1>0, <1>3 DEF O!ChangeRow, O!DropRequirements
  <2>3. /\ UNCHANGED O!tree
        /\ product' = [state |-> product'.state, limits |-> product'.limits, docs |-> product'.docs]
    BY <1>0, <1>3 DEF O!ChangeRow, O!DropRequirements
  <2> HIDE DEF g, k
  <2>4. CASE working' = [working EXCEPT ![r] = g]
    BY <2>1, <2>3, <2>4, RowsGoOn
  <2>5. CASE working' = [working EXCEPT ![r] = k]
    BY <2>1, <2>3, <2>5, RowsGoOn
  <2>6. CASE working' = [working EXCEPT ![r] = O!Idle]
    BY <2>3, <2>6, RowsEnd DEF O!Finish
  <2> QED
    BY <2>2, <2>4, <2>5, <2>6
<1>4. CASE O!InsertProduct(r) \/ O!AddRequirements(r) \/ O!WithdrawProduct(r) \/ O!InsertApplication(r)
  <2>1. /\ UNCHANGED O!tree
        /\ product' = [state |-> product'.state, limits |-> product'.limits, docs |-> product'.docs]
    BY <1>0, <1>4 DEF O!InsertProduct, O!AddRequirements, O!WithdrawProduct, O!InsertApplication
  <2> QED
    BY <1>4, <2>1, RowsEnd DEF O!InsertProduct, O!AddRequirements, O!WithdrawProduct, O!InsertApplication
<1>5. CASE O!RemoveProduct(r) \/ O!Apply(r)
  <2>1. \A op \in {"withdraw", "apply"} : [O!Idle EXCEPT !.op = op].op = op
    BY DEF O!Idle
  <2> QED
    BY <1>5, <2>1, RowsBegin DEF O!RemoveProduct, O!Apply
<1> QED
  BY <1>1, <1>2, <1>3, <1>4, <1>5 DEF O!OfProducts

\* A handler begins to hang a department below one that is inserted, or stops.
LEMMA RowsBelow ==
  ASSUME OrgAll, NEW r \in Requests, NEW h, O!Start(r, h), h.to # None => dept[h.to] # "none",
         UNCHANGED <<O!tree, O!catalogue>>
  PROVE  OrgRows'
<1>1. \A q \in Requests : working'[q] = IF q = r THEN h ELSE working[q]
  BY DEF O!Start, OrgAll, OrgIInv, OrgTyped
<1> QED
  BY <1>1 DEF OrgAll, OrgRows, O!tree, O!catalogue

LEMMA DepartmentsRows ==
  ASSUME OrgAll, NEW r \in Requests, O!OfDepartments(r)
  PROVE  OrgRows'
<1>0. /\ product = [state |-> product.state, limits |-> product.limits, docs |-> product.docs]
      /\ working \in [Requests -> OrgHandler] /\ parent \in [Departments -> OrgNodes]
      /\ dept \in [Departments -> {"none", "live", "deleted"}]
  BY DEF OrgAll, OrgRows, OrgIInv, OrgTyped
<1>a. product' = [state |-> product'.state, limits |-> product'.limits, docs |-> product'.docs]
  BY <1>0 DEF O!OfDepartments, O!CreateDept, O!MoveDept, O!RemoveDept, O!InsertDept, O!Climb, O!WriteParent,
              O!CountDepts, O!CloseDept, O!catalogue
<1>1. ASSUME NEW d \in Departments, NEW p \in OrgNodes, O!CreateDept(r, d, p) PROVE OrgRows'
  <2> DEFINE h == [O!Idle EXCEPT !.op = "dept", !.on = d, !.to = p]
  <2>1. h.to = p /\ O!Start(r, h) /\ UNCHANGED <<O!tree, O!catalogue>> /\ (p # None => dept[p] # "none")
    BY <1>1 DEF O!Idle, O!CreateDept
  <2> HIDE DEF h
  <2> QED
    BY <2>1, RowsBelow
<1>2. ASSUME NEW d \in Departments, NEW p \in OrgNodes, O!MoveDept(r, d, p) PROVE OrgRows'
  <2> DEFINE h == [O!Idle EXCEPT !.op = "move", !.on = d, !.to = p, !.at = p, !.seen = {p}]
  <2>1. h.to = p /\ O!Start(r, h) /\ UNCHANGED <<O!tree, O!catalogue>> /\ (p # None => dept[p] # "none")
    BY <1>2 DEF O!Idle, O!MoveDept
  <2> HIDE DEF h
  <2> QED
    BY <2>1, RowsBelow
<1>3. ASSUME NEW d \in Departments, O!RemoveDept(r, d) PROVE OrgRows'
  <2> DEFINE h == [O!Idle EXCEPT !.op = "closeDept", !.on = d]
  <2>1. h.op \notin {"dept", "move"} /\ O!Start(r, h) /\ UNCHANGED <<O!tree, O!catalogue>>
    BY <1>3 DEF O!Idle, O!RemoveDept
  <2> HIDE DEF h
  <2> QED
    BY <2>1, RowsBegin
<1>4. CASE O!InsertDept(r) \/ O!WriteParent(r) \/ O!CloseDept(r)
  <2> DEFINE d == working[r].on
             p == working[r].to
  <2>1. \A q \in Requests : working'[q] = IF q = r THEN O!Idle ELSE working[q]
    BY <1>0, <1>4 DEF O!InsertDept, O!WriteParent, O!CloseDept, O!Finish
  <2>2. \A c \in Departments : parent'[c] = parent[c] \/ (parent'[c] = p /\ working[r].op \in {"dept", "move"})
    <3>1. CASE O!InsertDept(r)
      BY <1>0, <3>1 DEF O!InsertDept, O!At, O!tree
    <3>2. CASE O!WriteParent(r)
      BY <1>0, <3>2 DEF O!WriteParent, O!At
    <3>3. CASE O!CloseDept(r)
      BY <3>3 DEF O!CloseDept
    <3> QED
      BY <1>4, <3>1, <3>2, <3>3
  <2>3. /\ dept' \in [Departments -> {"none", "live", "deleted"}]
        /\ \A c \in Departments : dept[c] # "none" => dept'[c] # "none"
    <3>1. CASE O!InsertDept(r)
      BY <1>0, <3>1 DEF O!InsertDept, O!tree
    <3>2. CASE O!WriteParent(r)
      BY <1>0, <3>2 DEF O!WriteParent
    <3>3. CASE O!CloseDept(r)
      BY <1>0, <3>3 DEF O!CloseDept
    <3> QED
      BY <1>4, <3>1, <3>2, <3>3
  <2>4. p \in OrgNodes /\ (working[r].op \in {"dept", "move"} /\ p # None => dept[p] # "none")
    BY <1>0 DEF OrgHandler, OrgAll, OrgRows
  <2>5. \A c \in Departments : parent'[c] # None => dept'[parent'[c]] # "none"
    BY <1>0, <2>2, <2>3, <2>4 DEF OrgAll, OrgRows, OrgNodes
  <2>6. \A q \in Requests : working'[q].op \in {"dept", "move"} /\ working'[q].to # None =>
                              dept'[working'[q].to] # "none"
    <3> TAKE q \in Requests
    <3>1. working[q].to \in OrgNodes
      BY <1>0 DEF OrgHandler
    <3> QED
      BY <2>1, <2>3, <3>1, OrgIdleOK DEF OrgAll, OrgRows, OrgNodes
  <2> QED
    BY <1>a, <2>3, <2>5, <2>6 DEF OrgRows
<1>5. CASE O!Climb(r)
  <2> DEFINE next == O!Above(working[r].at)
             higher == IF next \in working[r].seen THEN None ELSE next
             g == [working[r] EXCEPT !.at = higher, !.seen = working[r].seen \cup {next}]
  <2>1. g.op = working[r].op /\ g.to = working[r].to
    BY <1>0 DEF OrgHandler
  <2>2. working' = [working EXCEPT ![r] = g] \/ working' = [working EXCEPT ![r] = O!Idle]
    BY <1>0, <1>5 DEF O!Climb
  <2>3. UNCHANGED O!tree
    BY <1>5 DEF O!Climb
  <2> HIDE DEF g
  <2>4. CASE working' = [working EXCEPT ![r] = g]
    BY <1>a, <2>1, <2>3, <2>4, RowsGoOn
  <2>5. CASE working' = [working EXCEPT ![r] = O!Idle]
    BY <1>a, <2>3, <2>5, RowsEnd DEF O!Finish
  <2> QED
    BY <2>2, <2>4, <2>5
<1>6. CASE O!CountDepts(r)
  <2> DEFINE g == [working[r] EXCEPT !.step = 1]
  <2>1. g.op = working[r].op /\ g.to = working[r].to
    BY <1>0 DEF OrgHandler
  <2>2. working' = [working EXCEPT ![r] = g] \/ working' = [working EXCEPT ![r] = O!Idle]
    BY <1>0, <1>6 DEF O!CountDepts
  <2>3. UNCHANGED O!tree
    BY <1>6 DEF O!CountDepts
  <2> HIDE DEF g
  <2>4. CASE working' = [working EXCEPT ![r] = g]
    BY <1>a, <2>1, <2>3, <2>4, RowsGoOn
  <2>5. CASE working' = [working EXCEPT ![r] = O!Idle]
    BY <1>a, <2>3, <2>5, RowsEnd DEF O!Finish
  <2> QED
    BY <2>2, <2>4, <2>5
<1> QED
  BY <1>1, <1>2, <1>3, <1>4, <1>5, <1>6 DEF O!OfDepartments, OrgNodes

LEMMA RowsInit == O!Init => OrgRows
BY OrgIdleOK DEF O!Init, OrgRows

LEMMA RowsStep == OrgAll /\ [O!Next]_organisation => OrgRows'
<1> SUFFICES ASSUME OrgAll, [O!Next]_organisation PROVE OrgRows'
  OBVIOUS
<1>1. ASSUME NEW r \in Requests, O!Fail(r) PROVE OrgRows'
  BY <1>1, RowsEnd DEF O!Fail, OrgAll, OrgRows, O!catalogue
<1>2. ASSUME NEW b \in Branches \cup {None}, NEW d \in Departments \cup {None}, O!SeatUser(b, d) PROVE OrgRows'
  BY <1>2, RowsStay DEF O!SeatUser, OrgAll, OrgRows, O!catalogue
<1>3. CASE UNCHANGED organisation
  BY <1>3 DEF organisation, OrgAll, OrgRows
<1> QED
  BY <1>1, <1>2, <1>3, BranchesRows, DepartmentsRows, ProductsRows DEF O!Next

-----------------------------------------------------------------------------
(* Organisation, one request at a time: products *)

LEMMA ProductsOrdered ==
  ASSUME OrgAll, OrderedInv, alone, OneAtWork', NEW r \in Requests, O!OfProducts(r)
  PROVE  OrderedInv'
<1>0. /\ working \in [Requests -> OrgHandler] /\ OrgIInv /\ OneHead /\ O!Acyclic /\ O!LimitsOrdered
      /\ WorkOK(working[r])
      /\ product = [state |-> product.state, limits |-> product.limits, docs |-> product.docs]
  BY DEF OrgAll, OrgIInv, OrgTyped, OrgRows, OrderedInv, Ordered
<1>a. UNCHANGED <<O!office, O!tree>>
  BY DEF O!OfProducts, O!CreateProduct, O!UpdateProduct, O!InsertProduct, O!ChangeRow, O!DropRequirements,
         O!AddRequirements, O!RemoveProduct, O!WithdrawProduct, O!Apply, O!InsertApplication
<1>b. O!LimitsOrdered' => Ordered'
  BY <1>0, <1>a DEF Ordered, OneHead, O!Acyclic, O!office, O!tree
<1>1. ASSUME NEW min \in Limits, NEW max \in Limits, NEW ds \in SUBSET DocTypes, O!CreateProduct(r, min, max, ds)
      PROVE  OrderedInv'
  <2> DEFINE h == [O!Idle EXCEPT !.op = "product", !.limits = <<min, max>>, !.docs = ds]
  <2>1. h.op = "product" /\ h.limits[1] < h.limits[2]
    BY <1>1 DEF O!Idle, O!CreateProduct
  <2>2. O!Start(r, h) /\ UNCHANGED <<O!office, O!tree, O!catalogue>>
    BY <1>1 DEF O!CreateProduct
  <2> HIDE DEF h
  <2>3. WorkOK(h) /\ h # O!Idle
    BY <2>1 DEF WorkOK, O!Idle
  <2> QED
    BY <1>0, <2>2, <2>3, BeginWorks
<1>2. ASSUME NEW min \in Limits \cup {0}, NEW max \in Limits \cup {0},
             NEW ds \in (SUBSET DocTypes) \cup {None}, O!UpdateProduct(r, min, max, ds)
      PROVE  OrderedInv'
  <2> DEFINE h == [O!Idle EXCEPT !.op = "change", !.limits = <<min, max>>, !.docs = ds]
  <2>1. h.op = "change" /\ h.limits[1] = min /\ h.limits[2] = max
    BY DEF O!Idle
  <2>2. O!Start(r, h) /\ UNCHANGED <<O!office, O!tree, O!catalogue>> /\ O!Sound(min, max)
    BY <1>2 DEF O!UpdateProduct
  <2> HIDE DEF h
  <2>3. WorkOK(h) /\ h # O!Idle
    BY <2>1, <2>2 DEF WorkOK, O!Idle
  <2> QED
    BY <1>0, <2>2, <2>3, BeginWorks
<1>3. CASE O!ChangeRow(r) \/ O!DropRequirements(r)
  <2> DEFINE g == [working[r] EXCEPT !.step = 1]
             k == [working[r] EXCEPT !.step = 2]
  <2>1. /\ g.op = "change" /\ g.step = 1 /\ k.op = "change" /\ k.step = 2
        /\ working[r].op = "change" /\ working[r] # O!Idle
    BY <1>0, <1>3 DEF OrgHandler, O!ChangeRow, O!DropRequirements, O!At, O!Idle
  <2>2. \/ working' = [working EXCEPT ![r] = g]
        \/ working' = [working EXCEPT ![r] = k]
        \/ working' = [working EXCEPT ![r] = O!Idle]
    BY <1>0, <1>3 DEF O!ChangeRow, O!DropRequirements
  <2>3. O!LimitsOrdered'
    <3>1. CASE O!ChangeRow(r)
      <4> DEFINE limits == O!Merged(working[r].limits[1], working[r].limits[2])
      <4>1. limits[1] < limits[2]
        BY <1>0, <3>1 DEF WorkOK, O!ChangeRow, O!At, O!Sound
      <4>2. product'.limits = limits
        BY <1>0, <3>1 DEF O!ChangeRow
      <4> HIDE DEF limits
      <4> QED
        BY <4>1, <4>2 DEF O!LimitsOrdered
    <3>2. CASE O!DropRequirements(r)
      BY <1>0, <3>2 DEF O!DropRequirements, O!LimitsOrdered
    <3> QED
      BY <1>3, <3>1, <3>2
  <2> HIDE DEF g, k
  <2>4. ASSUME NEW h, working' = [working EXCEPT ![r] = h], h.op = "change", h.step # 0 PROVE OrderedInv'
    <3>1. WorkOK(h)'
      BY <2>4 DEF WorkOK
    <3> QED
      BY <1>0, <1>b, <2>1, <2>3, <2>4, <3>1, OneWorks DEF OrderedInv
  <2>5. CASE working' = [working EXCEPT ![r] = g] \/ working' = [working EXCEPT ![r] = k]
    BY <2>1, <2>4, <2>5
  <2>6. CASE working' = [working EXCEPT ![r] = O!Idle]
    BY <1>0, <1>b, <2>1, <2>3, <2>6, EndWorks DEF O!Finish
  <2> QED
    BY <2>2, <2>5, <2>6
<1>4. CASE O!InsertProduct(r) \/ O!AddRequirements(r) \/ O!WithdrawProduct(r) \/ O!InsertApplication(r)
  <2>1. O!LimitsOrdered'
    <3>1. CASE O!InsertProduct(r)
      <4>1. working[r].limits[1] < working[r].limits[2]
        BY <1>0, <3>1 DEF WorkOK, O!InsertProduct, O!At
      <4>2. product' = product \/ product'.limits = working[r].limits
        BY <3>1 DEF O!InsertProduct
      <4> QED
        BY <1>0, <4>1, <4>2 DEF O!LimitsOrdered
    <3>2. CASE O!AddRequirements(r)
      BY <1>0, <3>2 DEF O!AddRequirements, O!LimitsOrdered
    <3>3. CASE O!WithdrawProduct(r)
      <4>1. product.state # "none"
        BY <1>0, <3>3 DEF O!WithdrawProduct, O!At, WorkOK
      <4>2. product'.limits = product.limits
        BY <1>0, <3>3 DEF O!WithdrawProduct
      <4> QED
        BY <1>0, <4>1, <4>2 DEF O!LimitsOrdered
    <3>4. CASE O!InsertApplication(r)
      BY <1>0, <3>4 DEF O!InsertApplication, O!LimitsOrdered
    <3> QED
      BY <1>4, <3>1, <3>2, <3>3, <3>4
  <2>2. O!Finish(r) /\ working[r] # O!Idle
    BY <1>4 DEF O!InsertProduct, O!AddRequirements, O!WithdrawProduct, O!InsertApplication, O!At, O!Idle
  <2> QED
    BY <1>0, <1>b, <2>1, <2>2, EndWorks
<1>5. CASE O!RemoveProduct(r) \/ O!Apply(r)
  <2>1. PICK h : O!Start(r, h) /\ h.op \in {"withdraw", "apply"} /\ (h.op = "withdraw" => product.state # "none")
    <3>1. \A op \in {"withdraw", "apply"} : [O!Idle EXCEPT !.op = op].op = op
      BY DEF O!Idle
    <3> QED
      BY <1>5, <3>1 DEF O!RemoveProduct, O!Apply
  <2>2. UNCHANGED <<O!office, O!tree, O!catalogue>>
    BY <1>5 DEF O!RemoveProduct, O!Apply
  <2>3. WorkOK(h) /\ h # O!Idle
    BY <2>1 DEF WorkOK, O!Idle
  <2> QED
    BY <1>0, <2>1, <2>2, <2>3, BeginWorks
<1> QED
  BY <1>1, <1>2, <1>3, <1>4, <1>5 DEF O!OfProducts

LEMMA OrderedInit == O!Init => OrderedInv
<1> SUFFICES ASSUME O!Init PROVE OrderedInv
  OBVIOUS
<1>1. OneAtWork /\ OneHead /\ O!LimitsOrdered
  BY DEF O!Init, OneAtWork, OneHead, O!LimitsOrdered
<1>2. O!Acyclic
  BY DepartmentsApart DEF O!Init, O!Acyclic
<1>3. \A r \in Requests : WorkOK(working[r])
  BY IdleWorks DEF O!Init
<1> QED
  BY <1>1, <1>2, <1>3 DEF OrderedInv, Ordered

LEMMA OrderedStep ==
  OrgAll /\ OrderedInv /\ [O!Next /\ OrganisationLone']_organisation /\ UNCHANGED alone => OrderedInv'
<1> SUFFICES ASSUME OrgAll, OrderedInv, [O!Next /\ OrganisationLone']_organisation, UNCHANGED alone, alone
             PROVE  OrderedInv'
  BY DEF OrderedInv
<1>0. OrgIInv /\ OneAtWork /\ Ordered /\ \A r \in Requests : WorkOK(working[r])
  BY DEF OrgAll, OrderedInv
<1>1. CASE UNCHANGED organisation
  BY <1>0, <1>1 DEF organisation, OrderedInv, OneAtWork, Ordered, OneHead, O!Acyclic, O!LimitsOrdered, WorkOK, ClimbOK,
                    O!Sound, O!Merged
<1>2. ASSUME O!Next, OrganisationLone' PROVE OrderedInv'
  <2>1. OneAtWork'
    BY <1>0, <1>2 DEF OrganisationLone, Lone, OneAtWork
  <2>2. ASSUME NEW r \in Requests, O!Fail(r) PROVE OrderedInv'
    <3>1. Ordered'
      BY <1>0, <2>2, QuietOrdered DEF O!Fail
    <3> QED
      BY <1>0, <2>1, <2>2, <3>1, EndWorks DEF O!Fail
  <2>3. ASSUME NEW b \in Branches \cup {None}, NEW d \in Departments \cup {None}, O!SeatUser(b, d) PROVE OrderedInv'
    <3>1. UNCHANGED <<O!office, O!tree, O!catalogue, working>>
      BY <2>3 DEF O!SeatUser
    <3>2. Ordered'
      BY <1>0, <3>1, QuietOrdered
    <3>3. \A r \in Requests : WorkOK(working[r])'
      BY <1>0, <3>1 DEF WorkOK, ClimbOK, O!Sound, O!Merged, O!office, O!tree, O!catalogue
    <3> QED
      BY <2>1, <3>2, <3>3 DEF OrderedInv
  <2> QED
    BY <1>2, <2>1, <2>2, <2>3, BranchesOrdered, DepartmentsOrdered, ProductsOrdered DEF O!Next
<1> QED
  BY <1>1, <1>2

LEMMA OrganisationSteps == [Next]_vars => [O!Next /\ OrganisationLone']_organisation
<1> SUFFICES ASSUME [Next]_vars PROVE [O!Next /\ OrganisationLone']_organisation
  OBVIOUS
<1>1. CASE UNCHANGED vars
  BY <1>1 DEF vars, organisation
<1>2. CASE Next /\ part \notin {"branches", "departments", "products"}
  BY <1>2 DEF Next, Rest
<1>3. CASE Next /\ part \in {"branches", "departments", "products"}
  BY <1>3 DEF Next
<1> QED
  BY <1>1, <1>2, <1>3

LEMMA OrganisationAlways == Spec => []OrgAll
<1>1. Init => OrgAll
  BY OrgInit, RowsInit DEF Init, OrgAll
<1>2. OrgAll /\ [Next]_vars => OrgAll'
  BY OrganisationSteps, OrgStep, RowsStep DEF OrgAll
<1> QED
  BY <1>1, <1>2, PTL DEF Spec

\* However requests interleave, the head office is not deleted: what remove reads
\* two calls before it marks the row still holds when it does
\* (branches.service.ts:143).
THEOREM HeadOfficeKeptOpen == Spec => []HeadOfficeStands
<1>1. OrgAll => HeadOfficeStands
  BY DEF OrgAll, OrgIInv, HeadOfficeStands
<1> QED
  BY <1>1, OrganisationAlways, PTL

\* With one request at a time there is one head office at most, the departments are
\* a forest whatever is created, moved and deleted in them and however deep it is
\* (checkCircularParent, departments.service.ts:174), and a product's limits are in
\* order (loan-products.service.ts:83).
THEOREM OrganisedAlone == Spec => []AloneOrganised
<1>1. Init => OrderedInv
  BY OrderedInit DEF Init
<1>2. OrgAll /\ OrderedInv /\ [Next]_vars => OrderedInv'
  <2>1. [Next]_vars => UNCHANGED alone
    BY DEF Next, vars
  <2> QED
    BY <2>1, OrganisationSteps, OrderedStep
<1>3. OneHead => O!OneHeadOffice
  <2> SUFFICES ASSUME OneHead PROVE Cardinality(head) <= 1
    BY DEF O!OneHeadOffice, O!Cardinality, Cardinality
  <2>1. CASE head = {}
    BY <2>1, FS_EmptySet
  <2>2. CASE head # {}
    <3>1. PICK b \in head : head = {b}
      BY <2>2 DEF OneHead
    <3> QED
      BY <3>1, FS_Singleton
  <2> QED
    BY <2>1, <2>2
<1>4. OrderedInv => AloneOrganised
  BY <1>3 DEF OrderedInv, Ordered, AloneOrganised
<1> QED
  BY <1>1, <1>2, <1>4, OrganisationAlways, PTL DEF Spec

-----------------------------------------------------------------------------
(* Collections. What a panel holds was on it from the start, or was picked on it. *)

PanelSet == [loan : Loans, shown : C!Statuses, chosen : C!Statuses, touched : BOOLEAN]
PanelOK(p) == p = C!Closed \/ (p \in PanelSet /\ (p.touched \/ p.chosen = p.shown))

CasesInv ==
  /\ case \in [Loans -> C!Statuses \cup {"none"}]
  /\ DOMAIN panel = Officers /\ \A o \in Officers : PanelOK(panel[o])

\* The status of a case that is there changes to one that was picked on a panel of it.
Picked ==
  \A l \in Loans : case[l] # "none" /\ case'[l] # case[l] =>
    \E o \in Officers : panel[o].loan = l /\ panel[o].touched /\ panel[o].chosen = case'[l]

\* One panel becomes another that is as it should be.
LEMMA PanelKeeps ==
  ASSUME CasesInv, NEW o \in Officers, NEW p, PanelOK(p), panel' = [panel EXCEPT ![o] = p], UNCHANGED case
  PROVE  CasesInv' /\ Picked
BY DEF CasesInv, Picked, PanelOK, PanelSet, C!Closed, C!Panel

LEMMA CasesStep == CasesInv /\ [C!Next]_collections => CasesInv' /\ Picked
<1> SUFFICES ASSUME CasesInv, [C!Next]_collections PROVE CasesInv' /\ Picked
  OBVIOUS
<1>0. case \in [Loans -> C!Statuses \cup {"none"}] /\ \A o \in Officers : PanelOK(panel[o])
  BY DEF CasesInv
<1>1. ASSUME NEW l \in Loans, C!Open(l) PROVE CasesInv' /\ Picked
  <2>1. case' = [case EXCEPT ![l] = IF case[l] = "none" THEN "OPEN" ELSE case[l]] /\ panel' = panel
    BY <1>0, <1>1 DEF C!Open, C!OpenedStatus
  <2>2. case' \in [Loans -> C!Statuses \cup {"none"}]
    BY <1>0, <2>1 DEF C!Statuses
  <2>3. \A k \in Loans : case[k] # "none" => case'[k] = case[k]
    BY <1>0, <2>1
  <2> QED
    BY <2>1, <2>2, <2>3 DEF CasesInv, Picked, PanelOK, PanelSet, C!Closed, C!Panel
<1>2. ASSUME NEW l \in Loans, NEW s \in {"DEFAULTED", "COMPLETED"}, C!LoanMoves(l, s) PROVE CasesInv' /\ Picked
  BY <1>2 DEF C!LoanMoves, CasesInv, Picked, PanelOK, PanelSet, C!Closed, C!Panel
<1>3. ASSUME NEW o \in Officers, NEW l \in Loans, C!OpenPanel(o, l) PROVE CasesInv' /\ Picked
  <2> DEFINE p == C!Panel(l, case[l], case[l], FALSE)
  <2>1. UNCHANGED case /\ panel' = [panel EXCEPT ![o] = p] /\ case[l] \in C!Statuses
    BY <1>0, <1>3 DEF C!OpenPanel
  <2>2. PanelOK(p)
    BY <2>1 DEF PanelOK, PanelSet, C!Panel
  <2> HIDE DEF p
  <2> QED
    BY <2>1, <2>2, PanelKeeps
<1>4. ASSUME NEW o \in Officers, NEW s \in C!Statuses, C!Pick(o, s) PROVE CasesInv' /\ Picked
  <2> DEFINE p == [panel[o] EXCEPT !.chosen = s, !.touched = TRUE]
  <2>1. UNCHANGED case /\ panel' = [panel EXCEPT ![o] = p] /\ panel[o] \in PanelSet
    BY <1>0, <1>4 DEF C!Pick, PanelOK
  <2>2. PanelOK(p)
    BY <2>1 DEF PanelOK, PanelSet
  <2> HIDE DEF p
  <2> QED
    BY <2>1, <2>2, PanelKeeps
\* A panel that nobody touched sends no status, for it has the one it showed.
<1>5. ASSUME NEW o \in Officers, C!Update(o) PROVE CasesInv' /\ Picked
  <2>1. panel[o] \in PanelSet /\ (panel[o].touched \/ panel[o].chosen = panel[o].shown)
    BY <1>0, <1>5 DEF C!Update, PanelOK
  <2>2. DOMAIN panel' = Officers /\ \A q \in Officers : PanelOK(panel'[q])
    <3>1. panel' = panel \/ panel' = [panel EXCEPT ![o] = C!Closed]
      BY <1>5 DEF C!Update
    <3> QED
      BY <3>1 DEF CasesInv, PanelOK
  <2>3. CASE case' = case
    BY <1>0, <2>2, <2>3 DEF CasesInv, Picked, PanelOK, PanelSet, C!Closed, C!Panel
  <2>4. CASE case' # case
    <3>1. PICK s \in C!Sent(panel[o]) : case' = [case EXCEPT ![panel[o].loan] = s]
      BY <1>5, <2>4 DEF C!Update
    <3>2. s = panel[o].chosen /\ panel[o].touched /\ s \in C!Statuses /\ panel[o].loan \in Loans
      BY <2>1, <3>1 DEF C!Sent, PanelSet
    <3>3. case' \in [Loans -> C!Statuses \cup {"none"}]
      BY <1>0, <3>1, <3>2
    <3>4. \A k \in Loans : case'[k] # case[k] => k = panel[o].loan /\ case'[k] = s
      BY <1>0, <3>1
    <3>5. Picked
      BY <3>2, <3>4 DEF Picked
    <3> QED
      BY <2>2, <3>3, <3>5 DEF CasesInv, PanelOK, PanelSet, C!Closed, C!Panel
  <2> QED
    BY <2>3, <2>4
<1>6. ASSUME NEW o \in Officers, C!Close(o) PROVE CasesInv' /\ Picked
  <2>1. PanelOK(C!Closed)
    BY DEF PanelOK
  <2> QED
    BY <1>6, <2>1, PanelKeeps DEF C!Close
<1>7. CASE UNCHANGED collections
  BY <1>7 DEF collections, CasesInv, Picked, PanelOK, PanelSet, C!Closed, C!Panel
<1> QED
  BY <1>1, <1>2, <1>3, <1>4, <1>5, <1>6, <1>7 DEF C!Next

\* However many panels of a case are open, and however old, its status changes only to
\* what an officer picked: saving a note does not bring a status back
\* (CollectionCasePanel.tsx:55), nor does opening the case again
\* (collections.service.ts:84).
THEOREM StatusesPicked == Spec => StatusIsPicked
<1>1. Init => CasesInv
  BY DEF Init, C!Init, CasesInv, PanelOK, C!Closed, C!Panel
<1>2. [Next]_vars => [C!Next]_collections
  <2> SUFFICES ASSUME [Next]_vars PROVE [C!Next]_collections
    OBVIOUS
  <2>1. CASE UNCHANGED vars
    BY <2>1 DEF vars, collections
  <2>2. CASE Next /\ part # "collections"
    BY <2>2 DEF Next, Rest
  <2>3. CASE Next /\ part = "collections"
    BY <2>3 DEF Next
  <2> QED
    BY <2>1, <2>2, <2>3
<1>3. CasesInv /\ [Next]_vars => CasesInv' /\ [Picked]_collections
  BY <1>2, CasesStep
<1>4. [][Picked]_collections => StatusIsPicked
  BY DEF StatusIsPicked, C!StatusIsPicked, C!vars, collections, Picked
<1> QED
  BY <1>1, <1>3, <1>4, PTL DEF Spec

-----------------------------------------------------------------------------
(* Forms. The inductive invariant: a template that is flagged or being changed   *)
(* has been inserted.                                                           *)

FormHandler == [op : {"none", "create", "update", "remove", "submit"}, step : {0, 1, 2},
                on : Templates \cup {None, 1}, values : SUBSET Fields, asked : SUBSET Fields]
Submission == [values : SUBSET Fields, complete : BOOLEAN]

FormsTyped ==
  /\ template \in [Templates -> {"none", "on", "off", "deleted"}]
  /\ default \subseteq Templates
  /\ filling \in [Requests -> FormHandler]
  /\ submission \in Seq(Submission)

\* What handler h knows, whatever the others do.
FillingOK(h) ==
  /\ h.op \in {"create", "update", "remove"} => h.on \in Templates
  /\ h.op = "update" => template[h.on] # "none"

FormsIInv ==
  /\ FormsTyped
  /\ \A t \in default : template[t] # "none"
  /\ \A r \in Requests : FillingOK(filling[r])

\* What holds with one request at a time: one flag, and a handler that took it from
\* the others or found no row is still right about that.
OneFilling == \A r, q \in Requests : filling[r] # G!Idle /\ filling[q] # G!Idle => r = q
OneFlag == \A t, u \in default : G!Live(t) /\ G!Live(u) => t = u
FlagOK(h) ==
  /\ h.op \in {"create", "update"} /\ h.step = 2 => \A t \in default : G!Live(t) => t = h.on
  /\ h.op = "submit" /\ h.step = 1 /\ h.on = None => submission = <<>>

FormsAloneInv ==
  alone => /\ OneFilling /\ OneFlag /\ G!OneSubmission
           /\ \A r \in Requests : FlagOK(filling[r])

LEMMA FormIdleOK == G!Idle \in FormHandler /\ FillingOK(G!Idle) /\ G!Idle.op = "none"
BY DEF G!Idle, FormHandler, FillingOK

\* A step of one request keeps the invariant when what it holds and writes does.
LEMMA FormsKeep ==
  ASSUME FormsIInv, NEW r \in Requests, NEW h \in FormHandler, filling' = [filling EXCEPT ![r] = h],
         FillingOK(h)',
         template' \in [Templates -> {"none", "on", "off", "deleted"}],
         \A t \in Templates : template[t] # "none" => template'[t] # "none",
         \A t \in default' : t \in Templates /\ template'[t] # "none",
         submission' \in Seq(Submission)
  PROVE  FormsIInv'
<1>1. FormsTyped'
  BY DEF FormsIInv, FormsTyped
<1>2. \A q \in Requests : FillingOK(filling[q])'
  <2> SUFFICES ASSUME NEW q \in Requests PROVE FillingOK(filling[q])'
    OBVIOUS
  <2>1. CASE q = r
    <3>1. filling'[q] = h
      BY <2>1 DEF FormsIInv, FormsTyped
    <3> QED
      BY <3>1 DEF FillingOK
  <2>2. CASE q # r
    <3>1. filling'[q] = filling[q] /\ FillingOK(filling[q])
      BY <2>2 DEF FormsIInv, FormsTyped
    <3> QED
      BY <3>1 DEF FillingOK
  <2> QED
    BY <2>1, <2>2
<1> QED
  BY <1>1, <1>2 DEF FormsIInv

\* A handler begins, goes on or ends without a write.
LEMMA FormsQuiet ==
  ASSUME FormsIInv, NEW r \in Requests, NEW h \in FormHandler, filling' = [filling EXCEPT ![r] = h],
         FillingOK(h), UNCHANGED <<G!templates, submission>>
  PROVE  FormsIInv'
<1>1. UNCHANGED <<template, default, submission>>
  BY DEF G!templates
<1>2. FillingOK(h)'
  BY <1>1 DEF FillingOK
<1> QED
  BY <1>1, <1>2, FormsKeep DEF FormsIInv, FormsTyped

\* The same with one request at a time.
LEMMA FormsAloneKeep ==
  ASSUME FormsIInv, FormsAloneInv, alone, OneFilling', NEW r \in Requests, NEW h, filling[r] # G!Idle \/ h # G!Idle,
         filling' = [filling EXCEPT ![r] = h], FlagOK(h)', OneFlag', G!OneSubmission'
  PROVE  FormsAloneInv'
<1>1. \A q \in Requests : (q = r /\ filling'[q] = h) \/ filling'[q] = G!Idle
  BY DEF FormsIInv, FormsTyped, FormsAloneInv, OneFilling
<1>2. \A q \in Requests : filling'[q] = G!Idle => FlagOK(filling[q])'
  BY DEF FlagOK, G!Idle
<1> QED
  BY <1>1, <1>2 DEF FormsAloneInv

LEMMA FormsAloneQuiet ==
  ASSUME FormsIInv, FormsAloneInv, alone, OneFilling', NEW r \in Requests, NEW h, filling[r] # G!Idle \/ h # G!Idle,
         filling' = [filling EXCEPT ![r] = h], FlagOK(h), UNCHANGED <<G!templates, submission>>
  PROVE  FormsAloneInv'
<1>1. UNCHANGED <<template, default, submission>>
  BY DEF G!templates
<1>2. FlagOK(h)' /\ OneFlag' /\ G!OneSubmission'
  BY <1>1 DEF FlagOK, OneFlag, G!OneSubmission, G!Live, FormsAloneInv
<1> QED
  BY <1>2, FormsAloneKeep

-----------------------------------------------------------------------------
(* Forms: templates *)

\* A handler begins with a template.
LEMMA TemplateBegins ==
  ASSUME FormsIInv, NEW r \in Requests, NEW t \in Templates, NEW h \in FormHandler, G!Start(r, h),
         h.op \in {"create", "update", "remove"}, h.on = t, h.step # 2,
         h.op = "update" => template[t] # "none", UNCHANGED <<G!templates, submission>>
  PROVE  /\ FormsIInv'
         /\ FormsAloneInv /\ alone /\ OneFilling' => FormsAloneInv'
<1>1. filling' = [filling EXCEPT ![r] = h] /\ FillingOK(h) /\ FlagOK(h) /\ h # G!Idle
  BY DEF G!Start, FillingOK, FlagOK, G!Idle
<1>2. FormsIInv'
  BY <1>1, FormsQuiet
<1>3. ASSUME FormsAloneInv, alone, OneFilling' PROVE FormsAloneInv'
  BY <1>1, <1>3, FormsAloneQuiet
<1> QED
  BY <1>2, <1>3

LEMMA TemplateForms ==
  ASSUME FormsIInv, NEW r \in Requests, NEW t \in Templates, G!OfTemplate(r, t)
  PROVE  /\ FormsIInv'
         /\ FormsAloneInv /\ alone /\ OneFilling' => FormsAloneInv'
<1> DEFINE Goal == /\ FormsIInv'
                   /\ FormsAloneInv /\ alone /\ OneFilling' => FormsAloneInv'
<1>1. ASSUME NEW flag \in BOOLEAN, G!CreateTemplate(r, t, flag) PROVE Goal
  <2> DEFINE first == IF flag THEN 0 ELSE 1
             h == [G!Idle EXCEPT !.op = "create", !.step = first, !.on = t]
  <2>0. first \in {0, 1}
    OBVIOUS
  <2> HIDE DEF first
  <2>a. h \in FormHandler
    BY <2>0, FormIdleOK DEF FormHandler
  <2>1. h \in FormHandler /\ h.op = "create" /\ h.on = t /\ h.step # 2
    BY <2>0, <2>a DEF G!Idle
  <2>2. G!Start(r, h) /\ UNCHANGED <<G!templates, submission>>
    BY <1>1 DEF first, G!CreateTemplate
  <2> HIDE DEF h
  <2> QED
    BY <2>1, <2>2, TemplateBegins
<1>2. ASSUME NEW flag \in BOOLEAN, G!UpdateTemplate(r, t, flag) PROVE Goal
  <2> DEFINE first == IF flag THEN 0 ELSE 1
             h == [G!Idle EXCEPT !.op = "update", !.step = first, !.on = t]
  <2>0. first \in {0, 1}
    OBVIOUS
  <2> HIDE DEF first
  <2>a. h \in FormHandler
    BY <2>0, FormIdleOK DEF FormHandler
  <2>1. h \in FormHandler /\ h.op = "update" /\ h.on = t /\ h.step # 2
    BY <2>0, <2>a DEF G!Idle
  <2>2. G!Start(r, h) /\ UNCHANGED <<G!templates, submission>> /\ template[t] # "none"
    BY <1>2 DEF first, G!UpdateTemplate, G!Live
  <2> HIDE DEF h
  <2> QED
    BY <2>1, <2>2, TemplateBegins
<1>3. CASE G!RemoveTemplate(r, t)
  <2> DEFINE h == [G!Idle EXCEPT !.op = "remove", !.on = t]
  <2>1. h \in FormHandler /\ h.op = "remove" /\ h.on = t
    BY FormIdleOK DEF FormHandler
  <2>3. h.step # 2
    BY DEF G!Idle
  <2>2. G!Start(r, h) /\ UNCHANGED <<G!templates, submission>>
    BY <1>3 DEF G!RemoveTemplate
  <2> HIDE DEF h
  <2> QED
    BY <2>1, <2>2, <2>3, TemplateBegins
<1> QED
  BY <1>1, <1>2, <1>3 DEF G!OfTemplate

LEMMA WrittenForms ==
  ASSUME FormsIInv, NEW r \in Requests, G!Written(r)
  PROVE  /\ FormsIInv'
         /\ FormsAloneInv /\ alone /\ OneFilling' => FormsAloneInv'
<1> DEFINE t == filling[r].on
           Goal == /\ FormsIInv'
                   /\ FormsAloneInv /\ alone /\ OneFilling' => FormsAloneInv'
<1>0. /\ template \in [Templates -> {"none", "on", "off", "deleted"}] /\ default \subseteq Templates
      /\ filling \in [Requests -> FormHandler] /\ filling[r] \in FormHandler /\ FillingOK(filling[r])
      /\ submission \in Seq(Submission)
      /\ \A u \in default : template[u] # "none"
  BY DEF FormsIInv, FormsTyped
<1>1. /\ t \in Templates /\ UNCHANGED submission /\ filling[r] # G!Idle
      /\ filling[r].op = "update" => template[t] # "none"
  BY <1>0 DEF G!Written, G!ClearDefault, G!InsertTemplate, G!WriteTemplate, G!RemoveWrite, G!At, G!Idle, FillingOK
<1>2. G!OneSubmission => G!OneSubmission'
  BY <1>1 DEF G!OneSubmission
<1>3. FlagOK(G!Idle)' /\ FillingOK(G!Idle)'
  BY DEF FlagOK, FillingOK, G!Idle
<1>4. CASE G!ClearDefault(r)
  <2> DEFINE cleared == [filling[r] EXCEPT !.step = 2]
  <2>0. /\ filling' = [filling EXCEPT ![r] = cleared]
        /\ cleared \in FormHandler /\ cleared.op = filling[r].op /\ cleared.on = t
        /\ cleared.op \in {"create", "update"}
    BY <1>0, <1>4 DEF G!ClearDefault, FormHandler, G!At
  <2> HIDE DEF cleared
  <2>1. PICK h \in FormHandler : /\ filling' = [filling EXCEPT ![r] = h]
                                /\ h.op = filling[r].op /\ h.on = t /\ h.op \in {"create", "update"}
    BY <2>0
  <2>2. UNCHANGED template /\ default' = {u \in default : ~G!Live(u) \/ u = t}
    BY <1>4 DEF G!ClearDefault, G!Cleared
  <2>3. FillingOK(h)' /\ h # G!Idle
    BY <1>1, <2>1, <2>2 DEF FillingOK, G!Idle
  <2>4. FormsIInv'
    BY <1>0, <1>1, <2>1, <2>2, <2>3, FormsKeep
  <2>5. FlagOK(h)' /\ OneFlag'
    BY <1>1, <2>1, <2>2 DEF FlagOK, OneFlag, G!Live
  <2>6. ASSUME FormsAloneInv, alone, OneFilling' PROVE FormsAloneInv'
    BY <1>2, <2>1, <2>3, <2>5, <2>6, FormsAloneKeep DEF FormsAloneInv
  <2> QED
    BY <2>4, <2>6
<1>5. CASE G!InsertTemplate(r)
  <2>1. filling' = [filling EXCEPT ![r] = G!Idle]
    BY <1>5 DEF G!InsertTemplate, G!Finish
  <2>2. /\ template[t] = "none" => /\ template' = [template EXCEPT ![t] = "on"]
                                   /\ default' = IF filling[r].step = 2 THEN default \cup {t} ELSE default
        /\ template[t] # "none" => UNCHANGED <<template, default>>
    BY <1>5 DEF G!InsertTemplate, G!templates
  <2> HIDE DEF t
  <2>3. FormsIInv'
    BY <1>0, <1>1, <1>3, <2>1, <2>2, FormIdleOK, FormsKeep
  <2>4. ASSUME FormsAloneInv, alone, OneFilling' PROVE FormsAloneInv'
    <3>1. filling[r].step = 2 => \A u \in default : G!Live(u) => u = t
      BY <1>5, <2>4 DEF FormsAloneInv, FlagOK, G!InsertTemplate, G!At, t
    <3>2. OneFlag'
      BY <1>0, <1>1, <2>2, <2>4, <3>1 DEF FormsAloneInv, OneFlag, G!Live
    <3> QED
      BY <1>1, <1>2, <1>3, <2>1, <2>4, <3>2, FormsAloneKeep DEF FormsAloneInv
  <2> QED
    BY <2>3, <2>4
<1>6. CASE G!WriteTemplate(r)
  <2>1. filling' = [filling EXCEPT ![r] = G!Idle] /\ filling[r].op = "update" /\ template[t] # "none"
    BY <1>1, <1>6 DEF G!WriteTemplate, G!Finish, G!At
  <2>2. /\ \/ UNCHANGED template
           \/ template[t] # "deleted" /\ \E s \in {"on", "off"} : template' = [template EXCEPT ![t] = s]
        /\ \/ filling[r].step = 2 /\ default' = default \cup {t}
           \/ filling[r].step = 1 /\ default' \in {default, default \ {t}}
    BY <1>6 DEF G!WriteTemplate
  <2>3. /\ template' \in [Templates -> {"none", "on", "off", "deleted"}]
        /\ \A u \in Templates : (template[u] # "none" => template'[u] # "none") /\ (G!Live(u)' => G!Live(u))
        /\ \A u \in default' : u \in Templates /\ template'[u] # "none"
    BY <1>0, <1>1, <2>1, <2>2 DEF G!Live
  <2>4. FormsIInv'
    BY <1>1, <1>3, <1>0, <2>1, <2>3, FormIdleOK, FormsKeep
  <2>5. ASSUME FormsAloneInv, alone, OneFilling' PROVE FormsAloneInv'
    <3>1. filling[r].step = 2 => \A u \in default : G!Live(u) => u = t
      BY <2>1, <2>5 DEF FormsAloneInv, FlagOK
    <3>2. OneFlag'
      BY <1>0, <1>1, <2>2, <2>3, <2>5, <3>1 DEF FormsAloneInv, OneFlag
    <3> QED
      BY <1>1, <1>2, <1>3, <2>1, <2>5, <3>2, FormsAloneKeep DEF FormsAloneInv
  <2> QED
    BY <2>4, <2>5
<1>7. CASE G!RemoveWrite(r)
  <2>1. filling' = [filling EXCEPT ![r] = G!Idle]
    BY <1>7 DEF G!RemoveWrite, G!Finish
  <2>2. UNCHANGED default /\ template' = [template EXCEPT ![t] = "deleted"]
    BY <1>7 DEF G!RemoveWrite
  <2>3. FormsIInv'
    BY <1>0, <1>1, <1>3, <2>1, <2>2, FormIdleOK, FormsKeep
  <2>4. ASSUME FormsAloneInv, alone, OneFilling' PROVE FormsAloneInv'
    <3>1. OneFlag'
      BY <1>0, <1>1, <2>2, <2>4 DEF FormsAloneInv, OneFlag, G!Live
    <3> QED
      BY <1>1, <1>2, <1>3, <2>1, <2>4, <3>1, FormsAloneKeep DEF FormsAloneInv
  <2> QED
    BY <2>3, <2>4
<1> QED
  BY <1>4, <1>5, <1>6, <1>7 DEF G!Written

-----------------------------------------------------------------------------
(* Forms: submissions *)

LEMMA SubmissionForms ==
  ASSUME FormsIInv, NEW r \in Requests, G!OfSubmission(r)
  PROVE  /\ FormsIInv'
         /\ FormsAloneInv /\ alone /\ OneFilling' => FormsAloneInv'
<1> DEFINE Goal == /\ FormsIInv'
                   /\ FormsAloneInv /\ alone /\ OneFilling' => FormsAloneInv'
<1>0. /\ template \in [Templates -> {"none", "on", "off", "deleted"}] /\ default \subseteq Templates
      /\ filling \in [Requests -> FormHandler] /\ filling[r] \in FormHandler /\ FillingOK(filling[r])
      /\ submission \in Seq(Submission)
      /\ \A u \in default : template[u] # "none"
  BY DEF FormsIInv, FormsTyped
<1>1. ASSUME NEW values \in SUBSET Fields, G!Submit(r, values) PROVE Goal
  <2> DEFINE asked == G!Demanded(G!Asked)
             h == [G!Idle EXCEPT !.op = "submit", !.values = values, !.asked = asked]
  <2>1. asked \subseteq Fields
    BY DEF G!Demanded, G!Asked
  <2> HIDE DEF asked
  <2>2. h \in FormHandler /\ h.op = "submit" /\ h.step = 0
    BY <2>1, FormIdleOK DEF FormHandler, G!Idle
  <2>3. G!Start(r, h) /\ UNCHANGED <<G!templates, submission>>
    BY <1>1 DEF G!Submit, asked
  <2> HIDE DEF h
  <2>4. filling' = [filling EXCEPT ![r] = h] /\ FillingOK(h) /\ FlagOK(h) /\ h # G!Idle
    BY <2>2, <2>3 DEF G!Start, FillingOK, FlagOK, G!Idle
  <2>5. FormsIInv'
    BY <2>2, <2>3, <2>4, FormsQuiet
  <2>6. ASSUME FormsAloneInv, alone, OneFilling' PROVE FormsAloneInv'
    BY <2>3, <2>4, <2>6, FormsAloneQuiet
  <2> QED
    BY <2>5, <2>6
<1>2. CASE G!FindRow(r)
  <2> DEFINE h == [filling[r] EXCEPT !.step = 1, !.on = G!Existing]
  <2>1. /\ h \in FormHandler /\ h.op = "submit" /\ filling[r].op = "submit" /\ h.on = G!Existing
    BY <1>0, <1>2 DEF FormHandler, G!FindRow, G!At, G!Existing
  <2>2. filling' = [filling EXCEPT ![r] = h] /\ UNCHANGED <<G!templates, submission>>
    BY <1>0, <1>2 DEF G!FindRow
  <2> HIDE DEF h
  <2>3. FillingOK(h) /\ h # G!Idle
    BY <2>1 DEF FillingOK, G!Idle
  <2>4. FormsIInv'
    BY <2>1, <2>2, <2>3, FormsQuiet
  <2>5. FlagOK(h)
    BY <2>1, NoneNoRow DEF FlagOK, G!Existing
  <2>6. ASSUME FormsAloneInv, alone, OneFilling' PROVE FormsAloneInv'
    BY <2>2, <2>3, <2>5, <2>6, FormsAloneQuiet
  <2> QED
    BY <2>4, <2>6
<1>3. CASE G!StoreRow(r)
  <2> DEFINE h == filling[r]
             complete == G!IsComplete(h.values, h.asked)
             first == [values |-> h.values, complete |-> complete]
             again == [values |-> submission[h.on].values \cup h.values, complete |-> complete]
  <2>1. /\ filling' = [filling EXCEPT ![r] = G!Idle] /\ UNCHANGED <<template, default>>
        /\ h.op = "submit" /\ h.step = 1
    BY <1>3 DEF G!StoreRow, G!Finish, G!At, G!templates
  <2>2. submission' = IF h.on = None THEN Append(submission, first) ELSE [submission EXCEPT ![h.on] = again]
    BY <1>3 DEF G!StoreRow
  <2>3. complete \in BOOLEAN
    BY Zenon DEF G!IsComplete
  <2>4. first \in Submission
    BY <1>0, <2>3 DEF Submission, FormHandler
  <2>5. ASSUME h.on \in DOMAIN submission PROVE again \in Submission
    <3>1. submission[h.on] \in Submission
      BY <1>0, <2>5
    <3>2. submission[h.on].values \cup h.values \subseteq Fields
      BY <1>0, <3>1 DEF Submission, FormHandler
    <3> QED
      BY <2>3, <3>2 DEF Submission
  <2> HIDE DEF complete, first, again
  <2>6. submission' \in Seq(Submission) /\ (h.on # None => Len(submission') = Len(submission))
    <3>1. CASE h.on = None
      BY <1>0, <2>2, <2>4, <3>1
    <3>2. CASE h.on # None /\ h.on \in 1 .. Len(submission)
      BY <1>0, <2>2, <2>5, <3>2, ExceptSeq
    <3>3. CASE h.on # None /\ h.on \notin 1 .. Len(submission)
      <4>1. submission \in [1 .. Len(submission) -> Submission]
        BY <1>0
      <4>2. submission' = submission
        BY <2>2, <3>3, <4>1
      <4> QED
        BY <1>0, <3>3, <4>2
    <3> QED
      BY <3>1, <3>2, <3>3
  <2>7. FlagOK(G!Idle)' /\ FillingOK(G!Idle)' /\ h # G!Idle
    BY <2>1 DEF FlagOK, FillingOK, G!Idle
  <2>8. FormsIInv'
    BY <1>0, <2>1, <2>6, <2>7, FormIdleOK, FormsKeep
  <2>9. ASSUME FormsAloneInv, alone, OneFilling' PROVE FormsAloneInv'
    <3>1. h.on = None => submission = <<>>
      BY <2>1, <2>9 DEF FormsAloneInv, FlagOK
    <3>2. G!OneSubmission'
      BY <1>0, <2>2, <2>6, <2>9, <3>1 DEF FormsAloneInv, G!OneSubmission
    <3>3. OneFlag'
      BY <2>1, <2>9 DEF FormsAloneInv, OneFlag, G!Live
    <3> QED
      BY <2>1, <2>7, <2>9, <3>2, <3>3, FormsAloneKeep
  <2> QED
    BY <2>8, <2>9
<1> QED
  BY <1>1, <1>2, <1>3 DEF G!OfSubmission

-----------------------------------------------------------------------------
(* Forms: the whole *)

LEMMA FormsInit ==
  ASSUME G!Init
  PROVE  FormsIInv /\ FormsAloneInv
<1>1. FormsTyped /\ G!OneSubmission
  BY FormIdleOK DEF G!Init, FormsTyped, G!OneSubmission
<1>2. \A r \in Requests : FillingOK(filling[r]) /\ FlagOK(filling[r])
  BY FormIdleOK DEF G!Init, FlagOK
<1> QED
  BY <1>1, <1>2 DEF G!Init, FormsIInv, FormsAloneInv, OneFilling, OneFlag

LEMMA FormsFail ==
  ASSUME FormsIInv, NEW r \in Requests, G!Fail(r)
  PROVE  /\ FormsIInv'
         /\ FormsAloneInv /\ alone /\ OneFilling' => FormsAloneInv'
<1>1. /\ filling' = [filling EXCEPT ![r] = G!Idle] /\ filling[r] # G!Idle
      /\ UNCHANGED <<G!templates, submission>> /\ FlagOK(G!Idle)
  BY DEF G!Fail, G!Finish, FlagOK, G!Idle
<1>2. FormsIInv'
  BY <1>1, FormIdleOK, FormsQuiet
<1>3. ASSUME FormsAloneInv, alone, OneFilling' PROVE FormsAloneInv'
  BY <1>1, <1>3, FormsAloneQuiet
<1> QED
  BY <1>2, <1>3

LEMMA FormsRest ==
  ASSUME FormsIInv, UNCHANGED <<template, default, submission, filling, alone>>
  PROVE  FormsIInv' /\ (FormsAloneInv => FormsAloneInv')
BY DEF FormsIInv, FormsTyped, FillingOK, FormsAloneInv, OneFilling, OneFlag, G!Live, FlagOK,
       G!OneSubmission

FormsNext == G!Next /\ FormsLone'

LEMMA FormsSteps == [Next]_vars => [FormsNext]_forms
<1> SUFFICES ASSUME [Next]_vars PROVE [FormsNext]_forms
  OBVIOUS
<1>1. CASE UNCHANGED vars
  BY <1>1 DEF vars, forms
<1>2. CASE Next /\ part \notin {"templates", "filling"}
  BY <1>2 DEF Next, Rest
<1>3. CASE Next /\ part \in {"templates", "filling"}
  BY <1>3 DEF Next, FormsNext
<1> QED
  BY <1>1, <1>2, <1>3

LEMMA FormsStep ==
  ASSUME FormsIInv, FormsAloneInv, [FormsNext]_forms, UNCHANGED alone
  PROVE  FormsIInv' /\ FormsAloneInv'
<1>1. CASE UNCHANGED forms
  BY <1>1, FormsRest DEF forms
<1>2. CASE G!OfForm
  BY <1>2, FormsRest DEF G!OfForm, G!AddSection, G!SwitchSection, G!AddField, G!ChangeField, G!templates
<1>3. ASSUME FormsNext, ~G!OfForm PROVE FormsIInv' /\ FormsAloneInv'
  <2>1. OneFilling' \/ ~alone
    BY <1>3 DEF FormsNext, FormsLone, Lone, OneFilling
  <2>2. FormsIInv' /\ (alone /\ OneFilling' => FormsAloneInv')
    BY <1>3, TemplateForms, WrittenForms, SubmissionForms, FormsFail DEF FormsNext, G!Next
  <2> QED
    BY <2>1, <2>2 DEF FormsAloneInv
<1> QED
  BY <1>1, <1>2, <1>3

LEMMA FormsAlways == Spec => [](FormsIInv /\ FormsAloneInv)
<1>1. Init => FormsIInv /\ FormsAloneInv
  BY FormsInit DEF Init
<1>2. (FormsIInv /\ FormsAloneInv) /\ [Next]_vars => (FormsIInv /\ FormsAloneInv)'
  <2>1. [Next]_vars => UNCHANGED alone
    BY DEF Next, vars
  <2> QED
    BY <2>1, FormsSteps, FormsStep
<1> QED
  BY <1>1, <1>2, PTL DEF Spec

\* With one request at a time there is one default template at most
\* (form-templates.service.ts:361), and a form is stored once for what it is about,
\* however often it is submitted (form-submissions.service.ts:25).
THEOREM OneFormAlone == Spec => []AloneOneForm
<1>1. ASSUME OneFlag PROVE G!OneDefault
  <2> DEFINE flagged == {t \in default : G!Live(t)}
  <2> SUFFICES Cardinality(flagged) <= 1
    BY DEF G!OneDefault, G!Cardinality, Cardinality
  <2> HIDE DEF flagged
  <2>1. CASE flagged = {}
    BY <2>1, FS_EmptySet
  <2>2. CASE flagged # {}
    <3>1. PICK t \in flagged : flagged = {t}
      BY <1>1, <2>2 DEF OneFlag, flagged
    <3> QED
      BY <3>1, FS_Singleton
  <2> QED
    BY <2>1, <2>2
<1>2. FormsAloneInv => AloneOneForm
  BY <1>1 DEF FormsAloneInv, AloneOneForm
<1> QED
  BY <1>2, FormsAlways, PTL

-----------------------------------------------------------------------------
(* Numbering. The powers of the base are a table that is its own definition: one    *)
(* exists, for the least exponent that has none has one; and they do not shrink.    *)

PowersTo(n) == {f \in [0 .. n -> Nat \ {0}] : f[0] = 1 /\ \A d \in 1 .. n : f[d] = Base * f[d - 1]}

LEMMA TimesGrows == \A b, p \in Nat \ {0} : b * p \in Nat \ {0} /\ p <= b * p
OBVIOUS

LEMMA PowersExist == \A n \in 0 .. 20 : PowersTo(n) # {}
<1> DEFINE bad == {n \in 0 .. 20 : PowersTo(n) = {}}
<1> SUFFICES ASSUME bad # {} PROVE FALSE
  OBVIOUS
<1>0. bad \in SUBSET Nat
  OBVIOUS
<1>1. PICK n \in bad : \A m \in bad : n <= m
  BY <1>0, LessIsWF
<1>2. n # 0
  <2> DEFINE f == [d \in 0 .. 0 |-> 1]
  <2>1. f \in PowersTo(0)
    BY DEF PowersTo
  <2> QED
    BY <1>1, <2>1
<1>3. n - 1 \in 0 .. 20 /\ n - 1 \notin bad
  BY <1>1, <1>2
<1>4. PICK e \in PowersTo(n - 1) : TRUE
  BY <1>3
<1>5. /\ e \in [0 .. n - 1 -> Nat \ {0}] /\ e[0] = 1
      /\ \A d \in 1 .. n - 1 : e[d] = Base * e[d - 1]
  BY <1>4 DEF PowersTo
<1> DEFINE f == [d \in 0 .. n |-> IF d = n THEN Base * e[n - 1] ELSE e[d]]
<1>6. Base * e[n - 1] \in Nat \ {0}
  BY <1>1, <1>2, <1>5, TimesGrows, DigitsCounted
<1>7. f \in [0 .. n -> Nat \ {0}]
  BY <1>5, <1>6
<1>8. f[0] = 1 /\ \A d \in 1 .. n : f[d] = Base * f[d - 1]
  BY <1>1, <1>2, <1>5
<1> QED
  BY <1>1, <1>7, <1>8 DEF PowersTo

LEMMA Powers ==
  /\ \A d \in 0 .. 20 : N!Power[d] \in Nat \ {0}
  /\ \A d \in 1 .. 20 : N!Power[d - 1] <= N!Power[d]
<1>1. PICK f \in PowersTo(20) : TRUE
  BY PowersExist
<1>2. f = [d \in 0 .. 20 |-> IF d = 0 THEN 1 ELSE Base * f[d - 1]]
  BY <1>1 DEF PowersTo
<1> DEFINE p == N!Power
<1>3. p = [d \in 0 .. 20 |-> IF d = 0 THEN 1 ELSE Base * p[d - 1]]
  BY <1>2 DEF N!Power
<1> HIDE DEF p
<1>4. \A d \in 0 .. 20 : p[d] = IF d = 0 THEN 1 ELSE Base * p[d - 1]
  BY <1>3
<1>5. \A d \in 0 .. 20 : p[d] \in Nat \ {0}
  <2> DEFINE bad == {d \in 0 .. 20 : p[d] \notin Nat \ {0}}
  <2> SUFFICES ASSUME bad # {} PROVE FALSE
    OBVIOUS
  <2>0. bad \in SUBSET Nat
    OBVIOUS
  <2>1. PICK n \in bad : \A m \in bad : n <= m
    BY <2>0, LessIsWF
  <2>2. n # 0 /\ n - 1 \in 0 .. 20
    BY <1>4, <2>1
  <2>3. p[n - 1] \in Nat \ {0}
    BY <2>1, <2>2
  <2>4. Base * p[n - 1] \in Nat \ {0}
    BY <2>3, TimesGrows, DigitsCounted
  <2> QED
    BY <1>4, <2>1, <2>2, <2>4
<1>6. \A d \in 1 .. 20 : p[d - 1] <= p[d]
  <2> SUFFICES ASSUME NEW d \in 1 .. 20 PROVE p[d - 1] <= p[d]
    OBVIOUS
  <2>1. p[d - 1] \in Nat \ {0} /\ p[d] = Base * p[d - 1]
    BY <1>4, <1>5
  <2> QED
    BY <2>1, TimesGrows, DigitsCounted
<1> QED
  BY <1>5, <1>6 DEF p

LEMMA PowersGrow ==
  ASSUME NEW i \in 0 .. 20, NEW j \in i .. 20
  PROVE  N!Power[i] <= N!Power[j]
<1> DEFINE bad == {k \in i .. 20 : ~(N!Power[i] <= N!Power[k])}
<1> SUFFICES ASSUME bad # {} PROVE FALSE
  OBVIOUS
<1>1. bad \in SUBSET Nat
  OBVIOUS
<1>2. PICK n \in bad : \A m \in bad : n <= m
  BY <1>1, LessIsWF
<1>3. n # i
  BY <1>2, Powers
<1>4. n - 1 \in i .. 20 /\ n - 1 \notin bad
  BY <1>2, <1>3
<1> QED
  BY <1>2, <1>3, <1>4, Powers

\* A number that is below the power of the padding is written with as many digits.
LEMMA PaddedFits ==
  ASSUME NEW n \in Nat, n < N!Power[Width]
  PROVE  N!Padded(n) = [digits |-> Width, value |-> n]
<1> DEFINE Right(d) == n < N!Power[d] /\ (d = 1 \/ n >= N!Power[d - 1])
           longer == {d \in 1 .. 20 : n < N!Power[d]}
<1>1. longer \in SUBSET Nat /\ Width \in longer
  BY DigitsCounted
<1>2. PICK d \in longer : \A m \in longer : d <= m
  BY <1>1, LessIsWF
<1>3. d \in 1 .. 20 /\ Right(d)
  <2>1. d = 1 \/ (d - 1 \in 1 .. 20 /\ d - 1 \notin longer)
    BY <1>2
  <2> QED
    BY <1>2, <2>1, Powers
<1>4. N!Length(n) \in 1 .. 20 /\ Right(N!Length(n))
  BY <1>3 DEF N!Length
<1>5. N!Length(n) <= Width
  <2> SUFFICES ASSUME N!Length(n) > Width PROVE FALSE
    BY <1>4, DigitsCounted
  <2> DEFINE k == N!Length(n) - 1
  <2>1. k \in Width .. 20 /\ Width \in 0 .. 20 /\ n >= N!Power[k]
    BY <1>4, DigitsCounted
  <2>2. N!Power[Width] <= N!Power[k] /\ N!Power[Width] \in Nat /\ N!Power[k] \in Nat
    BY <2>1, PowersGrow, Powers
  <2> QED
    BY <2>1, <2>2
<1> QED
  BY <1>4, <1>5, DigitsCounted DEF N!Padded

-----------------------------------------------------------------------------
\* The table as long as numbers fit their padding: 1 to n, without a gap.
FirstNumbers(n) == {[digits |-> Width, value |-> v] : v \in 1 .. n}

LEMMA GreatestIsLast ==
  ASSUME NEW n \in Nat, rows = FirstNumbers(n)
  PROVE  N!Following = n + 1
<1>1. CASE n = 0
  BY <1>1 DEF N!Following, FirstNumbers
<1>2. CASE n # 0
  <2> DEFINE top == [digits |-> Width, value |-> n]
             p == N!Power[N!Longest - Width]
  <2>1. p \in Nat \ {0}
    BY Powers, DigitsCounted DEF N!Longest
  <2>2. \A x, y \in Nat : x < y => x * p < y * p
    BY <2>1
  <2>3. top \in rows /\ \A a \in rows : a.digits = Width /\ a.value \in 1 .. n /\ a = [digits |-> Width, value |-> a.value]
    BY <1>2 DEF FirstNumbers
  <2>4. \A a, b \in rows : N!Precedes(b, a) <=> b.value * p < a.value * p
    BY <2>3, DigitsCounted DEF N!Precedes
  <2> HIDE DEF p
  <2>5. \A b \in rows \ {top} : N!Precedes(b, top)
    <3> SUFFICES ASSUME NEW b \in rows \ {top} PROVE N!Precedes(b, top)
      OBVIOUS
    <3>1. b.value < n /\ b.value \in Nat
      BY <2>3
    <3> QED
      BY <2>2, <2>3, <2>4, <3>1
  <2>6. \A a \in rows : (\A b \in rows \ {a} : N!Precedes(b, a)) => a = top
    <3> SUFFICES ASSUME NEW a \in rows, a # top, N!Precedes(top, a) PROVE FALSE
      BY <2>3
    <3>1. a.value < n /\ a.value \in Nat
      BY <2>3
    <3>2. a.value * p < n * p /\ n * p < a.value * p
      BY <2>2, <2>3, <2>4, <3>1
    <3> QED
      BY <2>1, <3>1, <3>2
  <2>7. N!Greatest = top
    BY <2>3, <2>5, <2>6 DEF N!Greatest
  <2> QED
    BY <2>3, <2>7 DEF N!Following
<1> QED
  BY <1>1, <1>2

-----------------------------------------------------------------------------
(* The inductive invariant: until the clock is asked or the padding is outgrown,   *)
(* the table has no gap and a candidate is at most the next number; and that of a  *)
(* creation without company is free once it is looked for or need not be.          *)

Count == Cardinality(rows)
Orderly == ~clocked /\ N!Fits

CandidateOK(c) ==
  /\ \E v \in 1 .. Count + 1 : c.number = N!Padded(v)
  /\ c.alone /\ c.pc = "insert" => c.number \notin rows

OneCreates == \A r, q \in Requests : creating[r].pc # "idle" /\ creating[r].alone /\ creating[q].pc # "idle" => r = q

CreatingTyped ==
  /\ IsFiniteSet(rows)
  /\ creating = [r \in Requests |-> creating[r]]
  /\ \A r \in Requests : DOMAIN creating[r] = {"pc", "number", "tries", "alone"}

NumbersInv ==
  /\ CreatingTyped
  /\ OneCreates
  /\ Orderly => /\ rows = FirstNumbers(Count)
                /\ \A r \in Requests : creating[r].pc # "idle" => CandidateOK(creating[r])
  /\ N!LoneCreationsSucceed

LEMMA SameCount == N!Cardinality(rows) = Cardinality(rows)
BY DEF N!Cardinality, Cardinality

LEMMA CandidateFits ==
  ASSUME NumbersInv, Orderly, NEW v \in 1 .. Count, IsFiniteSet(rows)
  PROVE  N!Padded(v) = [digits |-> Width, value |-> v] /\ N!Padded(v) \in rows
<1>1. Count \in Nat /\ Count < N!Power[Width]
  BY FS_CardinalityType, SameCount DEF Count, Orderly, N!Fits
<1>2. N!Power[Width] \in Nat
  BY Powers, DigitsCounted
<1>3. v \in Nat /\ v < N!Power[Width]
  BY <1>1, <1>2
<1>4. N!Padded(v) = [digits |-> Width, value |-> v]
  BY <1>3, PaddedFits
<1>5. [digits |-> Width, value |-> v] \in FirstNumbers(Count)
  BY DEF FirstNumbers
<1> QED
  BY <1>4, <1>5 DEF NumbersInv

\* The number after the last is not in the table.
LEMMA NextIsFree ==
  ASSUME NumbersInv, Orderly
  PROVE  N!Padded(Count + 1) \notin rows
<1>1. N!Padded(Count + 1).value = Count + 1
  BY DEF N!Padded
<1>2. Count \in Nat
  BY FS_CardinalityType DEF Count, NumbersInv, CreatingTyped
<1>3. \A a \in rows : a.value \in 1 .. Count
  BY DEF NumbersInv, FirstNumbers
<1> QED
  BY <1>1, <1>2, <1>3

\* The table stays, and so does every candidate but one.
LEMMA NumbersKeep ==
  ASSUME NumbersInv, CreatingTyped', UNCHANGED <<rows, clocked>>, NEW r \in Requests,
         \A q \in Requests \ {r} : creating'[q].pc = creating[q].pc /\ creating'[q].number = creating[q].number
                                   /\ (creating'[q].alone => creating[q].alone),
         OneCreates', refused' = refused,
         Orderly => creating'[r].pc = "idle" \/ CandidateOK(creating'[r])
  PROVE  NumbersInv'
<1>1. UNCHANGED <<Orderly, Count, N!LoneCreationsSucceed>>
  BY DEF Orderly, Count, N!Fits, N!LoneCreationsSucceed
<1>2. ASSUME Orderly PROVE rows' = FirstNumbers(Count')
  BY <1>1, <1>2 DEF NumbersInv
<1>3. ASSUME Orderly, NEW q \in Requests, creating'[q].pc # "idle" PROVE CandidateOK(creating[q])' 
  <2>1. CASE q = r
    BY <1>1, <1>3, <2>1 DEF CandidateOK
  <2>2. CASE q # r
    <3>1. CandidateOK(creating[q])
      BY <1>3, <2>2 DEF NumbersInv
    <3> QED
      BY <1>1, <2>2, <3>1 DEF CandidateOK
  <2> QED
    BY <2>1, <2>2
<1> QED
  BY <1>1, <1>2, <1>3 DEF NumbersInv

\* One creation goes on.
LEMMA CreationGoes ==
  ASSUME NumbersInv, NEW r \in Requests, NEW c, creating' = [creating EXCEPT ![r] = c],
         DOMAIN c = {"pc", "number", "tries", "alone"},
         c.pc # "idle" => creating[r].pc # "idle" /\ (c.alone => creating[r].alone)
  PROVE  /\ creating' = [q \in Requests |-> creating'[q]] /\ creating'[r] = c
         /\ \A q \in Requests : DOMAIN creating'[q] = {"pc", "number", "tries", "alone"}
         /\ \A q \in Requests \ {r} : creating'[q] = creating[q]
         /\ OneCreates'
<1>1. creating = [q \in Requests |-> creating[q]]
  BY DEF NumbersInv, CreatingTyped
<1>2. creating'[r] = c /\ \A q \in Requests \ {r} : creating'[q] = creating[q]
  BY <1>1
<1>3. creating' = [q \in Requests |-> creating'[q]]
  BY <1>1
<1>4. \A q \in Requests : DOMAIN creating'[q] = {"pc", "number", "tries", "alone"}
  BY <1>2 DEF NumbersInv, CreatingTyped
<1>5. OneCreates'
  BY <1>2 DEF NumbersInv, OneCreates
<1> QED
  BY <1>2, <1>3, <1>4, <1>5

\* A creation begins: what it draws is the number after the last.
LEMMA GenerateStep == ASSUME NumbersInv, NEW r \in Requests, N!Generate(r) PROVE NumbersInv'
<1> DEFINE c == [pc |-> IF looks THEN "look" ELSE "insert", number |-> N!Padded(N!Following),
                 tries |-> 0, alone |-> N!Busy = {}]
<1>1. creating' = [N!Accompanied(r) EXCEPT ![r] = c] /\ UNCHANGED <<rows, clocked, refused>> /\ creating[r].pc = "idle"
  BY DEF N!Generate
<1>2. creating'[r] = c /\ \A q \in Requests \ {r} : creating'[q] = [creating[q] EXCEPT !.alone = FALSE]
  BY <1>1 DEF N!Accompanied
<1>3. creating' = [q \in Requests |-> creating'[q]]
  BY <1>1 DEF N!Accompanied
<1>4. \A q \in Requests \ {r} : creating'[q].pc = creating[q].pc /\ creating'[q].number = creating[q].number
                                /\ ~creating'[q].alone
  BY <1>2 DEF NumbersInv, CreatingTyped
<1>5. CreatingTyped'
  BY <1>1, <1>2, <1>3 DEF NumbersInv, CreatingTyped
<1>6. c.alone => \A q \in Requests : creating[q].pc = "idle"
  BY DEF N!Busy
<1>7. OneCreates'
  BY <1>2, <1>4, <1>6 DEF OneCreates
<1>8. ASSUME Orderly PROVE CandidateOK(creating'[r])
  <2>1. Count \in Nat
    BY FS_CardinalityType DEF Count, NumbersInv, CreatingTyped
  <2>2. N!Following = Count + 1
    BY <1>8, <2>1, GreatestIsLast DEF NumbersInv
  <2>3. c.number = N!Padded(Count + 1) /\ c.number \notin rows
    BY <1>8, <2>2, NextIsFree
  <2> QED
    BY <1>2, <2>1, <2>3 DEF CandidateOK
<1> QED
  BY <1>1, <1>4, <1>5, <1>7, <1>8, NumbersKeep

\* A candidate that is taken is not the number after the last.
LEMMA LookStep == ASSUME NumbersInv, NEW r \in Requests, N!Look(r) PROVE NumbersInv'
<1> DEFINE c == creating[r]
           d == IF c.number \in rows
                THEN [c EXCEPT !.number = N!Padded(c.number.value + 1), !.tries = @ + 1]
                ELSE [c EXCEPT !.pc = "insert"]
<1>1. c.pc = "look" /\ creating' = [creating EXCEPT ![r] = d] /\ UNCHANGED <<rows, clocked, refused>>
  BY DEF N!Look
<1>2. DOMAIN c = {"pc", "number", "tries", "alone"}
  BY DEF NumbersInv, CreatingTyped
<1>3. /\ DOMAIN d = {"pc", "number", "tries", "alone"} /\ d.alone = c.alone
      /\ c.number \in rows => d.number = N!Padded(c.number.value + 1) /\ d.pc = "look"
      /\ c.number \notin rows => d.number = c.number /\ d.pc = "insert"
  BY <1>1, <1>2
<1> HIDE DEF d
<1>4. /\ creating' = [q \in Requests |-> creating'[q]] /\ creating'[r] = d
      /\ \A q \in Requests : DOMAIN creating'[q] = {"pc", "number", "tries", "alone"}
      /\ \A q \in Requests \ {r} : creating'[q] = creating[q]
      /\ OneCreates'
  BY <1>1, <1>3, CreationGoes
<1>5. CreatingTyped'
  BY <1>1, <1>4 DEF NumbersInv, CreatingTyped
<1>6. ASSUME Orderly PROVE CandidateOK(d)
  <2>1. Count \in Nat
    BY FS_CardinalityType DEF Count, NumbersInv, CreatingTyped
  <2>2. PICK v \in 1 .. Count + 1 : c.number = N!Padded(v)
    BY <1>1, <1>6 DEF NumbersInv, CandidateOK
  <2>3. CASE c.number \in rows
    <3>1. v \in 1 .. Count /\ c.number.value = v
      BY <1>6, <2>1, <2>2, <2>3, NextIsFree DEF N!Padded
    <3>2. v + 1 \in 1 .. Count + 1 /\ d.number = N!Padded(v + 1) /\ d.pc = "look"
      BY <1>3, <2>1, <2>3, <3>1
    <3> QED
      BY <3>2 DEF CandidateOK
  <2>4. CASE c.number \notin rows
    BY <1>3, <2>2, <2>4 DEF CandidateOK
  <2> QED
    BY <2>3, <2>4
<1> QED
  BY <1>1, <1>4, <1>5, <1>6, NumbersKeep

\* Once the clock is asked nothing is claimed.
LEMMA AskClockStep == ASSUME NumbersInv, NEW r \in Requests, N!AskClock(r) PROVE NumbersInv'
<1>1. PICK t \in Clocks : creating' = [creating EXCEPT ![r].pc = "insert",
                                                       ![r].number = [digits |-> Width + 2, value |-> t]]
  BY DEF N!AskClock
<1> DEFINE c == [creating[r] EXCEPT !.pc = "insert", !.number = [digits |-> Width + 2, value |-> t]]
<1>2. clocked' /\ UNCHANGED <<rows, refused>> /\ creating[r].pc # "idle"
  BY DEF N!AskClock
<1>3. creating' = [creating EXCEPT ![r] = c]
  BY <1>1 DEF NumbersInv, CreatingTyped
<1>4. DOMAIN c = {"pc", "number", "tries", "alone"} /\ c.alone = creating[r].alone
  BY DEF NumbersInv, CreatingTyped
<1> HIDE DEF c
<1>5. CreatingTyped' /\ OneCreates'
  BY <1>2, <1>3, <1>4, CreationGoes DEF NumbersInv, CreatingTyped
<1> QED
  BY <1>2, <1>5 DEF NumbersInv, Orderly, N!LoneCreationsSucceed

LEMMA IdleCreation == N!Idle.pc = "idle" /\ DOMAIN N!Idle = {"pc", "number", "tries", "alone"}
BY DEF N!Idle

\* The row is inserted, or was there: for the next number, the table has one more.
LEMMA NumberInsertStep == ASSUME NumbersInv, NEW r \in Requests, N!Insert(r) PROVE NumbersInv'
<1> DEFINE c == creating[r]
<1>1. /\ c.pc = "insert" /\ rows' = rows \cup {c.number} /\ clocked' = clocked
      /\ refused' = (refused \/ (c.number \in rows /\ c.alone))
      /\ creating' = [creating EXCEPT ![r] = N!Idle]
  BY DEF N!Insert
<1>2. /\ creating' = [q \in Requests |-> creating'[q]] /\ creating'[r] = N!Idle
      /\ \A q \in Requests : DOMAIN creating'[q] = {"pc", "number", "tries", "alone"}
      /\ \A q \in Requests \ {r} : creating'[q] = creating[q]
      /\ OneCreates'
  BY <1>1, IdleCreation, CreationGoes
<1>3. IsFiniteSet(rows) /\ Count \in Nat
  BY FS_CardinalityType DEF Count, NumbersInv, CreatingTyped
<1>4. IsFiniteSet(rows') /\ Count' = IF c.number \in rows THEN Count ELSE Count + 1
  BY <1>1, <1>3, FS_AddElement DEF Count
<1>5. CreatingTyped'
  BY <1>2, <1>4 DEF CreatingTyped
<1>6. N!Cardinality(rows) = Count /\ N!Cardinality(rows)' = Count' /\ N!Power[Width] \in Nat
  BY Powers, DigitsCounted DEF Count, N!Cardinality, Cardinality
<1>7. Orderly' => Orderly
  BY <1>1, <1>3, <1>4, <1>6 DEF Orderly, N!Fits
<1>8. ASSUME Orderly'
      PROVE  /\ rows' = FirstNumbers(Count')
             /\ \A q \in Requests : creating'[q].pc # "idle" => CandidateOK(creating[q])'
  <2>1. PICK v \in 1 .. Count + 1 : c.number = N!Padded(v)
    BY <1>1, <1>7, <1>8 DEF NumbersInv, CandidateOK
  <2>2. rows = FirstNumbers(Count)
    BY <1>7, <1>8 DEF NumbersInv
  <2>3. ASSUME v \in 1 .. Count PROVE rows' = FirstNumbers(Count')
    <3>1. c.number \in rows /\ Count' = Count
      BY <1>3, <1>4, <1>7, <1>8, <2>1, <2>3, CandidateFits
    <3> QED
      BY <1>1, <2>2, <3>1
  <2>4. ASSUME v = Count + 1 PROVE rows' = FirstNumbers(Count')
    <3>1. c.number \notin rows /\ Count' = Count + 1
      BY <1>4, <1>7, <1>8, <2>1, <2>4, NextIsFree
    <3>2. Count + 1 < N!Power[Width]
      BY <1>6, <1>8, <3>1 DEF Orderly, N!Fits
    <3>3. c.number = [digits |-> Width, value |-> Count + 1]
      BY <1>3, <2>1, <2>4, <3>2, PaddedFits
    <3>4. FirstNumbers(Count + 1) = FirstNumbers(Count) \cup {[digits |-> Width, value |-> Count + 1]}
      BY <1>3 DEF FirstNumbers
    <3> QED
      BY <1>1, <2>2, <3>1, <3>3, <3>4
  <2>5. rows' = FirstNumbers(Count') /\ Count' \in Nat /\ Count <= Count'
    BY <1>3, <1>4, <2>1, <2>3, <2>4
  <2>6. ASSUME NEW q \in Requests, creating'[q].pc # "idle" PROVE CandidateOK(creating[q])'
    <3>1. q # r /\ creating'[q] = creating[q]
      BY <1>2, <2>6, IdleCreation
    <3>2. ~creating[q].alone
      BY <1>1, <2>6, <3>1 DEF NumbersInv, OneCreates
    <3>3. PICK w \in 1 .. Count + 1 : creating[q].number = N!Padded(w)
      BY <1>7, <1>8, <2>6, <3>1 DEF NumbersInv, CandidateOK
    <3>4. w \in 1 .. Count' + 1
      <4>1. \A m, n \in Nat : m <= n => 1 .. m + 1 \subseteq 1 .. n + 1
        OBVIOUS
      <4> QED
        BY <1>3, <2>5, <4>1
    <3>5. UNCHANGED N!Padded(w)
      BY DEF N!Padded, N!Length, N!Power
    <3> QED
      BY <3>1, <3>2, <3>3, <3>4, <3>5 DEF CandidateOK
  <2> QED
    BY <2>5, <2>6
<1>9. N!LoneCreationsSucceed'
  <2> SUFFICES ASSUME refused', Orderly' PROVE FALSE
    BY DEF N!LoneCreationsSucceed, Orderly
  <2>1. CandidateOK(c) /\ ~refused
    BY <1>1, <1>7 DEF NumbersInv, N!LoneCreationsSucceed, Orderly
  <2> QED
    BY <1>1, <2>1 DEF CandidateOK
<1> QED
  BY <1>2, <1>5, <1>8, <1>9 DEF NumbersInv

LEMMA AbandonStep == ASSUME NumbersInv, NEW r \in Requests, N!Abandon(r) PROVE NumbersInv'
<1>1. creating' = [creating EXCEPT ![r] = N!Idle] /\ UNCHANGED <<rows, clocked, refused>>
  BY DEF N!Abandon
<1>2. /\ creating' = [q \in Requests |-> creating'[q]] /\ creating'[r] = N!Idle
      /\ \A q \in Requests : DOMAIN creating'[q] = {"pc", "number", "tries", "alone"}
      /\ \A q \in Requests \ {r} : creating'[q] = creating[q]
      /\ OneCreates'
  BY <1>1, IdleCreation, CreationGoes
<1>3. CreatingTyped'
  BY <1>1, <1>2 DEF NumbersInv, CreatingTyped
<1> QED
  BY <1>1, <1>2, <1>3, IdleCreation, NumbersKeep

LEMMA NumbersStep == NumbersInv /\ [N!Next]_numbering => NumbersInv'
<1> SUFFICES ASSUME NumbersInv, [N!Next]_numbering PROVE NumbersInv'
  OBVIOUS
<1>1. CASE \E r \in Requests : N!Generate(r) \/ N!Look(r) \/ N!AskClock(r) \/ N!Insert(r) \/ N!Abandon(r)
  BY <1>1, GenerateStep, LookStep, AskClockStep, NumberInsertStep, AbandonStep
<1>2. CASE (\E n \in rows : N!SoftDelete(n)) \/ UNCHANGED numbering
  <2>1. UNCHANGED <<rows, creating, clocked, refused>>
    BY <1>2 DEF N!SoftDelete, numbering
  <2> QED
    BY <2>1 DEF NumbersInv, CreatingTyped, OneCreates, Orderly, N!Fits, Count, CandidateOK, N!LoneCreationsSucceed
<1> QED
  BY <1>1, <1>2 DEF N!Next

LEMMA NumbersInit == Init => NumbersInv
<1> SUFFICES ASSUME Init PROVE NumbersInv
  OBVIOUS
<1>1. rows = {} /\ creating = [r \in Requests |-> N!Idle] /\ ~refused
  BY DEF Init, N!Init
<1>2. IsFiniteSet(rows) /\ Count = 0
  BY <1>1, FS_EmptySet DEF Count
<1>3. CreatingTyped /\ OneCreates
  BY <1>1, <1>2, IdleCreation DEF CreatingTyped, OneCreates
<1>4. rows = FirstNumbers(Count)
  BY <1>1, <1>2 DEF FirstNumbers
<1> QED
  BY <1>1, <1>3, <1>4, IdleCreation DEF NumbersInv, N!LoneCreationsSucceed

\* A creation that nobody raced finds its number free, in whatever order numbers were
\* drawn, abandoned, inserted and deleted before, while they fit the padding
\* (customers.service.ts:556).
THEOREM LoneCreationsNumbered == Spec => []LoneCreationsSucceed
<1>1. [Next]_vars => [N!Next]_numbering
  <2> SUFFICES ASSUME [Next]_vars PROVE [N!Next]_numbering
    OBVIOUS
  <2>1. CASE UNCHANGED vars
    BY <2>1 DEF vars, numbering
  <2>2. CASE Next /\ part # "numbering"
    BY <2>2 DEF Next, Rest
  <2>3. CASE Next /\ part = "numbering"
    BY <2>3 DEF Next
  <2> QED
    BY <2>1, <2>2, <2>3
<1>2. NumbersInv /\ [Next]_vars => NumbersInv'
  BY <1>1, NumbersStep
<1>3. NumbersInv => LoneCreationsSucceed
  BY DEF NumbersInv, LoneCreationsSucceed
<1> QED
  BY NumbersInit, <1>2, <1>3, PTL DEF Spec

===================================================================================
