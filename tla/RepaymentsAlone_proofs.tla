------------------------ MODULE RepaymentsAlone_proofs ------------------------
(***************************************************************************)
(* What the books of every loan show while payments are handled one at a    *)
(* time, for every set of loans, schedules, transfers and requests, and     *)
(* whatever fails halfway.                                                   *)
(***************************************************************************)
EXTENDS MCRepayments, Repayments_proofs

Lesser(a, b) == IF a <= b THEN a ELSE b
OldestFirst(l, s) == \A i, j \in Installments(l) : i < j /\ s[j] > 0 => s[i] = Due[l][i]

-----------------------------------------------------------------------------
(* Amounts and their sums *)

LEMMA LesserIsMin == ASSUME NEW a \in Int, NEW b \in Int PROVE Min({a, b}) = Lesser(a, b)
<1>1. \A x \in {a, b} : (\A y \in {a, b} : x <= y) <=> x = Lesser(a, b)
  BY DEF Lesser
<1>2. Lesser(a, b) \in {a, b}
  BY DEF Lesser
<1> QED
  BY <1>1, <1>2 DEF Min

\* Sums over the installments of a loan.
LEMMA ScheduleSums ==
  ASSUME NEW l \in Loans, NEW s, Within(l, s)
  PROVE  /\ IsFiniteSet(Installments(l)) /\ Numbers(s, Installments(l)) /\ Numbers(Due[l], Installments(l))
         /\ Total(s, Installments(l)) \in Int /\ Total(Due[l], Installments(l)) \in Int
         /\ Total(Due[l], Installments(l)) = Total(s, Installments(l)) + Total(Asked(l, s), Installments(l))
<1> DEFINE D == Installments(l)
           a == Asked(l, s)
<1>1. PICK n \in Nat \ {0} : D = 1 .. n
  BY Schedule
<1>2. IsFiniteSet(D)
  BY <1>1, FS_Interval
<1>3. s \in [D -> Nat] /\ \A i \in D : Due[l][i] \in Nat /\ s[i] <= Due[l][i]
  BY WithinFunction, Schedule
<1>4. \A i \in D : a[i] = Due[l][i] - s[i]
  BY DEF Asked, Outstanding
<1> HIDE DEF a, D
<1>5. \A i \in D : a[i] \in Int /\ Due[l][i] = s[i] + a[i]
  BY <1>3, <1>4
<1>6. Numbers(s, D) /\ Numbers(a, D) /\ Numbers(Due[l], D)
  BY <1>3, <1>5 DEF Numbers
<1>7. Total(Due[l], D) = Total(s, D) + Total(a, D)
  BY <1>2, <1>5, <1>6, TotalPlus
<1>8. Total(s, D) \in Int /\ Total(Due[l], D) \in Int
  BY <1>2, <1>6, TotalInt
<1> QED
  BY <1>2, <1>6, <1>7, <1>8 DEF a, D

\* The loop on amounts that are those of the table: every installment keeps what
\* it has and gets its share, the oldest first, and the sum is what was received.
LEMMA SpreadBooks ==
  ASSUME NEW l \in Loans, NEW s, Within(l, s), NEW amount \in Nat, NEW got \in Int, OldestFirst(l, s),
         Total(s, Installments(l)) = Lesser(got, Total(Due[l], Installments(l))),
         NEW after, after = Allocated(l, s, s, amount)
  PROVE  /\ Total(after, Installments(l)) = Lesser(got + amount, Total(Due[l], Installments(l)))
         /\ OldestFirst(l, after)
         /\ \A i \in Installments(l) : s[i] <= after[i]
<1> DEFINE D == Installments(l)
           a == Asked(l, s)
           sh == Shares(l, s, amount)
<1>1. SpreadOldestFirst(sh, a, D, amount)
  BY SharesSpread
<1>2. /\ sh \in [D -> Nat] /\ Total(a, D) \in Int
      /\ Total(sh, D) = IF Total(a, D) <= amount THEN Total(a, D) ELSE amount
      /\ \A i \in D : sh[i] <= a[i]
      /\ \A i, j \in D : i < j /\ sh[j] > 0 => sh[i] = a[i]
  BY <1>1 DEF SpreadOldestFirst
<1>3. \A i \in D : after[i] = IF sh[i] = 0 THEN s[i] ELSE s[i] + sh[i]
  BY DEF Allocated, Shares
<1>4. \A i \in D : s[i] \in Nat /\ Due[l][i] \in Nat /\ a[i] = Due[l][i] - s[i]
  BY WithinFunction, Schedule DEF Asked, Outstanding
<1>5. /\ IsFiniteSet(D) /\ Numbers(s, D) /\ Total(s, D) \in Int /\ Total(Due[l], D) \in Int
      /\ Total(Due[l], D) = Total(s, D) + Total(a, D)
  BY ScheduleSums
<1>d. \A i \in D : i \in Int
  <2>1. PICK n \in Nat \ {0} : D = 1 .. n
    BY Schedule
  <2> QED
    BY <2>1
<1> HIDE DEF a, sh
<1>6. \A i \in D : after[i] = s[i] + sh[i]
  BY <1>2, <1>3, <1>4
<1>7. Total(after, D) = Total(s, D) + Total(sh, D)
  <2>1. Numbers(sh, D)
    BY <1>2 DEF Numbers
  <2> HIDE DEF D
  <2> QED
    BY <1>5, <1>6, <2>1, TotalPlus
<1>8. Total(after, D) = Lesser(got + amount, Total(Due[l], D))
  <2> DEFINE c == Total(s, D)
             p == Total(Due[l], D)
             q == Total(a, D)
             h == Total(sh, D)
  <2>1. /\ c \in Int /\ p \in Int /\ q \in Int /\ p = c + q /\ c = Lesser(got, p)
        /\ h = (IF q <= amount THEN q ELSE amount) /\ Total(after, D) = c + h
    BY <1>2, <1>5, <1>7
  <2> HIDE DEF c, p, q, h
  <2>2. c + h = Lesser(got + amount, p)
    BY <2>1 DEF Lesser
  <2> QED
    BY <2>1, <2>2 DEF p
<1>9. OldestFirst(l, after)
  <2> SUFFICES ASSUME NEW i \in D, NEW j \in D, i < j, after[j] > 0 PROVE after[i] = Due[l][i]
    BY DEF OldestFirst
  <2>1. CASE sh[j] > 0
    BY <1>2, <1>4, <1>6, <2>1
  <2>2. CASE ~(sh[j] > 0)
    <3>1. s[j] > 0
      BY <1>2, <1>4, <1>6, <2>2
    <3>2. s[i] = Due[l][i]
      BY <3>1 DEF OldestFirst
    <3> QED
      BY <1>2, <1>4, <1>6, <3>2
  <2> QED
    BY <2>1, <2>2
<1>10. \A i \in D : s[i] <= after[i]
  BY <1>2, <1>4, <1>6
<1> QED
  BY <1>8, <1>9, <1>10

-----------------------------------------------------------------------------
(* What holds while requests run one at a time: the books balance, a loan is *)
(* COMPLETED exactly if it is paid, and what a handler read still is so      *)

SeenIsSo == \A r \in Requests : Reading(req[r]) => req[r].seen = paid[req[r].loan]
AloneInv == alone => BooksBalance /\ CompletedIsPaid /\ SeenIsSo

LEMMA BooksAre ==
  ASSUME NEW l \in Loans
  PROVE  /\ Credited(l) = Total(paid[l], Installments(l)) /\ Credited(l)' = Total(paid'[l], Installments(l))
         /\ Payable(l) = Total(Due[l], Installments(l)) /\ Payable(l)' = Payable(l)
<1>1. Credited(l) = Total(paid[l], Installments(l)) /\ Payable(l) = Total(Due[l], Installments(l))
  BY DEF Credited, Payable, Total
<1>2. Credited(l)' = Total(paid'[l], Installments(l))
  BY DEF Credited, Total, MapThenSumSet, MapThenFoldSet, Installments
<1>3. Payable(l)' = Payable(l)
  BY DEF Payable, MapThenSumSet, MapThenFoldSet, Installments
<1> QED
  BY <1>1, <1>2, <1>3

\* The steps that leave the books alone.
LEMMA AloneKept ==
  ASSUME TypeInv, AloneInv, [Next]_vars, UNCHANGED books, alone' = alone
  PROVE  AloneInv'
<1> SUFFICES ASSUME alone PROVE (BooksBalance /\ CompletedIsPaid /\ SeenIsSo)'
  BY DEF AloneInv
<1>1. paid' = paid /\ repayments' = repayments /\ loanStatus' = loanStatus
  BY DEF books
<1>2. BooksBalance'
  <2>1. BooksBalance
    BY DEF AloneInv
  <2>2. \A l \in Loans : Received(l)' = Received(l) /\ Credited(l)' = Credited(l) /\ Payable(l)' = Payable(l)
    BY <1>1 DEF Received, Credited, Payable, MapThenSumSet, MapThenFoldSet, Installments
  <2> QED
    BY <1>1, <2>1, <2>2 DEF BooksBalance, Min, Installments
<1>3. CompletedIsPaid'
  BY <1>1 DEF AloneInv, CompletedIsPaid
<1>4. SeenIsSo'
  BY <1>1, ReadsBefore DEF AloneInv, SeenIsSo, ReadBefore
<1> QED
  BY <1>2, <1>3, <1>4

\* The transaction: its handler is the only one there is.
LEMMA AloneApplied ==
  ASSUME TypeInv, TypeInv', AloneInv, Lone, alone, NEW r \in Requests, ApplyRepayment(r), Applied(r)
  PROVE  (BooksBalance /\ CompletedIsPaid /\ SeenIsSo)'
<1>1. PICK k : k = req[r].loan
  OBVIOUS
<1>2. /\ req[r].pc = "apply" /\ req[r].amount \in Nat /\ k \in Loans
      /\ Within(k, paid[k]) /\ Within(k, paid'[k]) /\ req[r].seen = paid[k]
  <2>1. req[r].pc = "apply"
    BY ApplyCases
  <2>2. \A l \in Loans : Within(l, paid'[l])
    BY DEF TypeInv, Within, Installments
  <2> QED
    BY <1>1, <2>1, <2>2 DEF TypeInv, HandlerOK, Handler, AloneInv, SeenIsSo, Reading
<1>3. PICK amount \in Nat : amount = req[r].amount
  BY <1>2
<1>4. PICK s : s = paid[k]
  OBVIOUS
<1>5. PICK after : after = paid'[k]
  OBVIOUS
<1>6. after = Allocated(k, s, s, amount) /\ \A l \in Loans \ {k} : paid'[l] = paid[l] /\ loanStatus'[l] = loanStatus[l]
  BY <1>1, <1>2, <1>3, <1>4, <1>5 DEF Applied, TypeInv
<1>7. \A l \in Loans : /\ Received(l) \in Int
                       /\ Received(l)' = IF k = l THEN Received(l) + amount ELSE Received(l)
  BY <1>1, <1>2, <1>3, ReceivedApplied
<1>8. PICK got \in Int : got = Received(k)
  BY <1>2, <1>7
<1>9. \A l \in Loans : Payable(l) \in Int /\ Payable(l) = Total(Due[l], Installments(l))
  BY BooksAre, ScheduleSums DEF TypeInv
<1>10. /\ Within(k, s) /\ OldestFirst(k, s)
       /\ Total(s, Installments(k)) = Lesser(got, Total(Due[k], Installments(k)))
  <2>1. Credited(k) = Min({Received(k), Payable(k)}) /\ OldestFirst(k, paid[k])
    BY <1>2 DEF AloneInv, BooksBalance, OldestFirst
  <2> QED
    BY <1>2, <1>4, <1>7, <1>8, <1>9, <2>1, BooksAre, LesserIsMin
<1>11. /\ Total(after, Installments(k)) = Lesser(got + amount, Total(Due[k], Installments(k)))
       /\ OldestFirst(k, after) /\ \A i \in Installments(k) : s[i] <= after[i]
  BY <1>2, <1>6, <1>10, SpreadBooks
<1>12. BooksBalance'
  <2> SUFFICES ASSUME NEW l \in Loans
               PROVE  Credited(l)' = Min({Received(l)', Payable(l)'}) /\ OldestFirst(l, paid'[l])
    BY DEF BooksBalance, Min, OldestFirst, Installments
  <2>1. CASE l = k
    <3>1. Received(l)' = got + amount /\ got + amount \in Int
      BY <1>7, <1>8, <2>1
    <3>2. Min({Received(l)', Payable(l)'}) = Lesser(got + amount, Payable(l))
      BY <1>9, <3>1, BooksAre, LesserIsMin
    <3> QED
      BY <1>5, <1>9, <1>11, <2>1, <3>2, BooksAre
  <2>2. CASE l # k
    <3>1. Received(l)' = Received(l) /\ paid'[l] = paid[l] /\ Payable(l)' = Payable(l)
      BY <1>6, <1>7, <2>2, BooksAre
    <3>2. Credited(l)' = Credited(l)
      BY <3>1, BooksAre
    <3> QED
      BY <3>1, <3>2 DEF AloneInv, BooksBalance, OldestFirst
  <2> QED
    BY <2>1, <2>2
<1>13. CompletedIsPaid'
  <2> SUFFICES ASSUME NEW l \in Loans PROVE loanStatus'[l] = "COMPLETED" <=> paid'[l] = Due[l]
    BY DEF CompletedIsPaid
  <2>1. loanStatus[l] = "COMPLETED" <=> paid[l] = Due[l]
    BY DEF AloneInv, CompletedIsPaid
  <2>2. paid[l] = Due[l] => paid'[l] = Due[l]
    <3>1. CASE l # k
      BY <1>6, <3>1
    <3>2. CASE l = k
      <4> SUFFICES ASSUME s = Due[k] PROVE after = Due[k]
        BY <1>4, <1>5, <3>2
      <4>1. Within(k, after) /\ s \in [Installments(k) -> Nat] /\ after \in [Installments(k) -> Nat]
        BY <1>2, <1>4, <1>5, WithinFunction
      <4>2. \A i \in Installments(k) : after[i] <= s[i] /\ s[i] <= after[i]
        BY <1>11, <4>1 DEF Within
      <4> QED
        BY <4>1, <4>2
    <3> QED
      BY <3>1, <3>2
  <2> QED
    BY <1>2, <2>1, <2>2, AppliedCloses
<1>14. SeenIsSo'
  <2>1. \A q \in Requests : req[q].pc = "idle" \/ q = r
    BY <1>2 DEF Lone, InFlight
  <2>2. \A q \in Requests : req'[q].pc \in {"idle", "mark"}
    <3>1. OnlyMoves(r) /\ req'[r].pc \in {"idle", "mark"}
      <4> DEFINE h == [req[r] EXCEPT !.pc = "mark"]
      <4>1. Finish(r) \/ req' = [req EXCEPT ![r] = h]
        BY ApplyCases
      <4>2. h.pc = "mark"
        BY DEF TypeInv, Handler
      <4> HIDE DEF h
      <4>3. PICK g : g = h
        OBVIOUS
      <4> QED
        BY <4>1, <4>2, <4>3, Leaves, Moves
    <3> QED
      BY <2>1, <3>1 DEF OnlyMoves
  <2> QED
    BY <2>2 DEF SeenIsSo, Reading
<1> QED
  BY <1>12, <1>13, <1>14

LEMMA AloneStep ==
  TypeInv /\ TypeInv' /\ AloneInv /\ Lone /\ [MCNext]_<<vars, alone>> => AloneInv' /\ Lone'
<1> SUFFICES ASSUME TypeInv, TypeInv', AloneInv, Lone, [MCNext]_<<vars, alone>> PROVE AloneInv' /\ Lone'
  OBVIOUS
<1>1. CASE UNCHANGED <<vars, alone>>
  <2>1. AloneInv'
    BY <1>1, AloneKept DEF vars, books
  <2>2. Lone'
    BY <1>1 DEF Lone, InFlight, vars
  <2> QED
    BY <2>1, <2>2
<1>2. CASE MCNext
  <2>1. Next /\ alone' = alone /\ Lone'
    BY <1>2 DEF MCNext
  <2>2. CASE UNCHANGED books
    BY <2>1, <2>2, AloneKept
  <2>3. ASSUME NEW r \in Requests, ApplyRepayment(r), Applied(r) PROVE AloneInv'
    BY <2>1, <2>3, AloneApplied DEF AloneInv
  <2>4. UNCHANGED books \/ \E r \in Requests : ApplyRepayment(r) /\ Applied(r)
    <3>1. ASSUME NEW r \in Requests, Step(r)
          PROVE  UNCHANGED books \/ (ApplyRepayment(r) /\ Applied(r))
      BY <3>1, ApplyCases
      DEF Step, CheckExisting, FindAccount, InsertTransfer, MarkReconciled, ReadLoan, DrawReceipt
    <3>2. ASSUME NEW r \in Requests, Call(r) PROVE UNCHANGED books
      BY <3>2 DEF Call, Webhook, Fetch, RecordRepayment, Resolve
    <3> QED
      BY <2>1, <3>1, <3>2 DEF Next, Fail, AssignNumber
  <2> QED
    BY <2>1, <2>2, <2>3, <2>4
<1> QED
  BY <1>1, <1>2

LEMMA AloneInit == Init => AloneInv /\ Lone
<1> SUFFICES ASSUME Init PROVE AloneInv /\ Lone
  OBVIOUS
<1>1. TypeInv
  BY TypeInit
<1>2. \A r \in Requests : req[r].pc = "idle"
  BY DEF Init, Idle
<1>3. Lone /\ SeenIsSo
  BY <1>2 DEF Lone, InFlight, SeenIsSo, Reading
<1>4. ASSUME NEW l \in Loans
      PROVE  /\ Credited(l) = Min({Received(l), Payable(l)})
             /\ OldestFirst(l, paid[l]) /\ paid[l] # Due[l]
  <2> DEFINE D == Installments(l)
             p == Total(Due[l], D)
  <2>1. Received(l) = 0
    <3>1. RowsOf(repayments, l) = {}
      BY EmptySeq, LenProperties DEF Init, RowsOf
    <3> QED
      BY <1>1, <3>1, ReceivedIs, TotalEmpty
  <2>2. Within(l, paid[l]) /\ \A i \in D : paid[l][i] = 0
    BY <1>1 DEF TypeInv, Init
  <2>3. /\ IsFiniteSet(D) /\ Numbers(paid[l], D) /\ Numbers(Due[l], D) /\ Total(paid[l], D) \in Int /\ p \in Int
        /\ \A i \in D : Due[l][i] \in Nat \ {0}
    BY <2>2, ScheduleSums, Schedule
  <2> HIDE DEF D
  <2>4. Total(paid[l], D) = 0
    <3>1. PICK s : s = paid[l]
      OBVIOUS
    <3>2. IsFiniteSet(D) /\ \A x \in D : s[x] \in Int /\ 0 <= s[x] /\ s[x] <= 0
      BY <2>2, <2>3, <3>1
    <3>3. 0 * Cardinality(D) <= Total(s, D) /\ Total(s, D) <= 0 * Cardinality(D)
      BY <3>2, TotalBetween
    <3>4. Cardinality(D) \in Nat /\ Total(s, D) \in Int
      BY <2>3, <3>1, FS_CardinalityType
    <3> DEFINE c == Total(s, D)
               n == Cardinality(D)
    <3>5. n \in Nat /\ c \in Int /\ 0 * n <= c /\ c <= 0 * n
      BY <3>3, <3>4
    <3> HIDE DEF c, n
    <3>6. c = 0
      BY <3>5
    <3> QED
      BY <3>1, <3>6 DEF c
  <2>5. Total(paid[l], D) <= p
    BY <2>2, <2>3, TotalLess
  <2>6. Credited(l) = 0 /\ Payable(l) = p
    BY <2>4, BooksAre DEF D
  <2>7. Credited(l) = Min({Received(l), Payable(l)})
    BY <2>1, <2>3, <2>4, <2>5, <2>6, LesserIsMin DEF Lesser
  <2>8. OldestFirst(l, paid[l])
    BY <2>2 DEF OldestFirst, D
  <2>9. paid[l] # Due[l]
    <3>1. PICK n \in Nat \ {0} : D = 1 .. n
      BY Schedule DEF D
    <3>2. 1 \in D
      BY <3>1
    <3> QED
      BY <2>2, <2>3, <3>2
  <2> QED
    BY <2>7, <2>8, <2>9
<1>5. BooksBalance
  BY <1>4 DEF BooksBalance, OldestFirst
<1>6. CompletedIsPaid
  BY <1>4 DEF CompletedIsPaid, Init
<1> QED
  BY <1>3, <1>5, <1>6 DEF AloneInv

\* While requests run one at a time, and whichever of their calls fails, the
\* installments of every loan show exactly what was received for it, up to what it
\* asks for and oldest first, and it is COMPLETED exactly while they are all paid
\* (applyRepayment, 713-776).
THEOREM AloneBalance == MCSpec => []AloneBooks
<1>1. MCInit => Init
  BY DEF MCInit
<1>2. [MCNext]_<<vars, alone>> => [Next]_vars
  BY DEF MCNext
<1>3. AloneInv => AloneBooks
  BY DEF AloneInv, AloneBooks
<1>4. TypeInv /\ [Next]_vars => TypeInv'
  BY TypeStep
<1> QED
  BY <1>1, <1>2, <1>3, <1>4, TypeInit, AloneInit, AloneStep, PTL DEF MCSpec
===============================================================================
