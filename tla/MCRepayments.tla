----------------------------- MODULE MCRepayments -----------------------------
(* Instances of Repayments for TLC: handlers that interleave, and handlers that *)
(* run one at a time, though they may fail or die anywhere.                     *)
EXTENDS Repayments, TLC

CONSTANTS l1, l2, p1, p2, r1, r2

VARIABLE alone  \* whether the requests run one at a time

\* Two installments, of different size so that an order shows, and one that one
\* payment closes.
Schedules == [l \in Loans |-> IF l = l1 THEN <<2, 1>> ELSE <<1>>]

\* The first transfer overpays nothing, the second may overpay.
MCAmountOf == [p \in Transfers |-> IF p = p1 THEN 1 ELSE 3]

\* Everything is sent to the first loan's account.
ToFirstLoan == [p \in Transfers |-> l1]

\* Request slots are interchangeable.
Interchangeable == Permutations(Requests)

InFlight == {r \in Requests : req[r].pc # "idle"}
Lone == alone => \A q, r \in InFlight : q = r

\* Bound: handlers that interleave meet at the first loan.
MeetAtFirst == alone \/ \A l \in Loans \ {l1} : l \notin numbered /\ \A r \in Requests : req[r].loan # l

MCInit == Init /\ alone \in BOOLEAN
MCNext == Next /\ UNCHANGED alone /\ Lone'
MCSpec == MCInit /\ [][MCNext]_<<vars, alone>>

\* With one handler at a time, whatever fails, the installments show exactly what
\* was received, oldest first, and a loan is COMPLETED exactly while it is paid
\* (applyRepayment, 713-776).
AloneBooks == alone => BooksBalance /\ CompletedIsPaid
=============================================================================
