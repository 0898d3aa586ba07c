--------------------------- MODULE MCVirtualAccounts ---------------------------
(* Instances of VirtualAccounts for TLC. *)
EXTENDS VirtualAccounts, TLC

CONSTANTS l1, l2, l3, c1, c2, r1, r2

\* Each loan has a customer of its own.
OwnCustomers == l1 :> c1 @@ l2 :> c2
\* The third loan is the first customer's second.
TwoOfOne == [l \in Loans |-> IF l = l2 THEN c2 ELSE c1]

\* Request slots are interchangeable.
Interchangeable == Permutations(Requests)

\* Bound: after the repair calls only fail less often, which adds no state of the
\* accounts; it is followed while there is no account, where that already shows.
RepairedEarly == settled => \A l \in Loans : number[l] = NoNumber
=============================================================================
