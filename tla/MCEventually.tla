------------------------------- MODULE MCEventually ------------------------------
(* Instances for TLC of the two components that owe an answer, explored side by *)
(* side under their fairness: loans that are to get an account number, and      *)
(* calls of a browser tab that are to end.                                       *)
EXTENDS Integers, Sequences, FiniteSets, TLC

CONSTANTS l1, l2, c1, c2, r1, t1, a1, a2, u1, u2, None

VARIABLES
  part,      \* the component that runs
  number, code, rows, strayed, issued, assigning, announced, refused, settled, req,
  owner, good, fresh, mem, storage, leaving, call, leader, refresh, broken, robbed, crossed

accounts == <<number, code, rows, strayed, issued, assigning, announced, refused, settled, req>>
client == <<owner, good, fresh, mem, storage, leaving, call, leader, refresh, broken, robbed, crossed>>
vars == <<part, accounts, client>>

V == INSTANCE VirtualAccounts WITH
       Loans <- {l1, l2}, Customers <- {c1, c2}, CustomerOf <- l1 :> c1 @@ l2 :> c2,
       Identified <- {c1, c2}, Banked <- {c1, c2}, Repaired <- TRUE, MaxNumbers <- 2,
       Pursued <- {l1}, Requests <- {r1}
S == INSTANCE ClientSession WITH Tabs <- {t1}, Calls <- {a1, a2}, Users <- {u1, u2}, MaxPairs <- 3

Accounts(A) == part = "accounts" /\ A /\ UNCHANGED <<part, client>>
Client(A) == part = "client" /\ A /\ UNCHANGED <<part, accounts>>

Init == part \in {"accounts", "client"} /\ V!Init /\ S!Init
Next == Accounts(V!Next) \/ Client(S!Next)

\* The fairness of each component, for the behaviours in which it runs.
Fairness ==
  /\ WF_vars(Accounts(V!Settle))
  /\ WF_vars(Accounts(V!Step(r1)))
  /\ \A c \in {c1, c2} : WF_vars(Accounts(V!AssignSucceeds(c) \/ V!AssignFails(c)))
  /\ SF_vars(Accounts(V!CreateForLoan(r1, l1)))
  /\ SF_vars(Accounts(V!SyncFromPaystack(r1, l1)))
  /\ \A c \in {a1, a2} : WF_vars(Client(S!Answer(t1, c)))
  /\ WF_vars(Client(S!Unload(t1)))

Spec == Init /\ [][Next]_vars /\ Fairness

\* In a behaviour in which the accounts run, a loan staff pursue gets its number
\* (VirtualAccounts!EveryLoanNumbered).
EveryLoanNumbered == part = "accounts" => V!EveryLoanNumbered
\* In a behaviour in which the tab runs, every call ends, unless its refresh never
\* settles (ClientSession!CallsEnd).
CallsEnd == part = "client" => S!CallsEnd
=============================================================================
