-------------------------------- MODULE MCSignIn --------------------------------
(* Instances for TLC of the two halves of signing in: the account on the server *)
(* under three loads, and the tabs of a browser. In each behaviour one of the   *)
(* two runs.                                                                    *)
EXTENDS Sessions, TLC

CONSTANTS
  Tabs, Calls, Users, MaxPairs, None  \* of ClientSession

\* Nobody is no user, and no refresh is led by nobody.
ASSUME NamesApart == None \notin Users /\ None \notin Calls /\ MaxPairs \in Nat

VARIABLES
  load,   \* what runs: "alone", "races" or "lockout" for the account, or "tabs"
  open,   \* the tabs that are open
  owner, good, fresh, mem, storage, leaving, call, leader, refreshing, broken, robbed, crossed

browser == <<owner, good, fresh, mem, storage, leaving, call, leader, refreshing, broken, robbed, crossed>>

B == INSTANCE ClientSession WITH refresh <- refreshing

Busy == {r \in Requests : req[r].pc # "idle"}
AccountLone == load = "alone" => \A r, q \in Busy : r = q
OneTab == \E t \in Tabs : open = {t}
OpenTabsOnly == \A t \in Tabs \ open : mem'[t] = mem[t] /\ call'[t] = call[t]

SignInInit ==
  /\ load \in {"alone", "races", "lockout", "tabs"}
  /\ open \in IF load = "tabs" THEN SUBSET Tabs \ {{}} ELSE {{}}
  /\ Init /\ B!Init
SignInNext ==
  /\ UNCHANGED <<load, open>>
  /\ \/ load # "tabs" /\ Next /\ AccountLone' /\ UNCHANGED browser
     \/ load = "tabs" /\ B!Next /\ OpenTabsOnly /\ UNCHANGED vars

SignInSpec == SignInInit /\ [][SignInNext]_<<load, open, vars, browser>>

-----------------------------------------------------------------------------
(* Bounds of the exploration, no part of the specification *)

\* "alone": one request at a time, which knows the password. "races": two,
\* with one change of the password and one code of each kind. "lockout": logins
\* and what the administrator does, two at a time, with one token.
AccountBound ==
  /\ load # "lockout" => \A r \in Busy : req[r].pc # "wrong" /\ req[r].op = "none"
  /\ load # "alone" => version <= 2 /\ reset[2] = "none" /\ otp[2] = "none"
  /\ load = "lockout" =>
       /\ \A r \in Busy : req[r].kind \in {"login", "admin"}
       /\ refresh[2] = "none"

\* One tab has all its calls in flight; each of several has one, and the last pair
\* is not issued.
TabsBound ==
  load = "tabs" /\ ~OneTab =>
    /\ \A t \in Tabs, c, d \in Calls : call[t][c].pc # "idle" /\ call[t][d].pc # "idle" => c = d
    /\ owner[MaxPairs] = None

\* The slots, the same for requests and calls, are interchangeable, and so are users and tabs.
Interchangeable == Permutations(Requests) \cup Permutations(Users) \cup Permutations(Tabs)

-----------------------------------------------------------------------------
\* With one request at a time, every live session is of the present password, a
\* login has one live refresh token, one link and one code are good, and each
\* changes the password once (Sessions!SessionsFollowPassword, OneLivePerLogin,
\* OneGoodCode, CodesAreUsedOnce).
AloneAccountInOrder ==
  load = "alone" => SessionsFollowPassword /\ OneLivePerLogin /\ OneGoodCode /\ CodesAreUsedOnce
\* The user a tab shows is the owner of its tokens; and a single tab never loses its
\* session to a rotation of its own, and leaves none behind when it signs out
\* (ClientSession!UserOwnsTokens, NotRobbed, NoOrphans).
TabsInOrder ==
  /\ B!UserOwnsTokens
  /\ OneTab => B!NotRobbed /\ B!NoOrphans
=============================================================================
