----------------------------- MODULE ClientSession -----------------------------
(***************************************************************************)
(* The browser's half of a session: the auth store each tab has in memory,   *)
(* its copy in localStorage, and the axios interceptor that answers a 401 by *)
(* refreshing once, while the calls refused meanwhile wait in a queue.       *)
(*                                                                         *)
(* The server is what Sessions says of it, reduced to which tokens are good: *)
(* pair p is the access token and the refresh token issued together. A       *)
(* refresh is checked in one step and rotated in a later one.                *)
(***************************************************************************)
EXTENDS Integers, FiniteSets

CONSTANTS
  Tabs,      \* browser tabs
  Calls,     \* call slots of a tab: how many it may have in flight
  Users,     \* who may sign in
  MaxPairs,  \* bound: token pairs issued
  None       \* nobody

Pairs == 1 .. MaxPairs
NoPair == 0

VARIABLES
  owner,     \* server: [Pairs -> user it was issued to], None before that
  good,      \* server: the pairs whose refresh token is good
  fresh,     \* server: the pairs whose access token is good
  mem,       \* [Tabs -> the tab's auth store]
  storage,   \* what localStorage holds of it
  leaving,   \* the tabs that were told to load /login, and run on until they do
  call,      \* [Tabs -> [Calls -> call in flight]]
  leader,    \* [Tabs -> the call that refreshes], None when isRefreshing is false
  refresh,   \* [Tabs -> the refresh in flight]
  broken,    \* history: an answer was lost, or a logout and a refresh overlapped
  robbed,    \* history: a tab lost its session to a rotation
  crossed    \* history: a profile was asked for while a login was under way

server == <<owner, good, fresh>>
client == <<mem, storage, leaving>>
flight == <<call, leader, refresh>>
history == <<broken, robbed, crossed>>
vars == <<server, client, flight, history>>

-----------------------------------------------------------------------------
(* State *)

\* isAuthenticated is whether there is a user.
Auth == [user : Users \cup {None}, access : {NoPair} \cup Pairs, refresh : {NoPair} \cup Pairs]
SignedOut == [user |-> None, access |-> NoPair, refresh |-> NoPair]

\* A call in flight: the access token it carries, whether it is a retry, the
\* refresh token in the body of a logout, and the pair in the answer to a login.
Kinds == {"api", "me", "login", "logout"}
Call == [pc : {"idle", "sent", "queued", "waiting"}, kind : Kinds,
         access : {NoPair} \cup Pairs, retry : BOOLEAN, body : {NoPair} \cup Pairs]
NoCall == [pc |-> "idle", kind |-> "api", access |-> NoPair, retry |-> FALSE, body |-> NoPair]

Refresh == [pc : {"idle", "sent", "checked", "answered"}, old : {NoPair} \cup Pairs,
            new : {NoPair} \cup Pairs]
NoRefresh == [pc |-> "idle", old |-> NoPair, new |-> NoPair]

TypeOK ==
  /\ owner \in [Pairs -> Users \cup {None}]
  /\ good \subseteq Pairs /\ fresh \subseteq Pairs
  /\ \A p \in good \cup fresh : owner[p] # None
  /\ mem \in [Tabs -> Auth] /\ storage \in Auth
  /\ leaving \subseteq Tabs
  /\ call \in [Tabs -> [Calls -> Call]]
  /\ leader \in [Tabs -> Calls \cup {None}]
  /\ refresh \in [Tabs -> Refresh]
  /\ broken \in BOOLEAN /\ robbed \in BOOLEAN /\ crossed \in BOOLEAN
  /\ \A t \in Tabs : leader[t] # None <=> refresh[t].pc # "idle"
  /\ \A t \in Tabs, c \in Calls : call[t][c].pc = "waiting" <=> leader[t] = c

Init ==
  /\ owner = [p \in Pairs |-> None] /\ good = {} /\ fresh = {}
  /\ mem = [t \in Tabs |-> SignedOut] /\ storage = SignedOut /\ leaving = {}
  /\ call = [t \in Tabs |-> [c \in Calls |-> NoCall]]
  /\ leader = [t \in Tabs |-> None] /\ refresh = [t \in Tabs |-> NoRefresh]
  /\ broken = FALSE /\ robbed = FALSE /\ crossed = FALSE

-----------------------------------------------------------------------------
(* The store *)

\* Every write of the store is persisted; other tabs do not take it over.
SetStore(t, auth) == mem' = [mem EXCEPT ![t] = auth] /\ storage' = auth

SetTokensAccess(auth, p) == [auth EXCEPT !.access = p]   \* mutant: refresh token kept
SetTokens(auth, p) == [auth EXCEPT !.access = p, !.refresh = p]

\* logout: the tab is told to load the login page, unless it shows it already.
Logout(t) ==
  /\ SetStore(t, SignedOut)
  /\ leaving' = leaving \cup (IF mem[t].user = None THEN {} ELSE {t})

KeepClient == UNCHANGED client

\* Calls by their new state, the others as they are.
WithCalls(t, which, new(_)) ==
  [call EXCEPT ![t] = [c \in Calls |-> IF c \in which THEN new(call[t][c]) ELSE call[t][c]]]
InPC(t, pc) == {c \in Calls : call[t][c].pc = pc}
Ended(k) == NoCall

\* A call is sent with the token the store has now.
Sent(k, p) == [k EXCEPT !.pc = "sent", !.access = p]

Issue(p, u) ==
  /\ owner[p] = None /\ \A q \in Pairs : q < p => owner[q] # None
  /\ owner' = [owner EXCEPT ![p] = u]
  /\ fresh' = fresh \cup {p}

-----------------------------------------------------------------------------
(* What the user does *)

UnderWay(t, kind) == \E c \in Calls : call[t][c].pc # "idle" /\ call[t][c].kind = kind

\* While the profile is being fetched for the first time App shows a loading
\* screen and no login form.
LoadingAlways(t) == FALSE                                   \* mutant: no loading screen
Loading(t) == UnderWay(t, "me")

Body(t) == mem[t].refresh

\* A page calls the API; App asks for /auth/me when there is a token, on mount
\* and on focus; the login form is sent by who is not signed in; UserMenu logs
\* out with the refresh token of the moment.
Send(t, c, kind) ==
  /\ call[t][c].pc = "idle" /\ t \notin leaving
  /\ \/ kind = "me" /\ mem[t].access # NoPair /\ ~UnderWay(t, "me")
     \/ kind = "login" /\ mem[t].user = None /\ ~Loading(t) /\ ~UnderWay(t, "login")
     \/ kind = "logout" /\ mem[t].user # None /\ ~UnderWay(t, "logout")
     \/ kind = "api" /\ mem[t].user # None
  /\ call' = [call EXCEPT ![t][c] =
       [NoCall EXCEPT !.pc = "sent", !.kind = kind, !.access = mem[t].access,
                      !.body = IF kind = "logout" THEN Body(t) ELSE NoPair]]
  /\ crossed' = (crossed \/ (kind = "me" /\ UnderWay(t, "login")))
  /\ UNCHANGED <<server, client, leader, refresh, broken, robbed>>

\* The server lets a login in: from here on the session is open, though the tab
\* does not know yet.
Granted(k) == k.kind = "login" /\ k.body # NoPair

Grant(t, c, u) ==
  /\ call[t][c].pc = "sent" /\ call[t][c].kind = "login" /\ ~Granted(call[t][c])
  /\ \E p \in Pairs :
       /\ Issue(p, u)
       /\ good' = good \cup {p}
       /\ call' = [call EXCEPT ![t][c].body = p]
  /\ UNCHANGED <<client, leader, refresh, history>>

\* The tab loads: what was in flight is gone, the store is read from localStorage.
Load(t) ==
  /\ leaving' = leaving \ {t}
  /\ mem' = [mem EXCEPT ![t] = storage]
  /\ call' = [call EXCEPT ![t] = [c \in Calls |-> NoCall]]
  /\ leader' = [leader EXCEPT ![t] = None]
  /\ refresh' = [refresh EXCEPT ![t] = NoRefresh]
  /\ broken' = (broken \/ refresh[t].pc # "idle" \/ \E c \in Calls : Granted(call[t][c]))
  /\ UNCHANGED <<server, storage, robbed, crossed>>

Unload(t) == t \in leaving /\ Load(t)
Reload(t) == t \notin leaving /\ Load(t)

-----------------------------------------------------------------------------
(* Answers, and the response interceptor *)

\* A call succeeds. App puts the profile beside the tokens the store has by now;
\* LoginPage stores user and tokens of its answer, whatever the store has;
\* UserMenu logs out whatever came of its call.
MeUser(k) == owner[k.access]

Succeeds(t, c) ==
  LET k == call[t][c]
  IN  /\ k.pc = "sent" /\ (k.kind = "login" \/ k.access \in fresh)
      /\ call' = [call EXCEPT ![t][c] = NoCall]
      /\ \/ k.kind = "api" /\ KeepClient /\ UNCHANGED good
         \/ /\ k.kind = "me"
            /\ SetStore(t, [mem[t] EXCEPT !.user = MeUser(k)])
            /\ UNCHANGED <<leaving, good>>
         \/ /\ Granted(k)
            /\ SetStore(t, [user |-> owner[k.body], access |-> k.body, refresh |-> k.body])
            /\ UNCHANGED <<leaving, good>>
         \/ k.kind = "logout" /\ Logout(t) /\ good' = good \ {k.body}
      /\ broken' = (broken \/ (k.kind = "logout" /\ refresh[t].pc # "idle"))
      /\ UNCHANGED <<owner, fresh, leader, refresh, robbed, crossed>>

\* The caller gets an error: any failure that is no 401, or a 401 of a retry. The
\* session of a login that was granted stays, known to nobody.
Rejected(t, c) ==
  LET k == call[t][c]
  IN  /\ k.pc = "sent"
      /\ call' = [call EXCEPT ![t][c] = NoCall]
      /\ IF k.kind = "logout" THEN Logout(t) ELSE KeepClient
      /\ broken' = (broken \/ k.kind = "logout" \/ Granted(k))
      /\ UNCHANGED <<server, leader, refresh, robbed, crossed>>

RefreshingUnseen(t) == FALSE         \* mutant: every 401 refreshes
Refreshing(t) == leader[t] # None

\* A 401 of a first try, of a wrong password too: no token, logout; a refresh in
\* flight, wait; else refresh.
Unauthorized(t, c) ==
  LET k == call[t][c]
  IN  /\ k.pc = "sent" /\ ~k.retry
      /\ IF k.kind = "login" THEN ~Granted(k) ELSE k.access \notin fresh
      /\ \/ /\ mem[t].refresh = NoPair
            /\ call' = [call EXCEPT ![t][c] = NoCall]
            /\ Logout(t)
            /\ UNCHANGED <<leader, refresh>>
         \/ /\ mem[t].refresh # NoPair /\ Refreshing(t)
            /\ call' = [call EXCEPT ![t][c].pc = "queued"]
            /\ KeepClient /\ UNCHANGED <<leader, refresh>>
         \/ /\ mem[t].refresh # NoPair /\ ~Refreshing(t)
            /\ call' = [call EXCEPT ![t][c].pc = "waiting", ![t][c].retry = TRUE]
            /\ leader' = [leader EXCEPT ![t] = c]
            /\ refresh' = [refresh EXCEPT ![t] =
                 [pc |-> "sent", old |-> mem[t].refresh, new |-> NoPair]]
            /\ KeepClient
      /\ UNCHANGED <<server, history>>

-----------------------------------------------------------------------------
(* The refresh *)

RefreshCheck(t) ==
  /\ refresh[t].pc = "sent" /\ refresh[t].old \in good
  /\ refresh' = [refresh EXCEPT ![t].pc = "checked"]
  /\ UNCHANGED <<server, client, call, leader, history>>

RefreshRotate(t) ==
  LET old == refresh[t].old
  IN  /\ refresh[t].pc = "checked"
      /\ \E p \in Pairs :
           /\ Issue(p, owner[old])
           /\ good' = (good \ {old}) \cup {p}
           /\ refresh' = [refresh EXCEPT ![t].pc = "answered", ![t].new = p]
      /\ UNCHANGED <<client, call, leader, history>>

\* The calls sent again with the new token: the leader's and the queue's.
ReleasedLeader(t) == InPC(t, "waiting")              \* mutant: the queue is left
Released(t) == InPC(t, "queued") \cup InPC(t, "waiting")

\* setTokens, then processQueue and the leader send their calls again.
RefreshOk(t) ==
  LET p == refresh[t].new
      Again(k) == Sent(k, p)
  IN  /\ refresh[t].pc = "answered"
      /\ SetStore(t, SetTokens(mem[t], p))
      /\ broken' = (broken \/ \E c \in Calls : call[t][c].pc # "idle" /\ call[t][c].kind = "logout")
      /\ call' = WithCalls(t, Released(t), Again)
      /\ leader' = [leader EXCEPT ![t] = None]
      /\ refresh' = [refresh EXCEPT ![t] = NoRefresh]
      /\ UNCHANGED <<server, leaving, robbed, crossed>>

\* The calls that processQueue rejects when the refresh has failed.
QueueOf(t) == InPC(t, "queued")

\* The token is not good any more, or the call fails or times out.
RefreshFails(t) ==
  /\ \/ refresh[t].pc = "sent" /\ refresh[t].old \notin good /\ UNCHANGED broken
     \/ refresh[t].pc # "idle" /\ broken' = TRUE
  /\ robbed' = (robbed \/ (refresh[t].pc = "sent" /\ refresh[t].old \notin good
                           /\ \E p \in good : p > refresh[t].old /\ owner[p] = owner[refresh[t].old]))
  /\ call' = WithCalls(t, QueueOf(t) \cup InPC(t, "waiting"), Ended)
  /\ Logout(t)
  /\ leader' = [leader EXCEPT ![t] = None]
  /\ refresh' = [refresh EXCEPT ![t] = NoRefresh]
  /\ UNCHANGED <<server, crossed>>

-----------------------------------------------------------------------------
(* The server on its own *)

AccessExpires(p) ==
  /\ p \in fresh /\ fresh' = fresh \ {p}
  /\ UNCHANGED <<owner, good, client, flight, history>>

\* The session ends: expiry, a changed password, logout-all.
SessionEnds(u) ==
  /\ \E p \in good : owner[p] = u
  /\ good' = {p \in good : owner[p] # u}
  /\ UNCHANGED <<owner, fresh, client, flight, history>>

-----------------------------------------------------------------------------
(* Specification *)

Answer(t, c) == Succeeds(t, c) \/ Rejected(t, c) \/ Unauthorized(t, c)
RefreshStep(t) == RefreshCheck(t) \/ RefreshRotate(t) \/ RefreshOk(t) \/ RefreshFails(t)

Next ==
  \/ \E t \in Tabs :
       \/ \E c \in Calls :
            \/ \E kind \in Kinds : Send(t, c, kind)
            \/ \E u \in Users : Grant(t, c, u)
            \/ Answer(t, c)
       \/ RefreshStep(t) \/ Unload(t) \/ Reload(t)
  \/ \E p \in Pairs : AccessExpires(p)
  \/ \E u \in Users : SessionEnds(u)

Spec == Init /\ [][Next]_vars

\* Every call is answered or times out, and a tab told to load does. The refresh
\* itself is sent without a timeout: nothing says that it ever settles.
Fairness ==
  \A t \in Tabs :
    /\ \A c \in Calls : WF_vars(Answer(t, c))
    /\ WF_vars(Unload(t))

FairSpec == Spec /\ Fairness

-----------------------------------------------------------------------------
(* Properties *)

\* The user a tab shows is the one its tokens were issued to, though the profile
\* is put beside whatever tokens the store has when it arrives (App.tsx:26), and a
\* login replaces all of them; unless a profile was asked for while a login was
\* under way (LoginPage.tsx:35).
UserOwnsTokens ==
  crossed \/ \A t \in Tabs :
    mem[t].user # None /\ mem[t].access # NoPair => owner[mem[t].access] = mem[t].user

\* In one tab, a refresh never finds its token used up by an earlier refresh of
\* the same session (lib/axios.ts:49).
NotRobbed == ~robbed \/ broken

\* In one tab, and unless an answer was lost or a logout and a refresh of the
\* tokens overlapped, a session the server keeps open is one the browser holds or is being
\* given: signing out leaves none behind (UserMenu.tsx:24).
NoOrphans ==
  broken \/ \A p \in good :
    \/ storage.refresh = p
    \/ \E t \in Tabs : \/ mem[t].refresh = p \/ refresh[t].new = p \/ refresh[t].old = p
                      \/ \E c \in Calls : Granted(call[t][c]) /\ call[t][c].body = p

\* Every call comes to an end (lib/axios.ts:36), unless a refresh of its tab never
\* does (lib/axios.ts:62).
CallsEnd ==
  \A t \in Tabs, c \in Calls :
    \/ call[t][c].pc # "idle" ~> call[t][c].pc = "idle"
    \/ <>[](refresh[t].pc # "idle")
=============================================================================
