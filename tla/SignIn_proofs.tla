----------------------------- MODULE SignIn_proofs -------------------------------
(***************************************************************************)
(* What Sessions promises for any number of requests, tokens, codes and     *)
(* passwords, and any limit of failures: type correctness; that the sessions *)
(* there were end with a new password, unless the change died before its    *)
(* last call; and that no account locks before the limit was reached.       *)
(***************************************************************************)
EXTENDS MCSignIn, TLAPS

-----------------------------------------------------------------------------
(* The inductive invariant. A handler that is about to insert a token knows a  *)
(* login that was inserted before; one that is about to count a failure read  *)
(* a count that is below the failures there were.                             *)

\* What handler h holds, when the tokens are rows and n passwords were tried.
HandlerOK(h, rows, n) ==
  /\ h.pc = "wrong" => h.count < n
  /\ h.pc = "welcome" => h.kind = "login"
  /\ h.pc = "rotate" => h.kind = "refresh" /\ h.id \in Tokens /\ rows[h.id] # "none"
  /\ h.pc = "issue" => \/ h.kind = "login"
                       \/ /\ h.kind = "refresh" /\ h.origin.login \in Tokens
                          /\ rows[h.origin.login] # "none"
  /\ h.pc \in {"useReset", "findOtp", "useOtp"} => h.id \in Codes
  /\ h.pc = "adminWrite" => h.op # "none"

AccountInv ==
  /\ status \in UserStatus /\ deleted \in BOOLEAN /\ lockedUntil \in BOOLEAN
  /\ failed \in 0 .. MaxTried /\ version \in Versions
  /\ tried \in 0 .. MaxTried /\ byAdmin \in BOOLEAN /\ cut \in BOOLEAN
  /\ failed <= tried
  /\ LockedForCause

\* Tokens are inserted in order, and go back to a login that was.
TokensInv ==
  /\ refresh \in [Tokens -> Validity] /\ session \in [Tokens -> Origin]
  /\ \A t \in Tokens : IF refresh[t] = "none" THEN session[t] = NoOrigin
                                             ELSE session[t].login \in 1 .. t
  /\ \A t, u \in Tokens : refresh[t] # "none" /\ u < t => refresh[u] # "none"

CodesInv ==
  /\ reset \in [Codes -> Validity] /\ otp \in [Codes -> Validity]
  /\ changes \in [{"reset", "otp"} \X Codes -> 0 .. MaxVersions]
  /\ \A c \in {"reset", "otp"} \X Codes : changes[c] < version

HandlersInv ==
  /\ req \in [Requests -> Handler]
  /\ \A r \in Requests : HandlerOK(req[r], refresh, tried)

IInv == AccountInv /\ TokensInv /\ CodesInv /\ HandlersInv /\ EstablishedSessionsEnd

-----------------------------------------------------------------------------
(* What steps have in common *)

\* One handler moves on, and what the others hold stays true: a token that is
\* there stays, and no failure is taken back.
LEMMA HandlersKeep ==
  ASSUME HandlersInv, NEW r \in Requests, NEW h \in Handler, req' = [req EXCEPT ![r] = h],
         HandlerOK(h, refresh', tried'), AccountInv, AccountInv', tried <= tried',
         \A t \in Tokens : refresh[t] # "none" => refresh'[t] # "none"
  PROVE  HandlersInv'
<1>1. \A q \in Requests : HandlerOK(req[q], refresh', tried')
  BY DEF HandlersInv, HandlerOK, AccountInv, Handler
<1>2. \A q \in Requests : HandlerOK(req'[q], refresh', tried')
  BY <1>1 DEF HandlersInv
<1> QED
  BY <1>2 DEF HandlersInv, HandlerOK

\* As long as nobody finished revoking, and no session became alive, those that are
\* alive are excused or of the password there is.
LEMMA SessionsKeep ==
  ASSUME HandlersInv, EstablishedSessionsEnd, NEW r \in Requests, NEW h \in Handler,
         req' = [req EXCEPT ![r] = h], req[r].pc # "revokeAll" \/ cut', cut => cut',
         version' = version, session' = session, Live' \subseteq Live
  PROVE  EstablishedSessionsEnd'
<1>1. Revoking => Revoking'
  BY DEF Revoking, HandlersInv
<1> QED
  BY <1>1 DEF EstablishedSessionsEnd

\* A step that changes one handler and the codes.
LEMMA QuietInv ==
  ASSUME IInv, NEW r \in Requests, NEW h \in Handler, req' = [req EXCEPT ![r] = h],
         HandlerOK(h, refresh, tried), req[r].pc # "revokeAll",
         UNCHANGED <<account, tokens, history>>,
         reset' \in [Codes -> Validity], otp' \in [Codes -> Validity]
  PROVE  IInv'
<1> USE DEF IInv, account, tokens, history
<1>1. AccountInv' /\ TokensInv' /\ CodesInv'
  BY DEF AccountInv, LockedForCause, TokensInv, CodesInv
<1>2. refresh' = refresh /\ tried' = tried /\ tried <= tried' /\ HandlerOK(h, refresh', tried')
  BY DEF AccountInv
<1>3. HandlersInv'
  BY <1>1, <1>2, HandlersKeep
<1>4. EstablishedSessionsEnd'
  BY SessionsKeep DEF Live
<1> QED
  BY <1>1, <1>3, <1>4

\* The handler of a free slot.
LEMMA IdleOK == Idle \in Handler /\ HandlerOK(Idle, refresh, tried) /\ HandlerOK(Idle, refresh', tried')
BY BoundsAssumption DEF Idle, Handler, PC, Kinds, NoOrigin, Origin, AdminOps, HandlerOK

\* A request begins.
LEMMA BeginInv ==
  ASSUME IInv, NEW r \in Requests, NEW kind \in Kinds, NEW pc \in PC, NEW id,
         id \in {0} \cup Tokens \cup Codes, Begin(r, kind, pc, id),
         \/ pc \in {"createReset", "cleanOtp", "setPassword"}
         \/ pc \in {"useReset", "findOtp"} /\ id \in Codes
         \/ pc = "rotate" /\ kind = "refresh" /\ id \in Tokens /\ refresh[id] # "none",
         UNCHANGED <<account, tokens, history>>,
         reset' \in [Codes -> Validity], otp' \in [Codes -> Validity]
  PROVE  IInv'
<1> DEFINE h == [Idle EXCEPT !.kind = kind, !.pc = pc, !.id = id]
<1>1. h \in Handler
  BY IdleOK DEF Handler
<1>2. HandlerOK(h, refresh, tried)
  BY DEF HandlerOK, Idle
<1>3. req' = [req EXCEPT ![r] = h] /\ req[r].pc # "revokeAll"
  BY DEF Begin
<1> QED
  BY <1>1, <1>2, <1>3, QuietInv

\* A request goes on to a call that needs nothing it does not have.
LEMMA GoInv ==
  ASSUME IInv, NEW r \in Requests, NEW pc \in PC, Go(r, pc),
         pc \in {"createOtp", "setPassword"} \/ (pc = "useOtp" /\ req[r].pc = "findOtp"),
         req[r].pc # "revokeAll", UNCHANGED <<account, tokens, history>>,
         reset' \in [Codes -> Validity], otp' \in [Codes -> Validity]
  PROVE  IInv'
<1> DEFINE h == [req[r] EXCEPT !.pc = pc]
<1>1. h \in Handler
  BY DEF IInv, HandlersInv, Handler
<1>2. HandlerOK(h, refresh, tried)
  BY DEF IInv, HandlersInv, HandlerOK, Handler
<1>3. req' = [req EXCEPT ![r] = h]
  BY DEF Go, IInv, HandlersInv
<1> QED
  BY <1>1, <1>2, <1>3, QuietInv

\* A request ends, having changed no more than the codes.
LEMMA FinishInv ==
  ASSUME IInv, NEW r \in Requests, Finish(r), req[r].pc # "revokeAll",
         UNCHANGED <<account, tokens, history>>,
         reset' \in [Codes -> Validity], otp' \in [Codes -> Validity]
  PROVE  IInv'
BY IdleOK, QuietInv DEF Finish

-----------------------------------------------------------------------------
(* The steps that touch neither the account nor the tokens *)

LEMMA SpentOK ==
  ASSUME NEW S, NEW rows \in [S -> Validity]
  PROVE  /\ Spent(rows) \in [S -> Validity]
         /\ \A k \in S : Spent(rows)[k] # "good" /\ (rows[k] # "none" <=> Spent(rows)[k] # "none")
BY DEF Spent, Validity

LEMMA CodeEndpointsInv ==
  ASSUME IInv, NEW r \in Requests,
         \/ ForgotPassword(r) \/ ChangePassword(r) \/ RequestOtp(r) \/ AdminResetPassword(r)
         \/ \E k \in Codes : ResetPassword(r, k) \/ ChangePasswordWithOtp(r, k)
         \/ \E t \in Tokens : RefreshTokens(r, t)
  PROVE  IInv'
<1> USE DEF Kinds, PC
<1>0. reset \in [Codes -> Validity] /\ otp \in [Codes -> Validity]
  BY DEF IInv, CodesInv
<1>1. CASE ForgotPassword(r)
  BY <1>0, <1>1, BeginInv, SpentOK DEF ForgotPassword
<1>2. CASE ChangePassword(r)
  BY <1>0, <1>2, BeginInv DEF ChangePassword, codes
<1>3. CASE RequestOtp(r)
  BY <1>0, <1>3, BeginInv DEF RequestOtp, codes
<1>4. CASE AdminResetPassword(r)
  BY <1>0, <1>4, BeginInv DEF AdminResetPassword, codes
<1>5. ASSUME NEW k \in Codes, ResetPassword(r, k) PROVE IInv'
  BY <1>0, <1>5, BeginInv DEF ResetPassword, codes
<1>6. ASSUME NEW k \in Codes, ChangePasswordWithOtp(r, k) PROVE IInv'
  BY <1>0, <1>6, BeginInv DEF ChangePasswordWithOtp, codes
<1>7. ASSUME NEW t \in Tokens, RefreshTokens(r, t) PROVE IInv'
  BY <1>0, <1>7, BeginInv DEF RefreshTokens, codes
<1> QED
  BY <1>1, <1>2, <1>3, <1>4, <1>5, <1>6, <1>7

LEMMA CodeStepsInv ==
  ASSUME IInv, NEW r \in Requests,
         CreateReset(r) \/ UseReset(r) \/ CleanOtp(r) \/ CreateOtp(r) \/ FindOtp(r) \/ UseOtp(r)
  PROVE  IInv'
<1> USE DEF PC
<1>0. reset \in [Codes -> Validity] /\ otp \in [Codes -> Validity]
  BY DEF IInv, CodesInv
<1>1. CASE CreateReset(r)
  BY <1>0, <1>1, FinishInv DEF CreateReset, Validity
<1>2. CASE UseReset(r)
  BY <1>0, <1>2, GoInv DEF UseReset, UseResetOn, Validity
<1>3. CASE CleanOtp(r)
  BY <1>0, <1>3, GoInv DEF CleanOtp, Validity
<1>4. CASE CreateOtp(r)
  BY <1>0, <1>4, FinishInv DEF CreateOtp, Validity
<1>5. CASE FindOtp(r)
  BY <1>0, <1>5, GoInv, FinishInv DEF FindOtp, codes
<1>6. CASE UseOtp(r)
  BY <1>0, <1>6, GoInv, FinishInv DEF UseOtp, UseOtpOn, Validity
<1> QED
  BY <1>1, <1>2, <1>3, <1>4, <1>5, <1>6

LEMMA AdministerInv ==
  ASSUME IInv, NEW r \in Requests, NEW op \in AdminOps \ {"none"}, Administer(r, op)
  PROVE  IInv'
<1> DEFINE h == [Idle EXCEPT !.kind = "admin", !.pc = "adminWrite", !.op = op]
<1>1. h \in Handler
  BY IdleOK DEF Handler, Kinds, PC
<1>2. HandlerOK(h, refresh, tried)
  BY DEF HandlerOK, Idle
<1>3. /\ req' = [req EXCEPT ![r] = h] /\ req[r].pc # "revokeAll"
      /\ UNCHANGED <<account, tokens, history>>
      /\ reset' \in [Codes -> Validity] /\ otp' \in [Codes -> Validity]
  BY DEF Administer, codes, IInv, CodesInv
<1> QED
  BY <1>1, <1>2, <1>3, QuietInv

-----------------------------------------------------------------------------
(* Logging in *)

\* A step of one handler that leaves tokens and codes alone.
LEMMA AccountStepInv ==
  ASSUME IInv, NEW r \in Requests, NEW h \in Handler, req' = [req EXCEPT ![r] = h],
         HandlerOK(h, refresh, tried'), req[r].pc # "revokeAll", AccountInv', tried <= tried',
         version' = version, cut' = cut, changes' = changes, UNCHANGED <<tokens, codes>>
  PROVE  IInv'
<1> USE DEF IInv, tokens, codes
<1>1. TokensInv' /\ CodesInv'
  BY DEF TokensInv, CodesInv
<1>2. HandlersInv'
  BY HandlersKeep
<1>3. EstablishedSessionsEnd'
  BY SessionsKeep DEF Live
<1> QED
  BY <1>1, <1>2, <1>3

LEMMA LoginInv ==
  ASSUME IInv, NEW r \in Requests, NEW password \in 0 .. version, Login(r, password)
  PROVE  IInv'
<1> USE DEF IInv, AccountInv
<1>1. CASE password = version /\ UNCHANGED tried
  <2> DEFINE h == [Idle EXCEPT !.kind = "login", !.count = failed, !.origin.password = password,
                               !.pc = IF failed > 0 THEN "welcome" ELSE "issue"]
  <2>1. h \in Handler
    BY IdleOK, <1>1 DEF Handler, Kinds, PC, Origin
  <2>2. HandlerOK(h, refresh, tried')
    BY DEF HandlerOK, Idle
  <2>3. req' = [req EXCEPT ![r] = h]
    BY <1>1 DEF Login
  <2>4. UNCHANGED <<account, byAdmin, cut>> /\ tried' = tried
    BY <1>1 DEF Login
  <2>5. LockedForCause'
    BY <2>4 DEF IInv, AccountInv, LockedForCause, account
  <2>6. AccountInv' /\ tried <= tried'
    BY <2>4, <2>5 DEF IInv, AccountInv, account
  <2> QED
    BY <1>1, <2>1, <2>2, <2>3, <2>6, AccountStepInv DEF Login, account
<1>2. CASE password # version /\ tried < MaxTried /\ tried' = tried + 1
  <2> DEFINE h == [Idle EXCEPT !.kind = "login", !.count = failed, !.pc = "wrong"]
  <2>1. h \in Handler
    BY IdleOK DEF Handler, Kinds, PC
  <2>2. HandlerOK(h, refresh, tried')
    BY <1>2, BoundsAssumption DEF HandlerOK, Idle
  <2>3. req' = [req EXCEPT ![r] = h]
    BY <1>2 DEF Login
  <2>4. UNCHANGED <<account, byAdmin, cut>>
    BY <1>2 DEF Login
  <2>5. LockedForCause'
    BY <1>2, <2>4, BoundsAssumption DEF LockedForCause, account
  <2>6. AccountInv' /\ tried <= tried'
    BY <1>2, <2>4, <2>5, BoundsAssumption DEF account
  <2> QED
    BY <2>1, <2>2, <2>3, <2>4, <2>6, AccountStepInv DEF Login, account
<1> QED
  BY <1>1, <1>2 DEF Login

LEMMA FailedWriteInv ==
  ASSUME IInv, NEW r \in Requests, FailedWrite(r)
  PROVE  IInv'
<1>1. req[r].count \in 0 .. MaxTried /\ req[r].count < tried
  BY DEF IInv, HandlersInv, HandlerOK, Handler, FailedWrite
<1>2. LockedForCause'
  <2>1. CASE ShouldLock(req[r].count + 1)
    BY <1>1, <2>1, BoundsAssumption DEF IInv, AccountInv, LockedForCause, FailedWrite, ShouldLock
  <2>2. CASE ~ShouldLock(req[r].count + 1)
    BY <2>2 DEF IInv, AccountInv, LockedForCause, FailedWrite
  <2> QED
    BY <2>1, <2>2
<1>3. /\ failed' = req[r].count + 1 /\ status' \in UserStatus
      /\ lockedUntil' \in BOOLEAN /\ byAdmin' \in BOOLEAN
      /\ UNCHANGED <<deleted, version, tokens, codes, changes, tried, cut>>
  BY DEF IInv, AccountInv, FailedWrite, UserStatus
<1>4. AccountInv' /\ tried <= tried'
  BY <1>1, <1>2, <1>3, BoundsAssumption DEF IInv, AccountInv
<1> QED
  BY <1>3, <1>4, IdleOK, AccountStepInv DEF FailedWrite, Finish

LEMMA ClearFailuresInv ==
  ASSUME IInv, NEW r \in Requests, ClearFailures(r)
  PROVE  IInv'
<1> DEFINE h == [req[r] EXCEPT !.pc = "issue"]
<1>1. h \in Handler /\ HandlerOK(h, refresh, tried)
  BY DEF IInv, HandlersInv, HandlerOK, Handler, ClearFailures, PC
<1>2. /\ failed' = 0 /\ lockedUntil' = FALSE
      /\ UNCHANGED <<status, deleted, version, tokens, codes, changes, tried, byAdmin, cut>>
  BY DEF ClearFailures, history
<1>3. LockedForCause'
  BY <1>2 DEF IInv, AccountInv, LockedForCause
<1>4. lockedUntil' \in BOOLEAN
  BY <1>2
<1>5. failed' \in 0 .. MaxTried /\ failed' <= tried' /\ tried <= tried'
  BY <1>2, BoundsAssumption DEF IInv, AccountInv
<1>6. AccountInv'
  BY <1>2, <1>3, <1>4, <1>5 DEF IInv, AccountInv
<1>7. req' = [req EXCEPT ![r] = h]
  BY DEF ClearFailures, Go, IInv, HandlersInv
<1> QED
  BY <1>1, <1>2, <1>5, <1>6, <1>7, AccountStepInv DEF ClearFailures

\* What the administrator writes is a status.
LEMMA AdminWriteInv ==
  ASSUME IInv, NEW r \in Requests, AdminWrite(r)
  PROVE  IInv'
<1>1. req[r].op \in AdminOps \ {"none"}
  BY DEF IInv, HandlersInv, HandlerOK, Handler, AdminWrite
<1>2. status' \in UserStatus
  BY <1>1 DEF AdminWrite, AdminStatus, AdminOps, UserStatus
<1>3. /\ byAdmin' = TRUE /\ failed' \in {0, failed}
      /\ UNCHANGED <<version, tokens, codes, changes, tried, cut>>
  BY DEF AdminWrite
<1>4. deleted' \in BOOLEAN
  BY DEF AdminWrite, IInv, AccountInv
<1>5. lockedUntil' \in BOOLEAN
  BY Zenon DEF AdminWrite
<1>6. LockedForCause'
  BY <1>3 DEF LockedForCause
<1>7. AccountInv' /\ tried <= tried'
  BY <1>2, <1>3, <1>4, <1>5, <1>6, BoundsAssumption DEF IInv, AccountInv
<1> QED
  BY <1>3, <1>7, IdleOK, AccountStepInv DEF AdminWrite, Finish

-----------------------------------------------------------------------------
(* Tokens *)

\* Tokens of which more may be spent: whether a row is there does not change.
LEMMA FewerAlive ==
  ASSUME IInv, session' = session, refresh' \in [Tokens -> Validity],
         \A t \in Tokens : /\ refresh'[t] # "none" <=> refresh[t] # "none"
                           /\ refresh'[t] = "good" => refresh[t] = "good"
  PROVE  TokensInv' /\ Live' \subseteq Live
BY DEF IInv, TokensInv, Live

\* Nothing but the tokens changes.
LEMMA TokensOnlyInv ==
  ASSUME IInv, UNCHANGED <<account, session, codes, history, req>>, refresh' \in [Tokens -> Validity],
         \A t \in Tokens : /\ refresh'[t] # "none" <=> refresh[t] # "none"
                           /\ refresh'[t] = "good" => refresh[t] = "good"
  PROVE  IInv'
<1> USE DEF IInv, account, codes, history
<1>1. TokensInv' /\ Live' \subseteq Live
  BY FewerAlive
<1>2. AccountInv' /\ CodesInv'
  BY DEF AccountInv, LockedForCause, CodesInv
<1>3. HandlersInv'
  BY DEF HandlersInv, HandlerOK
<1>4. EstablishedSessionsEnd'
  BY <1>1 DEF EstablishedSessionsEnd, Revoking
<1> QED
  BY <1>1, <1>2, <1>3, <1>4

LEMMA LogoutInv ==
  ASSUME IInv, LogoutAll \/ \E t \in Tokens : Logout(t) \/ TokenExpires(t)
  PROVE  IInv'
<1>0. refresh \in [Tokens -> Validity]
  BY DEF IInv, TokensInv
<1>1. CASE LogoutAll
  <2>1. refresh' = Spent(refresh)
    BY <1>1 DEF LogoutAll, RevokeSessions
  <2> QED
    BY <1>0, <1>1, <2>1, SpentOK, TokensOnlyInv DEF LogoutAll
<1>2. ASSUME NEW t \in Tokens, Logout(t) \/ TokenExpires(t) PROVE IInv'
  <2>1. /\ refresh[t] = "good" /\ refresh' = [refresh EXCEPT ![t] = "spent"]
        /\ UNCHANGED <<account, session, codes, history, req>>
    BY <1>2 DEF Logout, TokenExpires
  <2> QED
    BY <1>0, <2>1, TokensOnlyInv DEF Validity
<1> QED
  BY <1>1, <1>2

\* The token that was found good is spent, whatever it is by now; the next one
\* goes back to the same login.
LEMMA RotateWriteInv ==
  ASSUME IInv, NEW r \in Requests, RotateWrite(r)
  PROVE  IInv'
<1> DEFINE t == req[r].id
           h == [req[r] EXCEPT !.pc = "issue", !.origin = session[t]]
<1>1. /\ t \in Tokens /\ refresh[t] # "none" /\ req[r].kind = "refresh" /\ req[r] \in Handler
      /\ refresh \in [Tokens -> Validity] /\ session[t] \in Origin /\ session[t].login \in 1 .. t
  BY DEF IInv, HandlersInv, HandlerOK, TokensInv, RotateWrite
<1>2. refresh' = [refresh EXCEPT ![t] = "spent"] /\ UNCHANGED <<account, session, codes, history>>
  BY DEF RotateWrite, Rotated
<1>3. TokensInv' /\ Live' \subseteq Live
  BY <1>1, <1>2, FewerAlive DEF Validity
<1>4. h \in Handler
  BY <1>1 DEF Handler, PC
<1>5. session[t].login \in Tokens /\ refresh[session[t].login] # "none"
  BY <1>1, BoundsAssumption DEF IInv, TokensInv, Tokens
<1>6. HandlerOK(h, refresh', tried')
  BY <1>1, <1>2, <1>5 DEF HandlerOK, Handler
<1>7. AccountInv' /\ CodesInv' /\ tried' = tried /\ tried <= tried'
  BY <1>2 DEF IInv, AccountInv, LockedForCause, CodesInv, account, codes, history
<1>8. req' = [req EXCEPT ![r] = h] /\ req[r].pc # "revokeAll"
  BY DEF RotateWrite, IInv, HandlersInv
<1>9. \A u \in Tokens : refresh[u] # "none" => refresh'[u] # "none"
  BY <1>1, <1>2
<1>10. HandlersInv'
  BY <1>4, <1>6, <1>7, <1>8, <1>9, HandlersKeep DEF IInv
<1>11. EstablishedSessionsEnd'
  BY <1>2, <1>3, <1>4, <1>8, SessionsKeep DEF IInv, account, history
<1> QED
  BY <1>3, <1>7, <1>10, <1>11 DEF IInv
\* A token is inserted, of the password there is.
LEMMA IssueTokenPairInv ==
  ASSUME IInv, NEW r \in Requests, IssueTokenPair(r)
  PROVE  IInv'
<1>1. PICK t \in Tokens :
        /\ NextRow(refresh, t) /\ refresh' = [refresh EXCEPT ![t] = "good"]
        /\ session' = [session EXCEPT ![t] =
             [login |-> LoginOf(r, t), password |-> req[r].origin.password, at |-> version]]
  BY DEF IssueTokenPair
<1>2. /\ req[r].pc = "issue" /\ req' = [req EXCEPT ![r] = Idle]
      /\ UNCHANGED <<account, codes, history>>
  BY DEF IssueTokenPair, Finish
<1>3. /\ refresh \in [Tokens -> Validity] /\ session \in [Tokens -> Origin]
      /\ req[r] \in Handler /\ version \in Versions /\ HandlerOK(req[r], refresh, tried)
  BY DEF IInv, TokensInv, HandlersInv, AccountInv
<1>4. refresh[t] = "none" /\ \A u \in Tokens : u < t => refresh[u] # "none"
  BY <1>1, <1>3 DEF NextRow
<1>5. LoginOf(r, t) \in 1 .. t
  <2>1. CASE req[r].kind = "login"
    BY <2>1, <1>1, BoundsAssumption DEF LoginOf, Tokens
  <2>2. CASE req[r].kind # "login"
    <3>1. /\ LoginOf(r, t) = req[r].origin.login /\ req[r].origin.login \in Tokens
          /\ refresh[req[r].origin.login] # "none"
      BY <2>2, <1>2, <1>3 DEF HandlerOK, LoginOf
    <3>2. ~(t < req[r].origin.login)
      BY <3>1, <1>1, <1>4 DEF IInv, TokensInv
    <3> QED
      BY <3>1, <3>2, <1>1, BoundsAssumption DEF Tokens
  <2> QED
    BY <2>1, <2>2
<1>6. TokensInv'
  <2>1. [login |-> LoginOf(r, t), password |-> req[r].origin.password, at |-> version] \in Origin
    BY <1>1, <1>3, <1>5, BoundsAssumption DEF Handler, Origin, Tokens
  <2>2. refresh' \in [Tokens -> Validity] /\ session' \in [Tokens -> Origin]
    BY <1>1, <1>3, <2>1 DEF Validity
  <2>3. \A u \in Tokens : IF refresh'[u] = "none" THEN session'[u] = NoOrigin
                                                 ELSE session'[u].login \in 1 .. u
    BY <1>1, <1>3, <1>5 DEF IInv, TokensInv
  <2>4. \A u, v \in Tokens : refresh'[u] # "none" /\ v < u => refresh'[v] # "none"
    BY <1>1, <1>3, <1>4 DEF IInv, TokensInv
  <2> QED
    BY <2>2, <2>3, <2>4 DEF TokensInv
<1>7. AccountInv' /\ CodesInv' /\ tried' = tried /\ tried <= tried'
  BY <1>2 DEF IInv, AccountInv, LockedForCause, CodesInv, account, codes, history
<1>8. HandlersInv'
  <2>1. \A u \in Tokens : refresh[u] # "none" => refresh'[u] # "none"
    BY <1>1, <1>3
  <2>2. HandlerOK(Idle, refresh', tried')
    BY DEF Idle, HandlerOK
  <2> QED
    BY <1>2, <1>7, <2>1, <2>2, IdleOK, HandlersKeep DEF IInv
<1>9. EstablishedSessionsEnd'
  <2>1. Revoking => Revoking'
    BY <1>2 DEF Revoking, IInv, HandlersInv, history
  <2>2. version' = version /\ session'[t].at = version
    BY <1>1, <1>2, <1>3 DEF account
  <2>3. ASSUME NEW u \in Live', u # t PROVE u \in Live /\ session'[u] = session[u]
    BY <2>3, <1>1, <1>3 DEF Live
  <2> QED
    BY <2>1, <2>2, <2>3 DEF EstablishedSessionsEnd, IInv
<1> QED
  BY <1>6, <1>7, <1>8, <1>9 DEF IInv

-----------------------------------------------------------------------------
(* A new password *)

\* The sessions there are go with the last call, which is still to be made.
LEMMA SetPasswordInv ==
  ASSUME IInv, NEW r \in Requests, SetPassword(r)
  PROVE  IInv'
<1> DEFINE h == [req[r] EXCEPT !.pc = "revokeAll"]
<1>1. /\ version' = version + 1 /\ version < MaxVersions
      /\ UNCHANGED <<status, deleted, tokens, codes, tried, byAdmin, cut>>
      /\ \A c \in DOMAIN changes : changes'[c] \in {changes[c], changes[c] + 1}
      /\ DOMAIN changes' = DOMAIN changes
      /\ changes' = [c \in DOMAIN changes |-> changes'[c]]
  BY DEF SetPassword
<1>2. /\ failed' \in {0, failed} /\ lockedUntil' \in {FALSE, lockedUntil}
  BY DEF SetPassword
<1>3. req[r] \in Handler /\ req \in [Requests -> Handler]
  BY DEF IInv, HandlersInv
<1>4. req' = [req EXCEPT ![r] = h] /\ req'[r].pc = "revokeAll"
  BY <1>3 DEF SetPassword, Go, Handler
<1>5. h \in Handler /\ HandlerOK(h, refresh', tried')
  BY <1>3 DEF Handler, PC, HandlerOK
<1>6. lockedUntil' \in BOOLEAN
  BY <1>2 DEF IInv, AccountInv
<1>7. version' \in Versions
  BY <1>1, BoundsAssumption DEF IInv, AccountInv, Versions
<1>8. failed' \in 0 .. MaxTried /\ failed' <= tried'
  BY <1>1, <1>2, BoundsAssumption DEF IInv, AccountInv
<1>9. LockedForCause'
  BY <1>1 DEF IInv, AccountInv, LockedForCause
<1>10. AccountInv'
  BY <1>1, <1>6, <1>7, <1>8, <1>9 DEF IInv, AccountInv
<1>11. TokensInv'
  BY <1>1 DEF IInv, TokensInv, tokens
<1>12. CodesInv'
  <2>1. DOMAIN changes = {"reset", "otp"} \X Codes
    BY DEF IInv, CodesInv
  <2>2. \A c \in DOMAIN changes : changes'[c] \in 0 .. MaxVersions /\ changes'[c] < version'
    BY <1>1, <2>1, BoundsAssumption DEF IInv, CodesInv, AccountInv, Versions
  <2> QED
    BY <1>1, <2>1, <2>2 DEF IInv, CodesInv, codes
<1>13. HandlersInv'
  <2>1. HandlersInv /\ AccountInv /\ tried <= tried' /\ refresh' = refresh
    BY <1>1 DEF IInv, AccountInv, tokens
  <2> HIDE DEF h
  <2> QED
    BY <1>4, <1>5, <1>10, <2>1, HandlersKeep
<1>14. EstablishedSessionsEnd'
  BY <1>4 DEF EstablishedSessionsEnd, Revoking
<1> QED
  BY <1>10, <1>11, <1>12, <1>13, <1>14 DEF IInv

\* Nothing is alive when the last call is done.
LEMMA RevokeAllInv ==
  ASSUME IInv, NEW r \in Requests, RevokeAll(r)
  PROVE  IInv'
<1>1. /\ refresh' = Spent(refresh) /\ req' = [req EXCEPT ![r] = Idle]
      /\ UNCHANGED <<account, session, otp, history>>
      /\ reset' \in {reset, Spent(reset)}
  BY DEF RevokeAll, RevokeSessions, Finish
<1>2. /\ refresh' \in [Tokens -> Validity]
      /\ \A t \in Tokens : refresh'[t] # "good" /\ (refresh[t] # "none" <=> refresh'[t] # "none")
  BY <1>1, SpentOK DEF IInv, TokensInv
<1>3. reset' \in [Codes -> Validity]
  BY <1>1, SpentOK DEF IInv, CodesInv
<1>4. TokensInv'
  BY <1>1, <1>2, FewerAlive
<1>5. AccountInv' /\ CodesInv' /\ tried' = tried /\ tried <= tried'
  BY <1>1, <1>3 DEF IInv, AccountInv, LockedForCause, CodesInv, account, history
<1>6. HandlerOK(Idle, refresh', tried')
  BY DEF Idle, HandlerOK
<1>7. HandlersInv'
  BY <1>1, <1>2, <1>5, <1>6, IdleOK, HandlersKeep DEF IInv
<1>8. EstablishedSessionsEnd'
  BY <1>2 DEF EstablishedSessionsEnd, Live
<1> QED
  BY <1>4, <1>5, <1>7, <1>8 DEF IInv

-----------------------------------------------------------------------------
(* Failure and time *)

\* A change that ends before its last call is remembered as cut.
LEMMA FailInv ==
  ASSUME IInv, NEW r \in Requests, Fail(r)
  PROVE  IInv'
<1>1. /\ req' = [req EXCEPT ![r] = Idle]
      /\ UNCHANGED <<account, tokens, codes, changes, tried, byAdmin>>
  BY DEF Fail, Finish
<1>2. cut' \in BOOLEAN
  BY Zenon DEF Fail
<1>3. (cut => cut') /\ (req[r].pc # "revokeAll" \/ cut')
  BY DEF Fail
<1>4. AccountInv' /\ tried' = tried /\ tried <= tried'
  BY <1>1, <1>2 DEF IInv, AccountInv, LockedForCause, account
<1>5. TokensInv' /\ CodesInv'
  BY <1>1 DEF IInv, TokensInv, CodesInv, account, tokens, codes
<1>6. HandlersInv'
  BY <1>1, <1>4, IdleOK, HandlersKeep DEF IInv, tokens
<1>7. EstablishedSessionsEnd'
  BY <1>1, <1>3, IdleOK, SessionsKeep DEF IInv, account, tokens, Live
<1> QED
  BY <1>4, <1>5, <1>6, <1>7 DEF IInv

\* The lock runs out, or a code does.
LEMMA TimeInv ==
  ASSUME IInv, LockExpires \/ \E k \in Codes : CodeExpires(k)
  PROVE  IInv'
<1>1. /\ UNCHANGED <<status, deleted, failed, version, tokens, history, req>>
      /\ lockedUntil' \in {FALSE, lockedUntil}
  BY DEF LockExpires, CodeExpires, account
<1>2. reset' \in [Codes -> Validity] /\ otp' \in [Codes -> Validity]
  BY DEF IInv, CodesInv, LockExpires, CodeExpires, codes, Validity
<1>3. lockedUntil' \in BOOLEAN
  BY <1>1 DEF IInv, AccountInv
<1>4. AccountInv'
  BY <1>1, <1>3 DEF IInv, AccountInv, LockedForCause, history
<1>5. TokensInv' /\ CodesInv' /\ HandlersInv'
  BY <1>1, <1>2 DEF IInv, TokensInv, CodesInv, HandlersInv, HandlerOK, tokens, history
<1>6. EstablishedSessionsEnd'
  BY <1>1 DEF IInv, EstablishedSessionsEnd, Live, Revoking, tokens, history
<1> QED
  BY <1>4, <1>5, <1>6 DEF IInv

-----------------------------------------------------------------------------
(* The specification *)

LEMMA InitInv == ASSUME Init PROVE IInv
<1> USE BoundsAssumption DEF Init
<1>1. AccountInv
  <2>1. failed \in 0 .. MaxTried /\ tried \in 0 .. MaxTried /\ failed <= tried /\ version \in Versions
    BY DEF Versions
  <2> QED
    BY <2>1 DEF AccountInv, LockedForCause, UserStatus
<1>2. TokensInv
  BY DEF TokensInv, Validity, Origin, NoOrigin
<1>3. CodesInv
  BY DEF CodesInv, Validity
<1>4. HandlersInv
  BY IdleOK DEF HandlersInv
<1>5. EstablishedSessionsEnd
  BY DEF EstablishedSessionsEnd, Live
<1> QED
  BY <1>1, <1>2, <1>3, <1>4, <1>5 DEF IInv

LEMMA StepInv == ASSUME IInv, [Next]_vars PROVE IInv'
<1>1. ASSUME NEW r \in Requests, Endpoint(r) PROVE IInv'
  BY <1>1, LoginInv, CodeEndpointsInv, AdministerInv DEF Endpoint
<1>2. ASSUME NEW r \in Requests, Step(r) PROVE IInv'
  BY <1>2, FailedWriteInv, ClearFailuresInv, IssueTokenPairInv, RotateWriteInv, CodeStepsInv,
     SetPasswordInv, RevokeAllInv, AdminWriteInv DEF Step
<1>3. ASSUME NEW r \in Requests, Fail(r) PROVE IInv'
  BY <1>3, FailInv
<1>4. ASSUME NEW t \in Tokens, Logout(t) PROVE IInv'
  BY <1>4, LogoutInv
<1>5. CASE LogoutAll
  BY <1>5, LogoutInv
<1>6. CASE Time
  BY <1>6, LogoutInv, TimeInv DEF Time
<1>7. CASE UNCHANGED vars
  BY <1>7 DEF vars, account, tokens, codes, history, IInv, AccountInv, LockedForCause, TokensInv,
     CodesInv, HandlersInv, HandlerOK, EstablishedSessionsEnd, Live, Revoking
<1> QED
  BY <1>1, <1>2, <1>3, <1>4, <1>5, <1>6, <1>7 DEF Next

LEMMA InductiveInv == Spec => []IInv
<1>1. Init => IInv
  BY InitInv
<1>2. IInv /\ [Next]_vars => IInv'
  BY StepInv
<1> QED
  BY <1>1, <1>2, PTL DEF Spec

-----------------------------------------------------------------------------
(* Theorems *)

\* The state stays typed, a handler that uses a token or a code has one, and the
\* login a session goes back to was inserted no later than the session
\* (auth.service.ts:75).
THEOREM TypeCorrect == Spec => []TypeOK
<1>1. IInv => TypeOK
  BY BoundsAssumption DEF IInv, AccountInv, TokensInv, CodesInv, HandlersInv, HandlerOK, TypeOK, Tokens, Codes
<1> QED
  BY <1>1, InductiveInv, PTL

\* However requests interleave, no session that was there survives a change of the
\* password, unless the change ended before its last call (auth.service.ts:419).
THEOREM EstablishedEnd == Spec => []EstablishedSessionsEnd
<1>1. IInv => EstablishedSessionsEnd
  BY DEF IInv
<1> QED
  BY <1>1, InductiveInv, PTL

\* However many logins fail at once, no account is locked by them before as many
\* wrong passwords were tried as the limit says (auth.service.ts:570).
THEOREM LockedAfterTries == Spec => []LockedForCause
<1>1. IInv => LockedForCause
  BY DEF IInv, AccountInv
<1> QED
  BY <1>1, InductiveInv, PTL

-----------------------------------------------------------------------------
(* One request at a time. What a handler holds is then still so when it is used *)
(* (while nobody else can write, only time and logouts spend tokens and codes). *)

\* The state of the codes of a kind.
Rows(kind) == IF kind = "reset" THEN reset ELSE otp
NoGoodReset == \A k \in Codes : reset[k] # "good"

\* A code that a password may be set with: none was, and it will serve nobody else.
Unspoilt(kind, k) == k \in Codes /\ changes[<<kind, k>>] = 0
Claimed(kind, k) == Unspoilt(kind, k) /\ Rows(kind)[k] \notin {"none", "good"}

HeldAlone(h) ==
  /\ h.pc \in {"welcome", "issue"} => h.origin.password = version \/ cut
  /\ h.pc = "rotate" =>
       /\ session[h.id].password = version \/ cut
       /\ \A t \in Live : session[t].login = session[h.id].login => t = h.id
  /\ h.pc = "issue" /\ h.kind = "refresh" => \A t \in Live : session[t].login # h.origin.login
  /\ h.pc = "createReset" => NoGoodReset
  /\ h.pc \in {"cleanOtp", "createOtp"} => NoGoodOtp
  /\ h.pc = "useReset" => h.kind = "reset" /\ Unspoilt("reset", h.id)
  /\ h.pc = "findOtp" => h.kind = "otp"
  /\ h.pc = "useOtp" => h.kind = "otp" /\ Unspoilt("otp", h.id)
  /\ h.pc = "setPassword" /\ h.kind \in {"reset", "otp"} => Claimed(h.kind, h.id)

UnusedUnspoilt ==
  \A kind \in {"reset", "otp"}, k \in Codes :
    Rows(kind)[k] \in {"none", "good"} => changes[<<kind, k>>] = 0

OneBusy == \A r, q \in Busy : r = q

InOrder == SessionsFollowPassword /\ OneLivePerLogin /\ OneGoodCode /\ CodesAreUsedOnce

AloneInv ==
  /\ OneBusy /\ UnusedUnspoilt /\ InOrder
  /\ \A r \in Requests : HeldAlone(req[r])

\* Only the handler that moved can be busy afterwards.
LEMMA OthersRest ==
  ASSUME HandlersInv, OneBusy, OneBusy', NEW r \in Requests, NEW h \in Handler,
         req' = [req EXCEPT ![r] = h], req[r].pc # "idle" \/ h.pc # "idle"
  PROVE  \A q \in Requests \ {r} : req[q].pc = "idle" /\ req'[q] = req[q]
BY DEF HandlersInv, OneBusy, Busy

\* So it is enough to look at that one.
LEMMA AloneStep ==
  ASSUME HandlersInv, AloneInv, OneBusy', NEW r \in Requests, NEW h \in Handler,
         req' = [req EXCEPT ![r] = h], req[r].pc # "idle" \/ h.pc # "idle",
         HeldAlone(h)', UnusedUnspoilt', InOrder'
  PROVE  AloneInv'
<1>1. \A q \in Requests \ {r} : req'[q].pc = "idle"
  BY OthersRest DEF AloneInv
<1>2. \A q \in Requests \ {r} : HeldAlone(req[q])'
  BY <1>1 DEF HeldAlone
<1>3. req'[r] = h
  BY DEF HandlersInv
<1>4. HeldAlone(req[r])'
  BY <1>3 DEF HeldAlone
<1> QED
  BY <1>2, <1>4 DEF AloneInv

\* Sessions are in order while none is new and the password is the one there was.
LEMMA SessionsInOrder ==
  ASSUME HandlersInv, SessionsFollowPassword, OneLivePerLogin, NEW r \in Requests, NEW h \in Handler,
         req' = [req EXCEPT ![r] = h], req[r].pc # "revokeAll" \/ cut', cut => cut',
         version' = version, session' = session, Live' \subseteq Live
  PROVE  SessionsFollowPassword' /\ OneLivePerLogin'
<1>1. Revoking => Revoking'
  BY DEF Revoking, HandlersInv
<1> QED
  BY <1>1 DEF SessionsFollowPassword, OneLivePerLogin

\* A step that leaves the password and the sessions, and keeps the codes in order.
LEMMA AloneQuiet ==
  ASSUME HandlersInv, AloneInv, OneBusy', NEW r \in Requests, NEW h \in Handler,
         req' = [req EXCEPT ![r] = h], req[r].pc # "idle" \/ h.pc # "idle",
         req[r].pc # "revokeAll", UNCHANGED <<version, tokens, changes, cut>>,
         HeldAlone(h)', UnusedUnspoilt', OneGoodCode'
  PROVE  AloneInv'
<1>1. SessionsFollowPassword' /\ OneLivePerLogin'
  BY SessionsInOrder DEF AloneInv, InOrder, tokens, Live
<1>2. CodesAreUsedOnce'
  BY DEF AloneInv, InOrder, CodesAreUsedOnce
<1> QED
  BY <1>1, <1>2, AloneStep DEF InOrder

\* A step that leaves the codes as well.
LEMMA AloneHandler ==
  ASSUME HandlersInv, AloneInv, OneBusy', NEW r \in Requests, NEW h \in Handler,
         req' = [req EXCEPT ![r] = h], req[r].pc # "idle" \/ h.pc # "idle",
         req[r].pc # "revokeAll", UNCHANGED <<version, tokens, codes, changes, cut>>, HeldAlone(h)'
  PROVE  AloneInv'
<1>1. UnusedUnspoilt' /\ OneGoodCode'
  BY DEF AloneInv, UnusedUnspoilt, Rows, InOrder, OneGoodCode, codes
<1> QED
  BY <1>1, AloneQuiet

\* Codes of which none is new: more of them may be spent.
LEMMA FewerGood ==
  ASSUME AloneInv, UNCHANGED changes,
         \A k \in Codes : /\ reset'[k] \in {"none", "good"} => reset'[k] = reset[k]
                          /\ otp'[k] \in {"none", "good"} => otp'[k] = otp[k]
  PROVE  UnusedUnspoilt' /\ OneGoodCode'
<1>1. UnusedUnspoilt'
  BY DEF AloneInv, UnusedUnspoilt, Rows
<1>2. OneGoodCode'
  BY DEF AloneInv, InOrder, OneGoodCode
<1> QED
  BY <1>1, <1>2

\* A row that is inserted where no other is good.
LEMMA OneMoreGood ==
  ASSUME IInv, AloneInv, UNCHANGED changes, NEW k \in Codes,
         \/ /\ NoGoodReset /\ reset[k] = "none" /\ reset' = [reset EXCEPT ![k] = "good"]
            /\ otp' = otp
         \/ NoGoodOtp /\ otp[k] = "none" /\ otp' = [otp EXCEPT ![k] = "good"] /\ reset' = reset
  PROVE  UnusedUnspoilt' /\ OneGoodCode'
<1>0. reset \in [Codes -> Validity] /\ otp \in [Codes -> Validity]
  BY DEF IInv, CodesInv
<1>1. UnusedUnspoilt'
  BY <1>0 DEF AloneInv, UnusedUnspoilt, Rows
<1>2. OneGoodCode'
  BY <1>0 DEF AloneInv, InOrder, OneGoodCode, NoGoodReset, NoGoodOtp
<1> QED
  BY <1>1, <1>2

\* When a request begins, nobody is busy: what revokes has ended, or was cut short.
LEMMA BeginsAlone ==
  ASSUME HandlersInv, AloneInv, OneBusy', NEW r \in Requests, NEW h \in Handler,
         req' = [req EXCEPT ![r] = h], req[r].pc = "idle", h.pc # "idle"
  PROVE  \A t \in Live : session[t].password = version \/ cut
<1>1. \A q \in Requests : req[q].pc = "idle"
  BY OthersRest DEF AloneInv
<1> QED
  BY <1>1 DEF AloneInv, InOrder, SessionsFollowPassword, Revoking

LEMMA EndpointAlone ==
  ASSUME IInv, AloneInv, OneBusy', NEW r \in Requests, Endpoint(r)
  PROVE  AloneInv'
<1> USE DEF IInv
<1>0. reset \in [Codes -> Validity] /\ otp \in [Codes -> Validity]
  BY DEF CodesInv
<1>1. ASSUME NEW password \in 0 .. version, Login(r, password) PROVE AloneInv'
  <2>1. PICK h \in Handler :
          /\ req' = [req EXCEPT ![r] = h] /\ h.pc \in {"welcome", "issue", "wrong"}
          /\ h.kind = "login" /\ (h.pc \in {"welcome", "issue"} => h.origin.password = version)
    <3>1. CASE password = version
      <4> DEFINE h == [Idle EXCEPT !.kind = "login", !.count = failed, !.origin.password = password,
                                   !.pc = IF failed > 0 THEN "welcome" ELSE "issue"]
      <4>1. h \in Handler
        BY IdleOK, <3>1 DEF AccountInv, Handler, Kinds, PC, Origin
      <4>2. h.pc \in {"welcome", "issue"} /\ h.kind = "login" /\ h.origin.password = version
        BY <3>1 DEF Idle, NoOrigin
      <4>3. req' = [req EXCEPT ![r] = h]
        BY <1>1, <3>1 DEF Login
      <4> QED
        BY <4>1, <4>2, <4>3
    <3>2. CASE password # version
      <4> DEFINE h == [Idle EXCEPT !.kind = "login", !.count = failed, !.pc = "wrong"]
      <4>1. h \in Handler
        BY IdleOK DEF AccountInv, Handler, Kinds, PC
      <4>2. h.pc = "wrong" /\ h.kind = "login"
        BY DEF Idle
      <4>3. req' = [req EXCEPT ![r] = h]
        BY <1>1, <3>2 DEF Login
      <4> QED
        BY <4>1, <4>2, <4>3
    <3> QED
      BY <3>1, <3>2
  <2>2. /\ req[r].pc = "idle" /\ UNCHANGED <<version, tokens, codes, changes, cut>>
    BY <1>1 DEF Login, account
  <2>3. HeldAlone(h)'
    BY <2>1, <2>2 DEF HeldAlone
  <2> QED
    BY <2>1, <2>2, <2>3, AloneHandler
<1>2. ASSUME NEW kind \in Kinds, NEW pc \in PC, NEW id \in {0} \cup Tokens \cup Codes,
             Begin(r, kind, pc, id), pc # "idle", UNCHANGED <<account, tokens, history>>,
             HeldAlone([Idle EXCEPT !.kind = kind, !.pc = pc, !.id = id])',
             UnusedUnspoilt', OneGoodCode'
      PROVE  AloneInv'
  <2> DEFINE h == [Idle EXCEPT !.kind = kind, !.pc = pc, !.id = id]
  <2>1. h \in Handler /\ h.pc = pc
    BY IdleOK DEF Handler, Idle
  <2>2. req' = [req EXCEPT ![r] = h] /\ req[r].pc = "idle"
    BY <1>2 DEF Begin
  <2>3. UNCHANGED <<version, tokens, changes, cut>>
    BY <1>2 DEF account, history
  <2>4. HeldAlone(h)'
    BY <1>2
  <2> HIDE DEF h
  <2> QED
    BY <1>2, <2>1, <2>2, <2>3, <2>4, AloneQuiet
<1> USE DEF Kinds, PC
<1>3. CASE ForgotPassword(r)
  <2>1. \A k \in Codes : reset'[k] # "good" /\ (reset'[k] = "none" => reset[k] = "none")
    BY <1>0, <1>3, SpentOK DEF ForgotPassword
  <2>2. otp' = otp /\ changes' = changes
    BY <1>3 DEF ForgotPassword, history
  <2>3. UnusedUnspoilt' /\ OneGoodCode'
    BY <2>1, <2>2, FewerGood
  <2>4. HeldAlone([Idle EXCEPT !.kind = "reset", !.pc = "createReset", !.id = 0])'
    BY <2>1 DEF HeldAlone, Idle, NoGoodReset
  <2> QED
    BY <1>2, <1>3, <2>3, <2>4 DEF ForgotPassword
<1>4. ASSUME UNCHANGED <<codes, history>> PROVE UnusedUnspoilt' /\ OneGoodCode'
  BY <1>4, FewerGood DEF codes, history
<1>5. CASE ChangePassword(r)
  <2>1. HeldAlone([Idle EXCEPT !.kind = "change", !.pc = "setPassword", !.id = 0])'
    BY DEF HeldAlone, Idle
  <2> QED
    BY <1>2, <1>4, <1>5, <2>1 DEF ChangePassword
<1>6. CASE RequestOtp(r)
  <2>1. HeldAlone([Idle EXCEPT !.kind = "otp", !.pc = "cleanOtp", !.id = 0])'
    BY <1>6 DEF HeldAlone, Idle, RequestOtp, NoGoodOtp, codes
  <2> QED
    BY <1>2, <1>4, <1>6, <2>1 DEF RequestOtp
<1>7. CASE AdminResetPassword(r)
  <2>1. HeldAlone([Idle EXCEPT !.kind = "admin", !.pc = "setPassword", !.id = 0])'
    BY DEF HeldAlone, Idle
  <2> QED
    BY <1>2, <1>4, <1>7, <2>1 DEF AdminResetPassword
<1>8. ASSUME NEW k \in Codes, ResetPassword(r, k) PROVE AloneInv'
  <2>1. changes'[<<"reset", k>>] = 0
    BY <1>8 DEF ResetPassword, history, AloneInv, UnusedUnspoilt, Rows
  <2>2. HeldAlone([Idle EXCEPT !.kind = "reset", !.pc = "useReset", !.id = k])'
    BY <2>1 DEF HeldAlone, Idle, Unspoilt
  <2> QED
    BY <1>2, <1>4, <1>8, <2>2 DEF ResetPassword
<1>9. ASSUME NEW k \in Codes, ChangePasswordWithOtp(r, k) PROVE AloneInv'
  <2>1. HeldAlone([Idle EXCEPT !.kind = "otp", !.pc = "findOtp", !.id = k])'
    BY DEF HeldAlone, Idle
  <2> QED
    BY <1>2, <1>4, <1>9, <2>1 DEF ChangePasswordWithOtp
<1>10. ASSUME NEW t \in Tokens, RefreshTokens(r, t) PROVE AloneInv'
  <2> DEFINE h == [Idle EXCEPT !.kind = "refresh", !.pc = "rotate", !.id = t]
  <2>1. h \in Handler /\ h.pc # "idle"
    BY IdleOK DEF Handler, Idle
  <2>2. req' = [req EXCEPT ![r] = h] /\ req[r].pc = "idle" /\ t \in Live
    BY <1>10 DEF Begin, RefreshTokens, Live
  <2>3. session[t].password = version \/ cut
    <3> HIDE DEF h
    <3> QED
      BY <2>1, <2>2, BeginsAlone
  <2>4. UNCHANGED <<version, session, refresh, cut>>
    BY <1>10 DEF RefreshTokens, account, tokens, history
  <2>5. \A u \in Live : session[u].login = session[t].login => u = t
    BY <2>2 DEF AloneInv, InOrder, OneLivePerLogin
  <2>6. HeldAlone(h)'
    BY <2>3, <2>4, <2>5 DEF HeldAlone, Idle, Live
  <2> QED
    BY <1>2, <1>4, <1>10, <2>6 DEF RefreshTokens
<1>11. ASSUME NEW op \in AdminOps \ {"none"}, Administer(r, op) PROVE AloneInv'
  <2> DEFINE h == [Idle EXCEPT !.kind = "admin", !.pc = "adminWrite", !.op = op]
  <2>1. h \in Handler /\ h.pc = "adminWrite"
    BY IdleOK DEF Handler, Idle
  <2>2. /\ req' = [req EXCEPT ![r] = h] /\ req[r].pc = "idle"
        /\ UNCHANGED <<version, tokens, codes, changes, cut>>
    BY <1>11 DEF Administer, account, history
  <2> HIDE DEF h
  <2>3. HeldAlone(h)'
    BY <2>1 DEF HeldAlone
  <2> QED
    BY <2>1, <2>2, <2>3, AloneHandler
<1> QED
  BY <1>1, <1>3, <1>5, <1>6, <1>7, <1>8, <1>9, <1>10, <1>11 DEF Endpoint

\* Where a request goes on to, as a value.
LEMMA GoesOn ==
  ASSUME HandlersInv, NEW r \in Requests, NEW pc \in PC, Go(r, pc)
  PROVE  \E h \in Handler : /\ req' = [req EXCEPT ![r] = h] /\ h.pc = pc /\ h.kind = req[r].kind
                            /\ h.id = req[r].id /\ h.origin = req[r].origin
<1> DEFINE h == [req[r] EXCEPT !.pc = pc]
<1>1. h \in Handler /\ req' = [req EXCEPT ![r] = h]
  BY DEF Go, HandlersInv, Handler
<1>2. h.pc = pc /\ h.kind = req[r].kind /\ h.id = req[r].id /\ h.origin = req[r].origin
  BY DEF HandlersInv, Handler
<1> HIDE DEF h
<1> QED
  BY <1>1, <1>2

\* The calls about links and codes.
LEMMA CodeStepsAlone ==
  ASSUME IInv, AloneInv, OneBusy', NEW r \in Requests,
         CreateReset(r) \/ UseReset(r) \/ CleanOtp(r) \/ CreateOtp(r) \/ FindOtp(r) \/ UseOtp(r)
  PROVE  AloneInv'
<1> USE DEF IInv, PC
<1>0. /\ reset \in [Codes -> Validity] /\ otp \in [Codes -> Validity]
      /\ req[r] \in Handler /\ HeldAlone(req[r]) /\ HandlerOK(req[r], refresh, tried)
  BY DEF CodesInv, HandlersInv, AloneInv
<1>1. ASSUME Finish(r), req[r].pc \notin {"idle", "revokeAll"}, UNCHANGED <<account, tokens, history>>,
             UnusedUnspoilt', OneGoodCode'
      PROVE  AloneInv'
  <2>1. req' = [req EXCEPT ![r] = Idle] /\ UNCHANGED <<version, tokens, changes, cut>>
    BY <1>1 DEF Finish, account, history
  <2>2. HeldAlone(Idle)'
    BY DEF HeldAlone, Idle
  <2> QED
    BY <1>1, <2>1, <2>2, IdleOK, AloneQuiet
<1>2. ASSUME NEW h \in Handler, req' = [req EXCEPT ![r] = h], req[r].pc \notin {"idle", "revokeAll"},
             UNCHANGED <<account, tokens, history>>, UnusedUnspoilt', OneGoodCode', HeldAlone(h)'
      PROVE  AloneInv'
  <2>1. UNCHANGED <<version, tokens, changes, cut>>
    BY <1>2 DEF account, history
  <2> QED
    BY <1>2, <2>1, AloneQuiet
<1>3. ASSUME UNCHANGED <<codes, history>> PROVE UnusedUnspoilt' /\ OneGoodCode'
  BY <1>3, FewerGood DEF codes, history
<1>4. CASE CreateReset(r)
  <2>1. PICK k \in Codes : NextRow(reset, k) /\ reset' = [reset EXCEPT ![k] = "good"]
    BY <1>4 DEF CreateReset
  <2>2. NoGoodReset /\ reset[k] = "none" /\ otp' = otp /\ changes' = changes
    BY <1>0, <1>4, <2>1 DEF HeldAlone, CreateReset, NextRow, history
  <2>3. UnusedUnspoilt' /\ OneGoodCode'
    BY <2>1, <2>2, OneMoreGood
  <2> QED
    BY <1>1, <1>4, <2>3 DEF CreateReset
<1>5. CASE UseReset(r)
  <2>1. /\ req[r].pc = "useReset" /\ req[r].kind = "reset" /\ Unspoilt("reset", req[r].id)
        /\ reset' = [reset EXCEPT ![req[r].id] = "spent"] /\ otp' = otp /\ changes' = changes
        /\ UNCHANGED <<account, tokens, history>>
    BY <1>0, <1>5 DEF UseReset, UseResetOn, HeldAlone, history
  <2>2. UnusedUnspoilt' /\ OneGoodCode'
    BY <1>0, <2>1, FewerGood
  <2>3. PICK h \in Handler : /\ req' = [req EXCEPT ![r] = h] /\ h.pc = "setPassword"
                             /\ h.kind = req[r].kind /\ h.id = req[r].id
    BY <1>5, GoesOn DEF UseReset
  <2>4. HeldAlone(h)'
    BY <1>0, <2>1, <2>3 DEF HeldAlone, Claimed, Unspoilt, Rows
  <2> QED
    BY <1>2, <2>1, <2>2, <2>3, <2>4
<1>6. CASE CleanOtp(r)
  <2>1. /\ req[r].pc = "cleanOtp" /\ UNCHANGED <<account, tokens, history, reset>>
        /\ otp' = [k \in Codes |-> IF otp[k] = "spent" THEN "deleted" ELSE otp[k]]
    BY <1>6 DEF CleanOtp
  <2>2. NoGoodOtp'
    BY <1>0, <2>1 DEF HeldAlone, NoGoodOtp
  <2>3. UnusedUnspoilt' /\ OneGoodCode'
    BY <1>0, <2>1, FewerGood DEF history
  <2>4. PICK h \in Handler : req' = [req EXCEPT ![r] = h] /\ h.pc = "createOtp"
    BY <1>6, GoesOn DEF CleanOtp
  <2>5. HeldAlone(h)'
    BY <2>2, <2>4 DEF HeldAlone
  <2> QED
    BY <1>2, <2>1, <2>3, <2>4, <2>5
<1>7. CASE CreateOtp(r)
  <2>1. PICK k \in Codes : NextRow(otp, k) /\ otp' = [otp EXCEPT ![k] = "good"]
    BY <1>7 DEF CreateOtp
  <2>2. NoGoodOtp /\ otp[k] = "none" /\ reset' = reset /\ changes' = changes
    BY <1>0, <1>7, <2>1 DEF HeldAlone, CreateOtp, NextRow, history
  <2>3. UnusedUnspoilt' /\ OneGoodCode'
    BY <2>1, <2>2, OneMoreGood
  <2> QED
    BY <1>1, <1>7, <2>3 DEF CreateOtp
<1>8. CASE FindOtp(r)
  <2>1. CASE otp[req[r].id] = "good"
    <3>1. /\ req[r].kind = "otp" /\ req[r].id \in Codes /\ req[r].pc = "findOtp"
          /\ UNCHANGED <<account, tokens, codes, history>>
      BY <1>0, <1>8 DEF FindOtp, HeldAlone, HandlerOK
    <3>2. changes'[<<"otp", req[r].id>>] = 0
      BY <2>1, <3>1 DEF AloneInv, UnusedUnspoilt, Rows, history
    <3>3. PICK h \in Handler : /\ req' = [req EXCEPT ![r] = h] /\ h.pc = "useOtp"
                               /\ h.kind = req[r].kind /\ h.id = req[r].id
      BY <1>8, <2>1, GoesOn DEF FindOtp
    <3>4. HeldAlone(h)'
      BY <3>1, <3>2, <3>3 DEF HeldAlone, Unspoilt
    <3> QED
      BY <1>2, <1>3, <3>1, <3>3, <3>4
  <2>2. CASE otp[req[r].id] # "good"
    BY <1>1, <1>3, <1>8, <2>2 DEF FindOtp
  <2> QED
    BY <2>1, <2>2
<1>9. CASE UseOtp(r)
  <2>1. CASE otp[req[r].id] = "deleted"
    <3>1. /\ Finish(r) /\ otp' = otp /\ req[r].pc = "useOtp"
          /\ UNCHANGED <<account, tokens, reset, history>>
      BY <1>9, <2>1 DEF UseOtp
    <3> QED
      BY <1>1, <1>3, <3>1 DEF codes
  <2>2. CASE otp[req[r].id] # "deleted"
    <3>1. /\ req[r].pc = "useOtp" /\ req[r].kind = "otp" /\ Unspoilt("otp", req[r].id)
          /\ otp' = [otp EXCEPT ![req[r].id] = "spent"] /\ reset' = reset /\ changes' = changes
          /\ UNCHANGED <<account, tokens, history>> /\ (Go(r, "setPassword") \/ Finish(r))
      BY <1>0, <1>9, <2>2 DEF UseOtp, UseOtpOn, HeldAlone, history
    <3>2. UnusedUnspoilt' /\ OneGoodCode'
      BY <1>0, <3>1, FewerGood
    <3>3. ASSUME Go(r, "setPassword") PROVE AloneInv'
      <4>1. PICK h \in Handler : /\ req' = [req EXCEPT ![r] = h] /\ h.pc = "setPassword"
                                 /\ h.kind = req[r].kind /\ h.id = req[r].id
        BY <3>3, GoesOn
      <4>2. HeldAlone(h)'
        BY <1>0, <3>1, <4>1 DEF HeldAlone, Claimed, Unspoilt, Rows
      <4> QED
        BY <1>2, <3>1, <3>2, <4>1, <4>2
    <3> QED
      BY <1>1, <3>1, <3>2, <3>3
  <2> QED
    BY <2>1, <2>2
<1> QED
  BY <1>4, <1>5, <1>6, <1>7, <1>8, <1>9

\* The calls of a login that neither insert nor spend a token, and the administrator's.
LEMMA AccountStepsAlone ==
  ASSUME IInv, AloneInv, OneBusy', NEW r \in Requests,
         FailedWrite(r) \/ ClearFailures(r) \/ AdminWrite(r)
  PROVE  AloneInv'
<1> USE DEF IInv
<1>1. CASE FailedWrite(r) \/ AdminWrite(r)
  <2>1. /\ req' = [req EXCEPT ![r] = Idle] /\ req[r].pc \in {"wrong", "adminWrite"}
        /\ UNCHANGED <<version, tokens, codes, changes, cut>>
    BY <1>1 DEF FailedWrite, AdminWrite, Finish
  <2>2. HeldAlone(Idle)'
    BY DEF HeldAlone, Idle
  <2> QED
    BY <2>1, <2>2, IdleOK, AloneHandler
<1>2. CASE ClearFailures(r)
  <2>1. /\ req[r].pc = "welcome" /\ req[r].kind = "login" /\ Go(r, "issue")
        /\ req[r].origin.password = version \/ cut
        /\ UNCHANGED <<version, tokens, codes, changes, cut>>
    BY <1>2 DEF ClearFailures, HandlersInv, HandlerOK, AloneInv, HeldAlone, history
  <2>2. PICK h \in Handler : /\ req' = [req EXCEPT ![r] = h] /\ h.pc = "issue"
                             /\ h.kind = req[r].kind /\ h.origin = req[r].origin
    BY <2>1, GoesOn DEF PC
  <2>3. HeldAlone(h)'
    BY <2>1, <2>2 DEF HeldAlone
  <2> QED
    BY <2>1, <2>2, <2>3, AloneHandler
<1> QED
  BY <1>1, <1>2

\* The token that was used up is the only one of its login that was alive.
LEMMA RotateWriteAlone ==
  ASSUME IInv, AloneInv, OneBusy', NEW r \in Requests, RotateWrite(r)
  PROVE  AloneInv'
<1> DEFINE t == req[r].id
<1>1. /\ t \in Tokens /\ req[r].kind = "refresh" /\ req[r] \in Handler /\ HeldAlone(req[r])
      /\ refresh \in [Tokens -> Validity] /\ session[t] \in Origin /\ req[r].pc = "rotate"
      /\ req \in [Requests -> Handler]
  BY DEF IInv, HandlersInv, HandlerOK, TokensInv, RotateWrite, AloneInv
<1>2. /\ refresh' = [refresh EXCEPT ![t] = "spent"]
      /\ UNCHANGED <<version, session, codes, changes, cut>>
  BY DEF RotateWrite, Rotated, account, history
<1>3. Live' = Live \ {t}
  BY <1>1, <1>2 DEF Live
<1>4. PICK h \in Handler : /\ req' = [req EXCEPT ![r] = h] /\ h.pc = "issue" /\ h.kind = "refresh"
                           /\ h.origin = session[t]
  <2> DEFINE g == [req[r] EXCEPT !.pc = "issue", !.origin = session[t]]
  <2>1. g \in Handler /\ g.pc = "issue" /\ g.kind = "refresh" /\ g.origin = session[t]
    BY <1>1 DEF Handler, PC
  <2>2. req' = [req EXCEPT ![r] = g]
    BY <1>1 DEF RotateWrite
  <2> HIDE DEF g
  <2> QED
    BY <2>1, <2>2
<1>5. HeldAlone(h)'
  BY <1>1, <1>2, <1>3, <1>4 DEF HeldAlone
<1>6. UnusedUnspoilt' /\ OneGoodCode' /\ CodesAreUsedOnce'
  BY <1>2 DEF AloneInv, UnusedUnspoilt, Rows, InOrder, OneGoodCode, CodesAreUsedOnce, codes
<1>7. HandlersInv /\ SessionsFollowPassword /\ OneLivePerLogin /\ req[r].pc # "revokeAll"
  BY <1>1 DEF IInv, AloneInv, InOrder
<1>8. SessionsFollowPassword' /\ OneLivePerLogin'
  BY <1>2, <1>3, <1>4, <1>7, SessionsInOrder
<1> QED
  BY <1>1, <1>4, <1>5, <1>6, <1>7, <1>8, AloneStep DEF InOrder

\* The token inserted is of the present password, and its login has no other.
LEMMA IssueTokenPairAlone ==
  ASSUME IInv, AloneInv, OneBusy', NEW r \in Requests, IssueTokenPair(r)
  PROVE  AloneInv'
<1>1. PICK t \in Tokens :
        /\ NextRow(refresh, t) /\ refresh' = [refresh EXCEPT ![t] = "good"]
        /\ session' = [session EXCEPT ![t] =
             [login |-> LoginOf(r, t), password |-> req[r].origin.password, at |-> version]]
  BY DEF IssueTokenPair
<1>2. /\ req[r].pc = "issue" /\ req' = [req EXCEPT ![r] = Idle]
      /\ UNCHANGED <<version, codes, changes, cut>>
  BY DEF IssueTokenPair, Finish, account, history
<1>3. /\ refresh \in [Tokens -> Validity] /\ session \in [Tokens -> Origin]
      /\ req[r] \in Handler /\ HandlerOK(req[r], refresh, tried) /\ HeldAlone(req[r])
      /\ req \in [Requests -> Handler]
      /\ \A u \in Tokens : refresh[u] # "none" =>
                             session[u].login \in 1 .. u /\ \A v \in 1 .. u : refresh[v] # "none"
  <2>1. \A u \in Tokens : \A v \in 1 .. u : refresh[u] # "none" => refresh[v] # "none"
    BY BoundsAssumption DEF IInv, TokensInv, Tokens
  <2> QED
    BY <2>1 DEF IInv, TokensInv, HandlersInv, AloneInv
<1>4. Live' = Live \cup {t} /\ t \notin Live /\ \A u \in Live : session'[u] = session[u]
  BY <1>1, <1>3 DEF Live, NextRow
<1>5. session'[t].login = LoginOf(r, t) /\ session'[t].password = req[r].origin.password
  BY <1>1, <1>3
<1>6. \A u \in Live : session[u].login # LoginOf(r, t)
  <2>1. CASE req[r].kind = "login"
    <3>1. ASSUME NEW u \in Live, session[u].login = t PROVE FALSE
      BY <3>1, <1>1, <1>3 DEF Live, NextRow
    <3> QED
      BY <2>1, <3>1 DEF LoginOf
  <2>2. CASE req[r].kind # "login"
    BY <2>2, <1>2, <1>3 DEF HandlerOK, HeldAlone, LoginOf
  <2> QED
    BY <2>1, <2>2
<1>7. OneLivePerLogin'
  BY <1>4, <1>5, <1>6 DEF OneLivePerLogin, AloneInv, InOrder
<1>8. SessionsFollowPassword'
  <2>1. Revoking => Revoking'
    BY <1>2, <1>3 DEF Revoking
  <2>2. session'[t].password = version' \/ cut'
    BY <1>2, <1>3, <1>5 DEF HeldAlone
  <2> QED
    BY <1>2, <1>4, <2>1, <2>2 DEF SessionsFollowPassword, AloneInv, InOrder, Revoking
<1>9. UnusedUnspoilt' /\ OneGoodCode' /\ CodesAreUsedOnce'
  BY <1>2 DEF AloneInv, UnusedUnspoilt, Rows, InOrder, OneGoodCode, CodesAreUsedOnce, codes
<1>10. HeldAlone(Idle)'
  BY DEF HeldAlone, Idle
<1>11. HandlersInv
  BY DEF IInv
<1> QED
  BY <1>2, <1>7, <1>8, <1>9, <1>10, <1>11, IdleOK, AloneStep DEF InOrder

\* The code is spent when the password is set with it, and it was not used before.
LEMMA SetPasswordAlone ==
  ASSUME IInv, AloneInv, OneBusy', NEW r \in Requests, SetPassword(r)
  PROVE  AloneInv'
<1> DEFINE c == <<req[r].kind, req[r].id>>
<1>1. /\ req[r].pc = "setPassword" /\ HeldAlone(req[r]) /\ Go(r, "revokeAll")
      /\ UNCHANGED <<tokens, codes>>
      /\ changes' = [d \in DOMAIN changes |-> IF d = c THEN changes[d] + 1 ELSE changes[d]]
      /\ DOMAIN changes = {"reset", "otp"} \X Codes
  BY DEF SetPassword, AloneInv, IInv, CodesInv
<1>2. c \in DOMAIN changes => changes[c] = 0 /\ Rows(req[r].kind)[req[r].id] \notin {"none", "good"}
  BY <1>1 DEF HeldAlone, Claimed, Unspoilt
<1>3. UnusedUnspoilt'
  <2>1. SUFFICES ASSUME NEW kind \in {"reset", "otp"}, NEW k \in Codes,
                        Rows(kind)[k] \in {"none", "good"}
                 PROVE  changes'[<<kind, k>>] = 0
    BY <1>1 DEF UnusedUnspoilt, Rows, codes
  <2>2. <<kind, k>> \in DOMAIN changes /\ changes[<<kind, k>>] = 0
    BY <1>1, <2>1 DEF AloneInv, UnusedUnspoilt
  <2>3. <<kind, k>> # c
    BY <1>2, <2>1, <2>2
  <2> QED
    BY <1>1, <2>2, <2>3
<1>4. CodesAreUsedOnce'
  BY <1>1, <1>2 DEF CodesAreUsedOnce, AloneInv, InOrder
<1>5. OneGoodCode'
  BY <1>1 DEF OneGoodCode, AloneInv, InOrder, codes
<1>6. PICK h \in Handler : req' = [req EXCEPT ![r] = h] /\ h.pc = "revokeAll"
  BY <1>1, GoesOn DEF IInv, PC
<1>7. HeldAlone(h)'
  BY <1>6 DEF HeldAlone
<1>8. Revoking' /\ HandlersInv
  BY <1>6 DEF Revoking, IInv, HandlersInv
<1>9. SessionsFollowPassword' /\ OneLivePerLogin'
  BY <1>1, <1>8 DEF SessionsFollowPassword, OneLivePerLogin, AloneInv, InOrder, tokens, Live
<1> QED
  BY <1>1, <1>3, <1>4, <1>5, <1>6, <1>7, <1>8, <1>9, AloneStep DEF InOrder

LEMMA RevokeAllAlone ==
  ASSUME IInv, AloneInv, OneBusy', NEW r \in Requests, RevokeAll(r)
  PROVE  AloneInv'
<1>0. /\ reset \in [Codes -> Validity] /\ refresh \in [Tokens -> Validity]
  BY DEF IInv, CodesInv, TokensInv
<1>1. /\ refresh' = Spent(refresh) /\ req' = [req EXCEPT ![r] = Idle] /\ req[r].pc = "revokeAll"
      /\ UNCHANGED <<changes, otp>> /\ reset' \in {reset, Spent(reset)}
  BY DEF RevokeAll, RevokeSessions, Finish, history
<1>2. Live' = {}
  BY <1>0, <1>1, SpentOK DEF Live
<1>3. SessionsFollowPassword' /\ OneLivePerLogin'
  BY <1>2 DEF SessionsFollowPassword, OneLivePerLogin
<1>4. \A k \in Codes : reset'[k] \in {"none", "good"} => reset'[k] = reset[k]
  BY <1>0, <1>1 DEF Spent
<1>5. UnusedUnspoilt' /\ OneGoodCode'
  BY <1>1, <1>4, FewerGood
<1>6. CodesAreUsedOnce'
  BY <1>1 DEF CodesAreUsedOnce, AloneInv, InOrder
<1>7. HeldAlone(Idle)' /\ HandlersInv
  BY DEF HeldAlone, Idle, IInv
<1> QED
  BY <1>1, <1>3, <1>5, <1>6, <1>7, IdleOK, AloneStep DEF InOrder

LEMMA FailAlone ==
  ASSUME IInv, AloneInv, OneBusy', NEW r \in Requests, Fail(r)
  PROVE  AloneInv'
<1>1. /\ req' = [req EXCEPT ![r] = Idle] /\ req[r].pc # "idle"
      /\ UNCHANGED <<version, tokens, codes, changes>>
      /\ (cut => cut') /\ (req[r].pc # "revokeAll" \/ cut')
  BY DEF Fail, Finish, account
<1>2. UnusedUnspoilt' /\ OneGoodCode' /\ CodesAreUsedOnce'
  BY <1>1 DEF AloneInv, UnusedUnspoilt, Rows, InOrder, OneGoodCode, CodesAreUsedOnce, codes
<1>3. HandlersInv /\ SessionsFollowPassword /\ OneLivePerLogin
  BY DEF IInv, AloneInv, InOrder
<1>4. Live' \subseteq Live /\ session' = session
  BY <1>1 DEF tokens, Live
<1>5. SessionsFollowPassword' /\ OneLivePerLogin'
  BY <1>1, <1>3, <1>4, IdleOK, SessionsInOrder
<1>6. HeldAlone(Idle)'
  BY DEF HeldAlone, Idle
<1> QED
  BY <1>1, <1>2, <1>3, <1>5, <1>6, IdleOK, AloneStep DEF InOrder

\* Time and logouts spend tokens and codes that somebody may hold: what is held of
\* those stays true.
LEMMA SpendingAlone ==
  ASSUME IInv, AloneInv, UNCHANGED <<req, version, session, changes, cut>>, Live' \subseteq Live,
         \A k \in Codes : /\ reset'[k] # reset[k] => reset'[k] = "spent"
                          /\ otp'[k] # otp[k] => otp'[k] = "spent"
  PROVE  AloneInv'
<1>1. UnusedUnspoilt' /\ OneGoodCode'
  BY FewerGood
<1>2. InOrder'
  BY <1>1 DEF AloneInv, InOrder, SessionsFollowPassword, OneLivePerLogin, CodesAreUsedOnce, Revoking
<1>3. \A k \in Codes : /\ reset'[k] = reset[k] \/ reset'[k] = "spent"
                       /\ otp'[k] = otp[k] \/ otp'[k] = "spent"
  OBVIOUS
<1>4. ASSUME NEW r \in Requests PROVE HeldAlone(req[r])'
  <2>1. HeldAlone(req[r])
    BY DEF AloneInv
  <2>2. (NoGoodReset => NoGoodReset') /\ (NoGoodOtp => NoGoodOtp')
    BY <1>3 DEF NoGoodReset, NoGoodOtp
  <2>3. \A kind \in {"reset", "otp"} : \A k :
          /\ Unspoilt(kind, k) => Unspoilt(kind, k)'
          /\ Claimed(kind, k) => Claimed(kind, k)'
    BY <1>3 DEF Unspoilt, Claimed, Rows
  <2> QED
    BY <2>1, <2>2, <2>3 DEF HeldAlone
<1>5. OneBusy'
  BY DEF AloneInv, OneBusy, Busy
<1> QED
  BY <1>1, <1>2, <1>4, <1>5 DEF AloneInv

LEMMA TimeAlone ==
  ASSUME IInv, AloneInv, LogoutAll \/ Time \/ \E t \in Tokens : Logout(t)
  PROVE  AloneInv'
<1>0. /\ refresh \in [Tokens -> Validity] /\ reset \in [Codes -> Validity]
      /\ otp \in [Codes -> Validity]
  BY DEF IInv, TokensInv, CodesInv
<1>1. UNCHANGED <<req, version, session, changes, cut>>
  BY DEF LogoutAll, Time, Logout, LockExpires, TokenExpires, CodeExpires, account, tokens, history
<1>2. Live' \subseteq Live
  <2>1. \/ refresh' = refresh \/ refresh' = Spent(refresh)
        \/ \E t \in Tokens : refresh' = [refresh EXCEPT ![t] = "spent"]
    BY DEF LogoutAll, RevokeSessions, Time, Logout, LockExpires, TokenExpires, CodeExpires, tokens
  <2> QED
    BY <1>0, <2>1 DEF Live, Spent
<1>3. \A k \in Codes : /\ reset'[k] # reset[k] => reset'[k] = "spent"
                       /\ otp'[k] # otp[k] => otp'[k] = "spent"
  BY <1>0 DEF LogoutAll, Time, Logout, LockExpires, TokenExpires, CodeExpires, codes
<1> QED
  BY <1>1, <1>2, <1>3, SpendingAlone

LEMMA InitAlone == ASSUME Init PROVE AloneInv
<1> USE DEF Init
<1>1. \A r \in Requests : req[r].pc = "idle"
  BY DEF Idle
<1>2. Live = {}
  BY DEF Live
<1>3. UnusedUnspoilt /\ CodesAreUsedOnce /\ OneGoodCode
  BY DEF UnusedUnspoilt, Rows, CodesAreUsedOnce, OneGoodCode
<1> QED
  BY <1>1, <1>2, <1>3 DEF AloneInv, OneBusy, Busy, InOrder, SessionsFollowPassword, OneLivePerLogin,
     HeldAlone

LEMMA NextAlone == ASSUME IInv, AloneInv, OneBusy', [Next]_vars PROVE AloneInv'
<1>1. ASSUME NEW r \in Requests, Endpoint(r) \/ Step(r) \/ Fail(r) PROVE AloneInv'
  BY <1>1, EndpointAlone, CodeStepsAlone, AccountStepsAlone, RotateWriteAlone, IssueTokenPairAlone,
     SetPasswordAlone, RevokeAllAlone, FailAlone DEF Step
<1>2. CASE UNCHANGED vars
  <2>1. UNCHANGED <<req, version, session, changes, cut, refresh, reset, otp>>
    BY <1>2 DEF vars, account, tokens, codes, history
  <2> QED
    BY <2>1, SpendingAlone DEF Live
<1> QED
  BY <1>1, <1>2, TimeAlone DEF Next

-----------------------------------------------------------------------------
(* The account as it is signed in to: three loads, or at rest while tabs run. *)

SignInInv == IInv /\ (load = "alone" => AloneInv)

LEMMA SignInInductive == SignInSpec => []SignInInv
<1>1. SignInInit => SignInInv
  BY InitInv, InitAlone DEF SignInInit, SignInInv
<1>2. SignInInv /\ [SignInNext]_<<load, open, vars, browser>> => SignInInv'
  <2> SUFFICES ASSUME SignInInv, [SignInNext]_<<load, open, vars, browser>> PROVE SignInInv'
    OBVIOUS
  <2>1. [Next]_vars /\ load' = load
    BY DEF SignInNext
  <2>2. IInv'
    BY <2>1, StepInv DEF SignInInv
  <2>3. ASSUME load = "alone" PROVE AloneInv'
    <3>1. OneBusy'
      <4>1. CASE UNCHANGED vars
        BY <2>3, <4>1 DEF SignInInv, AloneInv, OneBusy, Busy, vars
      <4>2. CASE SignInNext
        BY <2>3, <4>2 DEF SignInNext, AccountLone, OneBusy, Busy
      <4> QED
        BY <4>1, <4>2
    <3> QED
      BY <2>1, <2>3, <3>1, NextAlone DEF SignInInv
  <2> QED
    BY <2>1, <2>2, <2>3 DEF SignInInv
<1> QED
  BY <1>1, <1>2, PTL DEF SignInSpec

\* An account that handles one request at a time is in order: its live sessions
\* are of its password, one per login, and a link or a code serves once
\* (auth.service.ts:266, token.service.ts:90, otp.service.ts:88).
THEOREM AloneInOrder == SignInSpec => []AloneAccountInOrder
<1>1. SignInInv => AloneAccountInOrder
  BY DEF SignInInv, AloneInv, InOrder, AloneAccountInOrder
<1> QED
  BY <1>1, SignInInductive, PTL

-----------------------------------------------------------------------------
(* The tabs. What a tab holds was issued to its user, and so was what its calls *)
(* and its refresh carry; while nobody is signed in and the page stays, only     *)
(* /auth/me or a login is in flight, and unless the two have crossed a login is   *)
(* alone: no refresh outlives a session into the next one.                        *)

\* Pairs the server issued, and a store whose tokens are of its user.
Issued(p) == p \in B!Pairs /\ owner[p] # None
Owned(auth) ==
  /\ auth.refresh = auth.access
  /\ auth.access # B!NoPair =>
       Issued(auth.access) /\ (crossed \/ (auth.user # None => owner[auth.access] = auth.user))

InFlight(t) == {c \in Calls : call[t][c].pc # "idle"}
OfOwner(t, p) == crossed \/ (mem[t].access # B!NoPair => owner[mem[t].access] = owner[p])

ServerInv ==
  /\ owner \in [B!Pairs -> Users \cup {None}]
  /\ fresh \subseteq B!Pairs /\ good \subseteq B!Pairs /\ \A p \in good \cup fresh : Issued(p)

BrowserTyped ==
  /\ mem \in [Tabs -> B!Auth] /\ storage \in B!Auth /\ leaving \subseteq Tabs
  /\ call \in [Tabs -> [Calls -> B!Call]] /\ leader \in [Tabs -> Calls \cup {None}]
  /\ refreshing \in [Tabs -> B!Refresh]
  /\ broken \in BOOLEAN /\ robbed \in BOOLEAN /\ crossed \in BOOLEAN

\* The refresh of a tab, and who leads it.
RefreshInv(t) ==
  /\ leader[t] # None <=> refreshing[t].pc # "idle"
  /\ \A c \in Calls : call[t][c].pc = "waiting" <=> leader[t] = c
  /\ refreshing[t].pc = "idle" => refreshing[t] = B!NoRefresh
  /\ refreshing[t].pc \in {"sent", "checked"} => refreshing[t].new = B!NoPair
  /\ refreshing[t].pc # "idle" =>
       /\ Issued(refreshing[t].old) /\ OfOwner(t, refreshing[t].old)
       /\ crossed \/ (mem[t].user # None => mem[t].user = owner[refreshing[t].old])
  /\ refreshing[t].pc = "answered" =>
       Issued(refreshing[t].new) /\ owner[refreshing[t].new] = owner[refreshing[t].old]

ProfileInv(t) ==
  \A c \in InFlight(t) : call[t][c].kind = "me" =>
    /\ Issued(call[t][c].access) /\ OfOwner(t, call[t][c].access)
    /\ crossed \/ (refreshing[t].pc # "idle" => owner[refreshing[t].old] = owner[call[t][c].access])

\* A login in flight: what it was granted, and that it is alone in its tab.
LoginAlone(t) ==
  \A c \in InFlight(t) : call[t][c].kind = "login" =>
    /\ B!Granted(call[t][c]) => call[t][c].pc = "sent" /\ Issued(call[t][c].body)
    /\ crossed \/ (InFlight(t) = {c} /\ mem[t].user = None /\ t \notin leaving)

TabInv(t) ==
  /\ Owned(mem[t]) /\ RefreshInv(t) /\ ProfileInv(t) /\ LoginAlone(t)
  /\ mem[t].user = None /\ t \notin leaving =>
       \A c \in InFlight(t) : call[t][c].kind \in {"me", "login"}

BrowserInv == ServerInv /\ BrowserTyped /\ Owned(storage) /\ \A t \in Tabs : TabInv(t)

\* What was issued stays so.
Lasting == \A p : Issued(p) => owner'[p] = owner[p]

LEMMA IssueLasts ==
  ASSUME ServerInv, NEW p \in B!Pairs, NEW u \in Users, B!Issue(p, u)
  PROVE  /\ Lasting /\ owner' \in [B!Pairs -> Users \cup {None}] /\ owner'[p] = u /\ owner[p] = None
         /\ fresh' = fresh \cup {p} /\ u # None
         /\ \A q : Issued(q) \/ q = p => Issued(q)'
BY NamesApart DEF ServerInv, B!Issue, Lasting, Issued

\* A tab that does nothing does not notice.
LEMMA OtherTab ==
  ASSUME NEW s \in Tabs, TabInv(s), Lasting, mem'[s] = mem[s], call'[s] = call[s],
         leader'[s] = leader[s], refreshing'[s] = refreshing[s], s \in leaving' <=> s \in leaving,
         \A p : Issued(p) => Issued(p)', crossed => crossed'
  PROVE  TabInv(s)'
<1>1. Owned(mem[s])'
  BY DEF TabInv, Owned, Lasting
<1>2. \A p : Issued(p) /\ OfOwner(s, p) => OfOwner(s, p)'
  BY DEF TabInv, Owned, OfOwner, Lasting
<1>3. RefreshInv(s)'
  BY <1>2 DEF TabInv, RefreshInv, Lasting
<1>4. ProfileInv(s)'
  BY <1>2 DEF TabInv, ProfileInv, RefreshInv, InFlight, Lasting
<1>5. LoginAlone(s)'
  BY DEF TabInv, LoginAlone, InFlight
<1> QED
  BY <1>1, <1>3, <1>4, <1>5 DEF TabInv, InFlight

\* So a step of one tab is about that tab and the server.
LEMMA OneTabSteps ==
  ASSUME BrowserInv, NEW t \in Tabs, ServerInv', BrowserTyped', Owned(storage)', TabInv(t)', Lasting,
         \A s \in Tabs \ {t} : /\ mem'[s] = mem[s] /\ call'[s] = call[s] /\ leader'[s] = leader[s]
                               /\ refreshing'[s] = refreshing[s] /\ (s \in leaving' <=> s \in leaving),
         \A p : Issued(p) => Issued(p)', crossed => crossed'
  PROVE  BrowserInv'
BY OtherTab DEF BrowserInv

\* Nothing is in flight where a login may be sent.
LEMMA LoginIsQuiet ==
  ASSUME NEW t \in Tabs, NEW c \in Calls, B!Send(t, c, "login"), BrowserInv
  PROVE  InFlight(t) = {} /\ mem[t].user = None /\ t \notin leaving
BY DEF B!Send, B!Loading, B!UnderWay, BrowserInv, TabInv, InFlight

\* The tab learns nothing of a session that the server has opened for it.
LEMMA GrantBrowser ==
  ASSUME BrowserInv, NEW t \in Tabs, NEW c \in Calls, NEW u \in Users, B!Grant(t, c, u)
  PROVE  BrowserInv'
<1> DEFINE k == call[t][c]
<1>1. PICK p \in B!Pairs :
        B!Issue(p, u) /\ good' = good \cup {p} /\ call' = [call EXCEPT ![t][c].body = p]
  BY DEF B!Grant
<1>2. /\ UNCHANGED <<mem, storage, leaving, leader, refreshing, broken, robbed, crossed>>
      /\ k.pc = "sent" /\ k.kind = "login" /\ k \in B!Call /\ call \in [Tabs -> [Calls -> B!Call]]
      /\ TabInv(t)
  BY DEF B!Grant, B!client, B!history, BrowserInv, BrowserTyped
<1>3. /\ Lasting /\ owner' \in [B!Pairs -> Users \cup {None}] /\ owner'[p] = u /\ owner[p] = None
      /\ fresh' = fresh \cup {p} /\ u # None
      /\ \A q : Issued(q) \/ q = p => Issued(q)'
  BY <1>1, IssueLasts DEF BrowserInv
<1>4. ServerInv'
  BY <1>1, <1>3 DEF BrowserInv, ServerInv, Issued
<1>5. PICK g \in B!Call : /\ g.pc = "sent" /\ g.kind = "login" /\ g.body = p /\ g.access = k.access
                          /\ call' = [call EXCEPT ![t] = [call[t] EXCEPT ![c] = g]]
  <2> DEFINE g == [k EXCEPT !.body = p]
  <2>1. g \in B!Call /\ g.pc = "sent" /\ g.kind = "login" /\ g.body = p /\ g.access = k.access
    BY <1>2 DEF B!Call
  <2>2. call' = [call EXCEPT ![t] = [call[t] EXCEPT ![c] = g]]
    BY <1>1, <1>2
  <2> HIDE DEF g
  <2> QED
    BY <2>1, <2>2
<1>6. /\ call' \in [Tabs -> [Calls -> B!Call]] /\ \A s \in Tabs \ {t} : call'[s] = call[s]
      /\ call'[t][c] = g /\ \A d \in Calls \ {c} : call'[t][d] = call[t][d]
  BY <1>2, <1>5
<1>7. InFlight(t)' = InFlight(t)
  BY <1>2, <1>5, <1>6 DEF InFlight
<1>8. BrowserTyped' /\ Owned(storage)' /\ Owned(mem[t])'
  BY <1>2, <1>3, <1>6 DEF BrowserInv, BrowserTyped, TabInv, Owned, Lasting
<1>9. \A q : Issued(q) /\ OfOwner(t, q) => OfOwner(t, q)'
  BY <1>2, <1>3 DEF TabInv, Owned, OfOwner, Lasting
<1>10. RefreshInv(t)'
  BY <1>2, <1>3, <1>5, <1>6, <1>9 DEF TabInv, RefreshInv, Lasting
<1>11. ProfileInv(t)'
  BY <1>2, <1>3, <1>5, <1>6, <1>7, <1>9 DEF TabInv, ProfileInv, RefreshInv, InFlight, Lasting
<1>12. LoginAlone(t)'
  BY <1>2, <1>3, <1>5, <1>6, <1>7 DEF TabInv, LoginAlone, InFlight
<1>13. TabInv(t)'
  BY <1>2, <1>5, <1>6, <1>7, <1>8, <1>10, <1>11, <1>12 DEF TabInv, InFlight
<1> QED
  BY <1>2, <1>3, <1>4, <1>6, <1>8, <1>13, OneTabSteps

\* A step that leaves the owners of pairs.
LEMMA SameOwners ==
  ASSUME owner' = owner
  PROVE  Lasting /\ \A p : Issued(p) <=> Issued(p)'
BY DEF Lasting, Issued

\* The records that a step may write.
LEMMA Records ==
  /\ B!NoCall \in B!Call /\ B!SignedOut \in B!Auth /\ B!NoRefresh \in B!Refresh
  /\ B!NoCall.pc = "idle" /\ B!NoRefresh.pc = "idle" /\ B!SignedOut.user = None
  /\ B!SignedOut.access = B!NoPair /\ B!SignedOut.refresh = B!NoPair
BY DEF B!NoCall, B!Call, B!Kinds, B!SignedOut, B!Auth, B!NoRefresh, B!Refresh, B!Pairs, B!NoPair

LEMMA SendBrowser ==
  ASSUME BrowserInv, NEW t \in Tabs, NEW c \in Calls, NEW kind \in B!Kinds,
         B!Send(t, c, kind)
  PROVE  BrowserInv'
<1> USE DEF BrowserInv
<1>1. /\ UNCHANGED <<owner, good, fresh, mem, storage, leaving, leader, refreshing, broken, robbed>>
      /\ crossed => crossed'
  BY DEF B!Send, B!server, B!client
<1>2. PICK k \in B!Call :
        /\ call' = [call EXCEPT ![t] = [call[t] EXCEPT ![c] = k]]
        /\ k.pc = "sent" /\ k.kind = kind /\ k.access = mem[t].access
        /\ kind = "login" => k.body = B!NoPair
  <2> DEFINE k == [B!NoCall EXCEPT !.pc = "sent", !.kind = kind, !.access = mem[t].access,
                                   !.body = IF kind = "logout" THEN B!Body(t) ELSE B!NoPair]
  <2>1. mem[t] \in B!Auth /\ call \in [Tabs -> [Calls -> B!Call]]
    BY DEF BrowserTyped
  <2>2. /\ k \in B!Call /\ k.pc = "sent" /\ k.kind = kind /\ k.access = mem[t].access
        /\ kind = "login" => k.body = B!NoPair
    BY <2>1 DEF B!NoCall, B!Call, B!Body, B!Auth
  <2>3. call' = [call EXCEPT ![t][c] = k]
    BY DEF B!Send
  <2>4. call' = [call EXCEPT ![t] = [call[t] EXCEPT ![c] = k]]
    BY <2>1, <2>3
  <2> HIDE DEF k
  <2> QED
    BY <2>2, <2>4
<1>3. /\ call \in [Tabs -> [Calls -> B!Call]] /\ call'[t] = [call[t] EXCEPT ![c] = k]
      /\ call' \in [Tabs -> [Calls -> B!Call]] /\ \A s \in Tabs \ {t} : call'[s] = call[s]
      /\ call'[t][c] = k /\ \A d \in Calls \ {c} : call'[t][d] = call[t][d]
  BY <1>2 DEF BrowserTyped
<1>4. /\ kind = "me" => mem[t].access # B!NoPair
      /\ kind \in {"api", "logout"} => mem[t].user # None
      /\ kind = "me" /\ (\E d \in InFlight(t) : call[t][d].kind = "login") => crossed'
      /\ crossed' \in BOOLEAN
      /\ call[t][c].pc = "idle" /\ t \notin leaving
  BY Zenon DEF B!Send, B!UnderWay, InFlight, BrowserTyped
<1>5. ServerInv' /\ BrowserTyped' /\ Owned(storage)' /\ Owned(mem[t])'
  BY <1>1, <1>3, <1>4 DEF ServerInv, BrowserTyped, Owned, Issued, TabInv
<1>6. RefreshInv(t)'
  BY <1>1, <1>2, <1>3, <1>4 DEF TabInv, RefreshInv, OfOwner, Issued
<1>7. ProfileInv(t)'
  BY <1>1, <1>2, <1>3, <1>4 DEF TabInv, RefreshInv, ProfileInv, Owned, OfOwner, Issued, InFlight
<1>8. LoginAlone(t)'
  <2>1. InFlight(t)' = InFlight(t) \cup {c} /\ c \notin InFlight(t)
    BY <1>2, <1>3, <1>4 DEF InFlight
  <2>2. CASE kind = "login"
    <3>1. InFlight(t) = {} /\ mem[t].user = None /\ t \notin leaving
      BY <2>2, LoginIsQuiet
    <3> QED
      BY <1>1, <1>2, <1>3, <2>1, <2>2, <3>1 DEF LoginAlone, InFlight, B!Granted
  <2>3. CASE kind # "login"
    <3>1. \A d \in InFlight(t)' : call'[t][d].kind = "login" => d # c /\ d \in InFlight(t) /\ crossed'
      BY <1>1, <1>2, <1>3, <1>4, <2>1, <2>3 DEF TabInv, LoginAlone, B!Kinds
    <3> QED
      BY <1>1, <1>3, <3>1 DEF TabInv, LoginAlone, Issued
  <2> QED
    BY <2>2, <2>3
<1>9. TabInv(t)'
  BY <1>1, <1>2, <1>3, <1>4, <1>5, <1>6, <1>7, <1>8 DEF TabInv, InFlight, B!Kinds
<1> QED
  BY <1>1, <1>3, <1>5, <1>9, SameOwners, OneTabSteps

LEMMA LoadBrowser ==
  ASSUME BrowserInv, NEW t \in Tabs, B!Load(t)
  PROVE  BrowserInv'
<1> USE DEF BrowserInv
<1>1. /\ UNCHANGED <<owner, good, fresh, storage, robbed, crossed>> /\ leaving' = leaving \ {t}
      /\ mem' = [mem EXCEPT ![t] = storage]
      /\ call' = [call EXCEPT ![t] = [c \in Calls |-> B!NoCall]]
      /\ leader' = [leader EXCEPT ![t] = None]
      /\ refreshing' = [refreshing EXCEPT ![t] = B!NoRefresh]
  BY DEF B!Load, B!server
<1>2. broken' \in BOOLEAN
  BY Zenon DEF B!Load
<1>3. BrowserTyped'
  BY <1>1, <1>2, Records DEF BrowserTyped
<1>4. /\ mem'[t] = storage /\ \A c \in Calls : call'[t][c].pc = "idle"
      /\ leader'[t] = None /\ refreshing'[t] = B!NoRefresh
  BY <1>1, Records DEF BrowserTyped
<1>5. ServerInv' /\ Owned(storage)' /\ Owned(mem[t])'
  BY <1>1, <1>4 DEF ServerInv, Owned, Issued
<1>6. TabInv(t)'
  BY <1>4, <1>5, Records, NamesApart DEF TabInv, RefreshInv, ProfileInv, LoginAlone, InFlight
<1>7. \A s \in Tabs \ {t} : /\ mem'[s] = mem[s] /\ call'[s] = call[s] /\ leader'[s] = leader[s]
                            /\ refreshing'[s] = refreshing[s] /\ (s \in leaving' <=> s \in leaving)
  BY <1>1 DEF BrowserTyped
<1> QED
  BY <1>1, <1>3, <1>5, <1>6, <1>7, SameOwners, OneTabSteps

\* A call that ends with nothing else in its tab but perhaps the store.
LEMMA CallEnds ==
  ASSUME BrowserInv, NEW t \in Tabs, NEW c \in Calls, call[t][c].pc = "sent",
         call' = [call EXCEPT ![t][c] = B!NoCall],
         UNCHANGED <<owner, leader, refreshing, crossed>>, ServerInv',
         mem' \in [Tabs -> B!Auth], storage' \in B!Auth, leaving' \subseteq Tabs,
         broken' \in BOOLEAN, robbed' \in BOOLEAN,
         \A s \in Tabs \ {t} : mem'[s] = mem[s] /\ (s \in leaving' <=> s \in leaving),
         mem'[t].access \in {mem[t].access, B!NoPair}, Owned(mem[t])', Owned(storage)',
         \/ crossed \/ mem'[t].user \in {None, mem[t].user}
         \/ refreshing[t].pc # "idle" => mem'[t].user = owner[refreshing[t].old],
         mem'[t].user = None /\ t \notin leaving' => mem[t].user = None /\ t \notin leaving
  PROVE  BrowserInv'
<1> USE DEF BrowserInv
<1>1. /\ call' \in [Tabs -> [Calls -> B!Call]] /\ \A s \in Tabs \ {t} : call'[s] = call[s]
      /\ call'[t][c] = B!NoCall /\ \A d \in Calls \ {c} : call'[t][d] = call[t][d]
  BY Records DEF BrowserTyped
<1>2. BrowserTyped'
  BY <1>1 DEF BrowserTyped
<1>3. RefreshInv(t)'
  BY <1>1, Records DEF TabInv, RefreshInv, OfOwner, Issued
<1>4. ProfileInv(t)'
  BY <1>1, Records DEF TabInv, ProfileInv, InFlight, OfOwner, Issued
<1>5. LoginAlone(t)'
  BY <1>1, Records DEF TabInv, LoginAlone, InFlight, Issued
<1>6. TabInv(t)'
  BY <1>1, <1>3, <1>4, <1>5, Records DEF TabInv, InFlight
<1> QED
  BY <1>1, <1>2, <1>6, SameOwners, OneTabSteps

\* What signing out does to the store, whoever calls it.
LEMMA LogoutStore ==
  ASSUME BrowserInv, NEW t \in Tabs, B!Logout(t)
  PROVE  /\ mem' \in [Tabs -> B!Auth] /\ storage' = B!SignedOut /\ mem'[t] = B!SignedOut
         /\ leaving' \subseteq Tabs /\ Owned(mem[t])' /\ Owned(storage)'
         /\ \A s \in Tabs \ {t} : mem'[s] = mem[s] /\ (s \in leaving' <=> s \in leaving)
         /\ t \notin leaving' => mem[t].user = None /\ t \notin leaving
         /\ mem[t].user = None => leaving' = leaving
<1>1. /\ mem' = [mem EXCEPT ![t] = B!SignedOut] /\ storage' = B!SignedOut
      /\ leaving' = leaving \cup (IF mem[t].user = None THEN {} ELSE {t})
  BY DEF B!Logout, B!SetStore
<1>2. mem' \in [Tabs -> B!Auth] /\ mem'[t] = B!SignedOut
  BY <1>1, Records DEF BrowserInv, BrowserTyped
<1>3. Owned(mem[t])' /\ Owned(storage)'
  BY <1>1, <1>2, Records DEF Owned
<1> QED
  BY <1>1, <1>2, <1>3 DEF BrowserInv, BrowserTyped

\* The login is answered: unless a profile was asked for meanwhile, it was alone.
LEMMA LoginBrowser ==
  ASSUME BrowserInv, NEW t \in Tabs, NEW c \in Calls, B!Succeeds(t, c), call[t][c].kind = "login"
  PROVE  BrowserInv'
<1> USE DEF BrowserInv
<1> DEFINE k == call[t][c]
           a == [user |-> owner[k.body], access |-> k.body, refresh |-> k.body]
<1>1. /\ k.pc = "sent" /\ k \in B!Call /\ B!Granted(k) /\ TabInv(t)
      /\ UNCHANGED <<owner, fresh, good, leader, refreshing, leaving, robbed, crossed>>
      /\ call' = [call EXCEPT ![t][c] = B!NoCall]
      /\ mem' = [mem EXCEPT ![t] = a] /\ storage' = a
  BY DEF B!Succeeds, B!SetStore, B!Granted, BrowserTyped
<1>2. broken' \in BOOLEAN
  BY Zenon DEF B!Succeeds
<1>3. Issued(k.body) /\ owner[k.body] \in Users /\ owner[k.body] # None
  BY <1>1, NamesApart DEF TabInv, LoginAlone, InFlight, Issued, ServerInv
<1>4. a \in B!Auth /\ a.user = owner[k.body] /\ a.access = k.body /\ a.refresh = k.body
  BY <1>3 DEF B!Auth, Issued
<1> HIDE DEF a
<1>5. /\ mem' \in [Tabs -> B!Auth] /\ mem'[t] = a /\ \A s \in Tabs \ {t} : mem'[s] = mem[s]
      /\ call' \in [Tabs -> [Calls -> B!Call]] /\ \A s \in Tabs \ {t} : call'[s] = call[s]
      /\ call'[t][c] = B!NoCall /\ \A d \in Calls \ {c} : call'[t][d] = call[t][d]
  BY <1>1, <1>4, Records DEF BrowserTyped
<1>6. ServerInv' /\ BrowserTyped' /\ Owned(mem[t])' /\ Owned(storage)'
  BY <1>1, <1>2, <1>3, <1>4, <1>5 DEF ServerInv, BrowserTyped, Owned, Issued
<1>7. InFlight(t)' = InFlight(t) \ {c} /\ c \in InFlight(t)
  BY <1>1, <1>5, Records DEF InFlight
<1>8. crossed \/ (InFlight(t)' = {} /\ refreshing[t].pc = "idle")
  <2>1. crossed \/ InFlight(t) = {c}
    BY <1>1, <1>7 DEF TabInv, LoginAlone
  <2>2. InFlight(t) = {c} => leader[t] = None
    BY <1>1 DEF TabInv, RefreshInv, InFlight, BrowserTyped
  <2> QED
    BY <1>1, <1>7, <2>1, <2>2 DEF TabInv, RefreshInv
<1>9. RefreshInv(t)'
  BY <1>1, <1>5, <1>8, Records DEF TabInv, RefreshInv, OfOwner, Issued
<1>10. ProfileInv(t)' /\ LoginAlone(t)'
  BY <1>1, <1>5, <1>7, <1>8 DEF TabInv, ProfileInv, LoginAlone, InFlight, OfOwner, Issued
<1>11. TabInv(t)'
  BY <1>3, <1>4, <1>5, <1>6, <1>9, <1>10 DEF TabInv
<1> QED
  BY <1>1, <1>5, <1>6, <1>11, SameOwners, OneTabSteps

LEMMA SucceedsBrowser ==
  ASSUME BrowserInv, NEW t \in Tabs, NEW c \in Calls, B!Succeeds(t, c)
  PROVE  BrowserInv'
<1> USE DEF BrowserInv
<1> DEFINE k == call[t][c]
<1>1. /\ k.pc = "sent" /\ call' = [call EXCEPT ![t][c] = B!NoCall]
      /\ UNCHANGED <<owner, fresh, leader, refreshing, robbed, crossed>> /\ k \in B!Call
      /\ mem[t] \in B!Auth
  BY DEF B!Succeeds, BrowserTyped
<1>2. broken' \in BOOLEAN
  BY Zenon DEF B!Succeeds
<1>3. ServerInv'
  <2>1. good' \subseteq good
    BY DEF B!Succeeds
  <2> QED
    BY <1>1, <2>1 DEF ServerInv, Issued
<1>4. CASE k.kind = "api"
  <2>1. UNCHANGED <<mem, storage, leaving>>
    BY <1>4 DEF B!Succeeds, B!Granted, B!KeepClient, B!client
  <2>2. Owned(mem[t])' /\ Owned(storage)'
    BY <1>1, <2>1 DEF TabInv, Owned, Issued
  <2> QED
    BY <1>1, <1>2, <1>3, <2>1, <2>2, CallEnds DEF BrowserTyped
<1>5. CASE k.kind = "me"
  <2>1. /\ mem' = [mem EXCEPT ![t] = [mem[t] EXCEPT !.user = owner[k.access]]]
        /\ storage' = [mem[t] EXCEPT !.user = owner[k.access]] /\ leaving' = leaving
    BY <1>5 DEF B!Succeeds, B!Granted, B!SetStore, B!MeUser
  <2>2. Issued(k.access) /\ OfOwner(t, k.access)
    BY <1>1, <1>5 DEF TabInv, ProfileInv, InFlight
  <2>3. owner[k.access] \in Users /\ owner[k.access] # None
    BY <2>2, NamesApart DEF Issued, ServerInv
  <2>4. /\ storage' \in B!Auth /\ mem' \in [Tabs -> B!Auth] /\ mem'[t] = storage'
        /\ storage'.user = owner[k.access] /\ storage'.access = mem[t].access
        /\ storage'.refresh = mem[t].refresh /\ \A s \in Tabs \ {t} : mem'[s] = mem[s]
    BY <1>1, <2>1, <2>3 DEF BrowserTyped, B!Auth
  <2>5. Owned(mem[t])' /\ Owned(storage)'
    BY <1>1, <2>2, <2>4 DEF TabInv, Owned, Issued, OfOwner
  <2>6. mem'[t].user # None
    BY <2>3, <2>4
  <2>7. crossed \/ (refreshing[t].pc # "idle" => mem'[t].user = owner[refreshing[t].old])
    BY <1>1, <1>5, <2>4 DEF TabInv, ProfileInv, InFlight
  <2> QED
    BY <1>1, <1>2, <1>3, <2>1, <2>4, <2>5, <2>6, <2>7, CallEnds DEF BrowserTyped
<1>6. CASE k.kind = "logout"
  <2>1. B!Logout(t)
    BY <1>6 DEF B!Succeeds, B!Granted
  <2> QED
    BY <1>1, <1>2, <1>3, <2>1, LogoutStore, Records, CallEnds DEF BrowserTyped
<1>7. CASE k.kind = "login"
  BY <1>7, LoginBrowser
<1> QED
  BY <1>1, <1>4, <1>5, <1>6, <1>7 DEF B!Call, B!Kinds

LEMMA RejectedBrowser ==
  ASSUME BrowserInv, NEW t \in Tabs, NEW c \in Calls, B!Rejected(t, c)
  PROVE  BrowserInv'
<1> USE DEF BrowserInv
<1>1. /\ call[t][c].pc = "sent" /\ call' = [call EXCEPT ![t][c] = B!NoCall]
      /\ UNCHANGED <<owner, good, fresh, leader, refreshing, robbed, crossed>>
  BY DEF B!Rejected, B!server
<1>2. ServerInv'
  BY <1>1 DEF ServerInv, Issued
<1> HIDE DEF BrowserInv
<1>5. broken' \in BOOLEAN
  BY Zenon DEF B!Rejected
<1> USE DEF BrowserInv
<1>3. CASE call[t][c].kind = "logout"
  <2>1. B!Logout(t)
    BY <1>3 DEF B!Rejected
  <2> QED
    BY <1>1, <1>2, <1>5, <2>1, LogoutStore, Records, CallEnds DEF BrowserTyped
<1>4. CASE call[t][c].kind # "logout"
  <2>1. UNCHANGED <<mem, storage, leaving>>
    BY <1>4 DEF B!Rejected, B!KeepClient, B!client
  <2>2. Owned(mem[t])' /\ Owned(storage)'
    BY <1>1, <2>1 DEF TabInv, Owned, Issued
  <2> QED
    BY <1>1, <1>2, <1>5, <2>1, <2>2, CallEnds DEF BrowserTyped
<1> QED
  BY <1>3, <1>4

LEMMA UnauthorizedBrowser ==
  ASSUME BrowserInv, NEW t \in Tabs, NEW c \in Calls, B!Unauthorized(t, c)
  PROVE  BrowserInv'
<1> USE DEF BrowserInv
<1> DEFINE k == call[t][c]
<1>1. /\ k.pc = "sent" /\ UNCHANGED <<owner, good, fresh, broken, robbed, crossed>> /\ k \in B!Call
      /\ mem[t] \in B!Auth /\ call \in [Tabs -> [Calls -> B!Call]]
      /\ TabInv(t) /\ ~B!Granted(k)
  BY DEF B!Unauthorized, B!server, B!history, B!Granted, BrowserTyped
<1>2. ServerInv'
  BY <1>1 DEF ServerInv, Issued
<1>3. CASE mem[t].refresh = B!NoPair
  <2>1. /\ B!Logout(t) /\ call' = [call EXCEPT ![t][c] = B!NoCall] /\ UNCHANGED <<leader, refreshing>>
    BY <1>3 DEF B!Unauthorized
  <2> QED
    BY <1>1, <1>2, <2>1, LogoutStore, Records, CallEnds DEF BrowserTyped
<1>4. CASE mem[t].refresh # B!NoPair /\ B!Refreshing(t)
  <2>1. /\ UNCHANGED <<mem, storage, leaving, leader, refreshing>>
        /\ call' = [call EXCEPT ![t][c].pc = "queued"] /\ leader[t] # None
    BY <1>4 DEF B!Unauthorized, B!KeepClient, B!client, B!Refreshing
  <2>2. PICK g \in B!Call : /\ g.pc = "queued" /\ g.kind = k.kind /\ g.access = k.access /\ g.body = k.body
                            /\ call' = [call EXCEPT ![t] = [call[t] EXCEPT ![c] = g]]
    <3> DEFINE g == [k EXCEPT !.pc = "queued"]
    <3>1. g \in B!Call /\ g.pc = "queued" /\ g.kind = k.kind /\ g.access = k.access /\ g.body = k.body
      BY <1>1 DEF B!Call
    <3>2. call' = [call EXCEPT ![t] = [call[t] EXCEPT ![c] = g]]
      BY <1>1, <2>1
    <3> QED
      BY <3>1, <3>2
  <2>3. /\ call' \in [Tabs -> [Calls -> B!Call]] /\ \A s \in Tabs \ {t} : call'[s] = call[s]
        /\ call'[t][c] = g /\ \A d \in Calls \ {c} : call'[t][d] = call[t][d]
    BY <1>1, <2>2
  <2>4. BrowserTyped' /\ Owned(storage)' /\ Owned(mem[t])'
    BY <1>1, <2>1, <2>3 DEF BrowserTyped, TabInv, Owned, Issued
  <2>5. RefreshInv(t)'
    BY <1>1, <2>1, <2>2, <2>3 DEF TabInv, RefreshInv, OfOwner, Issued
  <2>6. ProfileInv(t)'
    BY <1>1, <2>1, <2>2, <2>3 DEF TabInv, ProfileInv, InFlight, OfOwner, Issued
  <2>7. InFlight(t)' = InFlight(t)
    BY <1>1, <2>2, <2>3 DEF InFlight
  <2>8. LoginAlone(t)'
    BY <1>1, <2>1, <2>2, <2>3, <2>7 DEF TabInv, LoginAlone, InFlight, B!Granted, Issued
  <2>9. TabInv(t)'
    BY <1>1, <2>1, <2>2, <2>3, <2>4, <2>5, <2>6, <2>8 DEF TabInv, InFlight
  <2> QED
    BY <1>1, <1>2, <2>1, <2>3, <2>4, <2>9, SameOwners, OneTabSteps
<1>5. CASE mem[t].refresh # B!NoPair /\ ~B!Refreshing(t)
  <2> DEFINE f == [pc |-> "sent", old |-> mem[t].refresh, new |-> B!NoPair]
  <2>1. /\ UNCHANGED <<mem, storage, leaving>> /\ leader[t] = None
        /\ call' = [call EXCEPT ![t][c].pc = "waiting", ![t][c].retry = TRUE]
        /\ leader' = [leader EXCEPT ![t] = c]
        /\ refreshing' = [refreshing EXCEPT ![t] = f]
    BY <1>5 DEF B!Unauthorized, B!KeepClient, B!client, B!Refreshing
  <2>2. PICK g \in B!Call : /\ g.pc = "waiting" /\ g.kind = k.kind /\ g.access = k.access /\ g.body = k.body
                            /\ call' = [call EXCEPT ![t] = [call[t] EXCEPT ![c] = g]]
    <3> DEFINE g == [k EXCEPT !.pc = "waiting", !.retry = TRUE]
    <3>1. g \in B!Call /\ g.pc = "waiting" /\ g.kind = k.kind /\ g.access = k.access /\ g.body = k.body
      BY <1>1 DEF B!Call
    <3>2. call' = [call EXCEPT ![t] = [call[t] EXCEPT ![c] = g]]
      BY <1>1, <2>1
    <3> QED
      BY <3>1, <3>2
  <2>3. /\ call' \in [Tabs -> [Calls -> B!Call]] /\ \A s \in Tabs \ {t} : call'[s] = call[s]
        /\ call'[t][c] = g /\ \A d \in Calls \ {c} : call'[t][d] = call[t][d]
    BY <1>1, <2>2
  <2>4. f \in B!Refresh
    BY <1>1, <1>5 DEF B!Refresh, B!Auth
  <2>5. /\ leader' \in [Tabs -> Calls \cup {None}] /\ leader'[t] = c
        /\ refreshing' \in [Tabs -> B!Refresh] /\ refreshing'[t] = f
        /\ \A s \in Tabs \ {t} : leader'[s] = leader[s] /\ refreshing'[s] = refreshing[s]
    BY <2>1, <2>4 DEF BrowserTyped
  <2>6. BrowserTyped' /\ Owned(storage)' /\ Owned(mem[t])'
    BY <1>1, <2>1, <2>3, <2>5 DEF BrowserTyped, TabInv, Owned, Issued
  <2>7. /\ Issued(mem[t].refresh) /\ OfOwner(t, mem[t].refresh) /\ mem[t].access = mem[t].refresh
        /\ crossed \/ (mem[t].user # None => mem[t].user = owner[mem[t].refresh])
    BY <1>1, <1>5 DEF TabInv, Owned, OfOwner
  <2>8. RefreshInv(t)'
    BY <1>1, <2>1, <2>2, <2>3, <2>5, <2>7, NamesApart DEF TabInv, RefreshInv, OfOwner, Issued
  <2>9. ProfileInv(t)'
    BY <1>1, <2>1, <2>2, <2>3, <2>5, <2>7, <1>5 DEF TabInv, ProfileInv, InFlight, OfOwner, Issued
  <2>10. InFlight(t)' = InFlight(t)
    BY <1>1, <2>2, <2>3 DEF InFlight
  <2>11. LoginAlone(t)'
    BY <1>1, <2>1, <2>2, <2>3, <2>10 DEF TabInv, LoginAlone, InFlight, B!Granted, Issued
  <2>12. TabInv(t)'
    BY <1>1, <2>1, <2>2, <2>3, <2>6, <2>8, <2>9, <2>11 DEF TabInv, InFlight
  <2> QED
    BY <1>1, <1>2, <2>1, <2>3, <2>5, <2>6, <2>12, SameOwners, OneTabSteps
<1> QED
  BY <1>3, <1>4, <1>5

LEMMA RefreshCheckBrowser ==
  ASSUME BrowserInv, NEW t \in Tabs, B!RefreshCheck(t)
  PROVE  BrowserInv'
<1> USE DEF BrowserInv
<1>1. /\ UNCHANGED <<owner, good, fresh, mem, storage, leaving, call, leader, broken, robbed, crossed>>
      /\ refreshing' = [refreshing EXCEPT ![t].pc = "checked"] /\ refreshing[t].pc = "sent"
  BY DEF B!RefreshCheck, B!server, B!client, B!history
<1>2. /\ refreshing' \in [Tabs -> B!Refresh] /\ refreshing'[t].pc = "checked"
      /\ refreshing'[t].old = refreshing[t].old /\ refreshing'[t].new = refreshing[t].new
      /\ \A s \in Tabs \ {t} : refreshing'[s] = refreshing[s]
  BY <1>1 DEF BrowserTyped, B!Refresh
<1>3. ServerInv' /\ BrowserTyped' /\ Owned(storage)' /\ Owned(mem[t])'
  BY <1>1, <1>2 DEF ServerInv, BrowserTyped, TabInv, Owned, Issued
<1>4. RefreshInv(t)' /\ ProfileInv(t)' /\ LoginAlone(t)'
  BY <1>1, <1>2 DEF TabInv, RefreshInv, ProfileInv, LoginAlone, InFlight, OfOwner, Issued
<1>5. TabInv(t)'
  BY <1>1, <1>3, <1>4 DEF TabInv, InFlight
<1> QED
  BY <1>1, <1>2, <1>3, <1>5, SameOwners, OneTabSteps

\* The pair that replaces the old one is issued to the same user.
LEMMA RefreshRotateBrowser ==
  ASSUME BrowserInv, NEW t \in Tabs, B!RefreshRotate(t)
  PROVE  BrowserInv'
<1> USE DEF BrowserInv
<1> DEFINE old == refreshing[t].old
<1>1. /\ refreshing[t].pc = "checked" /\ TabInv(t) /\ refreshing[t] \in B!Refresh
      /\ UNCHANGED <<mem, storage, leaving, call, leader, broken, robbed, crossed>>
  BY DEF B!RefreshRotate, B!client, B!history, BrowserTyped
<1>2. PICK p \in B!Pairs :
        /\ B!Issue(p, owner[old]) /\ good' = (good \ {old}) \cup {p}
        /\ refreshing' = [refreshing EXCEPT ![t].pc = "answered", ![t].new = p]
  BY DEF B!RefreshRotate
<1>3. Issued(old) /\ OfOwner(t, old) /\ owner[old] \in Users
  BY <1>1 DEF TabInv, RefreshInv, ServerInv, Issued
<1>4. /\ Lasting /\ owner' \in [B!Pairs -> Users \cup {None}] /\ owner'[p] = owner[old]
      /\ owner[p] = None /\ fresh' = fresh \cup {p} /\ owner[old] # None
      /\ \A q : Issued(q) \/ q = p => Issued(q)'
  BY <1>2, <1>3, IssueLasts
<1>5. ServerInv'
  BY <1>2, <1>4 DEF ServerInv, Issued
<1>6. /\ refreshing' \in [Tabs -> B!Refresh] /\ refreshing'[t].pc = "answered"
      /\ refreshing'[t].old = old /\ refreshing'[t].new = p
      /\ \A s \in Tabs \ {t} : refreshing'[s] = refreshing[s]
  BY <1>1, <1>2 DEF BrowserTyped, B!Refresh
<1>7. BrowserTyped'
  BY <1>1, <1>6 DEF BrowserTyped
<1>8. Owned(storage)' /\ Owned(mem[t])'
  BY <1>1, <1>4 DEF TabInv, Owned, Lasting
<1>9. \A q : Issued(q) /\ OfOwner(t, q) => OfOwner(t, q)'
  BY <1>1, <1>4 DEF TabInv, Owned, OfOwner, Lasting
<1>10. RefreshInv(t)'
  BY <1>1, <1>3, <1>4, <1>6, <1>9 DEF TabInv, RefreshInv, Lasting
<1>11. ProfileInv(t)'
  BY <1>1, <1>3, <1>4, <1>6, <1>9 DEF TabInv, ProfileInv, InFlight, Lasting
<1>12. LoginAlone(t)'
  BY <1>1, <1>4 DEF TabInv, LoginAlone, InFlight
<1>13. TabInv(t)'
  BY <1>1, <1>8, <1>10, <1>11, <1>12 DEF TabInv, InFlight
<1> QED
  BY <1>1, <1>4, <1>5, <1>6, <1>7, <1>8, <1>13, OneTabSteps

\* The calls of a tab after a refresh has ended, with tokens or without.
LEMMA RefreshEnds ==
  ASSUME BrowserInv, NEW t \in Tabs, refreshing[t].pc # "idle",
         call' \in [Tabs -> [Calls -> B!Call]], \A s \in Tabs \ {t} : call'[s] = call[s],
         \A c \in Calls : /\ call'[t][c].pc # "waiting"
                          /\ call'[t][c].pc # "idle" =>
                               call[t][c].pc # "idle" /\ call'[t][c].kind = call[t][c].kind,
         leader' = [leader EXCEPT ![t] = None],
         refreshing' = [refreshing EXCEPT ![t] = B!NoRefresh]
  PROVE  /\ leader' \in [Tabs -> Calls \cup {None}] /\ refreshing' \in [Tabs -> B!Refresh]
         /\ \A s \in Tabs \ {t} : leader'[s] = leader[s] /\ refreshing'[s] = refreshing[s]
         /\ RefreshInv(t)' /\ InFlight(t)' \subseteq InFlight(t)
<1>1. /\ leader' \in [Tabs -> Calls \cup {None}] /\ refreshing' \in [Tabs -> B!Refresh]
      /\ leader'[t] = None /\ refreshing'[t] = B!NoRefresh
      /\ \A s \in Tabs \ {t} : leader'[s] = leader[s] /\ refreshing'[s] = refreshing[s]
  BY Records DEF BrowserInv, BrowserTyped
<1>2. RefreshInv(t)'
  BY <1>1, Records, NamesApart DEF RefreshInv
<1> QED
  BY <1>1, <1>2 DEF InFlight

LEMMA RefreshOkBrowser ==
  ASSUME BrowserInv, NEW t \in Tabs, B!RefreshOk(t)
  PROVE  BrowserInv'
<1> USE DEF BrowserInv
<1> DEFINE p == refreshing[t].new
           a == [mem[t] EXCEPT !.access = p, !.refresh = p]
<1>1. /\ refreshing[t].pc = "answered" /\ TabInv(t) /\ refreshing[t] \in B!Refresh
      /\ mem[t] \in B!Auth /\ call \in [Tabs -> [Calls -> B!Call]]
      /\ UNCHANGED <<owner, good, fresh, leaving, robbed, crossed>>
      /\ mem' = [mem EXCEPT ![t] = a] /\ storage' = a
      /\ leader' = [leader EXCEPT ![t] = None]
      /\ refreshing' = [refreshing EXCEPT ![t] = B!NoRefresh]
  BY DEF B!RefreshOk, B!SetStore, B!SetTokens, B!server, BrowserTyped
<1>2. broken' \in BOOLEAN
  BY Zenon DEF B!RefreshOk
<1>3. call' = [call EXCEPT ![t] = [c \in Calls |->
                 IF call[t][c].pc \in {"queued", "waiting"}
                 THEN [call[t][c] EXCEPT !.pc = "sent", !.access = p] ELSE call[t][c]]]
  BY DEF B!RefreshOk, B!WithCalls, B!Released, B!InPC, B!Sent
<1>4. Issued(p) /\ owner[p] = owner[refreshing[t].old] /\ Issued(refreshing[t].old)
      /\ OfOwner(t, refreshing[t].old) /\ p # B!NoPair /\ p \in B!Pairs
  BY <1>1 DEF TabInv, RefreshInv, Issued, B!Pairs, B!NoPair
<1>5. \A c \in Calls : /\ call'[t][c] \in B!Call /\ call'[t][c].kind = call[t][c].kind
                       /\ call'[t][c].access \in {p, call[t][c].access}
                       /\ call'[t][c].pc # "waiting"
                       /\ call'[t][c].pc # "idle" <=> call[t][c].pc # "idle"
                       /\ call'[t][c].body = call[t][c].body
                       /\ call[t][c].pc = "sent" => call'[t][c].pc = "sent"
  <2>1. ASSUME NEW c \in Calls, call[t][c].pc \in {"queued", "waiting"}
        PROVE  /\ call'[t][c] \in B!Call /\ call'[t][c].kind = call[t][c].kind
               /\ call'[t][c].access = p /\ call'[t][c].pc = "sent"
               /\ call'[t][c].body = call[t][c].body
    <3>1. call'[t][c] = [call[t][c] EXCEPT !.pc = "sent", !.access = p] /\ call[t][c] \in B!Call
      BY <1>1, <1>3, <2>1
    <3> QED
      BY <1>4, <3>1 DEF B!Call
  <2>2. ASSUME NEW c \in Calls, call[t][c].pc \notin {"queued", "waiting"}
        PROVE  call'[t][c] = call[t][c] /\ call[t][c] \in B!Call
    BY <1>1, <1>3, <2>2
  <2> QED
    BY <2>1, <2>2
<1>6. call' \in [Tabs -> [Calls -> B!Call]] /\ \A s \in Tabs \ {t} : call'[s] = call[s]
  <2>1. call'[t] = [c \in Calls |-> call'[t][c]]
    BY <1>1, <1>3
  <2>2. call'[t] \in [Calls -> B!Call]
    BY <1>5, <2>1
  <2> QED
    BY <1>1, <1>3, <2>2
<1>7. /\ leader' \in [Tabs -> Calls \cup {None}] /\ refreshing' \in [Tabs -> B!Refresh]
      /\ \A s \in Tabs \ {t} : leader'[s] = leader[s] /\ refreshing'[s] = refreshing[s]
      /\ RefreshInv(t)' /\ InFlight(t)' \subseteq InFlight(t)
  BY <1>1, <1>5, <1>6, RefreshEnds
<1>8. /\ a \in B!Auth /\ a.user = mem[t].user /\ a.access = p /\ a.refresh = p
      /\ mem' \in [Tabs -> B!Auth] /\ mem'[t] = a /\ \A s \in Tabs \ {t} : mem'[s] = mem[s]
  BY <1>1, <1>4 DEF BrowserTyped, B!Auth
<1>9. BrowserTyped' /\ ServerInv'
  BY <1>1, <1>2, <1>6, <1>7, <1>8 DEF BrowserTyped, ServerInv, Issued
<1>10. Owned(mem[t])' /\ Owned(storage)'
  <2>1. crossed \/ (mem[t].user # None => owner[p] = mem[t].user)
    BY <1>1, <1>4 DEF TabInv, RefreshInv
  <2> QED
    BY <1>1, <1>4, <1>8, <2>1 DEF Owned, Issued
<1>11. ProfileInv(t)'
  BY <1>1, <1>4, <1>5, <1>7, <1>8, Records DEF TabInv, ProfileInv, InFlight, OfOwner, Issued, BrowserTyped
<1>12. LoginAlone(t)'
  <2>1. InFlight(t)' = InFlight(t)
    BY <1>5 DEF InFlight
  <2> QED
    BY <1>1, <1>5, <1>8, <2>1 DEF TabInv, LoginAlone, InFlight, B!Granted, Issued
<1>13. TabInv(t)'
  BY <1>1, <1>5, <1>7, <1>8, <1>10, <1>11, <1>12 DEF TabInv, InFlight
<1> QED
  BY <1>1, <1>6, <1>7, <1>8, <1>9, <1>10, <1>13, SameOwners, OneTabSteps

LEMMA RefreshFailsBrowser ==
  ASSUME BrowserInv, NEW t \in Tabs, B!RefreshFails(t)
  PROVE  BrowserInv'
<1> USE DEF BrowserInv
<1>1. /\ refreshing[t].pc # "idle" /\ TabInv(t) /\ call \in [Tabs -> [Calls -> B!Call]]
      /\ UNCHANGED <<owner, good, fresh, crossed>> /\ B!Logout(t)
      /\ leader' = [leader EXCEPT ![t] = None]
      /\ refreshing' = [refreshing EXCEPT ![t] = B!NoRefresh]
  BY DEF B!RefreshFails, B!server, BrowserTyped
<1>2. broken' \in BOOLEAN
  BY DEF B!RefreshFails, BrowserTyped
<1>3. robbed' \in BOOLEAN
  BY Zenon DEF B!RefreshFails
<1>4. call' = [call EXCEPT ![t] = [c \in Calls |->
                 IF call[t][c].pc \in {"queued", "waiting"} THEN B!NoCall ELSE call[t][c]]]
  BY DEF B!RefreshFails, B!WithCalls, B!QueueOf, B!InPC, B!Ended
<1>5. /\ call' \in [Tabs -> [Calls -> B!Call]] /\ \A s \in Tabs \ {t} : call'[s] = call[s]
      /\ \A c \in Calls : /\ call'[t][c].pc # "waiting"
                          /\ call'[t][c].pc # "idle" => call'[t][c] = call[t][c]
  BY <1>1, <1>4, Records
<1>6. /\ leader' \in [Tabs -> Calls \cup {None}] /\ refreshing' \in [Tabs -> B!Refresh]
      /\ \A s \in Tabs \ {t} : leader'[s] = leader[s] /\ refreshing'[s] = refreshing[s]
      /\ RefreshInv(t)' /\ InFlight(t)' \subseteq InFlight(t)
      /\ \A c \in InFlight(t)' : call'[t][c] = call[t][c]
  <2>1. \A c \in Calls : /\ call'[t][c].pc # "waiting"
                         /\ call'[t][c].pc # "idle" =>
                              call[t][c].pc # "idle" /\ call'[t][c].kind = call[t][c].kind
    BY <1>5
  <2>2. \A c \in InFlight(t)' : call'[t][c] = call[t][c]
    BY <1>5 DEF InFlight
  <2> QED
    BY <1>1, <1>5, <2>1, <2>2, RefreshEnds
<1>7. BrowserTyped' /\ ServerInv'
  BY <1>1, <1>2, <1>3, <1>5, <1>6, LogoutStore, Records DEF BrowserTyped, ServerInv, Issued
<1>8. ProfileInv(t)'
  <2>1. refreshing'[t].pc = "idle" /\ mem'[t].access = B!NoPair
    BY <1>1, LogoutStore, Records DEF BrowserTyped
  <2> QED
    BY <1>1, <1>6, <2>1 DEF TabInv, ProfileInv, OfOwner, Issued
<1>9. LoginAlone(t)'
  BY <1>1, <1>6, LogoutStore, Records DEF TabInv, LoginAlone, Issued
<1>10. TabInv(t)'
  BY <1>1, <1>6, <1>8, <1>9, LogoutStore DEF TabInv
<1> QED
  BY <1>1, <1>5, <1>6, <1>7, <1>10, LogoutStore, SameOwners, OneTabSteps

\* Tokens stop being good.
LEMMA EndsBrowser ==
  ASSUME BrowserInv, \/ \E p \in B!Pairs : B!AccessExpires(p)
                     \/ \E u \in Users : B!SessionEnds(u)
                     \/ UNCHANGED browser
  PROVE  BrowserInv'
<1>1. /\ UNCHANGED <<owner, mem, storage, leaving, call, leader, refreshing, broken, robbed, crossed>>
      /\ good' \subseteq good /\ fresh' \subseteq fresh
  BY DEF B!AccessExpires, B!SessionEnds, B!client, B!flight, B!history, browser
<1> QED
  BY <1>1 DEF BrowserInv, ServerInv, BrowserTyped, TabInv, RefreshInv, ProfileInv, LoginAlone, InFlight, OfOwner,
     Owned, Issued

LEMMA InitBrowser == ASSUME B!Init PROVE BrowserInv
<1> USE Records, NamesApart DEF B!Init
<1>1. ServerInv /\ BrowserTyped
  BY DEF ServerInv, BrowserTyped, Issued
<1>2. Owned(storage) /\ \A t \in Tabs : Owned(mem[t]) /\ InFlight(t) = {}
  BY DEF Owned, InFlight
<1>3. \A t \in Tabs : RefreshInv(t)
  BY DEF RefreshInv
<1> QED
  BY <1>1, <1>2, <1>3 DEF BrowserInv, TabInv, ProfileInv, LoginAlone

LEMMA NextBrowser == ASSUME BrowserInv, B!Next \/ UNCHANGED browser PROVE BrowserInv'
<1>1. ASSUME NEW t \in Tabs, NEW c \in Calls, B!Answer(t, c) PROVE BrowserInv'
  BY <1>1, SucceedsBrowser, RejectedBrowser, UnauthorizedBrowser DEF B!Answer
<1>2. ASSUME NEW t \in Tabs, B!RefreshStep(t) PROVE BrowserInv'
  BY <1>2, RefreshCheckBrowser, RefreshRotateBrowser, RefreshOkBrowser, RefreshFailsBrowser
     DEF B!RefreshStep
<1>3. ASSUME NEW t \in Tabs, B!Unload(t) \/ B!Reload(t) PROVE BrowserInv'
  BY <1>3, LoadBrowser DEF B!Unload, B!Reload
<1> QED
  BY <1>1, <1>2, <1>3, GrantBrowser, SendBrowser, EndsBrowser DEF B!Next

-----------------------------------------------------------------------------
(* One tab. The store in memory is the one in localStorage, and a refresh uses *)
(* the token of the store: whatever session the server keeps is in one of the  *)
(* two or in the answer to a login, unless an answer was lost or a logout and a *)
(* refresh overlapped.                                                           *)

\* The tabs that are not open.
Closed(s) ==
  /\ mem[s] = B!SignedOut /\ leader[s] = None /\ refreshing[s] = B!NoRefresh /\ s \notin leaving
  /\ call[s] = [c \in Calls |-> B!NoCall]

\* What holds unless something overlapped or was lost.
Given(t, p) == \E c \in InFlight(t) : B!Granted(call[t][c]) /\ call[t][c].body = p
SoleOrderly(t) ==
  /\ ~crossed
  /\ refreshing[t].pc # "idle" => mem[t].refresh = refreshing[t].old
  /\ mem[t].user = None => mem[t].refresh = B!NoPair
  /\ refreshing[t].pc = "answered" => refreshing[t].old \notin good
  /\ \A p \in good : p \in {mem[t].refresh, refreshing[t].old, refreshing[t].new} \/ Given(t, p)
  /\ \A c \in InFlight(t) : call[t][c].kind = "logout" =>
                              call[t][c].body = mem[t].refresh \/ mem[t].refresh = B!NoPair

SoleInv(t) ==
  /\ storage = mem[t] /\ \A s \in Tabs \ {t} : Closed(s)
  /\ B!NotRobbed /\ (broken \/ SoleOrderly(t))

\* A step of the tab that is open leaves the others closed.
LEMMA StayClosed ==
  ASSUME NEW t \in Tabs, \A s \in Tabs \ {t} : Closed(s),
         \A s \in Tabs \ {t} : /\ mem'[s] = mem[s] /\ call'[s] = call[s] /\ leader'[s] = leader[s]
                               /\ refreshing'[s] = refreshing[s] /\ (s \in leaving' <=> s \in leaving)
  PROVE  \A s \in Tabs \ {t} : Closed(s)'
BY DEF Closed

\* No step of another tab is possible, but to load and find nothing.
LEMMA ClosedSteps ==
  ASSUME BrowserInv, NEW t \in Tabs, SoleInv(t), NEW s \in Tabs \ {t}, mem'[s] = mem[s],
         call'[s] = call[s],
         \/ \E c \in Calls :
              \/ \E kind \in B!Kinds : B!Send(s, c, kind)
              \/ \E u \in Users : B!Grant(s, c, u)
              \/ B!Answer(s, c)
         \/ B!RefreshStep(s) \/ B!Unload(s) \/ B!Reload(s)
  PROVE  SoleInv(t)'
<1>1. Closed(s)
  BY DEF SoleInv
<1>2. \A c \in Calls : call[s][c] = B!NoCall
  BY <1>1 DEF Closed
<1>3. ASSUME NEW c \in Calls, NEW kind \in B!Kinds, B!Send(s, c, kind) PROVE FALSE
  <2>1. call \in [Tabs -> [Calls -> B!Call]]
    BY DEF BrowserInv, BrowserTyped
  <2>2. call'[s][c].pc = "sent"
    BY <1>3, <2>1 DEF B!Send, B!NoCall
  <2> QED
    BY <1>2, <2>2, Records
<1>4. ASSUME NEW c \in Calls, NEW u \in Users, B!Grant(s, c, u) PROVE FALSE
  BY <1>2, <1>4, Records DEF B!Grant
<1>5. ASSUME NEW c \in Calls, B!Answer(s, c) PROVE FALSE
  BY <1>2, <1>5, Records DEF B!Answer, B!Succeeds, B!Rejected, B!Unauthorized
<1>6. ASSUME B!RefreshStep(s) PROVE FALSE
  BY <1>1, <1>6, Records DEF Closed, B!RefreshStep, B!RefreshCheck, B!RefreshRotate, B!RefreshOk,
     B!RefreshFails
<1>7. ASSUME B!Load(s) PROVE SoleInv(t)'
  <2>1. /\ UNCHANGED <<owner, good, fresh, storage, robbed, crossed>> /\ leaving' = leaving \ {s}
        /\ mem' = [mem EXCEPT ![s] = storage]
        /\ call' = [call EXCEPT ![s] = [c \in Calls |-> B!NoCall]]
        /\ leader' = [leader EXCEPT ![s] = None]
        /\ refreshing' = [refreshing EXCEPT ![s] = B!NoRefresh]
    BY <1>7 DEF B!Load, B!server
  <2>2. broken' = broken
    <3>1. broken' = (broken \/ refreshing[s].pc # "idle" \/ \E c \in Calls : B!Granted(call[s][c]))
      BY <1>7 DEF B!Load
    <3>2. refreshing[s].pc = "idle" /\ broken \in BOOLEAN
      BY <1>1, Records DEF Closed, BrowserInv, BrowserTyped
    <3>3. \A c \in Calls : ~B!Granted(call[s][c])
      BY <1>2 DEF B!Granted, B!NoCall
    <3> QED
      BY <3>1, <3>2, <3>3, Zenon
  <2>3. UNCHANGED <<mem, call, leader, refreshing, leaving>>
    BY <1>1, <2>1 DEF Closed, BrowserInv, BrowserTyped
  <2> QED
    BY <2>1, <2>2, <2>3 DEF SoleInv, Closed, B!NotRobbed, SoleOrderly, Given, InFlight
<1> QED
  BY <1>3, <1>4, <1>5, <1>6, <1>7 DEF B!Unload, B!Reload

\* A good pair has a number.
LEMMA GoodIsPair ==
  ASSUME BrowserInv
  PROVE  /\ B!NoPair \notin good /\ B!NoRefresh.old = B!NoPair /\ B!NoRefresh.new = B!NoPair
         /\ \A p : Issued(p) => p # B!NoPair
BY DEF BrowserInv, ServerInv, Issued, B!Pairs, B!NoPair, B!NoRefresh

\* A login in flight of an orderly tab is alone, and the tab has no tokens.
LEMMA AloneLogin ==
  ASSUME BrowserInv, NEW t \in Tabs, SoleOrderly(t), NEW c \in InFlight(t), call[t][c].kind = "login"
  PROVE  /\ InFlight(t) = {c} /\ mem[t].user = None /\ mem[t].refresh = B!NoPair
         /\ mem[t].access = B!NoPair /\ \A p : Given(t, p) => p = call[t][c].body
<1>1. InFlight(t) = {c} /\ mem[t].user = None
  BY DEF BrowserInv, TabInv, LoginAlone, SoleOrderly
<1>2. mem[t].refresh = B!NoPair /\ mem[t].access = B!NoPair
  BY <1>1 DEF SoleOrderly, BrowserInv, TabInv, Owned
<1> QED
  BY <1>1, <1>2 DEF Given

\* A refresh has a call that waits for it.
LEMMA LeaderWaits ==
  ASSUME BrowserInv, NEW t \in Tabs, refreshing[t].pc # "idle"
  PROVE  \E d \in InFlight(t) : call[t][d].pc = "waiting"
BY DEF BrowserInv, BrowserTyped, TabInv, RefreshInv, InFlight

\* A tab that is signed in, or has something else in flight, waits for no session.
LEMMA NothingGiven ==
  ASSUME BrowserInv, NEW t \in Tabs, SoleOrderly(t),
         \/ mem[t].user # None \/ mem[t].refresh # B!NoPair \/ refreshing[t].pc # "idle"
         \/ \E c \in InFlight(t) : call[t][c].kind # "login"
  PROVE  \A p : ~Given(t, p)
<1>1. ASSUME NEW c \in InFlight(t), call[t][c].kind = "login", call[t][c].pc = "sent" PROVE FALSE
  <2>1. InFlight(t) = {c} /\ mem[t].user = None /\ mem[t].refresh = B!NoPair
    BY <1>1, AloneLogin
  <2> QED
    BY <1>1, <2>1, LeaderWaits
<1> QED
  BY <1>1 DEF Given, BrowserInv, TabInv, LoginAlone, B!Granted

LEMMA GrantSole ==
  ASSUME BrowserInv, NEW t \in Tabs, SoleInv(t), NEW c \in Calls, NEW u \in Users, B!Grant(t, c, u)
  PROVE  SoleInv(t)'
<1> DEFINE k == call[t][c]
<1>1. PICK p \in B!Pairs : good' = good \cup {p} /\ call' = [call EXCEPT ![t][c].body = p]
  BY DEF B!Grant
<1>2. /\ UNCHANGED <<mem, storage, leaving, leader, refreshing, broken, robbed, crossed>>
      /\ k.pc = "sent" /\ k.kind = "login" /\ k \in B!Call /\ ~B!Granted(k)
      /\ call \in [Tabs -> [Calls -> B!Call]]
  BY DEF B!Grant, B!client, B!history, BrowserInv, BrowserTyped
<1>3. /\ \A s \in Tabs \ {t} : call'[s] = call[s]
      /\ call'[t][c].pc = "sent" /\ call'[t][c].kind = "login" /\ call'[t][c].body = p
      /\ \A d \in Calls \ {c} : call'[t][d] = call[t][d]
  BY <1>1, <1>2 DEF B!Call
<1>4. ASSUME SoleOrderly(t) PROVE SoleOrderly(t)'
  <2>1. c \in InFlight(t) /\ InFlight(t)' = InFlight(t)
    BY <1>2, <1>3 DEF InFlight
  <2>2. InFlight(t) = {c} /\ \A q : Given(t, q) => q = k.body
    BY <1>2, <1>4, <2>1, AloneLogin
  <2>3. Given(t, p)'
    BY <1>1, <1>3 DEF Given, InFlight, B!Granted, B!Pairs, B!NoPair
  <2>4. \A q : ~Given(t, q)
    BY <1>2, <1>4, <2>1, <2>2 DEF Given
  <2>5. \A q \in good' : q \in {mem[t].refresh, refreshing[t].old, refreshing[t].new} \/ Given(t, q)'
    BY <1>1, <1>4, <2>3, <2>4 DEF SoleOrderly
  <2>6. refreshing[t].pc # "answered"
    BY <1>2, <2>2, LeaderWaits
  <2> QED
    BY <1>2, <1>3, <1>4, <2>1, <2>2, <2>5, <2>6 DEF SoleOrderly
<1> QED
  BY <1>2, <1>3, <1>4, StayClosed DEF SoleInv, B!NotRobbed

LEMMA SendSole ==
  ASSUME BrowserInv, NEW t \in Tabs, SoleInv(t), NEW c \in Calls, NEW kind \in B!Kinds,
         B!Send(t, c, kind)
  PROVE  SoleInv(t)'
<1>1. UNCHANGED <<owner, good, fresh, mem, storage, leaving, leader, refreshing, broken, robbed>>
  BY DEF B!Send, B!server, B!client
<1> DEFINE k == [B!NoCall EXCEPT !.pc = "sent", !.kind = kind, !.access = mem[t].access,
                                 !.body = IF kind = "logout" THEN B!Body(t) ELSE B!NoPair]
<1>2. call' = [call EXCEPT ![t][c] = k] /\ call[t][c].pc = "idle"
  BY DEF B!Send
<1>3. /\ k.kind = kind /\ (kind = "logout" => k.body = mem[t].refresh) /\ ~B!Granted(k)
      /\ k.pc = "sent"
  BY DEF B!NoCall, B!Body, B!Granted
<1> HIDE DEF k
<1>4. /\ \A s \in Tabs \ {t} : call'[s] = call[s]
      /\ call'[t][c] = k /\ \A d \in Calls \ {c} : call'[t][d] = call[t][d]
  BY <1>2 DEF BrowserInv, BrowserTyped
<1>5. ASSUME SoleOrderly(t) PROVE SoleOrderly(t)'
  <2>1. ~crossed'
    <3>1. crossed' => kind = "me" /\ mem[t].access # B!NoPair
                      /\ \E d \in InFlight(t) : call[t][d].kind = "login"
      BY <1>5, Zenon DEF B!Send, B!UnderWay, InFlight, SoleOrderly
    <3> QED
      BY <1>5, <3>1, AloneLogin
  <2>2. \A p : Given(t, p) => Given(t, p)'
    BY <1>2, <1>4 DEF Given, InFlight
  <2> QED
    BY <1>1, <1>3, <1>4, <1>5, <2>1, <2>2 DEF SoleOrderly, InFlight
<1> QED
  BY <1>1, <1>4, <1>5, StayClosed DEF SoleInv, B!NotRobbed

LEMMA LoadSole ==
  ASSUME BrowserInv, NEW t \in Tabs, SoleInv(t), B!Load(t)
  PROVE  SoleInv(t)'
<1>1. /\ UNCHANGED <<owner, good, fresh, storage, robbed, crossed>> /\ leaving' = leaving \ {t}
      /\ mem' = [mem EXCEPT ![t] = storage]
      /\ call' = [call EXCEPT ![t] = [c \in Calls |-> B!NoCall]]
      /\ leader' = [leader EXCEPT ![t] = None]
      /\ refreshing' = [refreshing EXCEPT ![t] = B!NoRefresh]
  BY DEF B!Load, B!server
<1>2. /\ mem'[t] = mem[t] /\ mem'[t] = storage' /\ refreshing'[t] = B!NoRefresh
      /\ \A c \in Calls : call'[t][c].pc = "idle"
      /\ \A s \in Tabs \ {t} : /\ mem'[s] = mem[s] /\ call'[s] = call[s] /\ leader'[s] = leader[s]
                               /\ refreshing'[s] = refreshing[s] /\ (s \in leaving' <=> s \in leaving)
  BY <1>1, Records DEF SoleInv, BrowserInv, BrowserTyped
<1>3. /\ broken => broken'
      /\ refreshing[t].pc # "idle" \/ (\E p : Given(t, p)) => broken'
  <2>1. broken' = (broken \/ refreshing[t].pc # "idle" \/ \E c \in Calls : B!Granted(call[t][c]))
    BY DEF B!Load
  <2>2. (\E p : Given(t, p)) => \E c \in Calls : B!Granted(call[t][c])
    BY DEF Given, InFlight
  <2> QED
    BY <2>1, <2>2, Zenon
<1>4. B!NotRobbed'
  BY <1>1, <1>2, <1>3, Records DEF SoleInv, B!NotRobbed
<1>5. SoleOrderly(t) /\ refreshing[t].pc = "idle" /\ (\A p : ~Given(t, p)) => SoleOrderly(t)'
  BY <1>1, <1>2, Records DEF SoleOrderly, InFlight, BrowserInv, TabInv, RefreshInv
<1> QED
  BY <1>1, <1>2, <1>3, <1>4, <1>5, StayClosed DEF SoleInv

LEMMA SucceedsSole ==
  ASSUME BrowserInv, NEW t \in Tabs, SoleInv(t), NEW c \in Calls, B!Succeeds(t, c)
  PROVE  SoleInv(t)'
<1> DEFINE k == call[t][c]
<1>1. /\ k.pc = "sent" /\ call' = [call EXCEPT ![t][c] = B!NoCall]
      /\ UNCHANGED <<owner, fresh, leader, refreshing, robbed, crossed>> /\ k \in B!Call
      /\ mem[t] \in B!Auth
  BY DEF B!Succeeds, BrowserInv, BrowserTyped
<1>2. /\ \A s \in Tabs \ {t} : call'[s] = call[s] /\ leader'[s] = leader[s] /\ refreshing'[s] = refreshing[s]
      /\ \A d \in InFlight(t)' : d \in InFlight(t) /\ call'[t][d] = call[t][d]
      /\ \A d \in InFlight(t) \ {c} : d \in InFlight(t)'
      /\ c \in InFlight(t)
      /\ \A p : ~B!Granted(k) /\ Given(t, p) => Given(t, p)'
  BY <1>1, Records DEF BrowserInv, BrowserTyped, InFlight, Given
<1>3. broken => broken'
  BY DEF B!Succeeds
<1>4. CASE k.kind = "api"
  <2>1. UNCHANGED <<mem, storage, leaving, good>>
    BY <1>4 DEF B!Succeeds, B!Granted, B!KeepClient, B!client
  <2>2. SoleOrderly(t) => SoleOrderly(t)'
    BY <1>1, <1>2, <1>4, <2>1 DEF SoleOrderly, B!Granted
  <2> QED
    BY <1>1, <1>2, <1>3, <2>1, <2>2, StayClosed DEF SoleInv, B!NotRobbed
<1>5. CASE k.kind = "me"
  <2>1. /\ mem' = [mem EXCEPT ![t] = [mem[t] EXCEPT !.user = owner[k.access]]]
        /\ storage' = [mem[t] EXCEPT !.user = owner[k.access]] /\ UNCHANGED <<leaving, good>>
    BY <1>5 DEF B!Succeeds, B!Granted, B!SetStore, B!MeUser
  <2>2. Issued(k.access)
    BY <1>1, <1>5 DEF BrowserInv, TabInv, ProfileInv, InFlight
  <2>3. /\ mem'[t] = storage' /\ mem'[t].refresh = mem[t].refresh /\ mem'[t].user # None
        /\ \A s \in Tabs \ {t} : mem'[s] = mem[s]
    BY <1>1, <2>1, <2>2 DEF Issued, BrowserInv, BrowserTyped, B!Auth
  <2>4. SoleOrderly(t) => SoleOrderly(t)'
    BY <1>1, <1>2, <1>5, <2>1, <2>3 DEF SoleOrderly, B!Granted
  <2> QED
    BY <1>1, <1>2, <1>3, <2>1, <2>3, <2>4, StayClosed DEF SoleInv, B!NotRobbed
<1>6. CASE k.kind = "logout"
  <2>1. B!Logout(t) /\ good' = good \ {k.body} /\ (refreshing[t].pc # "idle" => broken')
    BY <1>6 DEF B!Succeeds, B!Granted
  <2>2. mem'[t] = storage' /\ mem'[t] = B!SignedOut
    BY <2>1, LogoutStore
  <2>3. B!NotRobbed'
    BY <1>1, <1>3, <2>2, Records DEF SoleInv, B!NotRobbed
  <2>4. SoleOrderly(t) /\ refreshing[t].pc = "idle" => SoleOrderly(t)'
    <3>1. SUFFICES ASSUME SoleOrderly(t), refreshing[t].pc = "idle" PROVE SoleOrderly(t)'
      OBVIOUS
    <3>2. refreshing[t] = B!NoRefresh /\ refreshing'[t] = B!NoRefresh
      BY <1>1, <3>1 DEF BrowserInv, TabInv, RefreshInv
    <3>3. good' = {}
      BY <1>1, <1>2, <1>6, <2>1, <3>1, <3>2, GoodIsPair, NothingGiven DEF SoleOrderly
    <3> QED
      BY <1>1, <1>2, <2>2, <3>1, <3>2, <3>3, Records DEF SoleOrderly
  <2> QED
    BY <1>2, <1>3, <2>1, <2>2, <2>3, <2>4, LogoutStore, StayClosed DEF SoleInv
<1>7. CASE k.kind = "login"
  <2> DEFINE a == [user |-> owner[k.body], access |-> k.body, refresh |-> k.body]
  <2>1. /\ B!Granted(k) /\ UNCHANGED <<leaving, good>>
        /\ mem' = [mem EXCEPT ![t] = a] /\ storage' = a
    BY <1>7 DEF B!Succeeds, B!SetStore, B!Granted
  <2>2. Issued(k.body)
    BY <1>2, <1>7, <2>1 DEF BrowserInv, TabInv, LoginAlone
  <2>3. /\ mem'[t] = storage' /\ mem'[t].refresh = k.body /\ mem'[t].user # None
        /\ \A s \in Tabs \ {t} : mem'[s] = mem[s]
    BY <1>1, <2>1, <2>2 DEF Issued, BrowserInv, BrowserTyped
  <2>4. ASSUME SoleOrderly(t) PROVE SoleOrderly(t)' /\ refreshing[t] = B!NoRefresh
    <3>1. InFlight(t) = {c} /\ \A p : Given(t, p) => p = k.body
      BY <1>2, <1>7, <2>4, AloneLogin
    <3>2. refreshing[t] = B!NoRefresh /\ mem[t].refresh = B!NoPair
      BY <1>1, <1>2, <1>7, <2>4, <3>1, AloneLogin, LeaderWaits DEF BrowserInv, TabInv, RefreshInv
    <3>3. \A p \in good : p = k.body
      BY <2>4, <3>1, <3>2, GoodIsPair DEF SoleOrderly
    <3>4. InFlight(t)' = {}
      BY <1>1, <1>2, <3>1, Records DEF InFlight, BrowserInv, BrowserTyped
    <3> QED
      BY <1>1, <2>1, <2>3, <2>4, <3>2, <3>3, <3>4, Records DEF SoleOrderly
  <2>5. B!NotRobbed'
    BY <1>1, <1>3, <2>3, <2>4, Records DEF SoleInv, B!NotRobbed
  <2> QED
    BY <1>1, <1>2, <1>3, <2>1, <2>3, <2>4, <2>5, StayClosed DEF SoleInv
<1> QED
  BY <1>1, <1>4, <1>5, <1>6, <1>7 DEF B!Call, B!Kinds

LEMMA RejectedSole ==
  ASSUME BrowserInv, NEW t \in Tabs, SoleInv(t), NEW c \in Calls, B!Rejected(t, c)
  PROVE  SoleInv(t)'
<1>1. /\ call[t][c].pc = "sent" /\ call' = [call EXCEPT ![t][c] = B!NoCall]
      /\ UNCHANGED <<owner, good, fresh, leader, refreshing, robbed, crossed>> /\ (broken => broken')
      /\ B!Granted(call[t][c]) => broken'
  BY DEF B!Rejected, B!server
<1>2. /\ \A s \in Tabs \ {t} : call'[s] = call[s] /\ leader'[s] = leader[s] /\ refreshing'[s] = refreshing[s]
      /\ \A d \in InFlight(t)' : d \in InFlight(t) /\ call'[t][d] = call[t][d]
      /\ \A p : ~B!Granted(call[t][c]) /\ Given(t, p) => Given(t, p)'
  BY <1>1, Records DEF BrowserInv, BrowserTyped, InFlight, Given
<1>3. CASE call[t][c].kind = "logout"
  <2>1. B!Logout(t) /\ broken'
    BY <1>3 DEF B!Rejected
  <2> QED
    BY <1>1, <1>2, <2>1, LogoutStore, Records, StayClosed DEF SoleInv, B!NotRobbed
<1>4. CASE call[t][c].kind # "logout"
  <2>1. UNCHANGED <<mem, storage, leaving>>
    BY <1>4 DEF B!Rejected, B!KeepClient, B!client
  <2>2. SoleOrderly(t) /\ ~B!Granted(call[t][c]) => SoleOrderly(t)'
    BY <1>1, <1>2, <2>1 DEF SoleOrderly
  <2> QED
    BY <1>1, <1>2, <2>1, <2>2, StayClosed DEF SoleInv, B!NotRobbed
<1> QED
  BY <1>3, <1>4

LEMMA UnauthorizedSole ==
  ASSUME BrowserInv, NEW t \in Tabs, SoleInv(t), NEW c \in Calls, B!Unauthorized(t, c)
  PROVE  SoleInv(t)'
<1> DEFINE k == call[t][c]
<1>1. /\ k.pc = "sent" /\ UNCHANGED <<owner, good, fresh, broken, robbed, crossed>>
      /\ TabInv(t) /\ call \in [Tabs -> [Calls -> B!Call]] /\ k \in B!Call /\ ~B!Granted(k)
  BY DEF B!Unauthorized, B!server, B!history, B!Granted, BrowserInv, BrowserTyped
<1>2. CASE mem[t].refresh = B!NoPair
  <2>1. /\ B!Logout(t) /\ call' = [call EXCEPT ![t][c] = B!NoCall] /\ UNCHANGED <<leader, refreshing>>
    BY <1>2 DEF B!Unauthorized
  <2>2. /\ \A s \in Tabs \ {t} : call'[s] = call[s]
        /\ \A d \in InFlight(t)' : d \in InFlight(t) /\ call'[t][d] = call[t][d]
        /\ \A p : Given(t, p) => Given(t, p)'
    BY <1>1, <2>1, Records DEF InFlight, Given
  <2>3. mem'[t] = storage' /\ mem'[t] = B!SignedOut
    BY <2>1, LogoutStore
  <2>4. SoleOrderly(t) => SoleOrderly(t)'
    BY <1>1, <1>2, <2>1, <2>2, <2>3, Records DEF SoleOrderly
  <2> QED
    BY <1>1, <2>1, <2>2, <2>3, <2>4, Records, LogoutStore, StayClosed DEF SoleInv, B!NotRobbed
<1>3. CASE mem[t].refresh # B!NoPair /\ B!Refreshing(t)
  <2>1. /\ UNCHANGED <<mem, storage, leaving, leader, refreshing>>
        /\ call' = [call EXCEPT ![t][c].pc = "queued"]
    BY <1>3 DEF B!Unauthorized, B!KeepClient, B!client
  <2>2. /\ \A s \in Tabs \ {t} : call'[s] = call[s]
        /\ \A d \in Calls : call'[t][d].kind = call[t][d].kind /\ call'[t][d].body = call[t][d].body
        /\ \A d \in Calls \ {c} : call'[t][d] = call[t][d]
    BY <1>1, <2>1 DEF B!Call
  <2>3. InFlight(t)' \subseteq InFlight(t) /\ \A p : Given(t, p) => Given(t, p)'
    BY <1>1, <2>2 DEF InFlight, Given
  <2>4. SoleOrderly(t) => SoleOrderly(t)'
    BY <1>1, <2>1, <2>2, <2>3 DEF SoleOrderly, InFlight
  <2> QED
    BY <1>1, <2>1, <2>2, <2>4, StayClosed DEF SoleInv, B!NotRobbed
<1>4. CASE mem[t].refresh # B!NoPair /\ ~B!Refreshing(t)
  <2>1. /\ UNCHANGED <<mem, storage, leaving>> /\ leader[t] = None
        /\ call' = [call EXCEPT ![t][c].pc = "waiting", ![t][c].retry = TRUE]
        /\ leader' = [leader EXCEPT ![t] = c]
        /\ refreshing' = [refreshing EXCEPT ![t] =
             [pc |-> "sent", old |-> mem[t].refresh, new |-> B!NoPair]]
    BY <1>4 DEF B!Unauthorized, B!KeepClient, B!client, B!Refreshing
  <2>2. /\ \A s \in Tabs \ {t} : call'[s] = call[s]
        /\ \A d \in Calls : call'[t][d].kind = call[t][d].kind /\ call'[t][d].body = call[t][d].body
        /\ \A d \in Calls \ {c} : call'[t][d] = call[t][d]
    BY <1>1, <2>1 DEF B!Call
  <2>3. InFlight(t)' \subseteq InFlight(t) /\ \A p : Given(t, p) => Given(t, p)'
    BY <1>1, <2>2 DEF InFlight, Given
  <2>4. /\ refreshing'[t].pc = "sent" /\ refreshing'[t].old = mem[t].refresh
        /\ \A s \in Tabs \ {t} : leader'[s] = leader[s] /\ refreshing'[s] = refreshing[s]
    BY <2>1 DEF BrowserInv, BrowserTyped
  <2>5. refreshing[t] = B!NoRefresh
    BY <1>1, <2>1 DEF TabInv, RefreshInv
  <2>6. SoleOrderly(t) => SoleOrderly(t)'
    BY <1>1, <2>1, <2>2, <2>3, <2>4, <2>5, GoodIsPair DEF SoleOrderly, InFlight
  <2> QED
    BY <1>1, <2>1, <2>2, <2>4, <2>6, StayClosed DEF SoleInv, B!NotRobbed
<1> QED
  BY <1>2, <1>3, <1>4

LEMMA RefreshCheckSole ==
  ASSUME BrowserInv, NEW t \in Tabs, SoleInv(t), B!RefreshCheck(t)
  PROVE  SoleInv(t)'
<1>1. /\ UNCHANGED <<owner, good, fresh, mem, storage, leaving, call, leader, broken, robbed, crossed>>
      /\ refreshing' = [refreshing EXCEPT ![t].pc = "checked"] /\ refreshing[t].pc = "sent"
  BY DEF B!RefreshCheck, B!server, B!client, B!history
<1>2. /\ refreshing'[t].pc = "checked" /\ refreshing'[t].old = refreshing[t].old
      /\ refreshing'[t].new = refreshing[t].new
      /\ \A s \in Tabs \ {t} : refreshing'[s] = refreshing[s]
  BY <1>1 DEF BrowserInv, BrowserTyped, B!Refresh
<1>3. SoleOrderly(t) => SoleOrderly(t)'
  BY <1>1, <1>2 DEF SoleOrderly, InFlight, Given
<1> QED
  BY <1>1, <1>2, <1>3, StayClosed DEF SoleInv, B!NotRobbed

LEMMA RefreshRotateSole ==
  ASSUME BrowserInv, NEW t \in Tabs, SoleInv(t), B!RefreshRotate(t)
  PROVE  SoleInv(t)'
<1> DEFINE old == refreshing[t].old
<1>1. /\ refreshing[t].pc = "checked" /\ refreshing[t] \in B!Refresh
      /\ UNCHANGED <<mem, storage, leaving, call, leader, broken, robbed, crossed>>
  BY DEF B!RefreshRotate, B!client, B!history, BrowserInv, BrowserTyped
<1>2. PICK p \in B!Pairs :
        /\ B!Issue(p, owner[old]) /\ good' = (good \ {old}) \cup {p}
        /\ refreshing' = [refreshing EXCEPT ![t].pc = "answered", ![t].new = p]
  BY DEF B!RefreshRotate
<1>3. p # old /\ refreshing[t].new = B!NoPair
  BY <1>1, <1>2 DEF BrowserInv, TabInv, RefreshInv, Issued, B!Issue
<1>4. /\ refreshing'[t].pc = "answered" /\ refreshing'[t].old = old /\ refreshing'[t].new = p
      /\ \A s \in Tabs \ {t} : refreshing'[s] = refreshing[s]
  BY <1>1, <1>2 DEF BrowserInv, BrowserTyped, B!Refresh
<1>5. ASSUME SoleOrderly(t)  PROVE  SoleOrderly(t)'
  <2>1. old \notin good'
    BY <1>2, <1>3
  <2>2. ASSUME NEW q \in good', q # p  PROVE  q = mem[t].refresh \/ q = old
    BY <1>1, <1>2, <1>3, <1>5, <2>2, GoodIsPair, NothingGiven DEF SoleOrderly
  <2>3. mem'[t] = mem[t] /\ InFlight(t)' = InFlight(t) /\ call' = call /\ crossed' = crossed
    BY <1>1 DEF InFlight
  <2>4. \A q \in good' : q \in {mem'[t].refresh, refreshing'[t].old, refreshing'[t].new}
    BY <1>4, <2>2, <2>3
  <2>5. refreshing'[t].pc # "idle" => mem'[t].refresh = refreshing'[t].old
    BY <1>1, <1>4, <1>5, <2>3 DEF SoleOrderly
  <2> HIDE DEF old
  <2> QED
    BY <1>4, <1>5, <2>1, <2>3, <2>4, <2>5 DEF SoleOrderly
<1> QED
  BY <1>1, <1>4, <1>5, StayClosed DEF SoleInv, B!NotRobbed

LEMMA RefreshOkSole ==
  ASSUME BrowserInv, NEW t \in Tabs, SoleInv(t), B!RefreshOk(t)
  PROVE  SoleInv(t)'
<1> DEFINE p == refreshing[t].new
           a == [mem[t] EXCEPT !.access = p, !.refresh = p]
<1>1. /\ refreshing[t].pc = "answered" /\ mem[t] \in B!Auth
      /\ UNCHANGED <<owner, good, fresh, leaving, robbed, crossed>>
      /\ mem' = [mem EXCEPT ![t] = a] /\ storage' = a
      /\ leader' = [leader EXCEPT ![t] = None]
      /\ refreshing' = [refreshing EXCEPT ![t] = B!NoRefresh]
  BY DEF B!RefreshOk, B!SetStore, B!SetTokens, B!server, BrowserInv, BrowserTyped
<1>2. call' = [call EXCEPT ![t] = [c \in Calls |->
                 IF call[t][c].pc \in {"queued", "waiting"}
                 THEN [call[t][c] EXCEPT !.pc = "sent", !.access = p] ELSE call[t][c]]]
  BY DEF B!RefreshOk, B!WithCalls, B!Released, B!InPC, B!Sent
<1>3. /\ broken => broken'
      /\ ~broken' => \A c \in InFlight(t) : call[t][c].kind # "logout"
  BY DEF B!RefreshOk, InFlight
<1>4. /\ mem'[t] = storage' /\ mem'[t].refresh = p /\ mem'[t].user = mem[t].user
      /\ refreshing'[t] = B!NoRefresh
      /\ \A s \in Tabs \ {t} : /\ mem'[s] = mem[s] /\ call'[s] = call[s] /\ leader'[s] = leader[s]
                               /\ refreshing'[s] = refreshing[s] /\ (s \in leaving' <=> s \in leaving)
  BY <1>1, <1>2 DEF BrowserInv, BrowserTyped, B!Auth
<1>5. \A c \in InFlight(t)' : c \in InFlight(t) /\ call'[t][c].kind = call[t][c].kind
  <2>1. ASSUME NEW c \in Calls, call[t][c].pc \in {"queued", "waiting"}
        PROVE  call'[t][c].kind = call[t][c].kind /\ call[t][c].pc # "idle"
    <3>1. /\ call'[t][c] = [call[t][c] EXCEPT !.pc = "sent", !.access = p]
          /\ call[t][c] \in B!Call
      BY <1>2, <2>1 DEF BrowserInv, BrowserTyped
    <3> QED
      BY <2>1, <3>1 DEF B!Call
  <2>2. ASSUME NEW c \in Calls, call[t][c].pc \notin {"queued", "waiting"}
        PROVE  call'[t][c] = call[t][c]
    BY <1>2, <2>2 DEF BrowserInv, BrowserTyped
  <2> QED
    BY <2>1, <2>2 DEF InFlight
<1>6. refreshing[t].old # B!NoPair
  BY <1>1, GoodIsPair DEF BrowserInv, TabInv, RefreshInv
<1>7. B!NotRobbed'
  BY <1>1, <1>3, <1>4, Records DEF SoleInv, B!NotRobbed
<1>8. SoleOrderly(t) /\ ~broken' => SoleOrderly(t)'
  BY <1>1, <1>3, <1>4, <1>5, <1>6, Records, GoodIsPair, NothingGiven DEF SoleOrderly
<1> QED
  BY <1>3, <1>4, <1>7, <1>8, StayClosed DEF SoleInv

LEMMA RefreshFailsSole ==
  ASSUME BrowserInv, NEW t \in Tabs, SoleInv(t), B!RefreshFails(t)
  PROVE  SoleInv(t)'
<1> DEFINE old == refreshing[t].old
<1>1. /\ refreshing[t].pc # "idle" /\ call \in [Tabs -> [Calls -> B!Call]]
      /\ UNCHANGED <<owner, good, fresh, crossed>> /\ B!Logout(t)
      /\ leader' = [leader EXCEPT ![t] = None]
      /\ refreshing' = [refreshing EXCEPT ![t] = B!NoRefresh]
  BY DEF B!RefreshFails, B!server, BrowserInv, BrowserTyped
<1>2. call' = [call EXCEPT ![t] = [c \in Calls |->
                 IF call[t][c].pc \in {"queued", "waiting"} THEN B!NoCall ELSE call[t][c]]]
  BY DEF B!RefreshFails, B!WithCalls, B!QueueOf, B!InPC, B!Ended
<1>3. /\ mem'[t] = storage' /\ mem'[t] = B!SignedOut /\ refreshing'[t] = B!NoRefresh
      /\ \A s \in Tabs \ {t} : /\ mem'[s] = mem[s] /\ call'[s] = call[s] /\ leader'[s] = leader[s]
                               /\ refreshing'[s] = refreshing[s] /\ (s \in leaving' <=> s \in leaving)
  BY <1>1, <1>2, LogoutStore DEF BrowserInv, BrowserTyped
<1>4. \/ broken'
      \/ broken' = broken /\ refreshing[t].pc = "sent" /\ old \notin good
  BY DEF B!RefreshFails
<1>5. broken => broken'
  BY DEF B!RefreshFails
<1>6. SoleOrderly(t) /\ ~broken' => good = {}
  <2>1. refreshing[t].pc = "sent" => refreshing[t].new = B!NoPair
    BY DEF BrowserInv, TabInv, RefreshInv
  <2> QED
    BY <1>1, <1>4, <2>1, GoodIsPair, NothingGiven DEF SoleOrderly
<1>7. SoleOrderly(t) /\ ~broken' => SoleOrderly(t)'
  BY <1>1, <1>3, <1>6, Records DEF SoleOrderly
<1>8. B!NotRobbed'
  <2>1. robbed' => robbed \/ good # {}
    BY DEF B!RefreshFails
  <2> QED
    BY <1>3, <1>5, <1>6, <2>1, Records DEF SoleInv, B!NotRobbed
<1> QED
  BY <1>3, <1>5, <1>7, <1>8, StayClosed DEF SoleInv

LEMMA EndsSole ==
  ASSUME BrowserInv, NEW t \in Tabs, SoleInv(t),
         \/ \E p \in B!Pairs : B!AccessExpires(p)
         \/ \E u \in Users : B!SessionEnds(u)
         \/ UNCHANGED browser
  PROVE  SoleInv(t)'
<1>1. /\ UNCHANGED <<mem, storage, leaving, call, leader, refreshing, broken, robbed, crossed>>
      /\ good' \subseteq good
  BY DEF B!AccessExpires, B!SessionEnds, B!client, B!flight, B!history, browser
<1> QED
  BY <1>1 DEF SoleInv, Closed, B!NotRobbed, SoleOrderly, InFlight, Given

LEMMA InitSole == ASSUME B!Init, NEW t \in Tabs PROVE SoleInv(t)
BY Records, GoodIsPair, InitBrowser DEF B!Init, SoleInv, Closed, B!NotRobbed, SoleOrderly, InFlight

LEMMA NextSole ==
  ASSUME BrowserInv, NEW t \in Tabs, SoleInv(t), B!Next,
         \A s \in Tabs \ {t} : mem'[s] = mem[s] /\ call'[s] = call[s]
  PROVE  SoleInv(t)'
<1>1. ASSUME NEW c \in Calls, B!Answer(t, c) PROVE SoleInv(t)'
  BY <1>1, SucceedsSole, RejectedSole, UnauthorizedSole DEF B!Answer
<1>2. ASSUME B!RefreshStep(t) PROVE SoleInv(t)'
  BY <1>2, RefreshCheckSole, RefreshRotateSole, RefreshOkSole, RefreshFailsSole DEF B!RefreshStep
<1>3. ASSUME B!Unload(t) \/ B!Reload(t) PROVE SoleInv(t)'
  BY <1>3, LoadSole DEF B!Unload, B!Reload
<1> DEFINE
      Own(s) ==
        \/ \E c \in Calls :
             \/ \E kind \in B!Kinds : B!Send(s, c, kind)
             \/ \E u \in Users : B!Grant(s, c, u)
             \/ B!Answer(s, c)
        \/ B!RefreshStep(s) \/ B!Unload(s) \/ B!Reload(s)
<1>4. ASSUME NEW s \in Tabs \ {t}, Own(s) PROVE SoleInv(t)'
  BY <1>4, ClosedSteps
<1>5. ASSUME Own(t) PROVE SoleInv(t)'
  BY <1>1, <1>2, <1>3, <1>5, GrantSole, SendSole
<1>6. (\E s \in Tabs : Own(s)) \/ (\E p \in B!Pairs : B!AccessExpires(p)) \/ \E u \in Users : B!SessionEnds(u)
  BY DEF B!Next
<1> QED
  BY <1>4, <1>5, <1>6, EndsSole

-----------------------------------------------------------------------------
(* The tabs as they are signed in with: several, or one. *)

TabsInv == BrowserInv /\ \A t \in Tabs : open = {t} => SoleInv(t)

LEMMA TabsInductive == SignInSpec => []TabsInv
<1>1. SignInInit => TabsInv
  BY InitBrowser, InitSole DEF SignInInit, TabsInv
<1>2. TabsInv /\ [SignInNext]_<<load, open, vars, browser>> => TabsInv'
  <2> SUFFICES ASSUME TabsInv, [SignInNext]_<<load, open, vars, browser>> PROVE TabsInv'
    OBVIOUS
  <2>1. open' = open
    BY DEF SignInNext
  <2>2. CASE UNCHANGED browser
    BY <2>1, <2>2, NextBrowser, EndsSole DEF TabsInv
  <2>3. CASE B!Next /\ OpenTabsOnly
    <3>1. BrowserInv'
      BY <2>3, NextBrowser DEF TabsInv
    <3>2. ASSUME NEW t \in Tabs, open = {t} PROVE SoleInv(t)'
      BY <2>3, <3>2, NextSole DEF TabsInv, OpenTabsOnly
    <3> QED
      BY <2>1, <3>1, <3>2 DEF TabsInv
  <2> QED
    BY <2>2, <2>3 DEF SignInNext
<1> QED
  BY <1>1, <1>2, PTL DEF SignInSpec

\* In any number of tabs the user shown is the owner of the tokens, unless a profile
\* was asked for while a login was under way; and a browser with one tab neither
\* loses its session to its own refresh nor leaves one behind, not even that of a
\* login it waits for (App.tsx:26, LoginPage.tsx:34, lib/axios.ts:49, UserMenu.tsx:24).
THEOREM TabsOrder == SignInSpec => []TabsInOrder
<1>1. TabsInv => B!UserOwnsTokens
  BY DEF TabsInv, BrowserInv, TabInv, Owned, B!UserOwnsTokens
<1>2. TabsInv /\ OneTab => B!NotRobbed /\ B!NoOrphans
  BY DEF TabsInv, OneTab, SoleInv, SoleOrderly, Given, InFlight, B!NotRobbed, B!NoOrphans
<1>3. TabsInv => TabsInOrder
  BY <1>1, <1>2 DEF TabsInOrder
<1> QED
  BY <1>3, TabsInductive, PTL
==================================================================================
