------------------------------- MODULE Sessions -------------------------------
(***************************************************************************)
(* One user account and what AuthService, TokenService, OtpService and the  *)
(* administrator's half of UsersService do to it: logging in and the lock    *)
(* after too many wrong passwords, rotation of refresh tokens, the ways of   *)
(* changing a password, and the status an administrator sets.                *)
(*                                                                         *)
(* Passwords are numbered: version is the one the account has, every change  *)
(* sets the next. Access tokens are not stored anywhere; one is at hand from *)
(* the first login on, and what decides a request is the account's status.   *)
(***************************************************************************)
EXTENDS Integers, FiniteSets

CONSTANTS
  MaxFailed,    \* security.max_failed_logins
  MaxVersions,  \* bound: passwords the account may have, one after the other
  MaxTokens,    \* bound: refresh tokens issued
  MaxCodes,     \* bound: reset tokens issued, and one-time codes
  MaxTried,     \* bound: wrong passwords tried
  Requests      \* request slots: how many handlers may be in flight at once

ASSUME BoundsAssumption ==
  /\ MaxFailed \in Nat /\ MaxVersions \in Nat \ {0} /\ MaxTokens \in Nat
  /\ MaxCodes \in Nat /\ MaxTried \in Nat

Tokens == 1 .. MaxTokens
Codes == 1 .. MaxCodes
Versions == 1 .. MaxVersions

VARIABLES
  status,       \* UserStatus
  deleted,      \* deletedAt is set
  failed,       \* failedLoginCount
  lockedUntil,  \* whether lockedUntil is set and in the future
  version,      \* the password
  refresh,      \* [Tokens -> state of a refresh token]
  session,      \* history: [Tokens -> the login, password and moment it goes back to]
  reset,        \* [Codes -> state of a password reset token]
  otp,          \* [Codes -> state of a one-time code]
  changes,      \* history: [{"reset", "otp"} \X Codes -> passwords set with it]
  tried,        \* history: wrong passwords tried
  byAdmin,      \* history: the status was last set by an administrator
  cut,          \* history: a change ended before it revoked the sessions
  req           \* [Requests -> handler state]

account == <<status, deleted, failed, lockedUntil, version>>
tokens == <<refresh, session>>
codes == <<reset, otp>>
history == <<changes, tried, byAdmin, cut>>
vars == <<account, tokens, codes, history, req>>

-----------------------------------------------------------------------------
(* State *)

UserStatus == {"ACTIVE", "INACTIVE", "SUSPENDED", "LOCKED", "PENDING_VERIFICATION"}

\* The states of a token or code: not there yet; good; used, revoked or expired,
\* which every check treats alike; deleted.
Validity == {"none", "good", "spent", "deleted"}

\* Where a session comes from: the first token of its login, the password that
\* login gave, and the password the account had when this token was inserted.
Origin == [login : {0} \cup Tokens, password : {0} \cup Versions, at : {0} \cup Versions]
NoOrigin == [login |-> 0, password |-> 0, at |-> 0]

PC == {"idle", "wrong", "welcome", "issue", "rotate", "createReset", "useReset", "cleanOtp",
       "createOtp", "findOtp", "useOtp", "setPassword", "revokeAll", "adminWrite"}
Kinds == {"none", "login", "refresh", "reset", "otp", "change", "admin"}
AdminOps == UserStatus \cup {"none", "lock", "unlock", "remove", "restore"}

Handler == [pc : PC, kind : Kinds, id : {0} \cup Tokens \cup Codes, count : 0 .. MaxTried,
            origin : Origin, op : AdminOps]
Idle == [pc |-> "idle", kind |-> "none", id |-> 0, count |-> 0, origin |-> NoOrigin,
         op |-> "none"]

TypeOK ==
  /\ status \in UserStatus /\ deleted \in BOOLEAN /\ lockedUntil \in BOOLEAN
  /\ failed \in 0 .. MaxTried /\ version \in Versions
  /\ refresh \in [Tokens -> Validity] /\ session \in [Tokens -> Origin]
  /\ reset \in [Codes -> Validity] /\ otp \in [Codes -> Validity]
  /\ changes \in [{"reset", "otp"} \X Codes -> 0 .. MaxVersions]
  /\ tried \in 0 .. MaxTried /\ byAdmin \in BOOLEAN /\ cut \in BOOLEAN
  /\ req \in [Requests -> Handler]
  /\ \A r \in Requests : req[r].pc \in {"rotate", "useReset", "findOtp", "useOtp"} =>
                            req[r].id # 0
  /\ \A t \in Tokens : IF refresh[t] = "none" THEN session[t] = NoOrigin
                                             ELSE session[t].login \in 1 .. t

\* An account as create makes it.
Init ==
  /\ status = "ACTIVE" /\ deleted = FALSE /\ failed = 0 /\ lockedUntil = FALSE /\ version = 1
  /\ refresh = [t \in Tokens |-> "none"] /\ session = [t \in Tokens |-> NoOrigin]
  /\ reset = [k \in Codes |-> "none"] /\ otp = [k \in Codes |-> "none"]
  /\ changes = [c \in {"reset", "otp"} \X Codes |-> 0]
  /\ tried = 0 /\ byAdmin = FALSE /\ cut = FALSE
  /\ req = [r \in Requests |-> Idle]

-----------------------------------------------------------------------------
(* Helpers *)

Finish(r) == req' = [req EXCEPT ![r] = Idle]
Go(r, pc) == req' = [req EXCEPT ![r].pc = pc]
Begin(r, kind, pc, id) ==
  /\ req[r].pc = "idle"
  /\ req' = [req EXCEPT ![r] = [Idle EXCEPT !.kind = kind, !.pc = pc, !.id = id]]

\* A row is inserted: the next number of its table.
NextRow(rows, k) == rows[k] = "none" /\ \A j \in DOMAIN rows : j < k => rows[j] # "none"

\* JwtStrategy.validate, for a user who has logged in at least once.
Authenticated == status = "ACTIVE" /\ \E t \in Tokens : refresh[t] # "none"

Spent(rows) == [k \in DOMAIN rows |-> IF rows[k] = "good" THEN "spent" ELSE rows[k]]

\* revokeAllUserRefreshTokens.
RevokeNone == UNCHANGED refresh                                 \* mutant
RevokeSessions == refresh' = Spent(refresh)

-----------------------------------------------------------------------------
(* Logging in *)

\* validateCredentials up to the comparison, with a password the account has
\* or had, or with none of them. LOCKED is not among the refused statuses.
Admitted == ~deleted /\ ~lockedUntil /\ status \in {"ACTIVE", "LOCKED"}

Login(r, password) ==
  /\ req[r].pc = "idle" /\ Admitted
  /\ \/ /\ password = version
        /\ req' = [req EXCEPT ![r] = [Idle EXCEPT
                     !.kind = "login", !.count = failed, !.origin.password = password,
                     !.pc = IF failed > 0 THEN "welcome" ELSE "issue"]]
        /\ UNCHANGED tried
     \/ /\ password # version /\ tried < MaxTried
        /\ req' = [req EXCEPT ![r] = [Idle EXCEPT
                     !.kind = "login", !.count = failed, !.pc = "wrong"]]
        /\ tried' = tried + 1
  /\ UNCHANGED <<account, tokens, codes, changes, byAdmin, cut>>

\* handleFailedLogin: the count is the one read with the user, plus one.
ShouldLockEarly(n) == n >= MaxFailed - 1                        \* mutant: off by one
ShouldLock(n) == n >= MaxFailed

FailedWrite(r) ==
  LET newCount == req[r].count + 1
  IN  /\ req[r].pc = "wrong"
      /\ failed' = newCount
      /\ \/ /\ ShouldLock(newCount)
            /\ lockedUntil' = TRUE /\ status' = "LOCKED" /\ byAdmin' = FALSE
         \/ ~ShouldLock(newCount) /\ UNCHANGED <<lockedUntil, status, byAdmin>>
      /\ Finish(r)
      /\ UNCHANGED <<deleted, version, tokens, codes, changes, tried, cut>>

\* A right password clears the counter and the lock; the status stays.
ClearFailures(r) ==
  /\ req[r].pc = "welcome"
  /\ failed' = 0 /\ lockedUntil' = FALSE
  /\ Go(r, "issue")
  /\ UNCHANGED <<status, deleted, version, tokens, codes, history>>

\* A login begins a session, a refresh continues one.
LoginOf(r, t) == IF req[r].kind = "login" THEN t ELSE req[r].origin.login

\* login, which refreshTokens calls too: a refresh token is inserted.
IssueTokenPair(r) ==
  /\ req[r].pc = "issue"
  /\ \E t \in Tokens :
       /\ NextRow(refresh, t)
       /\ refresh' = [refresh EXCEPT ![t] = "good"]
       /\ session' = [session EXCEPT ![t] =
            [login |-> LoginOf(r, t), password |-> req[r].origin.password,
             at |-> version]]
  /\ Finish(r)
  /\ UNCHANGED <<account, codes, history>>

-----------------------------------------------------------------------------
(* Refreshing and logging out *)

\* rotateRefreshToken: the token is found good, then revoked by its id.
RefreshTokens(r, t) ==
  /\ refresh[t] = "good"
  /\ Begin(r, "refresh", "rotate", t)
  /\ UNCHANGED <<account, tokens, codes, history>>

RotatedKept(t) == refresh                                     \* mutant: not revoked
Rotated(t) == [refresh EXCEPT ![t] = "spent"]

RotateWrite(r) ==
  /\ req[r].pc = "rotate"
  /\ refresh' = Rotated(req[r].id)
  /\ req' = [req EXCEPT ![r].pc = "issue", ![r].origin = session[req[r].id]]
  /\ UNCHANGED <<account, session, codes, history>>

Logout(t) ==
  /\ Authenticated /\ refresh[t] = "good"
  /\ refresh' = [refresh EXCEPT ![t] = "spent"]
  /\ UNCHANGED <<account, session, codes, history, req>>

LogoutAll ==
  /\ Authenticated /\ RevokeSessions
  /\ UNCHANGED <<account, session, codes, history, req>>

-----------------------------------------------------------------------------
(* Changing the password *)

\* forgotPassword: the links sent before are revoked, then one is issued.
ForgotPassword(r) ==
  /\ ~deleted
  /\ Begin(r, "reset", "createReset", 0)
  /\ reset' = Spent(reset)
  /\ UNCHANGED <<account, tokens, otp, history>>

CreateReset(r) ==
  /\ req[r].pc = "createReset"
  /\ \E k \in Codes : NextRow(reset, k) /\ reset' = [reset EXCEPT ![k] = "good"]
  /\ Finish(r)
  /\ UNCHANGED <<account, tokens, otp, history>>

\* resetPassword with a new password that passes the policy, which is asked first.
ResetPassword(r, k) ==
  /\ reset[k] = "good"
  /\ Begin(r, "reset", "useReset", k)
  /\ UNCHANGED <<account, tokens, codes, history>>

UseResetKept(k) == reset                                      \* mutant: usedAt not set
UseResetOn(k) == [reset EXCEPT ![k] = "spent"]

UseReset(r) ==
  /\ req[r].pc = "useReset"
  /\ reset' = UseResetOn(req[r].id)
  /\ Go(r, "setPassword")
  /\ UNCHANGED <<account, tokens, otp, history>>

\* changePassword, and changePasswordWithOtp, with the current password.
ChangePassword(r) ==
  /\ Authenticated
  /\ Begin(r, "change", "setPassword", 0)
  /\ UNCHANGED <<account, tokens, codes, history>>

\* requestPasswordChangeOtp: none while one is good; the dead ones are deleted.
NoGoodOtp == \A k \in Codes : otp[k] # "good"

RequestOtp(r) ==
  /\ Authenticated /\ NoGoodOtp
  /\ Begin(r, "otp", "cleanOtp", 0)
  /\ UNCHANGED <<account, tokens, codes, history>>

CleanOtp(r) ==
  /\ req[r].pc = "cleanOtp"
  /\ otp' = [k \in Codes |-> IF otp[k] = "spent" THEN "deleted" ELSE otp[k]]
  /\ Go(r, "createOtp")
  /\ UNCHANGED <<account, tokens, reset, history>>

CreateOtp(r) ==
  /\ req[r].pc = "createOtp"
  /\ \E k \in Codes : NextRow(otp, k) /\ otp' = [otp EXCEPT ![k] = "good"]
  /\ Finish(r)
  /\ UNCHANGED <<account, tokens, reset, history>>

ChangePasswordWithOtp(r, k) ==
  /\ Authenticated /\ otp[k] \notin {"none", "deleted"}
  /\ Begin(r, "otp", "findOtp", k)
  /\ UNCHANGED <<account, tokens, codes, history>>

\* verifyOtp: found unused, then marked; by now it may be deleted.
FindOtp(r) ==
  /\ req[r].pc = "findOtp"
  /\ \/ otp[req[r].id] = "good" /\ Go(r, "useOtp")
     \/ otp[req[r].id] # "good" /\ Finish(r)
  /\ UNCHANGED <<account, tokens, codes, history>>

UseOtpKept(k) == otp                                          \* mutant: usedAt not set
UseOtpOn(k) == [otp EXCEPT ![k] = "spent"]

\* The new password is judged when the code is spent already.
UseOtp(r) ==
  LET k == req[r].id
  IN  /\ req[r].pc = "useOtp"
      /\ \/ otp[k] = "deleted" /\ Finish(r) /\ UNCHANGED otp
         \/ /\ otp[k] # "deleted"
            /\ otp' = UseOtpOn(k)
            /\ Go(r, "setPassword") \/ Finish(r)
      /\ UNCHANGED <<account, tokens, reset, history>>

\* The password is set; a reset clears the counter and the lock as well, an
\* administrator's too, and none of them restores the status.
SetPassword(r) ==
  LET kind == req[r].kind
  IN  /\ req[r].pc = "setPassword" /\ version < MaxVersions
      /\ version' = version + 1
      /\ \/ kind \in {"reset", "admin"} /\ failed' = 0 /\ lockedUntil' = FALSE
         \/ kind \in {"change", "otp"} /\ UNCHANGED <<failed, lockedUntil>>
      /\ changes' = [c \in DOMAIN changes |->
                       IF c = <<kind, req[r].id>> THEN changes[c] + 1 ELSE changes[c]]
      /\ Go(r, "revokeAll")
      /\ UNCHANGED <<status, deleted, tokens, codes, tried, byAdmin, cut>>

\* The last call of every change. An administrator's revokes the reset tokens too.
RevokeAll(r) ==
  /\ req[r].pc = "revokeAll"
  /\ RevokeSessions
  /\ reset' = IF req[r].kind = "admin" THEN Spent(reset) ELSE reset
  /\ Finish(r)
  /\ UNCHANGED <<account, session, otp, history>>

-----------------------------------------------------------------------------
(* The administrator *)

AdminResetPassword(r) ==
  /\ ~deleted
  /\ Begin(r, "admin", "setPassword", 0)
  /\ UNCHANGED <<account, tokens, codes, history>>

\* lock, unlock, update with a status, remove and restore ask about deletedAt,
\* then write.
MayAdminister(op) == IF op = "restore" THEN deleted ELSE ~deleted
MayAdministerAny(op) == TRUE                          \* mutant: deletedAt not asked

Administer(r, op) ==
  /\ MayAdminister(op)
  /\ req[r].pc = "idle"
  /\ req' = [req EXCEPT ![r] = [Idle EXCEPT !.kind = "admin", !.pc = "adminWrite", !.op = op]]
  /\ UNCHANGED <<account, tokens, codes, history>>

AdminStatus(op) ==
  CASE op = "lock" -> "LOCKED"
    [] op = "unlock" -> "ACTIVE"
    [] op \in {"remove", "restore"} -> "INACTIVE"
    [] OTHER -> op

AdminWrite(r) ==
  LET op == req[r].op
  IN  /\ req[r].pc = "adminWrite"
      /\ status' = AdminStatus(op) /\ byAdmin' = TRUE
      /\ deleted' = IF op = "remove" THEN TRUE ELSE IF op = "restore" THEN FALSE ELSE deleted
      /\ failed' = IF op = "unlock" THEN 0 ELSE failed
      /\ lockedUntil' = (lockedUntil /\ op \notin {"lock", "unlock"})
      /\ Finish(r)
      /\ UNCHANGED <<version, tokens, codes, changes, tried, cut>>

-----------------------------------------------------------------------------
(* Time and failure *)

LockExpires ==
  /\ lockedUntil /\ lockedUntil' = FALSE
  /\ UNCHANGED <<status, deleted, failed, version, tokens, codes, history, req>>

TokenExpires(t) ==
  /\ refresh[t] = "good" /\ refresh' = [refresh EXCEPT ![t] = "spent"]
  /\ UNCHANGED <<account, session, codes, history, req>>

CodeExpires(k) ==
  /\ \/ reset[k] = "good" /\ reset' = [reset EXCEPT ![k] = "spent"] /\ UNCHANGED otp
     \/ otp[k] = "good" /\ otp' = [otp EXCEPT ![k] = "spent"] /\ UNCHANGED reset
  /\ UNCHANGED <<account, tokens, history, req>>

\* A call throws, or the process dies, at any await.
Fail(r) ==
  /\ req[r].pc # "idle"
  /\ cut' = (cut \/ req[r].pc = "revokeAll")
  /\ Finish(r)
  /\ UNCHANGED <<account, tokens, codes, changes, tried, byAdmin>>

-----------------------------------------------------------------------------
(* Specification *)

Endpoint(r) ==
  \/ \E password \in 0 .. version : Login(r, password)
  \/ \E t \in Tokens : RefreshTokens(r, t)
  \/ ForgotPassword(r) \/ ChangePassword(r) \/ RequestOtp(r) \/ AdminResetPassword(r)
  \/ \E k \in Codes : ResetPassword(r, k) \/ ChangePasswordWithOtp(r, k)
  \/ \E op \in AdminOps \ {"none"} : Administer(r, op)

Step(r) ==
  \/ FailedWrite(r) \/ ClearFailures(r) \/ IssueTokenPair(r) \/ RotateWrite(r)
  \/ CreateReset(r) \/ UseReset(r) \/ CleanOtp(r) \/ CreateOtp(r) \/ FindOtp(r) \/ UseOtp(r)
  \/ SetPassword(r) \/ RevokeAll(r) \/ AdminWrite(r)

Time ==
  \/ LockExpires
  \/ \E t \in Tokens : TokenExpires(t)
  \/ \E k \in Codes : CodeExpires(k)

Next ==
  \/ \E r \in Requests : Endpoint(r) \/ Step(r) \/ Fail(r)
  \/ \E t \in Tokens : Logout(t)
  \/ LogoutAll
  \/ Time

Spec == Init /\ [][Next]_vars

-----------------------------------------------------------------------------
(* Properties *)

Live == {t \in Tokens : refresh[t] = "good"}
Revoking == cut \/ \E r \in Requests : req[r].pc = "revokeAll"

\* With one request at a time, the sessions alive are those that logged in with
\* the password the account has: none survives a change of the password, unless
\* the change ended before its last call (auth.service.ts:266, 307, 419).
SessionsFollowPassword ==
  \A t \in Live : session[t].password = version \/ Revoking

\* Whatever the interleaving, a session that was there when the password changed
\* does not survive, unless the change ended before its last call. What does
\* survive are sessions inserted afterwards by a login or a refresh that had
\* passed its checks before.
EstablishedSessionsEnd ==
  \A t \in Live : session[t].at = version \/ Revoking

\* With one request at a time, one login has one live refresh token, however
\* often it was rotated (token.service.ts:90).
OneLivePerLogin ==
  \A t, u \in Live : session[t].login = session[u].login => t = u

\* With one request at a time, a reset token and a one-time code change the
\* password once (token.service.ts:155, otp.service.ts:88).
CodesAreUsedOnce == \A c \in DOMAIN changes : changes[c] <= 1

\* With one request at a time, at most one link and one code are good.
OneGoodCode ==
  \A k, j \in Codes :
    \/ k = j
    \/ ~(reset[k] = "good" /\ reset[j] = "good") /\ ~(otp[k] = "good" /\ otp[j] = "good")

\* Whatever the interleaving, and though the counter is written from what was
\* read before, no account is locked before MaxFailed wrong passwords were tried
\* (auth.service.ts:570).
LockedForCause == status = "LOCKED" /\ ~byAdmin => tried >= MaxFailed
=============================================================================
