--------------------------------- MODULE Auth ---------------------------------
(***************************************************************************)
(* auth-service and what the gateway asks of its Redis keys.  Handlers      *)
(* read, await and write one autocommitted statement at a time, on two      *)
(* replicas: every await is an action boundary.  A session id, refresh      *)
(* token, access token, mail token or password is named for the call that   *)
(* made it.  A rejected await answers the call "failed" and leaves what it  *)
(* wrote; a process that dies does the same to the calls it served.         *)
(*                                                                          *)
(* Time passes in ticks of a quarter of an hour, the life of an access      *)
(* token.  A handler takes seconds, so it sees the clock move once at most. *)
(*                                                                          *)
(* External: operations-service, which publishes the suspensions, the       *)
(* broker and the clients, who may send any token they were ever given.     *)
(***************************************************************************)
EXTENDS Integers, FiniteSets

CONSTANTS
    Users,          \* e-mail addresses; a user's row is found by it
    Registered,     \* those with a verified row at the start
    Calls,          \* HTTP requests, and suspensions by operations-service
    LoggedIn,       \* a login of a registered user, answered before the start
    Plans,          \* what the calls ask: one operation each, or none
    MaxAttempts,    \* 5 in the code
    LockoutWindow,  \* 15 minutes
    AccessLife,     \* 15 minutes
    RefreshLife,    \* 30 days
    EmailLife,      \* 24 hours
    ResetLife,      \* 1 hour
    SuspendedLife,  \* 1 hour
    MaxNow,         \* bound on the clock
    MaxFailures,    \* bound on rejected awaits
    MaxCrashes,     \* bound on crashes of the consumer
    None

Op == {"register", "verify", "login", "refresh", "logout", "revoke",
       "forgot", "reset", "use", "suspend"}

ASSUME AuthSetsAssumption ==
    /\ Registered \subseteq Users
    /\ LoggedIn \in Calls
    /\ Registered # {}
    /\ Plans \subseteq [Calls -> Op \union {None}]
    /\ None \notin Users \union Calls \union Op
ASSUME AuthBoundsAssumption ==
    /\ {MaxAttempts, LockoutWindow, AccessLife, RefreshLife, EmailLife,
        ResetLife, SuspendedLife} \subseteq Nat \ {0}
    /\ {MaxNow, MaxFailures, MaxCrashes} \subseteq Nat
\* an hour outlives an access token signed by the slowest handler
ASSUME SuspendedLifeAssumption == SuspendedLife >= AccessLife + 2

VARIABLES
    plan,         \* plan[c]: what call c asks
    now,          \* the clock
    users,        \* users[u]: its row, None before its insert
    sessions,     \* sessions[c]: the row login c inserted
    emailTokens,  \* emailTokens[c]: the row registration c inserted
    resetTokens,  \* resetTokens[c]: the row forgotPassword c inserted
    access,       \* access[c]: the access token c signed
    blocked,      \* blocked[c]: until when jti:blocklist:c is in Redis
    barred,       \* barred[u]: until when suspended:u is in Redis
    call,         \* call[c]: its progress
    queue,        \* suspensions in auth-service.operations.user_suspended
    consumer,     \* the suspension consumer: its event and progress
    acked,        \* suspensions acknowledged
    dead,         \* suspensions nacked without requeue
    failures, crashes

tables == <<users, sessions, emailTokens, resetTokens>>
redis == <<blocked, barred>>
suspension == <<queue, consumer, acked, dead>>
bounds == <<failures, crashes>>

vars == <<plan, now, tables, access, redis, call, suspension, bounds>>

-----------------------------------------------------------------------------
User == [verified : BOOLEAN, suspended : BOOLEAN,
         password : Calls \union {None}, attempts : Nat, failedAt : Nat]
Session == [user : Users, token : Calls, revoked : BOOLEAN, expires : Nat]
MailToken == [user : Users, expires : Nat, used : BOOLEAN]
AccessToken == [user : Users, session : Calls, exp : Nat]
ASSUME RowsAssumption ==
    None \notin User \union Session \union MailToken \union AccessToken

Answered == {"done", "refused", "failed"}
Phase == {"start", "duplicate", "createUser", "emailToken", "announceUser",
          "emailLookup", "setVerified", "markEmail", "announceEmail",
          "userLookup", "lockout", "password", "countRead", "countWrite",
          "clearCount", "startSession", "announceLogin",
          "hashLookup", "revokeAll", "revokeExpired", "userOfSession",
          "rotate", "sign", "cookieLookup", "ownership", "revokeSession",
          "blocklist", "announceRevoked", "forgotLookup", "resetToken",
          "announceReset", "resetLookup", "updatePassword", "markReset",
          "announcePassword", "jti", "suspension"} \union Answered
Call == [op : Op \union {None}, phase : Phase,
         user : Users \union {None},     \* whom it is about
         token : Calls \union {None},    \* the refresh or mail token sent
         bearer : Calls \union {None},   \* the access token sent
         session : Calls \union {None},  \* the session row it works on
         password : Calls \union {None}, \* the password sent
         verified : BOOLEAN,             \* isEmailVerified as it was read
         attempts : Nat,                 \* failedLoginAttempts as it was read
         since : Nat,                    \* when it began
         doomed : BOOLEAN]               \* what it presents was revoked by then

TypeOK ==
    /\ plan \in Plans
    /\ now \in Nat
    /\ users \in [Users -> User \union {None}]
    /\ sessions \in [Calls -> Session \union {None}]
    /\ emailTokens \in [Calls -> MailToken \union {None}]
    /\ resetTokens \in [Calls -> MailToken \union {None}]
    /\ access \in [Calls -> AccessToken \union {None}]
    /\ blocked \in [Calls -> Nat]
    /\ barred \in [Users -> Nat]
    /\ call \in [Calls -> Call]
    /\ queue \subseteq Calls
    /\ consumer \in [event : Calls \union {None}, since : Nat,
                     phase : {"idle", "suspend", "revoke", "bar", "ack"}]
    /\ acked \subseteq Calls
    /\ dead \subseteq Calls
    /\ failures \in Nat
    /\ crashes \in Nat

NewUser(p) == [verified |-> FALSE, suspended |-> FALSE, password |-> p,
               attempts |-> 0, failedAt |-> 0]
Fresh == [op |-> None, phase |-> "start", user |-> None, token |-> None,
          bearer |-> None, session |-> None, password |-> None,
          verified |-> FALSE, attempts |-> 0, since |-> 0, doomed |-> FALSE]
Idle == [event |-> None, since |-> 0, phase |-> "idle"]

\* the session and the token pair of the client that logged in before
Owner == CHOOSE u \in Registered : TRUE
FirstLogin == [Fresh EXCEPT !.op = "login", !.phase = "done", !.user = Owner,
                            !.session = LoggedIn, !.verified = TRUE]

Init ==
    /\ plan \in Plans
    /\ now = 0
    /\ users = [u \in Users |-> IF u \in Registered
                                THEN [NewUser(None) EXCEPT !.verified = TRUE]
                                ELSE None]
    /\ sessions = [c \in Calls |-> IF c = LoggedIn
           THEN [user |-> Owner, token |-> c, revoked |-> FALSE, expires |-> RefreshLife]
           ELSE None]
    /\ emailTokens = [c \in Calls |-> None]
    /\ resetTokens = [c \in Calls |-> None]
    /\ access = [c \in Calls |-> IF c = LoggedIn
           THEN [user |-> Owner, session |-> c, exp |-> AccessLife]
           ELSE None]
    /\ blocked = [c \in Calls |-> 0]
    /\ barred = [u \in Users |-> 0]
    /\ call = [c \in Calls |-> IF c = LoggedIn THEN FirstLogin ELSE Fresh]
    /\ queue = {}
    /\ consumer = Idle
    /\ acked = {}
    /\ dead = {}
    /\ failures = 0
    /\ crashes = 0

-----------------------------------------------------------------------------
InFlight(c) == call[c].phase \notin {"start"} \union Answered
At(c, phase) == call[c].phase = phase
Go(c, phase) == call' = [call EXCEPT ![c].phase = phase]

\* the refresh and access tokens a client was answered with
Tokens == {c \in Calls : call[c].op \in {"login", "refresh"} /\ At(c, "done")}
\* mail tokens that reached their user
MailTokens(op) == {c \in Calls : call[c].op = op /\ At(c, "done")}
Passwords == {c \in Calls : call[c].op \in {"register", "reset"}} \union {None}

\* jwtVerify of authenticate and of the gateway: the signature is right
LiveToken(a) == access[a] # None /\ now < access[a].exp

Begin(c, input) ==
    /\ At(c, "start")
    /\ input.op = plan[c]
    /\ call' = [call EXCEPT ![c] = [input EXCEPT !.since = now]]
    /\ UNCHANGED <<plan, now, tables, access, redis, suspension, bounds>>

Step(c, phase) ==
    /\ Go(c, phase)
    /\ UNCHANGED <<plan, now, access, redis, suspension, bounds>>

-----------------------------------------------------------------------------
\* register
BeginRegister(c) == \E u \in Users :
    Begin(c, [Fresh EXCEPT !.op = "register", !.phase = "duplicate", !.user = u])

FindDuplicate(c) ==
    /\ At(c, "duplicate")
    /\ Step(c, IF users[call[c].user] = None THEN "createUser" ELSE "refused")
    /\ UNCHANGED tables

\* users.email is unique: the later of two inserts is an error nobody maps
EmailTaken(u) == users[u] # None
EmailNeverTaken(u) == FALSE
ViolatesEmailIndex(u) == EmailTaken(u)

CreateUser(c) ==
    /\ At(c, "createUser")
    /\ LET u == call[c].user
       IN IF ViolatesEmailIndex(u)
          THEN UNCHANGED users /\ Step(c, "failed")
          ELSE /\ users' = [users EXCEPT ![u] = NewUser(c)]
               /\ Step(c, "emailToken")
    /\ UNCHANGED <<sessions, emailTokens, resetTokens>>

CreateEmailToken(c) ==
    /\ At(c, "emailToken")
    /\ emailTokens' = [emailTokens EXCEPT ![c] =
           [user |-> call[c].user, expires |-> now + EmailLife, used |-> FALSE]]
    /\ Step(c, "announceUser")
    /\ UNCHANGED <<users, sessions, resetTokens>>

PublishRegistered(c) ==
    /\ At(c, "announceUser")
    /\ Step(c, "done")
    /\ UNCHANGED tables

\* verifyEmail
BeginVerify(c) == \E t \in MailTokens("register") :
    Begin(c, [Fresh EXCEPT !.op = "verify", !.phase = "emailLookup", !.token = t])

FindEmailToken(c) ==
    /\ At(c, "emailLookup")
    /\ LET t == emailTokens[call[c].token]
       IN Step(c, IF ~t.used /\ t.expires >= now THEN "setVerified" ELSE "refused")
    /\ UNCHANGED tables

SetEmailVerified(c) ==
    /\ At(c, "setVerified")
    /\ users' = [users EXCEPT ![emailTokens[call[c].token].user].verified = TRUE]
    /\ Step(c, "markEmail")
    /\ UNCHANGED <<sessions, emailTokens, resetTokens>>

MarkEmailTokenUsed(c) ==
    /\ At(c, "markEmail")
    /\ emailTokens' = [emailTokens EXCEPT ![call[c].token].used = TRUE]
    /\ Step(c, "announceEmail")
    /\ UNCHANGED <<users, sessions, resetTokens>>

PublishVerified(c) ==
    /\ At(c, "announceEmail")
    /\ Step(c, "done")
    /\ UNCHANGED tables

-----------------------------------------------------------------------------
\* login: a password nobody set is written as the call's own name
BeginLogin(c) == \E u \in Users, p \in Passwords \union {c} :
    Begin(c, [Fresh EXCEPT !.op = "login", !.phase = "userLookup", !.user = u,
                           !.password = p])

FindUser(c) ==
    /\ At(c, "userLookup")
    /\ LET u == users[call[c].user]
       IN call' = [call EXCEPT
              ![c].phase = IF u = None \/ u.suspended THEN "refused" ELSE "lockout",
              ![c].verified = u # None /\ u.verified]
    /\ UNCHANGED <<plan, now, tables, access, redis, suspension, bounds>>

Locked(u) == /\ users[u].attempts >= MaxAttempts
             /\ now < users[u].failedAt + LockoutWindow

CheckLockout(c) ==
    /\ At(c, "lockout")
    /\ Step(c, IF Locked(call[c].user) THEN "refused" ELSE "password")
    /\ UNCHANGED tables

VerifyPassword(c) ==
    /\ At(c, "password")
    /\ Step(c, IF call[c].password # users[call[c].user].password THEN "countRead"
               ELSE IF call[c].verified THEN "clearCount" ELSE "refused")
    /\ UNCHANGED tables

\* incrementFailedLogins reads the count and writes it in two statements
ReadCount(c) ==
    /\ At(c, "countRead")
    /\ call' = [call EXCEPT ![c].phase = "countWrite",
                            ![c].attempts = users[call[c].user].attempts]
    /\ UNCHANGED <<plan, now, tables, access, redis, suspension, bounds>>

WriteCount(c) ==
    /\ At(c, "countWrite")
    /\ users' = [users EXCEPT ![call[c].user].attempts = call[c].attempts + 1,
                              ![call[c].user].failedAt = now]
    /\ Step(c, "refused")
    /\ UNCHANGED <<sessions, emailTokens, resetTokens>>

ResetFailedLogins(c) ==
    /\ At(c, "clearCount")
    /\ users' = [users EXCEPT ![call[c].user].attempts = 0,
                              ![call[c].user].failedAt = 0]
    /\ Step(c, "startSession")
    /\ UNCHANGED <<sessions, emailTokens, resetTokens>>

StartSession(c) ==
    /\ At(c, "startSession")
    /\ sessions' = [sessions EXCEPT ![c] =
           [user |-> call[c].user, token |-> c, revoked |-> FALSE,
            expires |-> now + RefreshLife]]
    /\ call' = [call EXCEPT ![c].phase = "announceLogin", ![c].session = c]
    /\ UNCHANGED <<plan, now, access, redis, suspension, bounds,
                   users, emailTokens, resetTokens>>

GenerateAccessToken(c) ==
    access' = [access EXCEPT ![c] =
        [user |-> call[c].user, session |-> call[c].session,
         exp |-> now + AccessLife]]

\* the token is signed, user.logged_in published, and the client answered
FinishLogin(c) ==
    /\ At(c, "announceLogin")
    /\ GenerateAccessToken(c)
    /\ Go(c, "done")
    /\ UNCHANGED <<plan, now, tables, redis, suspension, bounds>>

-----------------------------------------------------------------------------
\* refresh
\* a session that holds a token is found by it, one that held it is not
ByToken(t) == {s \in Calls : sessions[s] # None /\ sessions[s].token = t}

NeverRevoked(s) == FALSE
IsRevoked(s) == sessions[s].revoked

\* the token was rotated away or its session revoked
Stale(t) == LET s == sessions[access[t].session]
            IN s.token # t \/ s.revoked

BeginRefresh(c) == \E t \in Tokens :
    Begin(c, [Fresh EXCEPT !.op = "refresh", !.phase = "hashLookup", !.token = t,
                           !.user = access[t].user, !.doomed = Stale(t)])

FindByTokenHash(c) ==
    /\ At(c, "hashLookup")
    /\ IF ByToken(call[c].token) = {}
       THEN Go(c, "refused")
       ELSE \E s \in ByToken(call[c].token) :
                call' = [call EXCEPT
                    ![c].session = s,
                    ![c].phase = IF IsRevoked(s) THEN "revokeAll"
                                   ELSE IF sessions[s].expires < now
                                   THEN "revokeExpired" ELSE "userOfSession"]
    /\ UNCHANGED <<plan, now, tables, access, redis, suspension, bounds>>

RevokeSessionsOf(u) ==
    sessions' = [s \in Calls |-> IF sessions[s] # None /\ sessions[s].user = u
                                 THEN [sessions[s] EXCEPT !.revoked = TRUE]
                                 ELSE sessions[s]]

\* of a refresh that found its session revoked, and of resetPassword
RevokeAllUserSessions(c) ==
    /\ At(c, "revokeAll")
    /\ RevokeSessionsOf(call[c].user)
    /\ Step(c, IF call[c].op = "reset" THEN "announcePassword" ELSE "refused")
    /\ UNCHANGED <<users, emailTokens, resetTokens>>

RevokeExpired(c) ==
    /\ At(c, "revokeExpired")
    /\ sessions' = [sessions EXCEPT ![call[c].session].revoked = TRUE]
    /\ Step(c, "refused")
    /\ UNCHANGED <<users, emailTokens, resetTokens>>

RefusesSuspended(u) == users[u].suspended
FindUserOfSession(c) ==
    /\ At(c, "userOfSession")
    /\ Step(c, IF RefusesSuspended(call[c].user) THEN "refused" ELSE "rotate")
    /\ UNCHANGED tables

\* whatever the row has become: is_revoked is neither read nor written
Rotated(s, c) == [sessions[s] EXCEPT !.token = c, !.expires = now + RefreshLife]
RotateSession(c) ==
    /\ At(c, "rotate")
    /\ LET s == call[c].session
       IN sessions' = [sessions EXCEPT ![s] = Rotated(s, c)]
    /\ Step(c, "sign")
    /\ UNCHANGED <<users, emailTokens, resetTokens>>

FinishRefresh(c) ==
    /\ At(c, "sign")
    /\ GenerateAccessToken(c)
    /\ Go(c, "done")
    /\ UNCHANGED <<plan, now, tables, redis, suspension, bounds>>

-----------------------------------------------------------------------------
\* logout: the cookie's session if there is a cookie, else the token's own
BeginLogout(c) == \E a \in Tokens, cookie \in Tokens \union {None} :
    Begin(c, [Fresh EXCEPT
        !.op = "logout", !.user = access[a].user, !.bearer = a, !.token = cookie,
        !.session = IF cookie = None THEN access[a].session ELSE None,
        !.phase = IF ~LiveToken(a) THEN "refused"
                  ELSE IF cookie = None THEN "revokeSession" ELSE "cookieLookup"])

\* a cookie that matches no session of the user is answered 200 all the same
FindCookie(c) ==
    /\ At(c, "cookieLookup")
    /\ LET own == {s \in ByToken(call[c].token) : sessions[s].user = call[c].user}
       IN IF own = {}
          THEN Go(c, "done")
          ELSE \E s \in own : call' = [call EXCEPT ![c].session = s,
                                                   ![c].phase = "revokeSession"]
    /\ UNCHANGED <<plan, now, tables, access, redis, suspension, bounds>>

\* revokeSession: the access token of the session named in the path is unknown
BeginRevoke(c) == \E a \in Tokens, s \in Calls :
    Begin(c, [Fresh EXCEPT
        !.op = "revoke", !.user = access[a].user, !.bearer = a, !.session = s,
        !.phase = IF LiveToken(a) THEN "ownership" ELSE "refused"])

FindOwnSession(c) ==
    /\ At(c, "ownership")
    /\ LET s == sessions[call[c].session]
       IN Step(c, IF s # None /\ s.user = call[c].user
                  THEN "revokeSession" ELSE "refused")
    /\ UNCHANGED tables

RevokeSession(c) ==
    /\ At(c, "revokeSession")
    /\ sessions' = [sessions EXCEPT ![call[c].session].revoked = TRUE]
    /\ Step(c, IF call[c].op = "logout" THEN "blocklist" ELSE "announceRevoked")
    /\ UNCHANGED <<users, emailTokens, resetTokens>>

\* SET EX with the token's remaining life, unless none remains
BlockedUntil(a) == IF now < access[a].exp THEN access[a].exp ELSE blocked[a]
BlocklistToken(c) ==
    /\ At(c, "blocklist")
    /\ blocked' = [blocked EXCEPT ![call[c].bearer] = BlockedUntil(call[c].bearer)]
    /\ Go(c, "announceRevoked")
    /\ UNCHANGED <<plan, now, tables, access, barred, suspension, bounds>>

PublishSessionRevoked(c) ==
    /\ At(c, "announceRevoked")
    /\ Step(c, "done")
    /\ UNCHANGED tables

-----------------------------------------------------------------------------
\* forgotPassword
BeginForgot(c) == \E u \in Users :
    Begin(c, [Fresh EXCEPT !.op = "forgot", !.phase = "forgotLookup", !.user = u])

FindForgetful(c) ==
    /\ At(c, "forgotLookup")
    /\ Step(c, IF users[call[c].user] = None THEN "refused" ELSE "resetToken")
    /\ UNCHANGED tables

CreateResetToken(c) ==
    /\ At(c, "resetToken")
    /\ resetTokens' = [resetTokens EXCEPT ![c] =
           [user |-> call[c].user, expires |-> now + ResetLife, used |-> FALSE]]
    /\ Step(c, "announceReset")
    /\ UNCHANGED <<users, sessions, emailTokens>>

PublishResetRequested(c) ==
    /\ At(c, "announceReset")
    /\ Step(c, "done")
    /\ UNCHANGED tables

\* resetPassword: the new password is named for the call
BeginReset(c) == \E t \in MailTokens("forgot") :
    Begin(c, [Fresh EXCEPT !.op = "reset", !.phase = "resetLookup", !.token = t,
                           !.user = resetTokens[t].user])

FindResetToken(c) ==
    /\ At(c, "resetLookup")
    /\ LET t == resetTokens[call[c].token]
       IN Step(c, IF ~t.used /\ t.expires >= now THEN "updatePassword" ELSE "refused")
    /\ UNCHANGED tables

UpdatePassword(c) ==
    /\ At(c, "updatePassword")
    /\ users' = [users EXCEPT ![call[c].user].password = c,
                              ![call[c].user].attempts = 0,
                              ![call[c].user].failedAt = 0]
    /\ Step(c, "markReset")
    /\ UNCHANGED <<sessions, emailTokens, resetTokens>>

MarkResetTokenUsed(c) ==
    /\ At(c, "markReset")
    /\ resetTokens' = [resetTokens EXCEPT ![call[c].token].used = TRUE]
    /\ Step(c, "revokeAll")
    /\ UNCHANGED <<users, sessions, emailTokens>>

PublishPasswordChanged(c) ==
    /\ At(c, "announcePassword")
    /\ Step(c, "done")
    /\ UNCHANGED tables

-----------------------------------------------------------------------------
\* a request at the gateway: the token is verified, then Redis is asked twice
BeginUse(c) == \E a \in Tokens :
    Begin(c, [Fresh EXCEPT
        !.op = "use", !.user = access[a].user, !.bearer = a,
        !.doomed = now < blocked[a],
        !.phase = IF LiveToken(a) THEN "jti" ELSE "refused"])

CheckBlocklist(c) ==
    /\ At(c, "jti")
    /\ Step(c, IF now < blocked[call[c].bearer] THEN "refused" ELSE "suspension")
    /\ UNCHANGED tables

CheckSuspended(c) ==
    /\ At(c, "suspension")
    /\ Step(c, IF now < barred[call[c].user] THEN "refused" ELSE "done")
    /\ UNCHANGED tables

-----------------------------------------------------------------------------
\* An await that rejects.  logout without a cookie ignores what logout throws,
\* and the gateway refuses when Redis does not answer.
Fail(c) ==
    /\ InFlight(c)
    /\ failures < MaxFailures
    /\ failures' = failures + 1
    /\ Go(c, CASE call[c].op = "use" -> "refused"
               [] call[c].op = "logout" /\ call[c].token = None -> "done"
               [] OTHER -> "failed")
    /\ UNCHANGED <<plan, now, tables, access, redis, suspension, crashes>>

-----------------------------------------------------------------------------
\* the suspension consumer, one event at a time; only customers are suspended
PublishSuspension(c) == \E u \in Users :
    /\ At(c, "start")
    /\ users[u] # None
    /\ plan[c] = "suspend"
    /\ call' = [call EXCEPT ![c] = [Fresh EXCEPT !.op = "suspend",
                                                !.phase = "done", !.user = u]]
    /\ queue' = queue \union {c}
    /\ UNCHANGED <<plan, now, tables, access, redis, consumer, acked, dead, bounds>>

Target == call[consumer.event].user

Receive == \E c \in queue :
    /\ consumer = Idle
    /\ consumer' = [event |-> c, since |-> now, phase |-> "suspend"]
    /\ queue' = queue \ {c}
    /\ UNCHANGED <<plan, now, tables, access, redis, call, acked, dead, bounds>>

SetSuspended ==
    /\ consumer.phase = "suspend"
    /\ users' = [u \in Users |-> IF u = Target /\ users[u] # None
                                 THEN [users[u] EXCEPT !.suspended = TRUE]
                                 ELSE users[u]]
    /\ consumer' = [consumer EXCEPT !.phase = "revoke"]
    /\ UNCHANGED <<plan, now, sessions, emailTokens, resetTokens, access, redis, call,
                   queue, acked, dead, bounds>>

RevokeSuspended ==
    /\ consumer.phase = "revoke"
    /\ RevokeSessionsOf(Target)
    /\ consumer' = [consumer EXCEPT !.phase = "bar"]
    /\ UNCHANGED <<plan, now, users, emailTokens, resetTokens, access, redis, call,
                   queue, acked, dead, bounds>>

BarredForAToken == now + AccessLife
BarredUntil == now + SuspendedLife
Bar ==
    /\ consumer.phase = "bar"
    /\ barred' = [barred EXCEPT ![Target] = BarredUntil]
    /\ consumer' = [consumer EXCEPT !.phase = "ack"]
    /\ UNCHANGED <<plan, now, tables, access, blocked, call, queue, acked, dead, bounds>>

Ack ==
    /\ consumer.phase = "ack"
    /\ acked' = acked \union {consumer.event}
    /\ consumer' = Idle
    /\ UNCHANGED <<plan, now, tables, access, redis, call, queue, dead, bounds>>

\* a statement or SET that fails sends the message to the dead-letter exchange
Nack ==
    /\ consumer.phase \in {"suspend", "revoke", "bar"}
    /\ failures < MaxFailures
    /\ failures' = failures + 1
    /\ dead' = dead \union {consumer.event}
    /\ consumer' = Idle
    /\ UNCHANGED <<plan, now, tables, access, redis, call, queue, acked, crashes>>

\* the broker delivers again what was not acknowledged
Crash ==
    /\ consumer # Idle
    /\ crashes < MaxCrashes
    /\ crashes' = crashes + 1
    /\ queue' = queue \union {consumer.event}
    /\ consumer' = Idle
    /\ UNCHANGED <<plan, now, tables, access, redis, call, acked, dead, failures>>

Tick ==
    /\ now < MaxNow
    /\ \A c \in Calls : InFlight(c) => call[c].since = now
    /\ consumer # Idle => consumer.since = now
    /\ now' = now + 1
    /\ UNCHANGED <<plan, tables, access, redis, call, suspension, bounds>>

-----------------------------------------------------------------------------
Register(c) == \/ BeginRegister(c) \/ FindDuplicate(c) \/ CreateUser(c)
               \/ CreateEmailToken(c) \/ PublishRegistered(c)
VerifyEmail(c) == \/ BeginVerify(c) \/ FindEmailToken(c) \/ SetEmailVerified(c)
                  \/ MarkEmailTokenUsed(c) \/ PublishVerified(c)
Login(c) == \/ BeginLogin(c) \/ FindUser(c) \/ CheckLockout(c)
            \/ VerifyPassword(c) \/ ReadCount(c) \/ WriteCount(c)
            \/ ResetFailedLogins(c) \/ StartSession(c) \/ FinishLogin(c)
Refresh(c) == \/ BeginRefresh(c) \/ FindByTokenHash(c) \/ RevokeExpired(c)
              \/ FindUserOfSession(c) \/ RotateSession(c) \/ FinishRefresh(c)
Logout(c) == \/ BeginLogout(c) \/ FindCookie(c) \/ BeginRevoke(c)
             \/ FindOwnSession(c) \/ RevokeSession(c) \/ BlocklistToken(c)
             \/ PublishSessionRevoked(c)
ResetPassword(c) == \/ BeginForgot(c) \/ FindForgetful(c) \/ CreateResetToken(c)
                    \/ PublishResetRequested(c) \/ BeginReset(c)
                    \/ FindResetToken(c) \/ UpdatePassword(c)
                    \/ MarkResetTokenUsed(c) \/ RevokeAllUserSessions(c)
                    \/ PublishPasswordChanged(c)
Use(c) == BeginUse(c) \/ CheckBlocklist(c) \/ CheckSuspended(c)

Consume == Receive \/ SetSuspended \/ RevokeSuspended \/ Bar \/ Ack

Next ==
    \/ \E c \in Calls : \/ Register(c) \/ VerifyEmail(c) \/ Login(c)
                        \/ Refresh(c) \/ Logout(c) \/ ResetPassword(c)
                        \/ Use(c) \/ PublishSuspension(c) \/ Fail(c)
    \/ Consume \/ Nack \/ Crash \/ Tick

Spec == Init /\ [][Next]_vars

-----------------------------------------------------------------------------
\* users a suspension of whom was acknowledged
Enforced == {call[c].user : c \in acked}

Admitted(c) == call[c].op = "use" /\ At(c, "done")

\* Once a suspension was acknowledged the gateway admits none of the user's
\* tokens, those signed afterwards for calls that had read the row before
\* included: suspended:{userId} outlives every one of them.
SuspendedIsLockedOut ==
    [][\A c \in Calls : ~Admitted(c) /\ Admitted(c)' => call[c].user \notin Enforced]_vars

\* A token blocklisted before a request arrived admits it only if it expired
\* on the way; a refresh token rotated away, or of a session revoked, before the
\* refresh arrived never yields tokens, whatever other handlers are doing.
RevokedIsRefused ==
    [][\A c \in Calls :
        /\ ~Admitted(c) /\ Admitted(c)' /\ call[c].doomed
               => now >= access[call[c].bearer].exp
        /\ At(c, "sign") /\ At(c, "done")' => ~call[c].doomed]_vars

\* However many registrations of one address pass the duplicate check together,
\* one at most is answered 201, and a verification mail is on its way for it.
RegisteredOnce ==
    \A c \in Calls : call[c].op = "register" /\ At(c, "done") =>
        /\ emailTokens[c] # None
        /\ call[c].user \notin Registered
        /\ \A d \in Calls \ {c} :
               ~(call[d].op = "register" /\ At(d, "done") /\ call[d].user = call[c].user)
=============================================================================
