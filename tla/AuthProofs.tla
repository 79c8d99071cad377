------------------------------ MODULE AuthProofs ------------------------------
(***************************************************************************)
(* Theorems about Auth, for any users, calls, plans, lives and bounds.      *)
(*                                                                          *)
(* AuthInv is inductive: the rows every phase of a handler relies on        *)
(* (BaseInv), that a key set by the suspension consumer outlives every token*)
(* signed or about to be (LockInv), that a session is found by the token it *)
(* was made or rotated for (SessionInv), and that what doomed a call on its *)
(* arrival still does (RevokeInv).  CallStep says what a step of one call   *)
(* may do to the others: it keeps AuthInv, and every action of a call is    *)
(* such a step.  The consumer's steps and the clock are taken one by one.   *)
(***************************************************************************)
EXTENDS Auth, TLAPS

\* Rows are never deleted; these are the ones a call has seen.
Row(u) == u \in Users /\ users[u] # None
HasSession(s) == s \in Calls /\ sessions[s] # None
Mailed(t) == t \in Calls /\ emailTokens[t] # None
ResetMailed(t) == t \in Calls /\ resetTokens[t] # None
Signed(a) == a \in Calls /\ access[a] # None

RegisterInv(c, p) ==
    /\ p \in {"duplicate", "createUser"} =>
          call[c].op = "register" /\ call[c].user \in Users
    /\ p \in {"start", "duplicate", "createUser", "emailToken"} => ~Mailed(c)
    /\ p = "emailToken" => call[c].op = "register" /\ Row(call[c].user)
    /\ p = "announceUser" => call[c].op = "register" /\ Mailed(c)
    /\ p = "done" /\ call[c].op = "register" => Mailed(c)
    /\ p \in {"emailLookup", "setVerified", "markEmail", "announceEmail"}
          => call[c].op = "verify" /\ Mailed(call[c].token)

LoginInv(c, p) ==
    /\ p = "userLookup" => call[c].op = "login" /\ call[c].user \in Users
    /\ p \in {"lockout", "password", "countRead", "countWrite",
            "clearCount", "startSession"}
          => call[c].op = "login" /\ Row(call[c].user)
    /\ p = "announceLogin" =>
          /\ call[c].op = "login"
          /\ Row(call[c].user)
          /\ HasSession(call[c].session)

RefreshInv(c, p) ==
    /\ p = "hashLookup" =>
          /\ call[c].op = "refresh"
          /\ Row(call[c].user)
          /\ Signed(call[c].token)
    /\ p \in {"revokeExpired", "userOfSession", "rotate", "sign"} =>
          /\ call[c].op = "refresh"
          /\ Row(call[c].user)
          /\ HasSession(call[c].session)
    /\ p = "revokeAll" =>
          /\ call[c].op \in {"refresh", "reset"}
          /\ call[c].user \in Users

LogoutInv(c, p) ==
    /\ p = "cookieLookup" =>
          call[c].op = "logout" /\ Signed(call[c].bearer)
    /\ p = "ownership" =>
          call[c].op = "revoke" /\ call[c].session \in Calls
    /\ p = "revokeSession" =>
          /\ call[c].op \in {"logout", "revoke"}
          /\ HasSession(call[c].session)
          /\ call[c].op = "logout" => Signed(call[c].bearer)
    /\ p = "blocklist" => call[c].op = "logout" /\ Signed(call[c].bearer)
    /\ p = "announceRevoked" => call[c].op \in {"logout", "revoke"}

ResetInv(c, p) ==
    /\ p = "forgotLookup" => call[c].op = "forgot" /\ call[c].user \in Users
    /\ p \in {"start", "forgotLookup", "resetToken"} => ~ResetMailed(c)
    /\ p = "resetToken" => call[c].op = "forgot" /\ Row(call[c].user)
    /\ p = "announceReset" => call[c].op = "forgot" /\ ResetMailed(c)
    /\ p = "done" /\ call[c].op = "forgot" => ResetMailed(c)
    /\ p \in {"resetLookup", "updatePassword", "markReset"} =>
          /\ call[c].op = "reset"
          /\ Row(call[c].user)
          /\ ResetMailed(call[c].token)
    /\ p = "announcePassword" => call[c].op = "reset"

UseInv(c, p) ==
    p \in {"jti", "suspension"} =>
        /\ call[c].op = "use"
        /\ Signed(call[c].bearer)
        /\ call[c].user = access[call[c].bearer].user
        /\ call[c].since < access[call[c].bearer].exp

\* What is known of a call that is in phase p, or about to enter it.
Known(c, p) == /\ RegisterInv(c, p) /\ LoginInv(c, p) /\ RefreshInv(c, p)
               /\ LogoutInv(c, p) /\ ResetInv(c, p) /\ UseInv(c, p)
CallInv(c) == /\ Known(c, call[c].phase)
              /\ InFlight(c) => call[c].since <= now /\ now <= call[c].since + 1

\* Tokens belong to rows; a call's access token is there when it is answered.
OwnRows(c) ==
    /\ Mailed(c) => Row(emailTokens[c].user)
    /\ ResetMailed(c) => Row(resetTokens[c].user)
    /\ Signed(c) <=> call[c].op \in {"login", "refresh"} /\ At(c, "done")
    /\ Signed(c) => /\ Row(access[c].user)
                    /\ HasSession(access[c].session)
                    /\ access[c].exp <= now + AccessLife

\* A suspension is of a user with a row, whom the consumer marks first of all.
Suspends(c) == /\ c \in Calls
               /\ call[c].op = "suspend"
               /\ At(c, "done")
               /\ Row(call[c].user)
SuspensionInv ==
    /\ \A c \in queue \union acked : Suspends(c)
    /\ consumer.phase = "idle" => consumer = Idle
    /\ consumer.phase # "idle" => Suspends(consumer.event)
    /\ consumer.phase \in {"revoke", "bar", "ack"} => users[Target].suspended

BaseInv ==
    /\ TypeOK
    /\ \A c \in Calls : CallInv(c) /\ OwnRows(c)
    /\ SuspensionInv
-----------------------------------------------------------------------------
\* Calls that have read the user's row and will sign a token without reading it
\* again.
PastRow == {"lockout", "password", "clearCount", "startSession", "announceLogin",
            "rotate", "sign"}
Past(c) == call[c].phase \in PastRow

\* All that is and all that will be signed for u expires before the key does.
LockedOut(u) ==
    /\ users[u].suspended
    /\ \A a \in Calls : Signed(a) /\ access[a].user = u => access[a].exp < barred[u]
    /\ \A c \in Calls : Past(c) /\ call[c].user = u =>
          call[c].since + 1 + AccessLife < barred[u]

LockInv ==
    /\ \A c \in acked : LockedOut(call[c].user)
    /\ consumer.phase = "ack" => LockedOut(Target)

\* The session of a token, from its insert or rotation on.
SessionInv ==
    /\ \A s \in Calls : HasSession(s) =>
          /\ call[s].op = "login"
          /\ call[s].phase \in {"announceLogin", "done", "failed"}
          /\ call[sessions[s].token].op \in {"login", "refresh"}
          /\ call[sessions[s].token].phase \in {"announceLogin", "sign", "done", "failed"}
          /\ call[sessions[s].token].session = s
    /\ \A a \in Calls : Signed(a) => access[a].session = call[a].session

\* What doomed a call on its arrival still does.
Doom(c, p) ==
    call[c].doomed =>
        /\ p = "hashLookup" => Stale(call[c].token)
        /\ p \notin {"revokeExpired", "userOfSession", "rotate", "sign"}
        /\ p = "jti" => blocked[call[c].bearer] = access[call[c].bearer].exp
        /\ p = "suspension" => now >= access[call[c].bearer].exp
DoomInv(c) == Doom(c, call[c].phase)

\* A blocklist key lasts as long as its token.
RevokeInv ==
    /\ \A a \in Calls : blocked[a] # 0 => Signed(a) /\ blocked[a] = access[a].exp
    /\ \A c \in Calls : DoomInv(c)

AuthInv == BaseInv /\ LockInv /\ SessionInv /\ RevokeInv
-----------------------------------------------------------------------------
\* What a step of call c leaves alone, and what it may change.
Typed ==
    /\ users \in [Users -> User \union {None}]
    /\ sessions \in [Calls -> Session \union {None}]
    /\ emailTokens \in [Calls -> MailToken \union {None}]
    /\ resetTokens \in [Calls -> MailToken \union {None}]
    /\ access \in [Calls -> AccessToken \union {None}]
    /\ blocked \in [Calls -> Nat]

Alone(c) ==
    /\ call' \in [Calls -> Call]
    /\ \A d \in Calls \ {c} : /\ call'[d] = call[d]
                              /\ access'[d] = access[d]
                              /\ Mailed(d)' => Mailed(d)
                              /\ ResetMailed(d)' => ResetMailed(d)
    /\ UNCHANGED <<plan, now, barred, queue, consumer, acked, dead, crashes>>
    /\ failures' \in Nat
    /\ call[c].phase \notin Answered

Grows ==
    /\ \A u \in Users : users[u] # None =>
          users'[u] # None /\ (users[u].suspended => users'[u].suspended)
    /\ \A s \in Calls : sessions[s] # None => sessions'[s] # None
    /\ \A t \in Calls : emailTokens[t] # None =>
          emailTokens'[t] # None /\ emailTokens'[t].user = emailTokens[t].user
    /\ \A t \in Calls : resetTokens[t] # None =>
          resetTokens'[t] # None /\ resetTokens'[t].user = resetTokens[t].user
    /\ \A a \in Calls : access[a] # None => access'[a] = access[a]

\* c goes past the reading of the row only if the user is not suspended, and signs
\* only past it.
LockStep(c) ==
    /\ Past(c)' => /\ call'[c].user = call[c].user
                   /\ call'[c].since = call[c].since
                   /\ Past(c) \/ ~users[call[c].user].suspended
    /\ Signed(c)' => \/ Signed(c)
                     \/ /\ Past(c)
                        /\ access'[c].user = call[c].user
                        /\ access'[c].exp = now + AccessLife

\* c inserts a session or rotates one to its own token; otherwise sessions keep
\* their token.
Holds(s, t) == HasSession(s) /\ sessions[s].token = t
SessionStep(c) ==
    /\ \A s \in Calls : HasSession(s)' =>
          \/ /\ HasSession(s)
             /\ sessions'[s].token = sessions[s].token
             /\ sessions[s].revoked => sessions'[s].revoked
          \/ /\ Holds(s, c)'
             /\ call'[c].session = s
             /\ \/ s = c /\ At(c, "startSession") /\ At(c, "announceLogin")'
                \/ /\ HasSession(s)
                   /\ At(c, "rotate")
                   /\ At(c, "sign")'
    /\ call[c].phase \in {"announceLogin", "sign"} =>
          /\ call'[c].phase \in {"done", "failed"}
          /\ call'[c].session = call[c].session
    /\ call[c].phase # "start" => call'[c].op = call[c].op
    /\ Signed(c)' => Signed(c) \/ access'[c].session = call'[c].session

Blocks == \A a \in Calls :
    \/ blocked'[a] = blocked[a]
    \/ Signed(a) /\ blocked'[a] = access[a].exp

CallStep(c) ==
    /\ Alone(c) /\ Grows /\ Typed'
    /\ CallInv(c)' /\ OwnRows(c)' /\ DoomInv(c)'
    /\ LockStep(c) /\ SessionStep(c) /\ Blocks
-----------------------------------------------------------------------------
\* A step of one call keeps the invariant of all.
LEMMA OthersBase ==
    ASSUME BaseInv, NEW c \in Calls, Alone(c), Grows, Typed',
           NEW d \in Calls \ {c}
    PROVE  CallInv(d)' /\ OwnRows(d)'
<1>1. /\ call'[d] = call[d]
      /\ access'[d] = access[d]
      /\ now' = now
      /\ Mailed(d)' => Mailed(d)
      /\ ResetMailed(d)' => ResetMailed(d)
  BY DEF Alone
<1>2. CallInv(d) /\ OwnRows(d)
  BY DEF BaseInv
<1>3. /\ \A u : Row(u) => Row(u)'
      /\ \A s : HasSession(s) => HasSession(s)'
      /\ \A t : Mailed(t) => Mailed(t)' /\ emailTokens'[t].user = emailTokens[t].user
      /\ \A t : ResetMailed(t) => ResetMailed(t)' /\ resetTokens'[t].user = resetTokens[t].user
      /\ \A a : Signed(a) => Signed(a)' /\ access'[a] = access[a]
  BY DEF Grows, Row, HasSession, Mailed, ResetMailed, Signed
<1>4. RegisterInv(d, call[d].phase)'
  BY <1>1, <1>2, <1>3 DEF CallInv, Known, RegisterInv, At
<1>5. LoginInv(d, call[d].phase)'
  BY <1>1, <1>2, <1>3 DEF CallInv, Known, LoginInv, At
<1>6. RefreshInv(d, call[d].phase)'
  BY <1>1, <1>2, <1>3 DEF CallInv, Known, RefreshInv, At
<1>7. LogoutInv(d, call[d].phase)'
  BY <1>1, <1>2, <1>3 DEF CallInv, Known, LogoutInv, At
<1>8. ResetInv(d, call[d].phase)'
  BY <1>1, <1>2, <1>3 DEF CallInv, Known, ResetInv, At
<1>9. UseInv(d, call[d].phase)'
  BY <1>1, <1>2, <1>3 DEF CallInv, Known, UseInv
<1>10. CallInv(d)'
  BY <1>1, <1>2, <1>4, <1>5, <1>6, <1>7, <1>8, <1>9 DEF CallInv, Known, InFlight
<1>11. OwnRows(d)'
  BY <1>1, <1>2, <1>3 DEF OwnRows, At, Signed
<1>. QED  BY <1>10, <1>11

LEMMA CallKeepsBase ==
    ASSUME BaseInv, NEW c \in Calls, CallStep(c)
    PROVE  BaseInv'
<1>1. TypeOK'
  BY DEF BaseInv, TypeOK, CallStep, Alone, Typed
<1>2. \A d \in Calls : CallInv(d)' /\ OwnRows(d)'
  BY OthersBase DEF CallStep
<1>3. SuspensionInv'
  <2>1. \A d : Suspends(d) => /\ Suspends(d)'
                             /\ call'[d].user = call[d].user
                             /\ d # c
    <3>1. ASSUME NEW d, Suspends(d) PROVE d \in Calls \ {c} /\ call'[d] = call[d]
      BY <3>1 DEF Suspends, CallStep, Alone, At, Answered
    <3>2. \A u : Row(u) => Row(u)'
      BY DEF CallStep, Grows, Row
    <3>. QED  BY <3>1, <3>2 DEF Suspends, At
  <2>2. UNCHANGED <<queue, consumer, acked>>
    BY DEF CallStep, Alone
  <2>3. consumer.phase # "idle" => Suspends(consumer.event) /\ Target' = Target
    BY <2>1, <2>2 DEF BaseInv, SuspensionInv, Target
  <2>4. consumer.phase \in {"revoke", "bar", "ack"} => users'[Target].suspended
    BY <2>3 DEF BaseInv, SuspensionInv, Suspends, Row, CallStep, Grows, Target
  <2>. QED  BY <2>1, <2>2, <2>3, <2>4 DEF BaseInv, SuspensionInv
<1>. QED  BY <1>1, <1>2, <1>3 DEF BaseInv

LEMMA LockedOutStays ==
    ASSUME BaseInv, NEW c \in Calls, CallStep(c), NEW u \in Users, Row(u), LockedOut(u)
    PROVE  LockedOut(u)'
<1>1. /\ now \in Nat /\ AccessLife \in Nat /\ barred[u] \in Nat
      /\ barred' = barred /\ now' = now
      /\ call \in [Calls -> Call]
      /\ call[c].since \in Nat
  BY AuthBoundsAssumption DEF BaseInv, TypeOK, Call, CallStep, Alone
<1>2. users'[u].suspended
  BY DEF CallStep, Grows, Row, LockedOut
<1>3. ASSUME Past(c), call[c].user = u PROVE now + AccessLife < barred[u]
  <2>1. call[c].since + 1 + AccessLife < barred[u]
    BY <1>3 DEF LockedOut
  <2>2. now <= call[c].since + 1
    BY <1>3 DEF BaseInv, CallInv, InFlight, Past, PastRow, Answered
  <2>. QED  BY <1>1, <2>1, <2>2
<1>4. ASSUME NEW a \in Calls, Signed(a)', access'[a].user = u
      PROVE  access'[a].exp < barred'[u]
  <2>1. CASE Signed(a) /\ access'[a] = access[a]
    BY <1>1, <1>4, <2>1 DEF LockedOut
  <2>2. CASE ~(Signed(a) /\ access'[a] = access[a])
    <3>1. a = c /\ Past(c) /\ call[c].user = u /\ access'[c].exp = now + AccessLife
      BY <1>4, <2>2 DEF CallStep, Alone, Grows, Signed, LockStep
    <3>. QED  BY <1>1, <1>3, <3>1
  <2>. QED  BY <2>1, <2>2
<1>5. ASSUME NEW d \in Calls, Past(d)', call'[d].user = u
      PROVE  call'[d].since + 1 + AccessLife < barred'[u]
  <2>1. Past(d) /\ call[d].user = u /\ call'[d].since = call[d].since
    BY <1>5 DEF CallStep, Alone, LockStep, LockedOut, Past, PastRow
  <2>. QED  BY <1>1, <2>1 DEF LockedOut
<1>. QED  BY <1>2, <1>4, <1>5 DEF LockedOut

LEMMA CallKeepsLock ==
    ASSUME BaseInv, LockInv, NEW c \in Calls, CallStep(c)
    PROVE  LockInv'
<1>1. \A d : Suspends(d) => call'[d] = call[d] /\ call[d].user \in Users /\ Row(call[d].user)
  BY DEF Suspends, Row, CallStep, Alone, At, Answered
<1>2. UNCHANGED <<acked, consumer>>
  BY DEF CallStep, Alone
<1>3. ASSUME NEW d \in acked PROVE LockedOut(call[d].user)'
  BY <1>1, LockedOutStays DEF BaseInv, SuspensionInv, LockInv
<1>4. ASSUME consumer.phase = "ack" PROVE LockedOut(Target)'
  <2>1. Suspends(consumer.event) /\ LockedOut(Target)
    BY <1>4 DEF BaseInv, SuspensionInv, LockInv
  <2>. QED  BY <1>1, <1>2, <2>1, LockedOutStays DEF Target
<1>. QED  BY <1>2, <1>3, <1>4 DEF LockInv

\* A session is named for its login, its token for the call that made it.
LEMMA CallKeepsSession ==
    ASSUME BaseInv, SessionInv, NEW c \in Calls, CallStep(c)
    PROVE  SessionInv'
<1>1. \A d \in Calls \ {c} : call'[d] = call[d] /\ access'[d] = access[d]
  BY DEF CallStep, Alone
<1>2. /\ call[c].phase \in {"announceLogin", "sign"} =>
            /\ call'[c].phase \in {"done", "failed"}
            /\ call'[c].session = call[c].session
      /\ call[c].phase # "start" => call'[c].op = call[c].op
      /\ call[c].phase \notin {"done", "failed"}
  BY DEF CallStep, SessionStep, Alone, Answered
<1>3. ASSUME NEW t \in Calls, call[t].op \in {"login", "refresh"},
             call[t].phase \in {"announceLogin", "sign", "done", "failed"}
      PROVE  /\ call'[t].op = call[t].op
             /\ call'[t].phase \in {call[t].phase, "done", "failed"}
             /\ call'[t].session = call[t].session
  BY <1>1, <1>2, <1>3
<1>4. ASSUME NEW s \in Calls, HasSession(s)'
      PROVE  /\ call'[s].op = "login"
             /\ call'[s].phase \in {"announceLogin", "done", "failed"}
             /\ call'[sessions'[s].token].op \in {"login", "refresh"}
             /\ call'[sessions'[s].token].phase \in {"announceLogin", "sign", "done", "failed"}
             /\ call'[sessions'[s].token].session = s
  <2>1. CASE HasSession(s) /\ sessions'[s].token = sessions[s].token
    <3>1. sessions[s].token \in Calls
      BY <2>1 DEF BaseInv, TypeOK, Session, HasSession
    <3>. QED  BY <1>3, <2>1, <3>1 DEF SessionInv
  <2>2. CASE /\ Holds(s, c)'
             /\ call'[c].session = s
             /\ s = c /\ At(c, "startSession") /\ At(c, "announceLogin")'
    <3>1. call'[c].op = "login"
      BY <1>2, <2>2 DEF BaseInv, CallInv, Known, LoginInv, At
    <3>. QED  BY <2>2, <3>1 DEF Holds, At
  <2>3. CASE /\ Holds(s, c)'
             /\ call'[c].session = s
             /\ HasSession(s) /\ At(c, "rotate") /\ At(c, "sign")'
    <3>1. call'[c].op = "refresh"
      BY <1>2, <2>3 DEF BaseInv, CallInv, Known, RefreshInv, At
    <3>2. s # c
      BY <2>3 DEF SessionInv, At
    <3>. QED  BY <1>1, <2>3, <3>1, <3>2 DEF Holds, At, SessionInv
  <2>. QED  BY <1>4, <2>1, <2>2, <2>3 DEF CallStep, SessionStep
<1>5. ASSUME NEW a \in Calls, Signed(a)'
      PROVE  access'[a].session = call'[a].session
  <2>1. CASE Signed(a)
    <3>1. call[a].phase = "done" /\ access'[a] = access[a]
      BY <2>1 DEF BaseInv, OwnRows, At, CallStep, Grows, Signed
    <3>2. call'[a] = call[a]
      BY <1>1, <1>2, <3>1
    <3>. QED  BY <2>1, <3>1, <3>2 DEF SessionInv
  <2>2. CASE ~Signed(a)
    BY <1>1, <1>5, <2>2 DEF Signed, CallStep, SessionStep
  <2>. QED  BY <2>1, <2>2
<1>. QED  BY <1>4, <1>5 DEF SessionInv

\* What is stale stays so.
LEMMA StaleStays ==
    ASSUME BaseInv, SessionInv, NEW c \in Calls, CallStep(c),
           NEW t \in Calls, Signed(t), Stale(t)
    PROVE  Stale(t)'
<1>1. PICK s : s = access[t].session
  OBVIOUS
<1>2. access'[t] = access[t] /\ t # c
  BY DEF CallStep, Grows, Signed, BaseInv, OwnRows, At, Alone, Answered
<1>3. HasSession(s) /\ HasSession(s)'
  BY <1>1 DEF BaseInv, OwnRows, CallStep, Grows, HasSession
<1>4. sessions[s].token # t \/ sessions[s].revoked
  BY <1>1 DEF Stale
<1>5. sessions'[s].token # t \/ sessions'[s].revoked
  BY <1>2, <1>3, <1>4 DEF CallStep, SessionStep, Holds, HasSession
<1>. QED  BY <1>1, <1>2, <1>5 DEF Stale

LEMMA CallKeepsRevoke ==
    ASSUME BaseInv, SessionInv, RevokeInv, NEW c \in Calls, CallStep(c)
    PROVE  RevokeInv'
<1>1. ASSUME NEW a \in Calls, blocked'[a] # 0
      PROVE  Signed(a)' /\ blocked'[a] = access'[a].exp
  BY <1>1 DEF RevokeInv, CallStep, Blocks, Grows, Signed
<1>2. ASSUME NEW d \in Calls \ {c} PROVE DoomInv(d)'
  <2>1. call'[d] = call[d] /\ now' = now /\ DoomInv(d) /\ CallInv(d)
    BY DEF CallStep, Alone, RevokeInv, BaseInv
  <2>2. ASSUME call[d].doomed, At(d, "hashLookup") PROVE  Stale(call[d].token)'
    <3>1. Signed(call[d].token) /\ Stale(call[d].token)
      BY <2>1, <2>2 DEF DoomInv, Doom, CallInv, Known, RefreshInv, At
    <3>2. PICK t \in Calls : t = call[d].token
      BY <3>1 DEF Signed
    <3>3. Stale(t)'
      BY <3>1, <3>2, StaleStays
    <3>. QED  BY <2>1, <3>2, <3>3 DEF Stale
  <2>3. ASSUME call[d].phase \in {"jti", "suspension"}
        PROVE  /\ access'[call[d].bearer] = access[call[d].bearer]
               /\ blocked[call[d].bearer] = access[call[d].bearer].exp
                     => blocked'[call[d].bearer] = access[call[d].bearer].exp
    BY <2>1, <2>3 DEF CallInv, Known, UseInv, Signed, CallStep, Grows, Blocks
  <2>. QED  BY <2>1, <2>2, <2>3 DEF DoomInv, Doom, At
<1>. QED  BY <1>1, <1>2 DEF RevokeInv, CallStep

LEMMA CallKeeps ==
    ASSUME AuthInv, NEW c \in Calls, CallStep(c)
    PROVE  AuthInv'
  BY CallKeepsBase, CallKeepsLock, CallKeepsSession, CallKeepsRevoke DEF AuthInv
-----------------------------------------------------------------------------
\* Every action of a call is such a step.
LEMMA SameRows ==
    ASSUME UNCHANGED <<tables, access>>
    PROVE  /\ \A u : Row(u)' <=> Row(u)
           /\ \A s : HasSession(s)' <=> HasSession(s)
           /\ \A t : Mailed(t)' <=> Mailed(t)
           /\ \A t : ResetMailed(t)' <=> ResetMailed(t)
           /\ \A a : Signed(a)' <=> Signed(a)
  BY DEF tables, Row, HasSession, Mailed, ResetMailed, Signed

\* A step that only changes c's progress.
LEMMA Progress ==
    ASSUME AuthInv, NEW c \in Calls, NEW k \in Call, call' = [call EXCEPT ![c] = k],
           UNCHANGED <<plan, now, tables, access, redis, suspension, crashes>>,
           failures' \in Nat,
           call[c].phase \notin Answered,
           call[c].phase # "start" => k.op = call[c].op,
           ~(k.op \in {"login", "refresh"} /\ k.phase = "done"),
           call[c].phase \in {"announceLogin", "sign"} =>
               k.phase = "failed" /\ k.session = call[c].session,
           Past(c)' => /\ k.user = call[c].user
                       /\ k.since = call[c].since
                       /\ Past(c) \/ ~users[call[c].user].suspended,
           CallInv(c)', DoomInv(c)'
    PROVE  CallStep(c)
<1>1. /\ call' \in [Calls -> Call]
      /\ call'[c] = k
      /\ \A d \in Calls \ {c} : call'[d] = call[d]
  BY DEF AuthInv, BaseInv, TypeOK
<1>2. Typed /\ Typed'
  BY DEF AuthInv, BaseInv, TypeOK, Typed, tables, redis
<1>3. Alone(c)
  BY <1>1, SameRows DEF Alone, redis, suspension
<1>4. Grows /\ Blocks
  BY DEF Grows, Blocks, tables, redis
<1>5. ~Signed(c) /\ ~Signed(c)'
  BY SameRows DEF AuthInv, BaseInv, OwnRows, At, Answered
<1>6. OwnRows(c)'
  <2>1. OwnRows(c)
    BY DEF AuthInv, BaseInv
  <2>2. (~(call[c].op \in {"login", "refresh"} /\ At(c, "done")))'
    BY <1>1 DEF At
  <2>. QED  BY <1>5, <2>1, <2>2, SameRows DEF OwnRows, tables
<1>7. LockStep(c)
  BY <1>1, <1>5 DEF LockStep
<1>8. SessionStep(c)
  BY <1>1, <1>5, SameRows DEF SessionStep, tables
<1>. QED  BY <1>2, <1>3, <1>4, <1>6, <1>7, <1>8 DEF CallStep

LEMMA Moves ==
    ASSUME call \in [Calls -> Call], NEW c \in Calls, NEW p \in Phase, Go(c, p)
    PROVE  \E k \in Call : /\ call' = [call EXCEPT ![c] = k]
                           /\ call'[c] = k
                           /\ k.phase = p
                           /\ k.op = call[c].op
                           /\ k.user = call[c].user
                           /\ k.token = call[c].token
                           /\ k.bearer = call[c].bearer
                           /\ k.session = call[c].session
                           /\ k.since = call[c].since
                           /\ k.doomed = call[c].doomed
<1>1. PICK j \in Call : j = call[c]
  OBVIOUS
<1>2. PICK k : k = [j EXCEPT !.phase = p]
  OBVIOUS
<1>3. k \in Call
  BY <1>2 DEF Call
<1>4. call' = [call EXCEPT ![c] = k]
  BY <1>1, <1>2 DEF Go
<1>5. k.phase = p /\ k.op = j.op /\ k.user = j.user /\ k.token = j.token
  BY <1>2 DEF Call
<1>6. k.bearer = j.bearer /\ k.session = j.session /\ k.since = j.since
  BY <1>2 DEF Call
<1>7. k.doomed = j.doomed
  BY <1>2, Zenon DEF Call
<1>. QED  BY <1>1, <1>3, <1>4, <1>5, <1>6, <1>7

\* A step that only changes c's phase.
LEMMA Walks ==
    ASSUME AuthInv, NEW c \in Calls, NEW p \in Phase, Go(c, p),
           UNCHANGED <<plan, now, tables, access, redis, suspension, crashes>>,
           failures' \in Nat,
           InFlight(c),
           p = "done" => call[c].op \notin {"login", "refresh"},
           call[c].phase \in {"announceLogin", "sign"} => p = "failed",
           p \in PastRow => Past(c) \/ ~users[call[c].user].suspended,
           Known(c, p), Doom(c, p)
    PROVE  CallStep(c)
<1>1. PICK k \in Call : /\ call' = [call EXCEPT ![c] = k]
                        /\ call'[c] = k
                        /\ k.phase = p
                        /\ k.op = call[c].op
                        /\ k.user = call[c].user
                        /\ k.token = call[c].token
                        /\ k.bearer = call[c].bearer
                        /\ k.session = call[c].session
                        /\ k.since = call[c].since
                        /\ k.doomed = call[c].doomed
  BY Moves DEF AuthInv, BaseInv, TypeOK
<1>2. /\ \A u : Row(u)' <=> Row(u)
      /\ \A s : HasSession(s)' <=> HasSession(s)
      /\ \A t : Mailed(t)' <=> Mailed(t)
      /\ \A t : ResetMailed(t)' <=> ResetMailed(t)
      /\ \A a : Signed(a)' <=> Signed(a)
      /\ access' = access /\ now' = now /\ sessions' = sessions /\ blocked' = blocked
  BY SameRows DEF tables, redis
<1>3. RegisterInv(c, call[c].phase)' /\ LoginInv(c, call[c].phase)'
  BY <1>1, <1>2 DEF Known, RegisterInv, LoginInv
<1>4. RefreshInv(c, call[c].phase)' /\ LogoutInv(c, call[c].phase)'
  BY <1>1, <1>2 DEF Known, RefreshInv, LogoutInv
<1>5. ResetInv(c, call[c].phase)' /\ UseInv(c, call[c].phase)'
  BY <1>1, <1>2 DEF Known, ResetInv, UseInv
<1>6. CallInv(c)'
  BY <1>1, <1>2, <1>3, <1>4, <1>5 DEF CallInv, Known, InFlight, AuthInv, BaseInv
<1>7. DoomInv(c)'
  BY <1>1, <1>2 DEF DoomInv, Doom, Stale
<1>. QED
  BY <1>1, <1>6, <1>7, Progress DEF InFlight, Answered, Past, PastRow

LEMMA Steps ==
    ASSUME AuthInv, NEW c \in Calls, NEW p \in Phase, Step(c, p), UNCHANGED tables,
           InFlight(c),
           call[c].phase \notin {"announceLogin", "sign"},
           p = "done" => call[c].op \notin {"login", "refresh"},
           p \in PastRow => Past(c) \/ ~users[call[c].user].suspended,
           Known(c, p), Doom(c, p)
    PROVE  CallStep(c)
<1>1. failures' \in Nat
  BY DEF Step, bounds, AuthInv, BaseInv, TypeOK
<1>. QED  BY <1>1, Walks DEF Step, bounds

LEMMA Refuses ==
    ASSUME AuthInv, NEW c \in Calls, NEW p \in {"refused", "failed"},
           Step(c, p), UNCHANGED tables, InFlight(c),
           call[c].phase \notin {"announceLogin", "sign"}
    PROVE  CallStep(c)
<1>1. p \in Phase /\ p # "done" /\ p \notin PastRow
  BY DEF Phase, Answered, PastRow
<1>2. RegisterInv(c, p) /\ LoginInv(c, p) /\ RefreshInv(c, p)
  BY DEF RegisterInv, LoginInv, RefreshInv
<1>3. LogoutInv(c, p) /\ ResetInv(c, p) /\ UseInv(c, p) /\ Doom(c, p)
  BY DEF LogoutInv, ResetInv, UseInv, Doom
<1>. QED  BY <1>1, <1>2, <1>3, Steps DEF Known

LEMMA RegisterWalks ==
    ASSUME AuthInv, NEW c \in Calls,
           FindDuplicate(c) \/ PublishRegistered(c)
    PROVE  CallStep(c)
<1>1. CallInv(c)
  BY DEF AuthInv, BaseInv
<1>2. CASE FindDuplicate(c)
  <2>1. /\ call[c].phase = "duplicate"
        /\ call[c].op = "register"
        /\ call[c].user \in Users
        /\ ~Mailed(c)
    BY <1>1, <1>2 DEF FindDuplicate, At, CallInv, Known, RegisterInv
  <2>2. InFlight(c) /\ call[c].phase \notin {"announceLogin", "sign"}
    BY <2>1 DEF InFlight, Answered
  <2>3. CASE Step(c, "refused")
    BY <1>2, <2>2, <2>3, Refuses DEF FindDuplicate
  <2>4. CASE Step(c, "createUser")
    <3>1. Known(c, "createUser") /\ Doom(c, "createUser")
      BY <2>1
      DEF Known, RegisterInv, LoginInv, RefreshInv, LogoutInv, ResetInv, UseInv, Doom
    <3>. QED  BY <1>2, <2>2, <2>4, <3>1, Steps DEF FindDuplicate, PastRow, Phase
  <2>. QED  BY <1>2, <2>3, <2>4 DEF FindDuplicate
<1>3. CASE PublishRegistered(c)
  <2>1. call[c].phase = "announceUser" /\ call[c].op = "register" /\ Mailed(c)
    BY <1>1, <1>3 DEF PublishRegistered, At, CallInv, Known, RegisterInv
  <2>2. InFlight(c) /\ call[c].phase \notin {"announceLogin", "sign"}
    BY <2>1 DEF InFlight, Answered
  <2>3. Known(c, "done") /\ Doom(c, "done")
    BY <2>1
    DEF Known, RegisterInv, LoginInv, RefreshInv, LogoutInv, ResetInv, UseInv, Doom
  <2>. QED
    BY <1>3, <2>1, <2>2, <2>3, Steps DEF PublishRegistered, PastRow, Phase, Answered
<1>. QED  BY <1>2, <1>3

LEMMA VerifyWalks ==
    ASSUME AuthInv, NEW c \in Calls,
           FindEmailToken(c) \/ PublishVerified(c)
    PROVE  CallStep(c)
<1>1. CallInv(c) /\ DoomInv(c)
  BY DEF AuthInv, BaseInv, RevokeInv
<1>2. CASE FindEmailToken(c)
  <2>1. /\ call[c].phase = "emailLookup"
        /\ call[c].op = "verify"
        /\ Mailed(call[c].token)
    BY <1>1, <1>2 DEF FindEmailToken, At, CallInv, Known, RegisterInv
  <2>2. InFlight(c) /\ call[c].phase \notin {"announceLogin", "sign"}
    BY <2>1 DEF InFlight, Answered
  <2>3. CASE Step(c, "refused")
    BY <1>2, <2>2, <2>3, Refuses DEF FindEmailToken
  <2>4. CASE Step(c, "setVerified")
    <3>1. Known(c, "setVerified") /\ Doom(c, "setVerified")
      BY <2>1
      DEF Known, RegisterInv, LoginInv, RefreshInv, LogoutInv, ResetInv, UseInv, Doom
    <3>. QED  BY <1>2, <2>1, <2>2, <2>4, <3>1, Steps DEF FindEmailToken, PastRow, Phase, Past
  <2>. QED  BY <1>2, <2>3, <2>4 DEF FindEmailToken
<1>3. CASE PublishVerified(c)
  <2>1. /\ call[c].phase = "announceEmail"
        /\ call[c].op = "verify"
    BY <1>1, <1>3 DEF PublishVerified, At, CallInv, Known, RegisterInv
  <2>2. InFlight(c) /\ call[c].phase \notin {"announceLogin", "sign"}
    BY <2>1 DEF InFlight, Answered
  <2>3. Known(c, "done") /\ Doom(c, "done")
    BY <2>1
    DEF Known, RegisterInv, LoginInv, RefreshInv, LogoutInv, ResetInv, UseInv, Doom
  <2>. QED
    BY <1>3, <2>1, <2>2, <2>3, Steps DEF PublishVerified, PastRow, Phase, Answered
<1>. QED  BY <1>2, <1>3

LEMMA LoginWalks ==
    ASSUME AuthInv, NEW c \in Calls,
           CheckLockout(c) \/ VerifyPassword(c)
    PROVE  CallStep(c)
<1>1. CallInv(c) /\ DoomInv(c)
  BY DEF AuthInv, BaseInv, RevokeInv
<1>2. CASE CheckLockout(c)
  <2>1. /\ call[c].phase = "lockout"
        /\ call[c].op = "login"
        /\ Row(call[c].user)
    BY <1>1, <1>2 DEF CheckLockout, At, CallInv, Known, LoginInv
  <2>2. InFlight(c) /\ call[c].phase \notin {"announceLogin", "sign"}
    BY <2>1 DEF InFlight, Answered
  <2>3. CASE Step(c, "refused")
    BY <1>2, <2>2, <2>3, Refuses DEF CheckLockout
  <2>4. CASE Step(c, "password")
    <3>1. Known(c, "password") /\ Doom(c, "password")
      BY <2>1
      DEF Known, RegisterInv, LoginInv, RefreshInv, LogoutInv, ResetInv, UseInv, Doom
    <3>. QED  BY <1>2, <2>1, <2>2, <2>4, <3>1, Steps DEF CheckLockout, PastRow, Phase, Past
  <2>. QED  BY <1>2, <2>3, <2>4 DEF CheckLockout
<1>3. CASE VerifyPassword(c)
  <2>1. /\ call[c].phase = "password"
        /\ call[c].op = "login"
        /\ Row(call[c].user)
    BY <1>1, <1>3 DEF VerifyPassword, At, CallInv, Known, LoginInv
  <2>2. InFlight(c) /\ call[c].phase \notin {"announceLogin", "sign"}
    BY <2>1 DEF InFlight, Answered
  <2>3. CASE Step(c, "refused")
    BY <1>3, <2>2, <2>3, Refuses DEF VerifyPassword
  <2>4. CASE Step(c, "countRead")
    <3>1. Known(c, "countRead") /\ Doom(c, "countRead")
      BY <2>1
      DEF Known, RegisterInv, LoginInv, RefreshInv, LogoutInv, ResetInv, UseInv, Doom
    <3>. QED  BY <1>3, <2>1, <2>2, <2>4, <3>1, Steps DEF VerifyPassword, PastRow, Phase, Past
  <2>5. CASE Step(c, "clearCount")
    <3>1. Known(c, "clearCount") /\ Doom(c, "clearCount")
      BY <2>1
      DEF Known, RegisterInv, LoginInv, RefreshInv, LogoutInv, ResetInv, UseInv, Doom
    <3>. QED  BY <1>3, <2>1, <2>2, <2>5, <3>1, Steps DEF VerifyPassword, PastRow, Phase, Past
  <2>. QED  BY <1>3, <2>3, <2>4, <2>5 DEF VerifyPassword
<1>. QED  BY <1>2, <1>3

LEMMA RefreshWalks ==
    ASSUME AuthInv, NEW c \in Calls,
           FindUserOfSession(c)
    PROVE  CallStep(c)
<1>1. CallInv(c) /\ DoomInv(c)
  BY DEF AuthInv, BaseInv, RevokeInv
<1>2. CASE FindUserOfSession(c)
  <2>1. /\ call[c].phase = "userOfSession"
        /\ call[c].op = "refresh"
        /\ Row(call[c].user)
        /\ HasSession(call[c].session)
        /\ ~call[c].doomed
    BY <1>1, <1>2 DEF FindUserOfSession, At, CallInv, Known, DoomInv, Doom, RefreshInv
  <2>2. InFlight(c) /\ call[c].phase \notin {"announceLogin", "sign"}
    BY <2>1 DEF InFlight, Answered
  <2>3. CASE RefusesSuspended(call[c].user)
    <3>1. Step(c, "refused")
      BY <1>2, <2>3 DEF FindUserOfSession
    <3>. QED  BY <1>2, <2>2, <3>1, Refuses DEF FindUserOfSession
  <2>4. CASE ~RefusesSuspended(call[c].user)
    <3>1. Step(c, "rotate")
      BY <1>2, <2>4 DEF FindUserOfSession
    <3>2. Known(c, "rotate") /\ Doom(c, "rotate")
      BY <2>1, <2>4
      DEF Known, RegisterInv, LoginInv, RefreshInv, LogoutInv, ResetInv, UseInv, Doom
    <3>. QED
      BY <1>2, <2>1, <2>2, <2>4, <3>1, <3>2, Steps
      DEF FindUserOfSession, PastRow, Phase, Answered, RefusesSuspended
  <2>. QED  BY <1>2, <2>3, <2>4 DEF FindUserOfSession
<1>. QED  BY <1>2

LEMMA LogoutWalks ==
    ASSUME AuthInv, NEW c \in Calls,
           FindOwnSession(c) \/ PublishSessionRevoked(c)
    PROVE  CallStep(c)
<1>1. CallInv(c) /\ DoomInv(c)
  BY DEF AuthInv, BaseInv, RevokeInv
<1>2. CASE FindOwnSession(c)
  <2>1. /\ call[c].phase = "ownership"
        /\ call[c].op = "revoke"
        /\ call[c].session \in Calls
    BY <1>1, <1>2 DEF FindOwnSession, At, CallInv, Known, LogoutInv
  <2>2. InFlight(c) /\ call[c].phase \notin {"announceLogin", "sign"}
    BY <2>1 DEF InFlight, Answered
  <2>3. CASE sessions[call[c].session] # None /\ sessions[call[c].session].user = call[c].user
    <3>1. Step(c, "revokeSession")
      BY <1>2, <2>3 DEF FindOwnSession
    <3>2. Known(c, "revokeSession") /\ Doom(c, "revokeSession")
      BY <2>1, <2>3
      DEF Known, RegisterInv, LoginInv, RefreshInv, LogoutInv, ResetInv, UseInv, Doom,
          HasSession
    <3>. QED
      BY <1>2, <2>1, <2>2, <2>3, <3>1, <3>2, Steps
      DEF FindOwnSession, PastRow, Phase, Answered
  <2>4. CASE ~(sessions[call[c].session] # None /\ sessions[call[c].session].user = call[c].user)
    <3>1. Step(c, "refused")
      BY <1>2, <2>4 DEF FindOwnSession
    <3>. QED  BY <1>2, <2>2, <3>1, Refuses DEF FindOwnSession
  <2>. QED  BY <1>2, <2>3, <2>4 DEF FindOwnSession
<1>3. CASE PublishSessionRevoked(c)
  <2>1. /\ call[c].phase = "announceRevoked"
        /\ call[c].op \in {"logout", "revoke"}
    BY <1>1, <1>3 DEF PublishSessionRevoked, At, CallInv, Known, LogoutInv
  <2>2. InFlight(c) /\ call[c].phase \notin {"announceLogin", "sign"}
    BY <2>1 DEF InFlight, Answered
  <2>3. Known(c, "done") /\ Doom(c, "done")
    BY <2>1
    DEF Known, RegisterInv, LoginInv, RefreshInv, LogoutInv, ResetInv, UseInv, Doom
  <2>. QED
    BY <1>3, <2>1, <2>2, <2>3, Steps DEF PublishSessionRevoked, PastRow, Phase, Answered
<1>. QED  BY <1>2, <1>3

LEMMA ResetWalks ==
    ASSUME AuthInv, NEW c \in Calls,
           FindForgetful(c) \/ PublishResetRequested(c) \/ FindResetToken(c) \/ PublishPasswordChanged(c)
    PROVE  CallStep(c)
<1>1. CallInv(c) /\ DoomInv(c)
  BY DEF AuthInv, BaseInv, RevokeInv
<1>2. CASE FindForgetful(c)
  <2>1. /\ call[c].phase = "forgotLookup"
        /\ call[c].op = "forgot"
        /\ call[c].user \in Users
        /\ ~ResetMailed(c)
    BY <1>1, <1>2 DEF FindForgetful, At, CallInv, Known, ResetInv
  <2>2. InFlight(c) /\ call[c].phase \notin {"announceLogin", "sign"}
    BY <2>1 DEF InFlight, Answered
  <2>3. CASE users[call[c].user] = None
    <3>1. Step(c, "refused")
      BY <1>2, <2>3 DEF FindForgetful
    <3>. QED  BY <1>2, <2>2, <3>1, Refuses DEF FindForgetful
  <2>4. CASE ~(users[call[c].user] = None)
    <3>1. Step(c, "resetToken")
      BY <1>2, <2>4 DEF FindForgetful
    <3>2. Known(c, "resetToken") /\ Doom(c, "resetToken")
      BY <2>1, <2>4
      DEF Known, RegisterInv, LoginInv, RefreshInv, LogoutInv, ResetInv, UseInv, Doom,
          Row
    <3>. QED
      BY <1>2, <2>1, <2>2, <2>4, <3>1, <3>2, Steps
      DEF FindForgetful, PastRow, Phase, Answered
  <2>. QED  BY <1>2, <2>3, <2>4 DEF FindForgetful
<1>3. CASE PublishResetRequested(c)
  <2>1. /\ call[c].phase = "announceReset"
        /\ call[c].op = "forgot"
        /\ ResetMailed(c)
    BY <1>1, <1>3 DEF PublishResetRequested, At, CallInv, Known, ResetInv
  <2>2. InFlight(c) /\ call[c].phase \notin {"announceLogin", "sign"}
    BY <2>1 DEF InFlight, Answered
  <2>3. Known(c, "done") /\ Doom(c, "done")
    BY <2>1
    DEF Known, RegisterInv, LoginInv, RefreshInv, LogoutInv, ResetInv, UseInv, Doom
  <2>. QED
    BY <1>3, <2>1, <2>2, <2>3, Steps DEF PublishResetRequested, PastRow, Phase, Answered
<1>4. CASE FindResetToken(c)
  <2>1. /\ call[c].phase = "resetLookup"
        /\ call[c].op = "reset"
        /\ Row(call[c].user)
        /\ ResetMailed(call[c].token)
    BY <1>1, <1>4 DEF FindResetToken, At, CallInv, Known, ResetInv
  <2>2. InFlight(c) /\ call[c].phase \notin {"announceLogin", "sign"}
    BY <2>1 DEF InFlight, Answered
  <2>3. CASE Step(c, "refused")
    BY <1>4, <2>2, <2>3, Refuses DEF FindResetToken
  <2>4. CASE Step(c, "updatePassword")
    <3>1. Known(c, "updatePassword") /\ Doom(c, "updatePassword")
      BY <2>1
      DEF Known, RegisterInv, LoginInv, RefreshInv, LogoutInv, ResetInv, UseInv, Doom
    <3>. QED  BY <1>4, <2>1, <2>2, <2>4, <3>1, Steps DEF FindResetToken, PastRow, Phase, Past
  <2>. QED  BY <1>4, <2>3, <2>4 DEF FindResetToken
<1>5. CASE PublishPasswordChanged(c)
  <2>1. /\ call[c].phase = "announcePassword"
        /\ call[c].op = "reset"
    BY <1>1, <1>5 DEF PublishPasswordChanged, At, CallInv, Known, ResetInv
  <2>2. InFlight(c) /\ call[c].phase \notin {"announceLogin", "sign"}
    BY <2>1 DEF InFlight, Answered
  <2>3. Known(c, "done") /\ Doom(c, "done")
    BY <2>1
    DEF Known, RegisterInv, LoginInv, RefreshInv, LogoutInv, ResetInv, UseInv, Doom
  <2>. QED
    BY <1>5, <2>1, <2>2, <2>3, Steps
    DEF PublishPasswordChanged, PastRow, Phase, Answered
<1>. QED  BY <1>2, <1>3, <1>4, <1>5

LEMMA UseWalks ==
    ASSUME AuthInv, NEW c \in Calls,
           CheckBlocklist(c) \/ CheckSuspended(c)
    PROVE  CallStep(c)
<1>1. CallInv(c) /\ DoomInv(c)
  BY DEF AuthInv, BaseInv, RevokeInv
<1>2. CASE CheckBlocklist(c)
  <2>1. /\ call[c].phase = "jti"
        /\ call[c].op = "use"
        /\ UseInv(c, "suspension")
        /\ Signed(call[c].bearer)
        /\ call[c].doomed => blocked[call[c].bearer] = access[call[c].bearer].exp
    BY <1>1, <1>2 DEF CheckBlocklist, At, CallInv, Known, DoomInv, Doom, UseInv
  <2>2. InFlight(c) /\ call[c].phase \notin {"announceLogin", "sign"}
    BY <2>1 DEF InFlight, Answered
  <2>3. CASE now < blocked[call[c].bearer]
    <3>1. Step(c, "refused")
      BY <1>2, <2>3 DEF CheckBlocklist
    <3>. QED  BY <1>2, <2>2, <3>1, Refuses DEF CheckBlocklist
  <2>4. CASE ~(now < blocked[call[c].bearer])
    <3>1. Step(c, "suspension")
      BY <1>2, <2>4 DEF CheckBlocklist
    <3>2. now \in Nat /\ access[call[c].bearer].exp \in Nat
      BY <2>1 DEF AuthInv, BaseInv, TypeOK, AccessToken, Signed
    <3>3. Known(c, "suspension") /\ Doom(c, "suspension")
      BY <2>1, <2>4, <3>2
      DEF Known, RegisterInv, LoginInv, RefreshInv, LogoutInv, ResetInv, UseInv, Doom
    <3>. QED
      BY <1>2, <2>1, <2>2, <2>4, <3>1, <3>3, Steps
      DEF CheckBlocklist, PastRow, Phase, Answered
  <2>. QED  BY <1>2, <2>3, <2>4 DEF CheckBlocklist
<1>3. CASE CheckSuspended(c)
  <2>1. /\ call[c].phase = "suspension"
        /\ call[c].op = "use"
    BY <1>1, <1>3 DEF CheckSuspended, At, CallInv, Known, UseInv
  <2>2. InFlight(c) /\ call[c].phase \notin {"announceLogin", "sign"}
    BY <2>1 DEF InFlight, Answered
  <2>3. CASE now < barred[call[c].user]
    <3>1. Step(c, "refused")
      BY <1>3, <2>3 DEF CheckSuspended
    <3>. QED  BY <1>3, <2>2, <3>1, Refuses DEF CheckSuspended
  <2>4. CASE ~(now < barred[call[c].user])
    <3>1. Step(c, "done")
      BY <1>3, <2>4 DEF CheckSuspended
    <3>2. Known(c, "done") /\ Doom(c, "done")
      BY <2>1, <2>4
      DEF Known, RegisterInv, LoginInv, RefreshInv, LogoutInv, ResetInv, UseInv, Doom
    <3>. QED
      BY <1>3, <2>1, <2>2, <2>4, <3>1, <3>2, Steps
      DEF CheckSuspended, PastRow, Phase, Answered
  <2>. QED  BY <1>3, <2>3, <2>4 DEF CheckSuspended
<1>. QED  BY <1>2, <1>3

LEMMA FailWalks ==
    ASSUME AuthInv, NEW c \in Calls, Fail(c)
    PROVE  CallStep(c)
<1>1. CallInv(c) /\ InFlight(c)
  BY DEF AuthInv, BaseInv, Fail
<1>2. failures' \in Nat
  BY DEF Fail, AuthInv, BaseInv, TypeOK
<1>3. call[c].phase \in {"announceLogin", "sign"} => call[c].op \in {"login", "refresh"}
  BY <1>1 DEF CallInv, Known, LoginInv, RefreshInv
<1>4. ASSUME NEW p \in {"refused", "done", "failed"}, Go(c, p),
             p = "done" => call[c].op = "logout",
             call[c].op \in {"login", "refresh"} => p = "failed"
      PROVE  CallStep(c)
  <2>1. Known(c, p) /\ Doom(c, p) /\ p \notin PastRow /\ p \in Phase
    BY <1>4 DEF Known, RegisterInv, LoginInv, RefreshInv, LogoutInv, ResetInv, UseInv,
                Doom, PastRow, Phase, Answered
  <2>. QED  BY <1>1, <1>2, <1>3, <1>4, <2>1, Walks DEF Fail
<1>5. CASE call[c].op = "use"
  BY <1>4, <1>5 DEF Fail
<1>6. CASE call[c].op = "logout" /\ call[c].token = None
  BY <1>4, <1>6 DEF Fail
<1>7. CASE ~(call[c].op = "use") /\ ~(call[c].op = "logout" /\ call[c].token = None)
  BY <1>4, <1>7 DEF Fail
<1>. QED  BY <1>5, <1>6, <1>7

\* Of the steps that note what they read.
LEMMA Notes ==
    ASSUME AuthInv, NEW c \in Calls, NEW k \in Call, call' = [call EXCEPT ![c] = k],
           UNCHANGED <<plan, now, tables, access, redis, suspension, bounds>>,
           call[c].phase \notin Answered,
           call[c].phase # "start" => k.op = call[c].op,
           ~(k.op \in {"login", "refresh"} /\ k.phase = "done"),
           call[c].phase \notin {"announceLogin", "sign"},
           k.phase \in PastRow => /\ k.user = call[c].user
                                  /\ k.since = call[c].since
                                  /\ Past(c) \/ ~users[call[c].user].suspended,
           CallInv(c)', DoomInv(c)'
    PROVE  CallStep(c)
<1>1. failures' \in Nat /\ crashes' = crashes
  BY DEF bounds, AuthInv, BaseInv, TypeOK
<1>2. call'[c] = k
  BY DEF AuthInv, BaseInv, TypeOK
<1>. QED  BY <1>1, <1>2, Progress DEF Past

LEMMA FindUserNotes ==
    ASSUME AuthInv, NEW c \in Calls, FindUser(c)
    PROVE  CallStep(c)
<1>1. CallInv(c)
  BY DEF AuthInv, BaseInv
<1>2. call[c].phase = "userLookup" /\ call[c].op = "login" /\ call[c].user \in Users
  BY <1>1 DEF FindUser, At, CallInv, Known, LoginInv
<1>3. PICK u : u = users[call[c].user]
  OBVIOUS
<1>4. u \in User \union {None}
  BY <1>2, <1>3 DEF AuthInv, BaseInv, TypeOK
<1>5. (u # None /\ u.verified) \in BOOLEAN
  OBVIOUS
<1>6. PICK b \in BOOLEAN : b = (u # None /\ u.verified)
  BY <1>5, Zenon
<1>7. PICK p \in {"refused", "lockout"} :
          /\ p = IF u = None \/ u.suspended THEN "refused" ELSE "lockout"
          /\ p = "lockout" => u # None /\ ~u.suspended
  OBVIOUS
<1>8. PICK j \in Call : j = call[c]
  BY DEF AuthInv, BaseInv, TypeOK
<1>9. PICK k : k = [j EXCEPT !.phase = p, !.verified = b]
  OBVIOUS
<1>10. call' = [call EXCEPT ![c] = k] /\ call'[c] = k
  <2>1. call' = [call EXCEPT ![c].phase = p, ![c].verified = b]
    BY <1>3, <1>6, <1>7, Zenon DEF FindUser
  <2>2. call \in [Calls -> Call]
    BY DEF AuthInv, BaseInv, TypeOK
  <2>. QED  BY <1>8, <1>9, <2>1, <2>2
<1>11. k \in Call
  BY <1>9 DEF Call, Phase, Answered
<1>12. k.phase = p /\ k.op = j.op /\ k.user = j.user /\ k.since = j.since
  BY <1>9 DEF Call
<1>13. p = "lockout" => Row(j.user)'
  BY <1>2, <1>3, <1>7, <1>8 DEF FindUser, Row, tables
<1>14. CallInv(c)'
  BY <1>1, <1>2, <1>8, <1>10, <1>12, <1>13
  DEF CallInv, Known, RegisterInv, LoginInv, RefreshInv, LogoutInv, ResetInv, UseInv,
      InFlight, Answered, FindUser
<1>15. DoomInv(c)'
  BY <1>10, <1>12 DEF DoomInv, Doom
<1>. QED
  BY <1>2, <1>3, <1>7, <1>8, <1>10, <1>11, <1>12, <1>14, <1>15, Notes
  DEF FindUser, PastRow, Answered

LEMMA ReadCountNotes ==
    ASSUME AuthInv, NEW c \in Calls, ReadCount(c)
    PROVE  CallStep(c)
<1>1. CallInv(c)
  BY DEF AuthInv, BaseInv
<1>2. call[c].phase = "countRead" /\ call[c].op = "login" /\ Row(call[c].user)
  BY <1>1 DEF ReadCount, At, CallInv, Known, LoginInv
<1>3. PICK n \in Nat : n = users[call[c].user].attempts
  BY <1>2 DEF AuthInv, BaseInv, TypeOK, User, Row
<1>4. PICK j \in Call : j = call[c]
  BY DEF AuthInv, BaseInv, TypeOK
<1>5. PICK k : k = [j EXCEPT !.phase = "countWrite", !.attempts = n]
  OBVIOUS
<1>6. call' = [call EXCEPT ![c] = k] /\ call'[c] = k
  <2>1. call \in [Calls -> Call]
    BY DEF AuthInv, BaseInv, TypeOK
  <2>. QED  BY <1>3, <1>4, <1>5, <2>1 DEF ReadCount
<1>7. k \in Call
  BY <1>5 DEF Call, Phase
<1>8. k.phase = "countWrite" /\ k.op = j.op /\ k.user = j.user /\ k.since = j.since
  BY <1>5 DEF Call
<1>9. Row(j.user)'
  BY <1>2, <1>4 DEF ReadCount, Row, tables
<1>10. CallInv(c)'
  BY <1>1, <1>2, <1>4, <1>6, <1>8, <1>9
  DEF CallInv, Known, RegisterInv, LoginInv, RefreshInv, LogoutInv, ResetInv, UseInv,
      InFlight, Answered, ReadCount
<1>11. DoomInv(c)'
  BY <1>6, <1>8 DEF DoomInv, Doom
<1>. QED
  BY <1>2, <1>4, <1>6, <1>7, <1>8, <1>10, <1>11, Notes DEF ReadCount, PastRow, Answered

\* A lookup of a session by its token.
LEMMA LookupNotes ==
    ASSUME AuthInv, NEW c \in Calls, NEW s \in Calls, NEW p \in Phase,
           call' = [call EXCEPT ![c].session = s, ![c].phase = p],
           UNCHANGED <<plan, now, tables, access, redis, suspension, bounds>>,
           HasSession(s),
           \/ /\ At(c, "hashLookup")
              /\ p \in {"revokeAll", "revokeExpired", "userOfSession"}
              /\ call[c].doomed => p = "revokeAll"
           \/ At(c, "cookieLookup") /\ p = "revokeSession"
    PROVE  CallStep(c)
<1>1. CallInv(c)
  BY DEF AuthInv, BaseInv
<1>2. \/ /\ call[c].phase = "hashLookup"
         /\ call[c].op = "refresh"
         /\ Row(call[c].user)
         /\ p \in {"revokeAll", "revokeExpired", "userOfSession"}
      \/ /\ call[c].phase = "cookieLookup"
         /\ call[c].op = "logout"
         /\ Signed(call[c].bearer)
         /\ p = "revokeSession"
  BY <1>1 DEF At, CallInv, Known, RefreshInv, LogoutInv
<1>3. PICK j \in Call : j = call[c]
  BY DEF AuthInv, BaseInv, TypeOK
<1>4. PICK k : k = [j EXCEPT !.session = s, !.phase = p]
  OBVIOUS
<1>5. call' = [call EXCEPT ![c] = k] /\ call'[c] = k
  <2>1. call \in [Calls -> Call]
    BY DEF AuthInv, BaseInv, TypeOK
  <2>. QED  BY <1>3, <1>4, <2>1
<1>6. k \in Call
  BY <1>4 DEF Call
<1>7. k.phase = p /\ k.op = j.op /\ k.user = j.user /\ k.since = j.since
  BY <1>4 DEF Call
<1>8. k.session = s /\ k.bearer = j.bearer
  BY <1>4 DEF Call
<1>9. k.doomed = j.doomed
  BY <1>4, Zenon DEF Call
<1>10. /\ Row(j.user)' <=> Row(j.user)
       /\ HasSession(s)'
       /\ Signed(j.bearer)' <=> Signed(j.bearer)
       /\ now' = now
  BY SameRows
<1>11. CallInv(c)'
  <2>1. RegisterInv(c, p)' /\ LoginInv(c, p)' /\ ResetInv(c, p)' /\ UseInv(c, p)'
    BY <1>2 DEF RegisterInv, LoginInv, ResetInv, UseInv
  <2>2. RefreshInv(c, p)' /\ LogoutInv(c, p)'
    BY <1>2, <1>3, <1>5, <1>7, <1>8, <1>10 DEF RefreshInv, LogoutInv, Row
  <2>. QED
    BY <1>1, <1>2, <1>3, <1>5, <1>7, <1>10, <2>1, <2>2
    DEF CallInv, Known, InFlight, Answered
<1>12. DoomInv(c)'
  BY <1>2, <1>3, <1>5, <1>7, <1>9 DEF DoomInv, Doom, At
<1>. QED
  BY <1>2, <1>3, <1>5, <1>6, <1>7, <1>11, <1>12, Notes DEF PastRow, Answered

LEMMA FindByTokenHashNotes ==
    ASSUME AuthInv, NEW c \in Calls, FindByTokenHash(c)
    PROVE  CallStep(c)
<1>1. CallInv(c) /\ DoomInv(c) /\ SessionInv
  BY DEF AuthInv, BaseInv, RevokeInv
<1>2. /\ call[c].phase = "hashLookup"
      /\ call[c].op = "refresh"
      /\ Signed(call[c].token)
      /\ call[c].doomed => Stale(call[c].token)
  BY <1>1 DEF FindByTokenHash, At, CallInv, Known, RefreshInv, DoomInv, Doom
<1>3. InFlight(c)
  BY <1>2 DEF InFlight, Answered
<1>4. CASE ByToken(call[c].token) = {}
  <2>1. Step(c, "refused") /\ UNCHANGED tables
    BY <1>4 DEF FindByTokenHash, Step
  <2>. QED  BY <1>2, <1>3, <2>1, Refuses
<1>5. CASE ByToken(call[c].token) # {}
  <2>1. PICK t : t = call[c].token
    OBVIOUS
  <2>2. PICK s \in ByToken(t) :
            call' = [call EXCEPT
                ![c].session = s,
                ![c].phase = IF IsRevoked(s) THEN "revokeAll"
                             ELSE IF sessions[s].expires < now
                             THEN "revokeExpired" ELSE "userOfSession"]
    BY <1>5, <2>1 DEF FindByTokenHash
  <2>3. PICK p \in {"revokeAll", "revokeExpired", "userOfSession"} :
            /\ p = IF IsRevoked(s) THEN "revokeAll"
                   ELSE IF sessions[s].expires < now
                   THEN "revokeExpired" ELSE "userOfSession"
            /\ IsRevoked(s) => p = "revokeAll"
    OBVIOUS
  <2>4. s \in Calls /\ HasSession(s) /\ sessions[s].token = t
    BY <2>2 DEF ByToken, HasSession
  <2>5. access[t].session = s
    BY <1>1, <1>2, <2>1, <2>4 DEF SessionInv, Signed
  <2>6. call[c].doomed => IsRevoked(s)
    BY <1>2, <2>1, <2>4, <2>5 DEF Stale, IsRevoked
  <2>7. call' = [call EXCEPT ![c].session = s, ![c].phase = p]
    BY <2>2, <2>3
  <2>8. p \in Phase
    BY <2>3 DEF Phase
  <2>. QED  BY <1>2, <2>3, <2>4, <2>6, <2>7, <2>8, LookupNotes DEF FindByTokenHash, At
<1>. QED  BY <1>4, <1>5

LEMMA FindCookieNotes ==
    ASSUME AuthInv, NEW c \in Calls, FindCookie(c)
    PROVE  CallStep(c)
<1>1. CallInv(c)
  BY DEF AuthInv, BaseInv
<1>2. call[c].phase = "cookieLookup" /\ call[c].op = "logout"
  BY <1>1 DEF FindCookie, At, CallInv, Known, LogoutInv
<1>3. InFlight(c)
  BY <1>2 DEF InFlight, Answered
<1>4. CASE Go(c, "done")
  <2>1. Step(c, "done") /\ UNCHANGED tables
    BY <1>4 DEF FindCookie, Step
  <2>2. Known(c, "done") /\ Doom(c, "done")
    BY <1>2
    DEF Known, RegisterInv, LoginInv, RefreshInv, LogoutInv, ResetInv, UseInv, Doom
  <2>. QED  BY <1>2, <1>3, <2>1, <2>2, Steps DEF PastRow, Phase, Answered
<1>5. CASE ~Go(c, "done")
  <2>1. PICK s \in ByToken(call[c].token) :
            call' = [call EXCEPT ![c].session = s, ![c].phase = "revokeSession"]
    BY <1>5 DEF FindCookie
  <2>2. s \in Calls /\ HasSession(s)
    BY <2>1 DEF ByToken, HasSession
  <2>. QED  BY <1>2, <2>1, <2>2, LookupNotes DEF FindCookie, At, Phase
<1>. QED  BY <1>4, <1>5

\* The registration that made its user's row.
Inserted(c) == /\ call[c].op = "register"
               /\ call[c].phase \in {"emailToken", "announceUser", "done"}

\* What is known of a request as it arrives.
Arrives(input) ==
    \/ input.phase = "refused"
    \/ input.phase = "duplicate" /\ input.op = "register" /\ input.user \in Users
    \/ input.phase = "emailLookup" /\ input.op = "verify" /\ Mailed(input.token)
    \/ input.phase = "userLookup" /\ input.op = "login" /\ input.user \in Users
    \/ /\ input.phase = "hashLookup"
       /\ input.op = "refresh"
       /\ Row(input.user)
       /\ Signed(input.token)
       /\ input.doomed => Stale(input.token)
    \/ input.phase = "cookieLookup" /\ input.op = "logout" /\ Signed(input.bearer)
    \/ /\ input.phase = "revokeSession"
       /\ input.op = "logout"
       /\ HasSession(input.session)
       /\ Signed(input.bearer)
    \/ input.phase = "ownership" /\ input.op = "revoke" /\ input.session \in Calls
    \/ input.phase = "forgotLookup" /\ input.op = "forgot" /\ input.user \in Users
    \/ /\ input.phase = "resetLookup"
       /\ input.op = "reset"
       /\ Row(input.user)
       /\ ResetMailed(input.token)
    \/ /\ input.phase = "jti"
       /\ input.op = "use"
       /\ Signed(input.bearer)
       /\ input.user = access[input.bearer].user
       /\ now < access[input.bearer].exp
       /\ input.doomed => blocked[input.bearer] = access[input.bearer].exp

LEMMA Begins ==
    ASSUME AuthInv, NEW c \in Calls, NEW input \in Call, Begin(c, input), Arrives(input)
    PROVE  CallStep(c) /\ ~At(c, "done")' /\ ~Inserted(c)'
<1>1. now \in Nat /\ call \in [Calls -> Call] /\ call[c].phase = "start"
  BY DEF AuthInv, BaseInv, TypeOK, Begin, At
<1>2. PICK k : k = [input EXCEPT !.since = now]
  OBVIOUS
<1>3. call' = [call EXCEPT ![c] = k] /\ call'[c] = k
  BY <1>1, <1>2 DEF Begin
<1>4. k \in Call
  BY <1>1, <1>2 DEF Call
<1>5. k.phase = input.phase /\ k.op = input.op /\ k.user = input.user
  BY <1>2 DEF Call
<1>6. k.token = input.token /\ k.bearer = input.bearer /\ k.session = input.session
  BY <1>2 DEF Call
<1>7. k.since = now
  BY <1>2 DEF Call
<1>8. k.doomed = input.doomed
  BY <1>2, Zenon DEF Call
<1>9. /\ \A u : Row(u)' <=> Row(u)
      /\ \A s : HasSession(s)' <=> HasSession(s)
      /\ \A t : Mailed(t)' <=> Mailed(t)
      /\ \A t : ResetMailed(t)' <=> ResetMailed(t)
      /\ \A a : Signed(a)' <=> Signed(a)
      /\ access' = access /\ now' = now /\ sessions' = sessions /\ blocked' = blocked
  BY SameRows DEF Begin, tables, redis
<1>. ~Mailed(c) /\ ~ResetMailed(c)
  BY <1>1 DEF AuthInv, BaseInv, CallInv, Known, RegisterInv, ResetInv
<1>10. RegisterInv(c, call[c].phase)' /\ LoginInv(c, call[c].phase)'
  BY <1>3, <1>5, <1>6, <1>9 DEF Arrives, RegisterInv, LoginInv
<1>11. RefreshInv(c, call[c].phase)'
  BY <1>3, <1>5, <1>6, <1>9 DEF Arrives, RefreshInv
<1>12. LogoutInv(c, call[c].phase)'
  BY <1>3, <1>5, <1>6, <1>9 DEF Arrives, LogoutInv
<1>13. ResetInv(c, call[c].phase)'
  BY <1>3, <1>5, <1>6, <1>9 DEF Arrives, ResetInv
<1>14. UseInv(c, call[c].phase)'
  BY <1>3, <1>5, <1>6, <1>7, <1>9 DEF Arrives, UseInv
<1>15. CallInv(c)'
  BY <1>1, <1>3, <1>7, <1>9, <1>10, <1>11, <1>12, <1>13, <1>14 DEF CallInv, Known
<1>16. DoomInv(c)'
  BY <1>3, <1>5, <1>6, <1>8, <1>9 DEF Arrives, DoomInv, Doom, Stale
<1>17. k.phase \notin PastRow \union {"done"}
  BY <1>5 DEF Arrives, PastRow
<1>18. CallStep(c)
  BY <1>1, <1>3, <1>4, <1>15, <1>16, <1>17, Notes DEF Begin, Answered
<1>19. k.phase \notin {"emailToken", "announceUser"}
  BY <1>5 DEF Arrives
<1>. QED  BY <1>3, <1>17, <1>18, <1>19 DEF At, Inserted

LEMMA FreshCall ==
    /\ Fresh \in Call
    /\ Fresh.user = None /\ Fresh.token = None /\ Fresh.bearer = None
    /\ Fresh.session = None /\ Fresh.password = None
    /\ ~Fresh.doomed
<1>1. Fresh \in Call
  BY DEF Fresh, Call, Phase
<1>2. Fresh.user = None /\ Fresh.token = None /\ Fresh.bearer = None
  BY DEF Fresh
<1>3. Fresh.session = None /\ Fresh.password = None
  BY DEF Fresh
<1>4. ~Fresh.doomed
  BY Zenon DEF Fresh
<1>. QED  BY <1>1, <1>2, <1>3, <1>4

LEMMA TokensSigned ==
    ASSUME AuthInv, NEW a \in Tokens
    PROVE  /\ a \in Calls
           /\ Signed(a)
           /\ Row(access[a].user)
           /\ HasSession(access[a].session)
           /\ access[a].user \in Users
           /\ access[a].session \in Calls
           /\ access[a].exp \in Nat
  BY DEF AuthInv, BaseInv, TypeOK, OwnRows, Tokens, AccessToken, Signed

LEMMA MailBegins ==
    ASSUME AuthInv, NEW c \in Calls,
           \/ BeginRegister(c) \/ BeginVerify(c) \/ BeginForgot(c)
           \/ BeginReset(c) \/ BeginLogin(c)
    PROVE  CallStep(c) /\ ~At(c, "done")' /\ ~Inserted(c)'
<1>1. Fresh \in Call
  BY FreshCall
<1>2. CASE BeginRegister(c)
  <2>1. PICK u \in Users : Begin(c, [Fresh EXCEPT !.op = "register",
                                                 !.phase = "duplicate", !.user = u])
    BY <1>2 DEF BeginRegister
  <2>2. PICK k : k = [Fresh EXCEPT !.op = "register", !.phase = "duplicate", !.user = u]
    OBVIOUS
  <2>3. k \in Call /\ k.op = "register" /\ k.phase = "duplicate" /\ k.user = u
    BY <1>1, <2>2 DEF Call, Op, Phase
  <2>. QED  BY <2>1, <2>2, <2>3, Begins DEF Arrives
<1>3. CASE BeginVerify(c)
  <2>1. PICK t \in MailTokens("register") :
            Begin(c, [Fresh EXCEPT !.op = "verify", !.phase = "emailLookup", !.token = t])
    BY <1>3 DEF BeginVerify
  <2>2. PICK k : k = [Fresh EXCEPT !.op = "verify", !.phase = "emailLookup", !.token = t]
    OBVIOUS
  <2>3. Mailed(t) /\ t \in Calls
    BY DEF MailTokens, AuthInv, BaseInv, CallInv, Known, RegisterInv, At
  <2>4. k \in Call /\ k.op = "verify" /\ k.phase = "emailLookup" /\ k.token = t
    BY <1>1, <2>2, <2>3 DEF Call, Op, Phase
  <2>. QED  BY <2>1, <2>2, <2>3, <2>4, Begins DEF Arrives
<1>4. CASE BeginForgot(c)
  <2>1. PICK u \in Users : Begin(c, [Fresh EXCEPT !.op = "forgot",
                                                 !.phase = "forgotLookup", !.user = u])
    BY <1>4 DEF BeginForgot
  <2>2. PICK k : k = [Fresh EXCEPT !.op = "forgot", !.phase = "forgotLookup", !.user = u]
    OBVIOUS
  <2>3. k \in Call /\ k.op = "forgot" /\ k.phase = "forgotLookup" /\ k.user = u
    BY <1>1, <2>2 DEF Call, Op, Phase
  <2>. QED  BY <2>1, <2>2, <2>3, Begins DEF Arrives
<1>5. CASE BeginReset(c)
  <2>1. PICK t \in MailTokens("forgot") :
            Begin(c, [Fresh EXCEPT !.op = "reset", !.phase = "resetLookup", !.token = t,
                                   !.user = resetTokens[t].user])
    BY <1>5 DEF BeginReset
  <2>2. /\ t \in Calls
        /\ ResetMailed(t)
        /\ Row(resetTokens[t].user)
    BY DEF MailTokens, AuthInv, BaseInv, CallInv, Known, ResetInv, OwnRows, At
  <2>3. PICK u \in Users : u = resetTokens[t].user
    BY <2>2 DEF Row
  <2>4. PICK k : k = [Fresh EXCEPT !.op = "reset", !.phase = "resetLookup",
                                   !.token = t, !.user = u]
    OBVIOUS
  <2>5. k \in Call /\ k.op = "reset" /\ k.phase = "resetLookup"
    BY <1>1, <2>2, <2>4 DEF Call, Op, Phase
  <2>6. k.token = t /\ k.user = u
    BY <1>1, <2>4 DEF Call
  <2>. QED  BY <2>1, <2>2, <2>3, <2>4, <2>5, <2>6, Begins DEF Arrives
<1>6. CASE BeginLogin(c)
  <2>1. PICK u \in Users, w \in Passwords \union {c} :
            Begin(c, [Fresh EXCEPT !.op = "login", !.phase = "userLookup", !.user = u,
                                   !.password = w])
    BY <1>6 DEF BeginLogin
  <2>2. w \in Calls \union {None}
    BY DEF Passwords
  <2>3. PICK k : k = [Fresh EXCEPT !.op = "login", !.phase = "userLookup",
                                   !.user = u, !.password = w]
    OBVIOUS
  <2>4. k \in Call /\ k.op = "login" /\ k.phase = "userLookup" /\ k.user = u
    BY <1>1, <2>2, <2>3 DEF Call, Op, Phase
  <2>. QED  BY <2>1, <2>3, <2>4, Begins DEF Arrives
<1>. QED  BY <1>2, <1>3, <1>4, <1>5, <1>6

LEMMA RefreshBegins ==
    ASSUME AuthInv, NEW c \in Calls, BeginRefresh(c)
    PROVE  CallStep(c) /\ ~At(c, "done")' /\ ~Inserted(c)'
<1>1. Fresh \in Call
  BY FreshCall
<1>2. PICK t \in Tokens :
          Begin(c, [Fresh EXCEPT !.op = "refresh", !.phase = "hashLookup", !.token = t,
                                 !.user = access[t].user, !.doomed = Stale(t)])
  BY DEF BeginRefresh
<1>3. t \in Calls /\ Signed(t) /\ Row(access[t].user)
  BY TokensSigned
<1>4. PICK u \in Users : u = access[t].user
  BY <1>3 DEF Row
<1>5. Stale(t) \in BOOLEAN
  BY DEF Stale
<1>6. PICK b \in BOOLEAN : b = Stale(t)
  BY <1>5, Zenon
<1>7. PICK k : k = [Fresh EXCEPT !.op = "refresh", !.phase = "hashLookup", !.token = t,
                                 !.user = u, !.doomed = b]
  OBVIOUS
<1>8. Begin(c, k)
  BY <1>2, <1>4, <1>6, <1>7, Zenon
<1>9. k \in Call
  BY <1>1, <1>3, <1>7 DEF Call, Op, Phase
<1>10. k.op = "refresh" /\ k.phase = "hashLookup" /\ k.token = t /\ k.user = u
  BY <1>1, <1>7 DEF Call
<1>11. k.doomed => Stale(t)
  <2>1. k.doomed = b
    BY <1>1, <1>7, Zenon DEF Call
  <2>. QED  BY <1>6, <2>1, Zenon
<1>. QED  BY <1>3, <1>4, <1>8, <1>9, <1>10, <1>11, Begins DEF Arrives

LEMMA LogoutBegins ==
    ASSUME AuthInv, NEW c \in Calls, BeginLogout(c)
    PROVE  CallStep(c) /\ ~At(c, "done")' /\ ~Inserted(c)'
<1>1. Fresh \in Call
  BY FreshCall
<1>2. PICK a \in Tokens, cookie \in Tokens \union {None} :
          Begin(c, [Fresh EXCEPT
              !.op = "logout", !.user = access[a].user, !.bearer = a, !.token = cookie,
              !.session = IF cookie = None THEN access[a].session ELSE None,
              !.phase = IF ~LiveToken(a) THEN "refused"
                        ELSE IF cookie = None THEN "revokeSession" ELSE "cookieLookup"])
  BY DEF BeginLogout
<1>3. PICK s : s = IF cookie = None THEN access[a].session ELSE None
  OBVIOUS
<1>4. PICK p : p = IF ~LiveToken(a) THEN "refused"
                   ELSE IF cookie = None THEN "revokeSession" ELSE "cookieLookup"
  OBVIOUS
<1>5. /\ a \in Calls /\ Signed(a)
      /\ cookie \in Calls \union {None}
      /\ s \in Calls \union {None}
      /\ p \in {"refused", "revokeSession", "cookieLookup"}
      /\ p = "revokeSession" => HasSession(s)
  BY <1>3, <1>4, TokensSigned DEF Tokens
<1>6. PICK u \in Users : u = access[a].user
  BY TokensSigned
<1>7. PICK k : k = [Fresh EXCEPT !.op = "logout", !.user = u, !.bearer = a,
                                 !.token = cookie, !.session = s, !.phase = p]
  OBVIOUS
<1>8. Begin(c, k)
  BY <1>2, <1>3, <1>4, <1>6, <1>7
<1>9. k \in Call
  BY <1>1, <1>5, <1>7 DEF Call, Op, Phase, Answered
<1>10. k.op = "logout" /\ k.phase = p /\ k.bearer = a /\ k.session = s
  BY <1>1, <1>7 DEF Call
<1>. QED  BY <1>5, <1>8, <1>9, <1>10, Begins DEF Arrives

LEMMA RevokeBegins ==
    ASSUME AuthInv, NEW c \in Calls, BeginRevoke(c)
    PROVE  CallStep(c) /\ ~At(c, "done")' /\ ~Inserted(c)'
<1>1. Fresh \in Call
  BY FreshCall
<1>2. PICK a \in Tokens, s \in Calls :
          Begin(c, [Fresh EXCEPT
              !.op = "revoke", !.user = access[a].user, !.bearer = a, !.session = s,
              !.phase = IF LiveToken(a) THEN "ownership" ELSE "refused"])
  BY DEF BeginRevoke
<1>3. PICK p \in {"ownership", "refused"} :
          p = IF LiveToken(a) THEN "ownership" ELSE "refused"
  OBVIOUS
<1>4. PICK u \in Users : u = access[a].user
  BY TokensSigned
<1>5. PICK k : k = [Fresh EXCEPT !.op = "revoke", !.user = u, !.bearer = a,
                                 !.session = s, !.phase = p]
  OBVIOUS
<1>6. Begin(c, k)
  BY <1>2, <1>3, <1>4, <1>5
<1>7. k \in Call
  <2>1. p \in Phase /\ a \in Calls
    BY TokensSigned DEF Phase, Answered
  <2>2. "revoke" \in Op
    BY DEF Op
  <2>. QED  BY <1>1, <1>5, <2>1, <2>2 DEF Call
<1>8. k.op = "revoke" /\ k.phase = p /\ k.session = s
  BY <1>1, <1>5 DEF Call
<1>. QED  BY <1>3, <1>6, <1>7, <1>8, Begins DEF Arrives

LEMMA UseBegins ==
    ASSUME AuthInv, NEW c \in Calls, BeginUse(c)
    PROVE  CallStep(c) /\ ~At(c, "done")' /\ ~Inserted(c)'
<1>1. Fresh \in Call
  BY FreshCall
<1>2. PICK a \in Tokens :
          Begin(c, [Fresh EXCEPT
              !.op = "use", !.user = access[a].user, !.bearer = a,
              !.doomed = now < blocked[a],
              !.phase = IF LiveToken(a) THEN "jti" ELSE "refused"])
  BY DEF BeginUse
<1>3. PICK p \in {"jti", "refused"} :
          /\ p = IF LiveToken(a) THEN "jti" ELSE "refused"
          /\ p = "jti" => LiveToken(a)
  OBVIOUS
<1>4. PICK u \in Users : u = access[a].user
  BY TokensSigned
<1>5. now \in Nat /\ blocked[a] \in Nat /\ a \in Calls /\ Signed(a)
  BY TokensSigned DEF AuthInv, BaseInv, TypeOK
<1>6. PICK b \in BOOLEAN : b = (now < blocked[a])
  <2>1. (now < blocked[a]) \in BOOLEAN
    BY <1>5
  <2>. QED  BY <2>1, Zenon
<1>7. PICK k : k = [Fresh EXCEPT !.op = "use", !.user = u, !.bearer = a,
                                 !.doomed = b, !.phase = p]
  OBVIOUS
<1>8. Begin(c, k)
  BY <1>2, <1>3, <1>4, <1>6, <1>7, Zenon
<1>9. k \in Call
  <2>1. p \in Phase
    BY DEF Phase, Answered
  <2>2. "use" \in Op
    BY DEF Op
  <2>. QED  BY <1>1, <1>5, <1>7, <2>1, <2>2 DEF Call
<1>10. k.op = "use" /\ k.phase = p /\ k.bearer = a /\ k.user = u
  BY <1>1, <1>7 DEF Call
<1>11. k.doomed => blocked[a] = access[a].exp
  <2>1. k.doomed = b
    BY <1>1, <1>7, Zenon DEF Call
  <2>2. k.doomed => now < blocked[a]
    BY <1>6, <2>1, Zenon
  <2>3. now < blocked[a] => blocked[a] # 0
    BY <1>5
  <2>. QED  BY <1>5, <2>2, <2>3 DEF AuthInv, RevokeInv
<1>. QED  BY <1>3, <1>4, <1>5, <1>8, <1>9, <1>10, <1>11, Begins DEF Arrives, LiveToken

LEMMA NoneIsNoRow ==
    None \notin User /\ None \notin Session /\ None \notin MailToken /\ None \notin AccessToken
  BY RowsAssumption

\* A step that writes one table, the sessions apart.
LEMMA Writes ==
    ASSUME AuthInv, NEW c \in Calls, NEW p \in Phase, Go(c, p),
           UNCHANGED <<plan, now, sessions, access, redis, suspension, bounds>>,
           InFlight(c), Grows, Typed',
           \A d \in Calls \ {c} : /\ Mailed(d)' => Mailed(d)
                                  /\ ResetMailed(d)' => ResetMailed(d),
           Mailed(c)' => Row(emailTokens[c].user)',
           ResetMailed(c)' => Row(resetTokens[c].user)',
           call[c].phase \notin {"announceLogin", "sign"},
           p # "done",
           p \in PastRow => Past(c) \/ ~users[call[c].user].suspended,
           Known(c, p)', Doom(c, p)
    PROVE  CallStep(c)
<1>1. PICK k \in Call : /\ call' = [call EXCEPT ![c] = k]
                        /\ call'[c] = k
                        /\ k.phase = p
                        /\ k.op = call[c].op
                        /\ k.user = call[c].user
                        /\ k.token = call[c].token
                        /\ k.bearer = call[c].bearer
                        /\ k.session = call[c].session
                        /\ k.since = call[c].since
                        /\ k.doomed = call[c].doomed
  BY Moves DEF AuthInv, BaseInv, TypeOK
<1>2. call' \in [Calls -> Call] /\ \A d \in Calls \ {c} : call'[d] = call[d]
  BY <1>1 DEF AuthInv, BaseInv, TypeOK
<1>3. /\ access' = access /\ now' = now /\ sessions' = sessions /\ blocked' = blocked
      /\ barred' = barred /\ failures' \in Nat
  BY DEF redis, bounds, AuthInv, BaseInv, TypeOK
<1>4. Alone(c)
  BY <1>2, <1>3 DEF Alone, suspension, bounds, InFlight
<1>5. CallInv(c)'
  BY <1>1, <1>3 DEF CallInv, InFlight, AuthInv, BaseInv
<1>6. DoomInv(c)'
  BY <1>1, <1>3 DEF DoomInv, Doom, Stale
<1>7. ~Signed(c) /\ ~Signed(c)' /\ (\A s : HasSession(s)' <=> HasSession(s))
  BY <1>3 DEF AuthInv, BaseInv, OwnRows, At, InFlight, Answered, Signed, HasSession
<1>8. OwnRows(c)'
  BY <1>1, <1>7 DEF OwnRows, At
<1>9. LockStep(c)
  BY <1>1, <1>7 DEF LockStep, Past
<1>10. SessionStep(c)
  BY <1>1, <1>3, <1>7 DEF SessionStep
<1>11. Blocks
  BY <1>3 DEF Blocks
<1>. QED
  BY <1>4, <1>5, <1>6, <1>8, <1>9, <1>10, <1>11 DEF CallStep

\* A statement that writes the row of one user.
LEMMA UserWrites ==
    ASSUME AuthInv, NEW c \in Calls, NEW p \in Phase, Step(c, p),
           UNCHANGED <<sessions, emailTokens, resetTokens>>,
           NEW u \in Users, NEW r \in User, users' = [users EXCEPT ![u] = r],
           users[u] # None => r.suspended = users[u].suspended,
           InFlight(c),
           call[c].phase \notin {"announceLogin", "sign"},
           p # "done",
           p \in PastRow => Past(c) \/ ~users[call[c].user].suspended,
           Known(c, p)', Doom(c, p)
    PROVE  CallStep(c)
<1>1. users \in [Users -> User \union {None}]
  BY DEF AuthInv, BaseInv, TypeOK
<1>2. Typed'
  BY <1>1 DEF Typed, AuthInv, BaseInv, TypeOK, Step, redis
<1>3. \A v \in Users : users[v] # None =>
          users'[v] # None /\ (users[v].suspended => users'[v].suspended)
  BY <1>1, NoneIsNoRow
<1>4. Grows
  BY <1>3 DEF Grows, Step
<1>5. \A v : Row(v) => Row(v)'
  BY <1>3 DEF Row
<1>6. /\ \A d : Mailed(d)' <=> Mailed(d)
      /\ \A d : ResetMailed(d)' <=> ResetMailed(d)
  BY DEF Mailed, ResetMailed
<1>7. /\ Mailed(c)' => Row(emailTokens[c].user)'
      /\ ResetMailed(c)' => Row(resetTokens[c].user)'
  BY <1>5, <1>6 DEF AuthInv, BaseInv, OwnRows
<1>. QED  BY <1>2, <1>4, <1>6, <1>7, Writes DEF Step

LEMMA CreateUserWrites ==
    ASSUME AuthInv, NEW c \in Calls, CreateUser(c)
    PROVE  CallStep(c)
<1>1. CallInv(c)
  BY DEF AuthInv, BaseInv
<1>2. /\ call[c].phase = "createUser"
      /\ call[c].op = "register"
      /\ call[c].user \in Users
      /\ ~Mailed(c)
  BY <1>1 DEF CreateUser, At, CallInv, Known, RegisterInv
<1>3. InFlight(c)
  BY <1>2 DEF InFlight, Answered
<1>4. PICK u \in Users : u = call[c].user
  BY <1>2
<1>5. CASE users[u] # None
  <2>1. Step(c, "failed") /\ UNCHANGED tables
    BY <1>4, <1>5 DEF CreateUser, ViolatesEmailIndex, EmailTaken, tables
  <2>. QED  BY <1>2, <1>3, <2>1, Refuses
<1>6. CASE users[u] = None
  <2>1. PICK r : r = NewUser(c)
    OBVIOUS
  <2>2. r \in User
    BY <2>1 DEF NewUser, User
  <2>3. Step(c, "emailToken") /\ users' = [users EXCEPT ![u] = r]
    BY <1>4, <1>6, <2>1 DEF CreateUser, ViolatesEmailIndex, EmailTaken
  <2>4. Row(u)'
    BY <2>2, <2>3, NoneIsNoRow DEF Row, AuthInv, BaseInv, TypeOK
  <2>5. call'[c].op = "register" /\ call'[c].user = u
    BY <1>2, <1>4, <2>3, Moves DEF Step, Phase, AuthInv, BaseInv, TypeOK
  <2>6. Known(c, "emailToken")' /\ Doom(c, "emailToken")
    BY <1>2, <2>4, <2>5
    DEF CreateUser, Mailed, Known, RegisterInv, LoginInv, RefreshInv, LogoutInv,
        ResetInv, UseInv, Doom
  <2>. QED
    BY <1>2, <1>3, <1>6, <2>2, <2>3, <2>6, UserWrites DEF CreateUser, PastRow, Phase
<1>. QED  BY <1>4, <1>5, <1>6

LEMMA SetEmailVerifiedWrites ==
    ASSUME AuthInv, NEW c \in Calls, SetEmailVerified(c)
    PROVE  CallStep(c)
<1>1. CallInv(c)
  BY DEF AuthInv, BaseInv
<1>2. call[c].phase = "setVerified" /\ call[c].op = "verify" /\ Mailed(call[c].token)
  BY <1>1 DEF SetEmailVerified, At, CallInv, Known, RegisterInv
<1>3. InFlight(c)
  BY <1>2 DEF InFlight, Answered
<1>4. PICK t \in Calls : t = call[c].token
  BY <1>2 DEF Mailed
<1>5. PICK u \in Users : u = emailTokens[t].user /\ users[u] # None
  BY <1>2, <1>4 DEF AuthInv, BaseInv, OwnRows, Row
<1>6. PICK w \in User : w = users[u]
  BY <1>5 DEF AuthInv, BaseInv, TypeOK
<1>7. PICK r : r = [w EXCEPT !.verified = TRUE]
  OBVIOUS
<1>8. r \in User
  BY <1>7 DEF User
<1>9. r.suspended = w.suspended
  BY <1>7, Zenon DEF User
<1>10. users' = [users EXCEPT ![u] = r]
  BY <1>4, <1>5, <1>6, <1>7 DEF SetEmailVerified
<1>11. Step(c, "markEmail")
  BY DEF SetEmailVerified
<1>12. call'[c].op = "verify" /\ call'[c].token = t
  BY <1>2, <1>4, <1>11, Moves DEF Step, Phase, AuthInv, BaseInv, TypeOK
<1>13. Known(c, "markEmail")' /\ Doom(c, "markEmail")
  BY <1>2, <1>4, <1>12
  DEF Known, RegisterInv, LoginInv, RefreshInv, LogoutInv, ResetInv, UseInv, Doom,
      SetEmailVerified, Mailed
<1>. QED
  BY <1>2, <1>3, <1>6, <1>8, <1>9, <1>10, <1>11, <1>13, UserWrites
  DEF SetEmailVerified, PastRow, Phase

\* A count of failed logins, started again or raised, maybe with a new password.
LEMMA CountWrites ==
    ASSUME AuthInv, NEW c \in Calls, NEW p \in Phase, Step(c, p),
           UNCHANGED <<sessions, emailTokens, resetTokens>>,
           NEW u \in Users, users[u] # None, u = call[c].user,
           NEW n \in Nat, NEW m \in Nat,
           \/ users' = [users EXCEPT ![u].attempts = n, ![u].failedAt = m]
           \/ users' = [users EXCEPT ![u].password = c, ![u].attempts = n,
                                     ![u].failedAt = m],
           \/ At(c, "countWrite") /\ p = "refused"
           \/ At(c, "clearCount") /\ p = "startSession"
           \/ At(c, "updatePassword") /\ p = "markReset"
    PROVE  CallStep(c)
<1>1. CallInv(c)
  BY DEF AuthInv, BaseInv
<1>2. PICK w \in User : w = users[u]
  BY DEF AuthInv, BaseInv, TypeOK
<1>3. PICK r \in User : users' = [users EXCEPT ![u] = r] /\ r.suspended = w.suspended
  <2>1. CASE users' = [users EXCEPT ![u].attempts = n, ![u].failedAt = m]
    <3>1. PICK r : r = [w EXCEPT !.attempts = n, !.failedAt = m]
      OBVIOUS
    <3>2. r \in User
      BY <3>1 DEF User
    <3>3. r.suspended = w.suspended
      BY <3>1, Zenon DEF User
    <3>4. users' = [users EXCEPT ![u] = r]
      BY <1>2, <2>1, <3>1 DEF AuthInv, BaseInv, TypeOK
    <3>. QED  BY <3>2, <3>3, <3>4
  <2>2. CASE users' = [users EXCEPT ![u].password = c, ![u].attempts = n,
                                    ![u].failedAt = m]
    <3>1. PICK r : r = [w EXCEPT !.password = c, !.attempts = n, !.failedAt = m]
      OBVIOUS
    <3>2. r \in User
      BY <3>1 DEF User
    <3>3. r.suspended = w.suspended
      BY <3>1, Zenon DEF User
    <3>4. users' = [users EXCEPT ![u] = r]
      BY <1>2, <2>2, <3>1 DEF AuthInv, BaseInv, TypeOK
    <3>. QED  BY <3>2, <3>3, <3>4
  <2>. QED  BY <2>1, <2>2
<1>4. Row(u)' /\ \A t : ResetMailed(t)' <=> ResetMailed(t)
  BY <1>3, NoneIsNoRow DEF Row, ResetMailed, AuthInv, BaseInv, TypeOK
<1>5. /\ call'[c].op = call[c].op
      /\ call'[c].user = u
      /\ call'[c].token = call[c].token
  BY Moves DEF Step, AuthInv, BaseInv, TypeOK
<1>6. InFlight(c) /\ call[c].phase \notin {"announceLogin", "sign"}
  BY DEF InFlight, Answered, At
<1>7. p # "done" /\ (p \in PastRow => Past(c))
  BY DEF PastRow, Past, At
<1>8. CASE p = "refused"
  <2>1. Known(c, p)' /\ Doom(c, p)
    BY <1>8
    DEF Known, RegisterInv, LoginInv, RefreshInv, LogoutInv, ResetInv, UseInv, Doom
  <2>. QED  BY <1>2, <1>3, <1>6, <1>7, <2>1, UserWrites
<1>9. CASE At(c, "clearCount") /\ p = "startSession"
  <2>1. call[c].op = "login"
    BY <1>1, <1>9 DEF CallInv, Known, LoginInv, At
  <2>2. Known(c, p)' /\ Doom(c, p)
    BY <1>4, <1>5, <1>9, <2>1
    DEF Known, RegisterInv, LoginInv, RefreshInv, LogoutInv, ResetInv, UseInv, Doom
  <2>. QED  BY <1>2, <1>3, <1>6, <1>7, <2>2, UserWrites
<1>10. CASE At(c, "updatePassword") /\ p = "markReset"
  <2>1. call[c].op = "reset" /\ ResetMailed(call[c].token)
    BY <1>1, <1>10 DEF CallInv, Known, ResetInv, At
  <2>2. Known(c, p)' /\ Doom(c, p)
    BY <1>4, <1>5, <1>10, <2>1
    DEF Known, RegisterInv, LoginInv, RefreshInv, LogoutInv, ResetInv, UseInv, Doom
  <2>. QED  BY <1>2, <1>3, <1>6, <1>7, <2>2, UserWrites
<1>. QED  BY <1>8, <1>9, <1>10

LEMMA RowWrites ==
    ASSUME AuthInv, NEW c \in Calls,
           WriteCount(c) \/ ResetFailedLogins(c) \/ UpdatePassword(c)
    PROVE  CallStep(c)
<1>1. CallInv(c) /\ now \in Nat /\ call[c].attempts + 1 \in Nat
  BY DEF AuthInv, BaseInv, TypeOK, Call
<1>2. Row(call[c].user)
  BY <1>1 DEF WriteCount, ResetFailedLogins, UpdatePassword, At, CallInv, Known,
              LoginInv, ResetInv
<1>3. PICK u \in Users : u = call[c].user /\ users[u] # None
  BY <1>2 DEF Row
<1>4. CASE WriteCount(c)
  <2>1. PICK n \in Nat : n = call[c].attempts + 1
    BY <1>1
  <2>. QED  BY <1>1, <1>3, <1>4, <2>1, CountWrites DEF WriteCount, Phase, Answered
<1>5. CASE ResetFailedLogins(c)
  BY <1>3, <1>5, CountWrites DEF ResetFailedLogins, Phase
<1>6. CASE UpdatePassword(c)
  BY <1>3, <1>6, CountWrites DEF UpdatePassword, Phase
<1>. QED  BY <1>4, <1>5, <1>6

\* A statement that writes the mail token t, of a registration or of a reset.
LEMMA EmailTokenWrites ==
    ASSUME AuthInv, NEW c \in Calls, NEW p \in Phase, Step(c, p),
           UNCHANGED <<users, sessions, resetTokens>>,
           NEW t \in Calls, NEW r \in MailToken,
           emailTokens' = [emailTokens EXCEPT ![t] = r],
           \/ Mailed(t) /\ r.user = emailTokens[t].user
           \/ t = c /\ ~Mailed(c) /\ Row(r.user),
           InFlight(c),
           call[c].phase \notin {"announceLogin", "sign"},
           p \notin PastRow \union {"done"},
           Known(c, p)', Doom(c, p)
    PROVE  CallStep(c)
<1>1. emailTokens \in [Calls -> MailToken \union {None}]
  BY DEF AuthInv, BaseInv, TypeOK
<1>2. Typed'
  BY <1>1 DEF Typed, AuthInv, BaseInv, TypeOK, Step, redis
<1>3. /\ \A d \in Calls : Mailed(d)' <=> Mailed(d) \/ d = t
      /\ \A d \in Calls : ResetMailed(d)' <=> ResetMailed(d)
      /\ \A u : Row(u)' <=> Row(u)
  BY <1>1, NoneIsNoRow DEF Mailed, ResetMailed, Row
<1>4. \A d \in Calls : Mailed(d) => emailTokens'[d].user = emailTokens[d].user
  BY <1>1 DEF Mailed
<1>5. Grows
  BY <1>3, <1>4 DEF Grows, Step, Mailed
<1>6. /\ \A d \in Calls \ {c} : Mailed(d)' => Mailed(d)
      /\ \A d \in Calls \ {c} : ResetMailed(d)' => ResetMailed(d)
  BY <1>3
<1>7. Mailed(c)' => Row(emailTokens[c].user)'
  BY <1>1, <1>3, <1>4 DEF AuthInv, BaseInv, OwnRows
<1>8. ResetMailed(c)' => Row(resetTokens[c].user)'
  BY <1>3 DEF AuthInv, BaseInv, OwnRows
<1>. QED  BY <1>2, <1>5, <1>6, <1>7, <1>8, Writes DEF Step

LEMMA ResetTokenWrites ==
    ASSUME AuthInv, NEW c \in Calls, NEW p \in Phase, Step(c, p),
           UNCHANGED <<users, sessions, emailTokens>>,
           NEW t \in Calls, NEW r \in MailToken,
           resetTokens' = [resetTokens EXCEPT ![t] = r],
           \/ ResetMailed(t) /\ r.user = resetTokens[t].user
           \/ t = c /\ ~ResetMailed(c) /\ Row(r.user),
           InFlight(c),
           call[c].phase \notin {"announceLogin", "sign"},
           p \notin PastRow \union {"done"},
           Known(c, p)', Doom(c, p)
    PROVE  CallStep(c)
<1>1. resetTokens \in [Calls -> MailToken \union {None}]
  BY DEF AuthInv, BaseInv, TypeOK
<1>2. Typed'
  BY <1>1 DEF Typed, AuthInv, BaseInv, TypeOK, Step, redis
<1>3. /\ \A d \in Calls : ResetMailed(d)' <=> ResetMailed(d) \/ d = t
      /\ \A d \in Calls : Mailed(d)' <=> Mailed(d)
      /\ \A u : Row(u)' <=> Row(u)
  BY <1>1, NoneIsNoRow DEF Mailed, ResetMailed, Row
<1>4. \A d \in Calls : ResetMailed(d) => resetTokens'[d].user = resetTokens[d].user
  BY <1>1 DEF ResetMailed
<1>5. Grows
  BY <1>3, <1>4 DEF Grows, Step, ResetMailed
<1>6. /\ \A d \in Calls \ {c} : Mailed(d)' => Mailed(d)
      /\ \A d \in Calls \ {c} : ResetMailed(d)' => ResetMailed(d)
  BY <1>3
<1>7. ResetMailed(c)' => Row(resetTokens[c].user)'
  BY <1>1, <1>3, <1>4 DEF AuthInv, BaseInv, OwnRows
<1>8. Mailed(c)' => Row(emailTokens[c].user)'
  BY <1>3 DEF AuthInv, BaseInv, OwnRows
<1>. QED  BY <1>2, <1>5, <1>6, <1>7, <1>8, Writes DEF Step

LEMMA MailTokenWrites ==
    ASSUME AuthInv, NEW c \in Calls,
           \/ CreateEmailToken(c) \/ MarkEmailTokenUsed(c)
           \/ CreateResetToken(c) \/ MarkResetTokenUsed(c)
    PROVE  CallStep(c)
<1>1. CallInv(c) /\ now \in Nat
  BY DEF AuthInv, BaseInv, TypeOK
<1>2. CASE CreateEmailToken(c)
  <2>1. /\ call[c].phase = "emailToken"
        /\ call[c].op = "register"
        /\ Row(call[c].user)
        /\ ~Mailed(c)
    BY <1>1, <1>2 DEF CreateEmailToken, At, CallInv, Known, RegisterInv
  <2>2. InFlight(c) /\ call[c].phase \notin {"announceLogin", "sign"}
    BY <2>1 DEF InFlight, Answered
  <2>3. PICK u \in Users : u = call[c].user
    BY <2>1 DEF Row
  <2>4. PICK n \in Nat : n = now + EmailLife
    BY <1>1, AuthBoundsAssumption
  <2>5. PICK r : r = [user |-> u, expires |-> n, used |-> FALSE]
    OBVIOUS
  <2>6. r \in MailToken /\ r.user = u
    BY <2>5 DEF MailToken
  <2>7. emailTokens' = [emailTokens EXCEPT ![c] = r]
    BY <1>2, <2>3, <2>4, <2>5 DEF CreateEmailToken
  <2>8. call'[c].op = "register" /\ Mailed(c)'
    <3>1. call'[c].op = call[c].op /\ call'[c].token = call[c].token
      BY <1>2, Moves DEF CreateEmailToken, Step, Phase, AuthInv, BaseInv, TypeOK
    <3>2. Mailed(c)'
      BY <2>6, <2>7, NoneIsNoRow DEF Mailed, AuthInv, BaseInv, TypeOK
    <3>. QED  BY <2>1, <3>1, <3>2
  <2>9. Known(c, "announceUser")' /\ Doom(c, "announceUser")
    BY <2>8
    DEF Known, RegisterInv, LoginInv, RefreshInv, LogoutInv, ResetInv, UseInv, Doom
  <2>10. Row(r.user) /\ ~Mailed(c)
    BY <2>1, <2>3, <2>6
  <2>. QED
    BY <1>2, <2>2, <2>6, <2>7, <2>9, <2>10, EmailTokenWrites
    DEF CreateEmailToken, PastRow, Phase
<1>3. CASE MarkEmailTokenUsed(c)
  <2>1. /\ call[c].phase = "markEmail"
        /\ call[c].op = "verify"
        /\ Mailed(call[c].token)
    BY <1>1, <1>3 DEF MarkEmailTokenUsed, At, CallInv, Known, RegisterInv
  <2>2. InFlight(c) /\ call[c].phase \notin {"announceLogin", "sign"}
    BY <2>1 DEF InFlight, Answered
  <2>3. PICK t \in Calls : t = call[c].token
    BY <2>1 DEF Mailed
  <2>4. PICK w \in MailToken : w = emailTokens[t]
    BY <2>1, <2>3 DEF Mailed, AuthInv, BaseInv, TypeOK
  <2>5. PICK r : r = [w EXCEPT !.used = TRUE]
    OBVIOUS
  <2>6. r \in MailToken /\ r.user = w.user
    BY <2>5 DEF MailToken
  <2>7. emailTokens' = [emailTokens EXCEPT ![t] = r]
    BY <1>3, <2>3, <2>4, <2>5 DEF MarkEmailTokenUsed, AuthInv, BaseInv, TypeOK
  <2>8. call'[c].op = "verify" /\ call'[c].token = t /\ Mailed(t)'
    <3>1. call'[c].op = call[c].op /\ call'[c].token = call[c].token
      BY <1>3, Moves DEF MarkEmailTokenUsed, Step, Phase, AuthInv, BaseInv, TypeOK
    <3>2. Mailed(t)'
      BY <2>6, <2>7, NoneIsNoRow DEF Mailed, AuthInv, BaseInv, TypeOK
    <3>. QED  BY <2>1, <2>3, <3>1, <3>2
  <2>9. Known(c, "announceEmail")' /\ Doom(c, "announceEmail")
    BY <2>8
    DEF Known, RegisterInv, LoginInv, RefreshInv, LogoutInv, ResetInv, UseInv, Doom
  <2>. QED
    BY <1>3, <2>1, <2>2, <2>3, <2>4, <2>6, <2>7, <2>9, EmailTokenWrites
    DEF MarkEmailTokenUsed, PastRow, Phase
<1>4. CASE CreateResetToken(c)
  <2>1. /\ call[c].phase = "resetToken"
        /\ call[c].op = "forgot"
        /\ Row(call[c].user)
        /\ ~ResetMailed(c)
    BY <1>1, <1>4 DEF CreateResetToken, At, CallInv, Known, ResetInv
  <2>2. InFlight(c) /\ call[c].phase \notin {"announceLogin", "sign"}
    BY <2>1 DEF InFlight, Answered
  <2>3. PICK u \in Users : u = call[c].user
    BY <2>1 DEF Row
  <2>4. PICK n \in Nat : n = now + ResetLife
    BY <1>1, AuthBoundsAssumption
  <2>5. PICK r : r = [user |-> u, expires |-> n, used |-> FALSE]
    OBVIOUS
  <2>6. r \in MailToken /\ r.user = u
    BY <2>5 DEF MailToken
  <2>7. resetTokens' = [resetTokens EXCEPT ![c] = r]
    BY <1>4, <2>3, <2>4, <2>5 DEF CreateResetToken
  <2>8. call'[c].op = "forgot" /\ ResetMailed(c)'
    <3>1. call'[c].op = call[c].op /\ call'[c].token = call[c].token
      BY <1>4, Moves DEF CreateResetToken, Step, Phase, AuthInv, BaseInv, TypeOK
    <3>2. ResetMailed(c)'
      BY <2>6, <2>7, NoneIsNoRow DEF ResetMailed, AuthInv, BaseInv, TypeOK
    <3>. QED  BY <2>1, <3>1, <3>2
  <2>9. Known(c, "announceReset")' /\ Doom(c, "announceReset")
    BY <2>8
    DEF Known, RegisterInv, LoginInv, RefreshInv, LogoutInv, ResetInv, UseInv, Doom
  <2>10. Row(r.user) /\ ~ResetMailed(c)
    BY <2>1, <2>3, <2>6
  <2>. QED
    BY <1>4, <2>2, <2>6, <2>7, <2>9, <2>10, ResetTokenWrites
    DEF CreateResetToken, PastRow, Phase
<1>5. CASE MarkResetTokenUsed(c)
  <2>1. /\ call[c].phase = "markReset"
        /\ call[c].op = "reset"
        /\ ResetMailed(call[c].token)
        /\ call[c].user \in Users
    BY <1>1, <1>5 DEF MarkResetTokenUsed, At, CallInv, Known, ResetInv, Row
  <2>2. InFlight(c) /\ call[c].phase \notin {"announceLogin", "sign"}
    BY <2>1 DEF InFlight, Answered
  <2>3. PICK t \in Calls : t = call[c].token
    BY <2>1 DEF ResetMailed
  <2>4. PICK w \in MailToken : w = resetTokens[t]
    BY <2>1, <2>3 DEF ResetMailed, AuthInv, BaseInv, TypeOK
  <2>5. PICK r : r = [w EXCEPT !.used = TRUE]
    OBVIOUS
  <2>6. r \in MailToken /\ r.user = w.user
    BY <2>5 DEF MailToken
  <2>7. resetTokens' = [resetTokens EXCEPT ![t] = r]
    BY <1>5, <2>3, <2>4, <2>5 DEF MarkResetTokenUsed, AuthInv, BaseInv, TypeOK
  <2>8. call'[c].op = "reset" /\ call'[c].user \in Users
    BY <1>5, <2>1, Moves DEF MarkResetTokenUsed, Step, Phase, AuthInv, BaseInv, TypeOK
  <2>9. Known(c, "revokeAll")' /\ Doom(c, "revokeAll")
    BY <2>8
    DEF Known, RegisterInv, LoginInv, RefreshInv, LogoutInv, ResetInv, UseInv, Doom
  <2>. QED
    BY <1>5, <2>1, <2>2, <2>3, <2>4, <2>6, <2>7, <2>9, ResetTokenWrites
    DEF MarkResetTokenUsed, PastRow, Phase
<1>. QED  BY <1>2, <1>3, <1>4, <1>5

\* A step that writes sessions, access tokens or the blocklist.
LEMMA Acts ==
    ASSUME AuthInv, NEW c \in Calls, NEW k \in Call, call' = [call EXCEPT ![c] = k],
           UNCHANGED <<plan, now, users, emailTokens, resetTokens, barred, suspension,
                       bounds>>,
           InFlight(c), k.since = call[c].since,
           \A d \in Calls \ {c} : access'[d] = access[d],
           Grows, Typed', Blocks,
           Known(c, k.phase)', Doom(c, k.phase)',
           OwnRows(c)', LockStep(c), SessionStep(c)
    PROVE  CallStep(c)
<1>1. /\ call' \in [Calls -> Call]
      /\ call'[c] = k
      /\ \A d \in Calls \ {c} : call'[d] = call[d]
  BY DEF AuthInv, BaseInv, TypeOK
<1>2. /\ \A d : Mailed(d)' <=> Mailed(d)
      /\ \A d : ResetMailed(d)' <=> ResetMailed(d)
  BY DEF Mailed, ResetMailed
<1>3. failures' \in Nat /\ crashes' = crashes
  BY DEF bounds, AuthInv, BaseInv, TypeOK
<1>4. Alone(c)
  BY <1>1, <1>2, <1>3 DEF Alone, suspension, InFlight
<1>5. CallInv(c)'
  BY <1>1 DEF CallInv, InFlight, AuthInv, BaseInv
<1>6. DoomInv(c)'
  BY <1>1 DEF DoomInv
<1>. QED  BY <1>4, <1>5, <1>6 DEF CallStep

\* Sessions revoked, none inserted and none rotated.
LEMMA Revokes ==
    ASSUME AuthInv, NEW c \in Calls,
           NEW p \in {"refused", "announcePassword", "blocklist", "announceRevoked"},
           Step(c, p),
           UNCHANGED <<users, emailTokens, resetTokens>>,
           sessions' \in [Calls -> Session \union {None}],
           \A s \in Calls :
               /\ HasSession(s)' <=> HasSession(s)
               /\ HasSession(s) => /\ sessions'[s].token = sessions[s].token
                                   /\ sessions[s].revoked => sessions'[s].revoked,
           InFlight(c), call[c].phase \notin {"announceLogin", "sign"},
           p = "announcePassword" => call[c].op = "reset",
           p = "blocklist" => call[c].op = "logout" /\ Signed(call[c].bearer),
           p = "announceRevoked" => call[c].op \in {"logout", "revoke"}
    PROVE  CallStep(c)
<1>1. p \in Phase /\ p \notin PastRow \union {"done"}
  BY DEF Phase, Answered, PastRow
<1>2. PICK k \in Call : /\ call' = [call EXCEPT ![c] = k]
                        /\ call'[c] = k
                        /\ k.phase = p
                        /\ k.op = call[c].op
                        /\ k.bearer = call[c].bearer
                        /\ k.since = call[c].since
  BY <1>1, Moves DEF Step, AuthInv, BaseInv, TypeOK
<1>3. /\ \A a : Signed(a)' <=> Signed(a)
      /\ access' = access /\ blocked' = blocked /\ barred' = barred
      /\ \A u : Row(u)' <=> Row(u)
      /\ \A d : Mailed(d)' <=> Mailed(d)
      /\ \A d : ResetMailed(d)' <=> ResetMailed(d)
  BY DEF Step, redis, Signed, Row, Mailed, ResetMailed
<1>4. Grows /\ Blocks
  BY <1>3 DEF Grows, Blocks, HasSession
<1>5. Typed'
  BY <1>3 DEF Typed, AuthInv, BaseInv, TypeOK
<1>6. ~Signed(c) /\ ~Signed(c)'
  BY <1>3 DEF AuthInv, BaseInv, OwnRows, At, InFlight, Answered
<1>7. OwnRows(c)'
  BY <1>1, <1>2, <1>3, <1>6 DEF OwnRows, At, AuthInv, BaseInv
<1>8. LockStep(c)
  BY <1>1, <1>2, <1>6 DEF LockStep, Past
<1>9. SessionStep(c)
  BY <1>2, <1>6 DEF SessionStep, HasSession
<1>10. Known(c, p)' /\ Doom(c, p)'
  BY <1>2, <1>3
  DEF Known, RegisterInv, LoginInv, RefreshInv, LogoutInv, ResetInv, UseInv, Doom
<1>. QED  BY <1>2, <1>3, <1>4, <1>5, <1>7, <1>8, <1>9, <1>10, Acts DEF Step

LEMMA RevokesAll ==
    ASSUME sessions \in [Calls -> Session \union {None}], NEW u, RevokeSessionsOf(u)
    PROVE  /\ sessions' \in [Calls -> Session \union {None}]
           /\ \A s \in Calls :
               /\ HasSession(s)' <=> HasSession(s)
               /\ HasSession(s) => /\ sessions'[s].token = sessions[s].token
                                   /\ sessions'[s].user = sessions[s].user
                                   /\ sessions[s].revoked => sessions'[s].revoked
<1>1. ASSUME NEW s \in Calls
      PROVE  /\ sessions'[s] \in Session \union {None}
             /\ sessions'[s] # None <=> sessions[s] # None
             /\ sessions[s] # None => /\ sessions'[s].token = sessions[s].token
                                      /\ sessions'[s].user = sessions[s].user
                                      /\ sessions[s].revoked => sessions'[s].revoked
  <2>1. CASE sessions[s] # None /\ sessions[s].user = u
    <3>1. PICK w \in Session : w = sessions[s]
      BY <2>1
    <3>2. PICK r : r = [w EXCEPT !.revoked = TRUE]
      OBVIOUS
    <3>3. r \in Session /\ r.token = w.token /\ r.user = w.user
      BY <3>2 DEF Session
    <3>4. r.revoked
      BY <3>2, Zenon DEF Session
    <3>5. sessions'[s] = r
      BY <2>1, <3>1, <3>2 DEF RevokeSessionsOf
    <3>. QED  BY <3>1, <3>3, <3>4, <3>5, NoneIsNoRow
  <2>2. CASE ~(sessions[s] # None /\ sessions[s].user = u)
    BY <2>2 DEF RevokeSessionsOf
  <2>. QED  BY <2>1, <2>2
<1>2. sessions' \in [Calls -> Session \union {None}]
  BY <1>1 DEF RevokeSessionsOf
<1>. QED  BY <1>1, <1>2 DEF HasSession

LEMMA RevokesOne ==
    ASSUME sessions \in [Calls -> Session \union {None}], NEW s \in Calls, HasSession(s),
           sessions' = [sessions EXCEPT ![s].revoked = TRUE]
    PROVE  /\ sessions' \in [Calls -> Session \union {None}]
           /\ \A d \in Calls :
               /\ HasSession(d)' <=> HasSession(d)
               /\ HasSession(d) => /\ sessions'[d].token = sessions[d].token
                                   /\ sessions[d].revoked => sessions'[d].revoked
<1>1. PICK w \in Session : w = sessions[s]
  BY DEF HasSession
<1>2. PICK r : r = [w EXCEPT !.revoked = TRUE]
  OBVIOUS
<1>3. r \in Session /\ r.token = w.token
  BY <1>2 DEF Session
<1>4. r.revoked
  BY <1>2, Zenon DEF Session
<1>5. sessions' = [sessions EXCEPT ![s] = r]
  BY <1>1, <1>2
<1>. QED  BY <1>1, <1>3, <1>4, <1>5, NoneIsNoRow DEF HasSession

LEMMA SessionsRevoked ==
    ASSUME AuthInv, NEW c \in Calls,
           RevokeAllUserSessions(c) \/ RevokeExpired(c) \/ RevokeSession(c)
    PROVE  CallStep(c)
<1>1. CallInv(c) /\ sessions \in [Calls -> Session \union {None}]
  BY DEF AuthInv, BaseInv, TypeOK
<1>2. CASE RevokeAllUserSessions(c)
  <2>1. call[c].phase = "revokeAll"
    BY <1>2 DEF RevokeAllUserSessions, At
  <2>2. InFlight(c) /\ call[c].phase \notin {"announceLogin", "sign"}
    BY <2>1 DEF InFlight, Answered
  <2>3. PICK p \in {"announcePassword", "refused"} :
            p = IF call[c].op = "reset" THEN "announcePassword" ELSE "refused"
    OBVIOUS
  <2>4. Step(c, p) /\ (p = "announcePassword" => call[c].op = "reset")
    BY <1>2, <2>3 DEF RevokeAllUserSessions
  <2>. QED  BY <1>1, <1>2, <2>2, <2>4, RevokesAll, Revokes DEF RevokeAllUserSessions
<1>3. CASE RevokeExpired(c)
  <2>1. call[c].phase = "revokeExpired" /\ HasSession(call[c].session)
    BY <1>1, <1>3 DEF RevokeExpired, At, CallInv, Known, RefreshInv
  <2>2. InFlight(c) /\ call[c].phase \notin {"announceLogin", "sign"}
    BY <2>1 DEF InFlight, Answered
  <2>3. PICK s \in Calls : s = call[c].session
    BY <2>1 DEF HasSession
  <2>. QED  BY <1>1, <1>3, <2>1, <2>2, <2>3, RevokesOne, Revokes DEF RevokeExpired
<1>4. CASE RevokeSession(c)
  <2>1. /\ call[c].phase = "revokeSession"
        /\ call[c].op \in {"logout", "revoke"}
        /\ HasSession(call[c].session)
        /\ call[c].op = "logout" => Signed(call[c].bearer)
    BY <1>1, <1>4 DEF RevokeSession, At, CallInv, Known, LogoutInv
  <2>2. InFlight(c) /\ call[c].phase \notin {"announceLogin", "sign"}
    BY <2>1 DEF InFlight, Answered
  <2>3. PICK s \in Calls : s = call[c].session
    BY <2>1 DEF HasSession
  <2>4. PICK p \in {"blocklist", "announceRevoked"} :
            p = IF call[c].op = "logout" THEN "blocklist" ELSE "announceRevoked"
    OBVIOUS
  <2>5. Step(c, p) /\ (p = "blocklist" => call[c].op = "logout")
    BY <1>4, <2>4 DEF RevokeSession
  <2>. QED
    BY <1>1, <1>4, <2>1, <2>2, <2>3, <2>5, RevokesOne, Revokes DEF RevokeSession
<1>. QED  BY <1>2, <1>3, <1>4

\* A session written with c's own token, by its insert or its rotation.
LEMMA SessionHeld ==
    ASSUME AuthInv, NEW c \in Calls, NEW s \in Calls, NEW k \in Call,
           call' = [call EXCEPT ![c] = k],
           UNCHANGED <<plan, now, access, redis, suspension, bounds>>,
           UNCHANGED <<users, emailTokens, resetTokens>>,
           NEW r \in Session, sessions' = [sessions EXCEPT ![s] = r], r.token = c,
           k.op = call[c].op, k.user = call[c].user, k.since = call[c].since,
           k.doomed = call[c].doomed, k.session = s,
           Row(call[c].user),
           \/ /\ At(c, "startSession") /\ k.phase = "announceLogin"
              /\ s = c /\ call[c].op = "login"
           \/ /\ At(c, "rotate") /\ k.phase = "sign"
              /\ HasSession(s) /\ call[c].op = "refresh" /\ ~call[c].doomed
    PROVE  CallStep(c)
<1>1. /\ call'[c] = k
      /\ sessions \in [Calls -> Session \union {None}]
      /\ k.phase \in PastRow
      /\ k.phase # "done"
      /\ InFlight(c)
      /\ Past(c)
  BY DEF AuthInv, BaseInv, TypeOK, PastRow, Past, InFlight, Answered, At
<1>2. /\ \A a : Signed(a)' <=> Signed(a)
      /\ access' = access /\ blocked' = blocked /\ barred' = barred
      /\ \A u : Row(u)' <=> Row(u)
      /\ \A d : Mailed(d)' <=> Mailed(d)
      /\ \A d : ResetMailed(d)' <=> ResetMailed(d)
  BY DEF redis, Signed, Row, Mailed, ResetMailed
<1>3. \A d \in Calls : /\ HasSession(d) => HasSession(d)'
                       /\ d # s => sessions'[d] = sessions[d]
  BY <1>1, NoneIsNoRow DEF HasSession
<1>4. HasSession(s)' /\ sessions'[s].token = c
  BY <1>1, NoneIsNoRow DEF HasSession
<1>5. Grows /\ Blocks
  BY <1>2, <1>3 DEF Grows, Blocks, HasSession
<1>6. Typed'
  BY <1>1, <1>2 DEF Typed, AuthInv, BaseInv, TypeOK
<1>7. ~Signed(c) /\ ~Signed(c)'
  BY <1>1, <1>2 DEF AuthInv, BaseInv, OwnRows, At, InFlight, Answered
<1>8. OwnRows(c)'
  BY <1>1, <1>2, <1>7 DEF OwnRows, At, AuthInv, BaseInv
<1>9. LockStep(c)
  BY <1>1, <1>7 DEF LockStep
<1>10. SessionStep(c)
  <2>1. ASSUME NEW d \in Calls, HasSession(d)'
        PROVE  \/ /\ HasSession(d)
                  /\ sessions'[d].token = sessions[d].token
                  /\ sessions[d].revoked => sessions'[d].revoked
               \/ /\ Holds(d, c)'
                  /\ call'[c].session = d
                  /\ \/ d = c /\ At(c, "startSession") /\ At(c, "announceLogin")'
                     \/ /\ HasSession(d)
                        /\ At(c, "rotate")
                        /\ At(c, "sign")'
    <3>1. CASE d = s
      BY <1>1, <1>4, <3>1 DEF Holds, At
    <3>2. CASE d # s
      BY <1>3, <2>1, <3>2 DEF HasSession
    <3>. QED  BY <3>1, <3>2
  <2>2. call[c].phase \notin {"announceLogin", "sign"}
    BY DEF At
  <2>. QED  BY <1>1, <1>7, <2>1, <2>2 DEF SessionStep
<1>11. Known(c, k.phase)' /\ Doom(c, k.phase)'
  <2>1. CASE k.phase = "announceLogin" /\ call[c].op = "login"
    BY <1>1, <1>2, <1>4, <2>1
    DEF Known, RegisterInv, LoginInv, RefreshInv, LogoutInv, ResetInv, UseInv, Doom
  <2>2. CASE k.phase = "sign" /\ call[c].op = "refresh" /\ ~call[c].doomed
    <3>1. Known(c, k.phase)'
      BY <1>1, <1>2, <1>4, <2>2
      DEF Known, RegisterInv, LoginInv, RefreshInv, LogoutInv, ResetInv, UseInv
    <3>2. Doom(c, k.phase)'
      BY <1>1, <2>2 DEF Doom
    <3>. QED  BY <3>1, <3>2
  <2>. QED  BY <2>1, <2>2
<1>. QED  BY <1>1, <1>2, <1>5, <1>6, <1>8, <1>9, <1>10, <1>11, Acts DEF redis

LEMMA StartSessionHeld ==
    ASSUME AuthInv, NEW c \in Calls, StartSession(c)
    PROVE  CallStep(c)
<1>1. CallInv(c) /\ now \in Nat
  BY DEF AuthInv, BaseInv, TypeOK
<1>2. call[c].phase = "startSession" /\ call[c].op = "login" /\ Row(call[c].user)
  BY <1>1 DEF StartSession, At, CallInv, Known, LoginInv
<1>3. PICK j \in Call : j = call[c]
  BY DEF AuthInv, BaseInv, TypeOK
<1>4. PICK k : k = [j EXCEPT !.phase = "announceLogin", !.session = c]
  OBVIOUS
<1>5. k \in Call
  BY <1>4 DEF Call, Phase
<1>6. k.phase = "announceLogin" /\ k.session = c /\ k.op = j.op
  BY <1>4 DEF Call
<1>7. k.user = j.user /\ k.since = j.since
  BY <1>4 DEF Call
<1>8. k.doomed = j.doomed
  BY <1>4, Zenon DEF Call
<1>9. call' = [call EXCEPT ![c] = k]
  BY <1>3, <1>4 DEF StartSession, AuthInv, BaseInv, TypeOK
<1>10. PICK u \in Users : u = call[c].user
  BY <1>2 DEF Row
<1>11. PICK n \in Nat : n = now + RefreshLife
  BY <1>1, AuthBoundsAssumption
<1>12. PICK r : r = [user |-> u, token |-> c, revoked |-> FALSE, expires |-> n]
  OBVIOUS
<1>13. r \in Session /\ r.token = c
  BY <1>12 DEF Session
<1>14. sessions' = [sessions EXCEPT ![c] = r]
  BY <1>10, <1>11, <1>12 DEF StartSession
<1>15. UNCHANGED <<plan, now, access, redis, suspension, bounds>>
  BY DEF StartSession
<1>16. UNCHANGED <<users, emailTokens, resetTokens>>
  BY DEF StartSession
<1>17. At(c, "startSession")
  BY DEF StartSession
<1>18. /\ k.op = call[c].op /\ k.user = call[c].user /\ k.since = call[c].since
       /\ k.doomed = call[c].doomed
  BY <1>3, <1>6, <1>7, <1>8
<1>. QED
  BY <1>2, <1>5, <1>6, <1>9, <1>13, <1>14, <1>15, <1>16, <1>17, <1>18, SessionHeld

LEMMA RotateSessionHeld ==
    ASSUME AuthInv, NEW c \in Calls, RotateSession(c)
    PROVE  CallStep(c)
<1>1. CallInv(c) /\ DoomInv(c) /\ now \in Nat
  BY DEF AuthInv, BaseInv, RevokeInv, TypeOK
<1>2. /\ call[c].phase = "rotate"
      /\ call[c].op = "refresh"
      /\ Row(call[c].user)
      /\ HasSession(call[c].session)
      /\ ~call[c].doomed
  BY <1>1 DEF RotateSession, At, CallInv, Known, RefreshInv, DoomInv, Doom
<1>3. PICK s \in Calls : s = call[c].session
  BY <1>2 DEF HasSession
<1>4. PICK k \in Call : /\ call' = [call EXCEPT ![c] = k]
                        /\ k.phase = "sign"
                        /\ k.op = call[c].op
                        /\ k.user = call[c].user
                        /\ k.session = call[c].session
                        /\ k.since = call[c].since
                        /\ k.doomed = call[c].doomed
  BY Moves DEF RotateSession, Step, Phase, AuthInv, BaseInv, TypeOK
<1>5. PICK w \in Session : w = sessions[s]
  BY <1>2, <1>3 DEF HasSession, AuthInv, BaseInv, TypeOK
<1>6. PICK n \in Nat : n = now + RefreshLife
  BY <1>1, AuthBoundsAssumption
<1>7. PICK r : r = [w EXCEPT !.token = c, !.expires = n]
  OBVIOUS
<1>8. r \in Session /\ r.token = c
  BY <1>7 DEF Session
<1>9. sessions' = [sessions EXCEPT ![s] = r]
  BY <1>3, <1>5, <1>6, <1>7 DEF RotateSession, Rotated
<1>. QED
  BY <1>2, <1>3, <1>4, <1>8, <1>9, SessionHeld DEF RotateSession, Step, At

\* The access token of a login or of a refresh, which answers the call.
LEMMA Signs ==
    ASSUME AuthInv, NEW c \in Calls, FinishLogin(c) \/ FinishRefresh(c)
    PROVE  CallStep(c)
<1>1. CallInv(c) /\ now \in Nat /\ access \in [Calls -> AccessToken \union {None}]
  BY DEF AuthInv, BaseInv, TypeOK
<1>2. /\ call[c].phase \in {"announceLogin", "sign"}
      /\ call[c].op \in {"login", "refresh"}
      /\ Row(call[c].user)
      /\ HasSession(call[c].session)
  BY <1>1 DEF FinishLogin, FinishRefresh, At, CallInv, Known, LoginInv, RefreshInv
<1>3. /\ GenerateAccessToken(c)
      /\ Go(c, "done")
      /\ UNCHANGED <<plan, now, tables, redis, suspension, bounds>>
  BY DEF FinishLogin, FinishRefresh
<1>4. PICK k \in Call : /\ call' = [call EXCEPT ![c] = k]
                        /\ call'[c] = k
                        /\ k.phase = "done"
                        /\ k.op = call[c].op
                        /\ k.user = call[c].user
                        /\ k.session = call[c].session
                        /\ k.since = call[c].since
  BY <1>3, Moves DEF Phase, Answered, AuthInv, BaseInv, TypeOK
<1>5. PICK u \in Users, s \in Calls : u = call[c].user /\ s = call[c].session
  BY <1>2 DEF Row, HasSession
<1>6. PICK e \in Nat : e = now + AccessLife
  BY <1>1, AuthBoundsAssumption
<1>7. PICK r : r = [user |-> u, session |-> s, exp |-> e]
  OBVIOUS
<1>8. r \in AccessToken /\ r.user = u /\ r.session = s /\ r.exp = e
  BY <1>7 DEF AccessToken
<1>9. access' = [access EXCEPT ![c] = r]
  BY <1>3, <1>5, <1>6, <1>7 DEF GenerateAccessToken
<1>10. access'[c] = r /\ Signed(c)' /\ \A d \in Calls \ {c} : access'[d] = access[d]
  BY <1>1, <1>8, <1>9, NoneIsNoRow DEF Signed
<1>11. InFlight(c) /\ Past(c) /\ ~Signed(c)
  BY <1>2 DEF InFlight, Answered, Past, PastRow, AuthInv, BaseInv, OwnRows, At
<1>12. /\ users' = users /\ sessions' = sessions /\ emailTokens' = emailTokens
       /\ resetTokens' = resetTokens /\ blocked' = blocked /\ barred' = barred
  BY <1>3 DEF tables, redis
<1>13. /\ \A v : Row(v)' <=> Row(v)
       /\ \A d : HasSession(d)' <=> HasSession(d)
       /\ \A d : Mailed(d)' <=> Mailed(d)
       /\ \A d : ResetMailed(d)' <=> ResetMailed(d)
  BY <1>12 DEF Row, HasSession, Mailed, ResetMailed
<1>14. Grows /\ Blocks
  BY <1>10, <1>11, <1>12 DEF Grows, Blocks, Signed
<1>15. Typed'
  BY <1>1, <1>8, <1>9, <1>12 DEF Typed, AuthInv, BaseInv, TypeOK
<1>16. OwnRows(c)'
  <2>1. e <= now' + AccessLife
    BY <1>1, <1>3, <1>6, AuthBoundsAssumption
  <2>2. OwnRows(c)
    BY DEF AuthInv, BaseInv
  <2>. QED
    BY <1>2, <1>4, <1>5, <1>8, <1>10, <1>12, <1>13, <2>1, <2>2 DEF OwnRows, At
<1>17. LockStep(c)
  BY <1>4, <1>5, <1>6, <1>8, <1>10, <1>11 DEF LockStep
<1>18. SessionStep(c)
  BY <1>4, <1>5, <1>8, <1>10, <1>12, <1>13 DEF SessionStep
<1>19. Known(c, k.phase)' /\ Doom(c, k.phase)'
  BY <1>2, <1>4
  DEF Known, RegisterInv, LoginInv, RefreshInv, LogoutInv, ResetInv, UseInv, Doom
<1>. QED
  BY <1>3, <1>4, <1>10, <1>11, <1>12, <1>14, <1>15, <1>16, <1>17, <1>18, <1>19, Acts

LEMMA BlocklistTokenActs ==
    ASSUME AuthInv, NEW c \in Calls, BlocklistToken(c)
    PROVE  CallStep(c)
<1>1. CallInv(c) /\ now \in Nat /\ blocked \in [Calls -> Nat]
  BY DEF AuthInv, BaseInv, TypeOK
<1>2. call[c].phase = "blocklist" /\ call[c].op = "logout" /\ Signed(call[c].bearer)
  BY <1>1 DEF BlocklistToken, At, CallInv, Known, LogoutInv
<1>3. PICK a \in Calls : a = call[c].bearer
  BY <1>2 DEF Signed
<1>4. PICK k \in Call : /\ call' = [call EXCEPT ![c] = k]
                        /\ call'[c] = k
                        /\ k.phase = "announceRevoked"
                        /\ k.op = call[c].op
                        /\ k.since = call[c].since
  BY Moves DEF BlocklistToken, Phase, AuthInv, BaseInv, TypeOK
<1>5. access[a].exp \in Nat
  BY <1>2, <1>3 DEF Signed, AuthInv, BaseInv, TypeOK, AccessToken
<1>6. PICK n \in {access[a].exp, blocked[a]} : blocked' = [blocked EXCEPT ![a] = n]
  BY <1>3 DEF BlocklistToken, BlockedUntil
<1>7. Blocks /\ blocked' \in [Calls -> Nat]
  BY <1>1, <1>2, <1>3, <1>5, <1>6 DEF Blocks
<1>8. UNCHANGED <<users, sessions, emailTokens, resetTokens, access>>
  BY DEF BlocklistToken, tables
<1>9. UNCHANGED tables
  BY DEF BlocklistToken
<1>10. Grows /\ Typed'
  BY <1>7, <1>8 DEF Grows, Typed, AuthInv, BaseInv, TypeOK
<1>11. InFlight(c) /\ ~Signed(c) /\ ~Signed(c)'
  BY <1>2, <1>8, <1>9, SameRows DEF InFlight, Answered, AuthInv, BaseInv, OwnRows, At
<1>12. OwnRows(c)'
  BY <1>4, <1>8, <1>9, <1>11, SameRows DEF OwnRows, At, AuthInv, BaseInv
<1>13. LockStep(c)
  BY <1>4, <1>11 DEF LockStep, Past, PastRow
<1>14. SessionStep(c)
  BY <1>2, <1>4, <1>8, <1>9, <1>11, SameRows DEF SessionStep
<1>15. Known(c, k.phase)' /\ Doom(c, k.phase)'
  BY <1>2, <1>4
  DEF Known, RegisterInv, LoginInv, RefreshInv, LogoutInv, ResetInv, UseInv, Doom
<1>. QED
  BY <1>4, <1>7, <1>8, <1>10, <1>11, <1>12, <1>13, <1>14, <1>15, Acts
  DEF BlocklistToken

LEMMA CallActs ==
    ASSUME AuthInv, NEW c \in Calls,
           \/ Register(c) \/ VerifyEmail(c) \/ Login(c) \/ Refresh(c) \/ Logout(c)
           \/ ResetPassword(c) \/ Use(c) \/ Fail(c)
    PROVE  CallStep(c)
<1>1. CASE Register(c)
  BY <1>1, MailBegins, RegisterWalks, CreateUserWrites, MailTokenWrites DEF Register
<1>2. CASE VerifyEmail(c)
  BY <1>2, MailBegins, VerifyWalks, SetEmailVerifiedWrites, MailTokenWrites
  DEF VerifyEmail
<1>3. CASE Login(c)
  BY <1>3, MailBegins, FindUserNotes, LoginWalks, ReadCountNotes, RowWrites,
     StartSessionHeld, Signs DEF Login
<1>4. CASE Refresh(c)
  BY <1>4, RefreshBegins, FindByTokenHashNotes, SessionsRevoked, RefreshWalks,
     RotateSessionHeld, Signs DEF Refresh
<1>5. CASE Logout(c)
  BY <1>5, LogoutBegins, FindCookieNotes, RevokeBegins, LogoutWalks,
     SessionsRevoked, BlocklistTokenActs DEF Logout
<1>6. CASE ResetPassword(c)
  BY <1>6, MailBegins, ResetWalks, MailTokenWrites, RowWrites, SessionsRevoked
  DEF ResetPassword
<1>7. CASE Use(c)
  BY <1>7, UseBegins, UseWalks DEF Use
<1>8. CASE Fail(c)
  BY <1>8, FailWalks
<1>. QED  BY <1>1, <1>2, <1>3, <1>4, <1>5, <1>6, <1>7, <1>8
-----------------------------------------------------------------------------
\* The steps of the consumer, of its broker and of the clock.
LEMMA PublishSuspensionKeeps ==
    ASSUME AuthInv, NEW c \in Calls, PublishSuspension(c)
    PROVE  AuthInv'
<1>1. PICK u \in Users :
          /\ call[c].phase = "start"
          /\ users[u] # None
          /\ call' = [call EXCEPT ![c] = [Fresh EXCEPT !.op = "suspend",
                                                      !.phase = "done", !.user = u]]
          /\ queue' = queue \union {c}
          /\ UNCHANGED <<plan, now, tables, access, redis, consumer, acked, dead, bounds>>
  BY DEF PublishSuspension, At
<1>2. PICK k : k = [Fresh EXCEPT !.op = "suspend", !.phase = "done", !.user = u]
  OBVIOUS
<1>3. k \in Call /\ k.op = "suspend" /\ k.phase = "done" /\ k.user = u
  BY <1>2, FreshCall DEF Call, Op, Phase, Answered
<1>4. /\ call' \in [Calls -> Call]
      /\ call'[c] = k
      /\ \A d \in Calls \ {c} : call'[d] = call[d]
  BY <1>1, <1>2, <1>3 DEF AuthInv, BaseInv, TypeOK
<1>5. /\ UNCHANGED <<plan, now, tables, access, redis, consumer, acked, dead, bounds>>
      /\ UNCHANGED <<now, users, sessions, emailTokens, resetTokens, access, blocked, barred>>
  BY <1>1 DEF tables, redis
<1>6. /\ \A v : Row(v)' <=> Row(v)
      /\ \A s : HasSession(s)' <=> HasSession(s)
      /\ \A t : Mailed(t)' <=> Mailed(t)
      /\ \A t : ResetMailed(t)' <=> ResetMailed(t)
      /\ \A a : Signed(a)' <=> Signed(a)
  BY <1>5, SameRows
<1>7. TypeOK'
  BY <1>1, <1>4, <1>5 DEF AuthInv, BaseInv, TypeOK, bounds
<1>8. ~Signed(c) /\ CallInv(c) /\ OwnRows(c)
  BY <1>1 DEF AuthInv, BaseInv, OwnRows, At
<1>9. ASSUME NEW d \in Calls PROVE CallInv(d)' /\ OwnRows(d)'
  <2>1. CASE d = c
    <3>1. CallInv(c)'
      BY <1>3, <1>4
      DEF CallInv, Known, RegisterInv, LoginInv, RefreshInv, LogoutInv, ResetInv,
          UseInv,
          InFlight, Answered
    <3>2. OwnRows(c)'
      BY <1>3, <1>4, <1>5, <1>6, <1>8 DEF OwnRows, At
    <3>. QED  BY <2>1, <3>1, <3>2
  <2>2. CASE d # c
    <3>1. call'[d] = call[d] /\ CallInv(d) /\ OwnRows(d)
      BY <1>4, <2>2 DEF AuthInv, BaseInv
    <3>2. Known(d, call[d].phase)'
      BY <1>5, <1>6, <3>1
      DEF CallInv, Known, RegisterInv, LoginInv, RefreshInv, LogoutInv, ResetInv, UseInv
    <3>3. CallInv(d)'
      BY <1>5, <3>1, <3>2 DEF CallInv, InFlight
    <3>4. OwnRows(d)'
      BY <1>5, <1>6, <3>1 DEF OwnRows, At
    <3>. QED  BY <3>3, <3>4
  <2>. QED  BY <2>1, <2>2
<1>10. ASSUME NEW d, Suspends(d)
       PROVE  Suspends(d)' /\ call'[d] = call[d]
  <2>1. d \in Calls \ {c} /\ call'[d] = call[d]
    BY <1>1, <1>4, <1>10 DEF Suspends, At
  <2>. QED  BY <1>6, <1>10, <2>1 DEF Suspends, At
<1>11. Suspends(c)'
  BY <1>1, <1>3, <1>4, <1>6 DEF Suspends, At, Row
<1>12. SuspensionInv'
  <2>1. consumer.phase # "idle" => Suspends(consumer.event)' /\ Target' = Target
    BY <1>5, <1>10 DEF AuthInv, BaseInv, SuspensionInv, Target
  <2>2. consumer.phase \in {"revoke", "bar", "ack"} => Target' = Target
    BY <2>1
  <2>3. \A d \in queue' \union acked' : Suspends(d)'
    BY <1>1, <1>5, <1>10, <1>11 DEF AuthInv, BaseInv, SuspensionInv
  <2>. QED  BY <1>5, <2>1, <2>2, <2>3 DEF AuthInv, BaseInv, SuspensionInv
<1>13. \A v \in Users : LockedOut(v) => LockedOut(v)'
  <2>1. \A d \in Calls : Past(d)' => Past(d) /\ call'[d] = call[d]
    BY <1>3, <1>4 DEF Past, PastRow
  <2>. QED  BY <1>5, <1>6, <2>1 DEF LockedOut
<1>14. LockInv'
  <2>1. ASSUME NEW d \in acked PROVE LockedOut(call[d].user)'
    <3>1. Suspends(d) /\ call'[d] = call[d] /\ call[d].user \in Users
      BY <1>10 DEF AuthInv, BaseInv, SuspensionInv, Suspends, Row
    <3>2. PICK v \in Users : v = call[d].user
      BY <3>1
    <3>3. LockedOut(v)'
      BY <1>13, <3>2 DEF AuthInv, LockInv
    <3>. QED  BY <3>1, <3>2, <3>3
  <2>2. ASSUME consumer.phase = "ack" PROVE LockedOut(Target)'
    <3>1. Suspends(consumer.event) /\ call'[consumer.event] = call[consumer.event]
      BY <1>10, <2>2 DEF AuthInv, BaseInv, SuspensionInv
    <3>2. Target' = Target /\ Target \in Users
      BY <1>5, <3>1 DEF Target, Suspends, Row
    <3>3. PICK v \in Users : v = Target
      BY <3>2
    <3>4. LockedOut(v)'
      BY <1>13, <2>2, <3>3 DEF AuthInv, LockInv
    <3>. QED  BY <3>2, <3>3, <3>4
  <2>. QED  BY <1>5, <2>1, <2>2 DEF LockInv
<1>15. SessionInv'
  <2>1. ASSUME NEW s \in Calls, HasSession(s)
        PROVE  /\ call'[s] = call[s]
               /\ call'[sessions[s].token] = call[sessions[s].token]
    BY <1>1, <1>4, <2>1 DEF AuthInv, BaseInv, TypeOK, Session, HasSession, SessionInv
  <2>2. \A a \in Calls : Signed(a) => call'[a] = call[a]
    BY <1>4, <1>8
  <2>. QED  BY <1>5, <1>6, <2>1, <2>2 DEF AuthInv, SessionInv
<1>16. RevokeInv'
  <2>1. \A d \in Calls : DoomInv(d)'
    <3>1. DoomInv(c)'
      BY <1>3, <1>4 DEF DoomInv, Doom
    <3>2. ASSUME NEW d \in Calls \ {c} PROVE DoomInv(d)'
      BY <1>4, <1>5 DEF AuthInv, RevokeInv, DoomInv, Doom, Stale
    <3>. QED  BY <3>1, <3>2
  <2>. QED  BY <1>5, <1>6, <2>1 DEF AuthInv, RevokeInv
<1>. QED  BY <1>7, <1>9, <1>12, <1>14, <1>15, <1>16 DEF AuthInv, BaseInv

\* What the consumer and the broker leave to the calls.
LEMMA Apart ==
    ASSUME AuthInv,
           UNCHANGED <<now, emailTokens, resetTokens, access, blocked, call>>,
           \A u : Row(u)' <=> Row(u),
           \A s \in Calls :
               /\ HasSession(s)' <=> HasSession(s)
               /\ HasSession(s) => /\ sessions'[s].token = sessions[s].token
                                   /\ sessions[s].revoked => sessions'[s].revoked
    PROVE  /\ \A c \in Calls : CallInv(c)' /\ OwnRows(c)'
           /\ SessionInv'
           /\ RevokeInv'
<1>1. /\ \A t : Mailed(t)' <=> Mailed(t)
      /\ \A t : ResetMailed(t)' <=> ResetMailed(t)
      /\ \A a : Signed(a)' <=> Signed(a)
      /\ \A s : HasSession(s)' <=> HasSession(s)
  BY DEF Mailed, ResetMailed, Signed, HasSession
<1>2. ASSUME NEW c \in Calls PROVE CallInv(c)' /\ OwnRows(c)'
  <2>1. CallInv(c) /\ OwnRows(c)
    BY DEF AuthInv, BaseInv
  <2>2. Known(c, call[c].phase)'
    BY <1>1, <2>1
    DEF CallInv, Known, RegisterInv, LoginInv, RefreshInv, LogoutInv, ResetInv, UseInv
  <2>3. CallInv(c)'
    BY <2>1, <2>2 DEF CallInv, InFlight
  <2>4. OwnRows(c)'
    BY <1>1, <2>1 DEF OwnRows, At
  <2>. QED  BY <2>3, <2>4
<1>3. SessionInv'
  BY <1>1 DEF AuthInv, SessionInv
<1>4. ASSUME NEW c \in Calls PROVE DoomInv(c)'
  <2>1. CallInv(c) /\ DoomInv(c)
    BY DEF AuthInv, BaseInv, RevokeInv
  <2>2. ASSUME call[c].doomed, call[c].phase = "hashLookup" PROVE Stale(call[c].token)'
    <3>1. PICK t : t = call[c].token
      OBVIOUS
    <3>2. Signed(t) /\ Stale(t)
      BY <2>1, <2>2, <3>1 DEF DoomInv, Doom, CallInv, Known, RefreshInv
    <3>3. PICK s : s = access[t].session
      OBVIOUS
    <3>4. HasSession(s)
      BY <3>2, <3>3 DEF AuthInv, BaseInv, OwnRows, Signed
    <3>5. sessions[s].token # t \/ sessions[s].revoked
      BY <3>2, <3>3 DEF Stale
    <3>6. sessions'[s].token # t \/ sessions'[s].revoked
      BY <3>4, <3>5 DEF HasSession
    <3>. QED  BY <3>1, <3>3, <3>6 DEF Stale
  <2>. QED  BY <2>1, <2>2 DEF DoomInv, Doom
<1>5. RevokeInv'
  BY <1>1, <1>4 DEF AuthInv, RevokeInv
<1>. QED  BY <1>2, <1>3, <1>5

LEMMA ConsumerPhases ==
    ASSUME AuthInv, consumer # Idle
    PROVE  /\ consumer.phase # "idle"
           /\ consumer.event \in Calls
           /\ Suspends(consumer.event)
           /\ Target \in Users /\ users[Target] # None
  BY DEF AuthInv, BaseInv, SuspensionInv, Suspends, Row, Target

\* A step that moves the suspension's message and nothing else.
LEMMA MessageMoves ==
    ASSUME AuthInv,
           UNCHANGED <<plan, now, tables, access, redis, call>>,
           queue' \union acked' \subseteq {d \in Calls : Suspends(d)},
           dead' \subseteq Calls,
           failures' \in Nat, crashes' \in Nat,
           \/ consumer' = Idle
           \/ /\ consumer' \in [event : Calls, since : Nat, phase : {"suspend"}]
              /\ Suspends(consumer'.event),
           \A c \in acked' : LockedOut(call[c].user)
    PROVE  AuthInv'
<1>1. UNCHANGED <<now, users, sessions, emailTokens, resetTokens, access, blocked, barred, call>>
  BY DEF tables, redis
<1>2. /\ \A u : Row(u)' <=> Row(u)
      /\ \A s : HasSession(s)' <=> HasSession(s)
      /\ \A a : Signed(a)' <=> Signed(a)
  BY <1>1 DEF Row, HasSession, Signed
<1>3. consumer' \in [event : Calls \union {None}, since : Nat,
                     phase : {"idle", "suspend", "revoke", "bar", "ack"}]
  BY DEF Idle
<1>4. TypeOK'
  BY <1>1, <1>3 DEF AuthInv, BaseInv, TypeOK
<1>5. (\A c \in Calls : CallInv(c)' /\ OwnRows(c)') /\ SessionInv' /\ RevokeInv'
  BY <1>1, <1>2, Apart
<1>6. \A d : Suspends(d) => Suspends(d)'
  BY <1>1, <1>2 DEF Suspends, At
<1>7. consumer'.phase \in {"idle", "suspend"}
  BY DEF Idle
<1>8. SuspensionInv'
  BY <1>6, <1>7 DEF SuspensionInv, Idle
<1>9. \A u : LockedOut(u) => LockedOut(u)'
  BY <1>1, <1>2 DEF LockedOut, Past
<1>10. LockInv'
  BY <1>1, <1>7, <1>9 DEF LockInv
<1>. QED  BY <1>4, <1>5, <1>8, <1>10 DEF AuthInv, BaseInv

LEMMA ReceiveKeeps ==
    ASSUME AuthInv, Receive
    PROVE  AuthInv'
<1>1. PICK c \in queue :
          /\ consumer' = [event |-> c, since |-> now, phase |-> "suspend"]
          /\ queue' = queue \ {c}
          /\ UNCHANGED <<plan, now, tables, access, redis, call, acked, dead, bounds>>
  BY DEF Receive
<1>2. Suspends(c) /\ queue \union acked \subseteq {d \in Calls : Suspends(d)} /\ c \in Calls
  BY DEF AuthInv, BaseInv, SuspensionInv, TypeOK, Suspends
<1>3. /\ now \in Nat /\ dead \subseteq Calls /\ failures \in Nat /\ crashes \in Nat
      /\ \A d \in acked : LockedOut(call[d].user)
  BY DEF AuthInv, BaseInv, TypeOK, LockInv
<1>. QED  BY <1>1, <1>2, <1>3, MessageMoves DEF bounds

LEMMA AckKeeps ==
    ASSUME AuthInv, Ack
    PROVE  AuthInv'
<1>1. Suspends(consumer.event) /\ LockedOut(call[consumer.event].user)
  BY DEF Ack, AuthInv, BaseInv, SuspensionInv, LockInv, Target
<1>2. /\ queue \union acked \subseteq {d \in Calls : Suspends(d)}
      /\ dead \subseteq Calls /\ failures \in Nat /\ crashes \in Nat
      /\ \A d \in acked : LockedOut(call[d].user)
  BY DEF AuthInv, BaseInv, SuspensionInv, TypeOK, LockInv, Suspends
<1>3. queue' \union acked' \subseteq {d \in Calls : Suspends(d)}
  BY <1>1, <1>2 DEF Ack, Suspends
<1>. QED  BY <1>1, <1>2, <1>3, MessageMoves DEF Ack, bounds

LEMMA GivesUpKeeps ==
    ASSUME AuthInv, Nack \/ Crash
    PROVE  AuthInv'
<1>1. consumer.phase # "idle" /\ Suspends(consumer.event)
  BY DEF Nack, Crash, AuthInv, BaseInv, SuspensionInv
<1>2. /\ queue \union acked \subseteq {d \in Calls : Suspends(d)}
      /\ dead \subseteq Calls /\ failures \in Nat /\ crashes \in Nat
      /\ \A d \in acked : LockedOut(call[d].user)
  BY DEF AuthInv, BaseInv, SuspensionInv, TypeOK, LockInv, Suspends
<1>3. queue' \union acked' \subseteq {d \in Calls : Suspends(d)} /\ dead' \subseteq Calls
  BY <1>1, <1>2 DEF Nack, Crash, Suspends
<1>4. failures' \in Nat /\ crashes' \in Nat
  BY <1>2 DEF Nack, Crash
<1>. QED  BY <1>1, <1>2, <1>3, <1>4, MessageMoves DEF Nack, Crash

LEMMA SetSuspendedKeeps ==
    ASSUME AuthInv, SetSuspended
    PROVE  AuthInv'
<1>1. PICK u \in Users : u = Target /\ users[u] # None /\ Suspends(consumer.event)
  BY DEF SetSuspended, AuthInv, BaseInv, SuspensionInv, Suspends, Row, Target
<1>2. PICK w \in User : w = users[u]
  BY <1>1 DEF AuthInv, BaseInv, TypeOK
<1>3. PICK r : r = [w EXCEPT !.suspended = TRUE]
  OBVIOUS
<1>4. r \in User
  BY <1>3 DEF User
<1>5. r.suspended
  BY <1>3, Zenon DEF User
<1>6. /\ users' \in [Users -> User \union {None}]
      /\ users'[u] = r
      /\ \A v \in Users \ {u} : users'[v] = users[v]
  BY <1>1, <1>2, <1>3, <1>4 DEF SetSuspended, AuthInv, BaseInv, TypeOK
<1>7. UNCHANGED <<plan, now, sessions, emailTokens, resetTokens, access, blocked, barred,
                  call, queue, acked, dead, failures, crashes>>
  BY DEF SetSuspended, redis, bounds
<1>8. /\ \A v : Row(v)' <=> Row(v)
      /\ \A s : HasSession(s)' <=> HasSession(s)
      /\ \A a : Signed(a)' <=> Signed(a)
  BY <1>1, <1>4, <1>6, <1>7, NoneIsNoRow DEF Row, HasSession, Signed
<1>9. consumer' \in [event : Calls, since : Nat, phase : {"revoke"}]
      /\ consumer'.event = consumer.event
  BY <1>1 DEF SetSuspended, AuthInv, BaseInv, TypeOK, Suspends
<1>10. TypeOK'
  BY <1>6, <1>7, <1>9 DEF AuthInv, BaseInv, TypeOK
<1>11. (\A c \in Calls : CallInv(c)' /\ OwnRows(c)') /\ SessionInv' /\ RevokeInv'
  BY <1>7, <1>8, Apart
<1>12. \A d : Suspends(d) => Suspends(d)'
  BY <1>7, <1>8 DEF Suspends, At
<1>13. SuspensionInv'
  <2>1. users'[Target'].suspended
    BY <1>1, <1>5, <1>6, <1>7, <1>9 DEF Target
  <2>. QED
    BY <1>1, <1>7, <1>9, <1>12, <2>1 DEF AuthInv, BaseInv, SuspensionInv
<1>14. \A v \in Users : LockedOut(v) => LockedOut(v)'
  BY <1>5, <1>6, <1>7, <1>8 DEF LockedOut, Past
<1>15. LockInv'
  <2>1. \A c \in acked : call[c].user \in Users
    BY DEF AuthInv, BaseInv, SuspensionInv, Suspends, Row
  <2>. QED  BY <1>7, <1>9, <1>14, <2>1 DEF AuthInv, LockInv
<1>. QED  BY <1>10, <1>11, <1>13, <1>15 DEF AuthInv, BaseInv

LEMMA RevokeSuspendedKeeps ==
    ASSUME AuthInv, RevokeSuspended
    PROVE  AuthInv'
<1>1. Suspends(consumer.event) /\ users[Target].suspended
  BY DEF RevokeSuspended, AuthInv, BaseInv, SuspensionInv
<1>2. /\ sessions' \in [Calls -> Session \union {None}]
      /\ \A s \in Calls :
          /\ HasSession(s)' <=> HasSession(s)
          /\ HasSession(s) => /\ sessions'[s].token = sessions[s].token
                              /\ sessions'[s].user = sessions[s].user
                              /\ sessions[s].revoked => sessions'[s].revoked
  BY RevokesAll DEF RevokeSuspended, AuthInv, BaseInv, TypeOK
<1>3. UNCHANGED <<plan, now, users, emailTokens, resetTokens, access, blocked, barred,
                  call, queue, acked, dead, failures, crashes>>
  BY DEF RevokeSuspended, redis, bounds
<1>4. /\ \A v : Row(v)' <=> Row(v)
      /\ \A a : Signed(a)' <=> Signed(a)
  BY <1>3 DEF Row, Signed
<1>5. consumer' \in [event : Calls, since : Nat, phase : {"bar"}]
      /\ consumer'.event = consumer.event
  BY <1>1 DEF RevokeSuspended, AuthInv, BaseInv, TypeOK, Suspends
<1>6. TypeOK'
  BY <1>2, <1>3, <1>5 DEF AuthInv, BaseInv, TypeOK
<1>7. (\A c \in Calls : CallInv(c)' /\ OwnRows(c)') /\ SessionInv' /\ RevokeInv'
  BY <1>2, <1>3, <1>4, Apart
<1>8. \A d : Suspends(d) => Suspends(d)'
  BY <1>3, <1>4 DEF Suspends, At
<1>9. SuspensionInv'
  BY <1>1, <1>3, <1>5, <1>8 DEF AuthInv, BaseInv, SuspensionInv, Target
<1>10. \A v : LockedOut(v) => LockedOut(v)'
  BY <1>3, <1>4 DEF LockedOut, Past
<1>11. LockInv'
  BY <1>3, <1>5, <1>10 DEF AuthInv, LockInv
<1>. QED  BY <1>6, <1>7, <1>9, <1>11 DEF AuthInv, BaseInv

\* The key is set for longer than any token signed by now, or by a call that
\* has read the row, still has to live.
LEMMA BarKeeps ==
    ASSUME AuthInv, Bar
    PROVE  AuthInv'
<1>1. PICK u \in Users : u = Target
  BY DEF Bar, AuthInv, BaseInv, SuspensionInv, Suspends, Row, Target
<1>2. Suspends(consumer.event) /\ users[u].suspended
  BY <1>1 DEF Bar, AuthInv, BaseInv, SuspensionInv
<1>3. /\ now \in Nat /\ AccessLife \in Nat /\ SuspendedLife \in Nat
      /\ barred \in [Users -> Nat] /\ call \in [Calls -> Call]
  BY AuthBoundsAssumption DEF AuthInv, BaseInv, TypeOK
<1>4. PICK n \in Nat : n = now + SuspendedLife
  BY <1>3
<1>5. barred' = [barred EXCEPT ![u] = n]
  BY <1>1, <1>4 DEF Bar, BarredUntil
<1>6. UNCHANGED <<plan, now, users, sessions, emailTokens, resetTokens, access, blocked,
                  call, queue, acked, dead, failures, crashes>>
  BY DEF Bar, tables, bounds
<1>7. /\ \A v : Row(v)' <=> Row(v)
      /\ \A s : HasSession(s)' <=> HasSession(s)
      /\ \A a : Signed(a)' <=> Signed(a)
  BY <1>6 DEF Row, HasSession, Signed
<1>8. consumer' \in [event : Calls, since : Nat, phase : {"ack"}]
      /\ consumer'.event = consumer.event
  BY <1>2 DEF Bar, AuthInv, BaseInv, TypeOK, Suspends
<1>9. TypeOK'
  BY <1>3, <1>5, <1>6, <1>8 DEF AuthInv, BaseInv, TypeOK
<1>10. (\A c \in Calls : CallInv(c)' /\ OwnRows(c)') /\ SessionInv' /\ RevokeInv'
  BY <1>6, <1>7, Apart
<1>11. \A d : Suspends(d) => Suspends(d)'
  BY <1>6, <1>7 DEF Suspends, At
<1>12. SuspensionInv'
  BY <1>1, <1>2, <1>6, <1>8, <1>11 DEF AuthInv, BaseInv, SuspensionInv, Target
<1>13. LockedOut(u)'
  <2>1. ASSUME NEW a \in Calls, Signed(a) PROVE access[a].exp < n
    <3>1. access[a].exp \in Nat /\ access[a].exp <= now + AccessLife
      BY <2>1 DEF AuthInv, BaseInv, TypeOK, OwnRows, Signed, AccessToken
    <3>. QED  BY <1>3, <1>4, <3>1, SuspendedLifeAssumption
  <2>2. ASSUME NEW c \in Calls, Past(c) PROVE call[c].since + 1 + AccessLife < n
    <3>1. call[c].since \in Nat /\ call[c].since <= now
      BY <1>3, <2>2
      DEF AuthInv, BaseInv, CallInv, InFlight, Answered, Past, PastRow, Call
    <3>. QED  BY <1>3, <1>4, <3>1, SuspendedLifeAssumption
  <2>3. barred'[u] = n
    BY <1>3, <1>5
  <2>. QED  BY <1>2, <1>6, <1>7, <2>1, <2>2, <2>3 DEF LockedOut, Past
<1>14. \A v \in Users : LockedOut(v) => LockedOut(v)'
  <2>1. ASSUME NEW v \in Users \ {u}, LockedOut(v) PROVE LockedOut(v)'
    BY <1>3, <1>5, <1>6, <1>7, <2>1 DEF LockedOut, Past
  <2>. QED  BY <1>13, <2>1
<1>15. LockInv'
  <2>1. \A c \in acked : call[c].user \in Users
    BY DEF AuthInv, BaseInv, SuspensionInv, Suspends, Row
  <2>2. Target' = u
    BY <1>1, <1>6, <1>8 DEF Target
  <2>. QED  BY <1>6, <1>13, <1>14, <2>1, <2>2 DEF AuthInv, LockInv
<1>. QED  BY <1>9, <1>10, <1>12, <1>15 DEF AuthInv, BaseInv

LEMMA TickKeeps ==
    ASSUME AuthInv, Tick
    PROVE  AuthInv'
<1>1. /\ now \in Nat /\ now' = now + 1 /\ AccessLife \in Nat
      /\ \A c \in Calls : InFlight(c) => call[c].since = now
  BY AuthBoundsAssumption DEF Tick, AuthInv, BaseInv, TypeOK
<1>2. UNCHANGED <<plan, users, sessions, emailTokens, resetTokens, access, blocked,
                  barred, call, queue, consumer, acked, dead, failures, crashes>>
  BY DEF Tick, tables, redis, suspension, bounds
<1>3. /\ \A v : Row(v)' <=> Row(v)
      /\ \A s : HasSession(s)' <=> HasSession(s)
      /\ \A t : Mailed(t)' <=> Mailed(t)
      /\ \A t : ResetMailed(t)' <=> ResetMailed(t)
      /\ \A a : Signed(a)' <=> Signed(a)
  BY <1>2 DEF Row, HasSession, Mailed, ResetMailed, Signed
<1>4. TypeOK'
  BY <1>1, <1>2 DEF AuthInv, BaseInv, TypeOK
<1>5. ASSUME NEW c \in Calls PROVE CallInv(c)' /\ OwnRows(c)'
  <2>1. CallInv(c) /\ OwnRows(c)
    BY DEF AuthInv, BaseInv
  <2>2. Known(c, call[c].phase)'
    BY <1>2, <1>3, <2>1
    DEF CallInv, Known, RegisterInv, LoginInv, RefreshInv, LogoutInv, ResetInv, UseInv
  <2>3. InFlight(c)' => call'[c].since <= now' /\ now' <= call'[c].since + 1
    BY <1>1, <1>2 DEF InFlight
  <2>4. Signed(c) => access[c].exp <= now' + AccessLife
    <3>1. ASSUME Signed(c) PROVE access[c].exp \in Nat /\ access[c].exp <= now + AccessLife
      BY <2>1, <3>1 DEF OwnRows, AuthInv, BaseInv, TypeOK, Signed, AccessToken
    <3>. QED  BY <1>1, <3>1
  <2>5. OwnRows(c)'
    BY <1>2, <1>3, <2>1, <2>4 DEF OwnRows, At
  <2>. QED  BY <2>2, <2>3, <2>5 DEF CallInv
<1>6. SuspensionInv'
  BY <1>2, <1>3 DEF AuthInv, BaseInv, SuspensionInv, Suspends, At, Target
<1>7. LockInv'
  BY <1>2, <1>3 DEF AuthInv, LockInv, LockedOut, Past, Target
<1>8. SessionInv'
  BY <1>2, <1>3 DEF AuthInv, SessionInv
<1>9. ASSUME NEW c \in Calls PROVE DoomInv(c)'
  <2>1. CallInv(c) /\ DoomInv(c)
    BY DEF AuthInv, BaseInv, RevokeInv
  <2>2. ASSUME call[c].phase = "suspension", now >= access[call[c].bearer].exp
        PROVE  now' >= access[call[c].bearer].exp
    <3>1. access[call[c].bearer].exp \in Nat
      BY <2>1, <2>2
      DEF CallInv, Known, UseInv, Signed, AuthInv, BaseInv, TypeOK, AccessToken
    <3>. QED  BY <1>1, <2>2, <3>1
  <2>. QED  BY <1>2, <2>1, <2>2 DEF DoomInv, Doom, Stale
<1>10. RevokeInv'
  BY <1>2, <1>3, <1>9 DEF AuthInv, RevokeInv
<1>. QED  BY <1>4, <1>5, <1>6, <1>7, <1>8, <1>10 DEF AuthInv, BaseInv
-----------------------------------------------------------------------------
LEMMA InitKeeps == Init => AuthInv
<1>. SUFFICES ASSUME Init PROVE AuthInv
  OBVIOUS
<1>1. Owner \in Registered /\ Registered \subseteq Users /\ LoggedIn \in Calls
  BY AuthSetsAssumption DEF Owner
<1>2. Fresh \in Call /\ Fresh.phase = "start" /\ Fresh.op = None
  BY FreshCall DEF Fresh
<1>3. PICK f : f = FirstLogin
  OBVIOUS
<1>4. /\ f \in Call
      /\ f.op = "login" /\ f.phase = "done" /\ f.user = Owner /\ f.session = LoggedIn
  <2>1. "login" \in Op /\ "done" \in Phase
    BY DEF Op, Phase, Answered
  <2>2. f = [Fresh EXCEPT !.op = "login", !.phase = "done", !.user = Owner,
                          !.session = LoggedIn, !.verified = TRUE]
    BY <1>3 DEF FirstLogin
  <2>3. f \in Call
    BY <1>1, <1>2, <2>1, <2>2 DEF Call
  <2>4. f.op = "login" /\ f.phase = "done"
    BY <1>2, <2>2 DEF Call
  <2>5. f.user = Owner /\ f.session = LoggedIn
    BY <1>2, <2>2 DEF Call
  <2>. QED  BY <2>3, <2>4, <2>5
<1>5. ~f.doomed
  BY <1>3, FreshCall, Zenon DEF FirstLogin, Fresh
<1>6. PICK w : w = NewUser(None)
  OBVIOUS
<1>7. w \in User
  BY <1>6 DEF NewUser, User
<1>8. PICK r : r = [w EXCEPT !.verified = TRUE]
  OBVIOUS
<1>9. r \in User
  BY <1>7, <1>8 DEF User
<1>10. PICK s : s = [user |-> Owner, token |-> LoggedIn, revoked |-> FALSE,
                     expires |-> RefreshLife]
  OBVIOUS
<1>11. s \in Session /\ s.token = LoggedIn
  BY <1>1, <1>10, AuthBoundsAssumption DEF Session
<1>12. PICK a : a = [user |-> Owner, session |-> LoggedIn, exp |-> AccessLife]
  OBVIOUS
<1>13. a \in AccessToken /\ a.user = Owner /\ a.session = LoggedIn /\ a.exp = AccessLife
  BY <1>1, <1>12, AuthBoundsAssumption DEF AccessToken
<1>14. /\ users = [u \in Users |-> IF u \in Registered THEN r ELSE None]
       /\ sessions = [c \in Calls |-> IF c = LoggedIn THEN s ELSE None]
       /\ access = [c \in Calls |-> IF c = LoggedIn THEN a ELSE None]
       /\ call = [c \in Calls |-> IF c = LoggedIn THEN f ELSE Fresh]
  BY <1>3, <1>6, <1>8, <1>10, <1>12 DEF Init
<1>15. /\ emailTokens = [c \in Calls |-> None]
       /\ resetTokens = [c \in Calls |-> None]
       /\ blocked = [c \in Calls |-> 0]
       /\ barred = [u \in Users |-> 0]
       /\ plan \in Plans /\ now = 0 /\ queue = {} /\ consumer = Idle
       /\ acked = {} /\ dead = {} /\ failures = 0 /\ crashes = 0
  BY DEF Init
<1>16. TypeOK
  <2>1. /\ users \in [Users -> User \union {None}]
        /\ sessions \in [Calls -> Session \union {None}]
        /\ access \in [Calls -> AccessToken \union {None}]
    BY <1>9, <1>11, <1>13, <1>14
  <2>2. call \in [Calls -> Call]
    BY <1>2, <1>4, <1>14
  <2>3. consumer \in [event : Calls \union {None}, since : Nat,
                      phase : {"idle", "suspend", "revoke", "bar", "ack"}]
    BY <1>15 DEF Idle
  <2>. QED  BY <1>15, <2>1, <2>2, <2>3 DEF TypeOK
<1>17. /\ Row(Owner) /\ HasSession(LoggedIn) /\ Signed(LoggedIn)
       /\ \A c \in Calls : Signed(c) => c = LoggedIn
       /\ \A c \in Calls : HasSession(c) => c = LoggedIn
       /\ \A c \in Calls : ~Mailed(c) /\ ~ResetMailed(c)
  BY <1>1, <1>9, <1>11, <1>13, <1>14, <1>15, NoneIsNoRow
  DEF Row, HasSession, Signed, Mailed, ResetMailed
<1>18. \A c \in Calls : /\ c = LoggedIn => call[c] = f
                        /\ c # LoggedIn => call[c] = Fresh
  BY <1>14
<1>19. ASSUME NEW c \in Calls PROVE CallInv(c) /\ OwnRows(c) /\ DoomInv(c)
  <2>1. CASE c = LoggedIn
    <3>1. call[c] = f /\ access[c] = a
      BY <1>14, <1>18, <2>1
    <3>2. CallInv(c)
      BY <1>4, <1>17, <3>1
      DEF CallInv, Known, RegisterInv, LoginInv, RefreshInv, LogoutInv, ResetInv,
          UseInv,
          InFlight, Answered
    <3>3. a.exp <= now + AccessLife
      BY <1>13, <1>15, AuthBoundsAssumption
    <3>4. OwnRows(c)
      BY <1>4, <1>13, <1>17, <2>1, <3>1, <3>3 DEF OwnRows, At
    <3>5. DoomInv(c)
      BY <1>4, <3>1 DEF DoomInv, Doom
    <3>. QED  BY <3>2, <3>4, <3>5
  <2>2. CASE c # LoggedIn
    <3>1. call[c] = Fresh
      BY <1>18, <2>2
    <3>2. CallInv(c)
      BY <1>2, <1>17, <3>1
      DEF CallInv, Known, RegisterInv, LoginInv, RefreshInv, LogoutInv, ResetInv,
          UseInv,
          InFlight, Answered
    <3>3. OwnRows(c)
      BY <1>2, <1>17, <2>2, <3>1 DEF OwnRows, At
    <3>4. DoomInv(c)
      BY <1>2, <3>1 DEF DoomInv, Doom
    <3>. QED  BY <3>2, <3>3, <3>4
  <2>. QED  BY <2>1, <2>2
<1>20. SuspensionInv /\ LockInv
  BY <1>15 DEF SuspensionInv, LockInv, Idle
<1>21. SessionInv
  BY <1>1, <1>4, <1>11, <1>13, <1>14, <1>17, <1>18 DEF SessionInv
<1>22. RevokeInv
  BY <1>15, <1>19 DEF RevokeInv
<1>. QED  BY <1>16, <1>19, <1>20, <1>21, <1>22 DEF AuthInv, BaseInv

LEMMA StepKeeps == AuthInv /\ [Next]_vars => AuthInv'
<1>. SUFFICES ASSUME AuthInv, [Next]_vars PROVE AuthInv'
  OBVIOUS
<1>1. CASE \E c \in Calls : \/ Register(c) \/ VerifyEmail(c) \/ Login(c)
                            \/ Refresh(c) \/ Logout(c) \/ ResetPassword(c)
                            \/ Use(c) \/ Fail(c)
  BY <1>1, CallActs, CallKeeps
<1>2. CASE \E c \in Calls : PublishSuspension(c)
  BY <1>2, PublishSuspensionKeeps
<1>3. CASE Consume
  BY <1>3, ReceiveKeeps, SetSuspendedKeeps, RevokeSuspendedKeeps, BarKeeps, AckKeeps
  DEF Consume
<1>4. CASE Nack \/ Crash \/ Tick
  BY <1>4, GivesUpKeeps, TickKeeps
<1>5. CASE UNCHANGED vars
  <2>1. UNCHANGED <<plan, now, tables, access, redis, call, suspension, bounds>>
    BY <1>5 DEF vars
  <2>2. UNCHANGED <<plan, now, users, sessions, emailTokens, resetTokens, access, blocked,
                    barred, call, queue, consumer, acked, dead, failures, crashes>>
    BY <2>1 DEF tables, redis, suspension, bounds
  <2>3. /\ \A u : Row(u)' <=> Row(u)
        /\ \A s : HasSession(s)' <=> HasSession(s)
        /\ \A a : Signed(a)' <=> Signed(a)
    BY <2>2 DEF Row, HasSession, Signed
  <2>4. TypeOK'
    BY <2>2 DEF AuthInv, BaseInv, TypeOK
  <2>5. (\A c \in Calls : CallInv(c)' /\ OwnRows(c)') /\ SessionInv' /\ RevokeInv'
    BY <2>2, <2>3, Apart
  <2>6. SuspensionInv'
    BY <2>2, <2>3 DEF AuthInv, BaseInv, SuspensionInv, Suspends, At, Target
  <2>7. LockInv'
    BY <2>2, <2>3 DEF AuthInv, LockInv, LockedOut, Past, Target
  <2>. QED  BY <2>4, <2>5, <2>6, <2>7 DEF AuthInv, BaseInv
<1>. QED  BY <1>1, <1>2, <1>3, <1>4, <1>5 DEF Next

\* Users, sessions and tokens have their types, every step of a handler finds the
\* row it works on, and the invariants of suspension and of revocation hold in
\* every reachable state.
THEOREM Invariance == Spec => []AuthInv
<1>1. Init => AuthInv
  BY InitKeeps
<1>2. AuthInv /\ [Next]_vars => AuthInv'
  BY StepKeeps
<1>. QED  BY <1>1, <1>2, PTL DEF Spec

\* Which steps may admit a request or make a row: those of its own handler.
LEMMA Changes ==
    ASSUME AuthInv, [Next]_vars, NEW c \in Calls, call'[c] # call[c]
    PROVE  \/ ~At(c, "done")' /\ ~Inserted(c)'
           \/ call'[c].op \notin {"use", "register"}
           \/ FindDuplicate(c) \/ CreateUser(c) \/ CreateEmailToken(c)
           \/ PublishRegistered(c) \/ CheckBlocklist(c) \/ CheckSuspended(c)
           \/ Fail(c)
<1>1. SUFFICES ASSUME At(c, "done")' \/ Inserted(c)', call'[c].op \in {"use", "register"},
                      ~(\/ FindDuplicate(c) \/ CreateUser(c) \/ CreateEmailToken(c)
                        \/ PublishRegistered(c) \/ CheckBlocklist(c)
                        \/ CheckSuspended(c) \/ Fail(c))
               PROVE  FALSE
  OBVIOUS
<1>2. ASSUME NEW d \in Calls, CallStep(d) PROVE d = c
  BY <1>1, <1>2 DEF CallStep, Alone
<1>3. ASSUME NEW d \in Calls, CallStep(d) /\ ~At(d, "done")' /\ ~Inserted(d)' PROVE FALSE
  BY <1>1, <1>2, <1>3
<1>4. ASSUME CallStep(c), InFlight(c),
             call[c].phase \notin {"duplicate", "createUser", "emailToken", "announceUser",
                                   "jti", "suspension"}
      PROVE  FALSE
  <2>1. call[c] \in Call /\ CallInv(c)
    BY DEF AuthInv, BaseInv, TypeOK
  <2>2. call[c].op \in {"use", "register"}
    BY <1>1, <1>4 DEF CallStep, SessionStep, InFlight
  <2>3. call[c].phase \notin {"emailLookup", "setVerified", "markEmail", "announceEmail"}
    BY <2>1, <2>2 DEF CallInv, Known, RegisterInv
  <2>4. call[c].phase \notin {"userLookup", "lockout", "password", "countRead",
            "countWrite", "clearCount", "startSession", "announceLogin"}
    BY <2>1, <2>2 DEF CallInv, Known, LoginInv
  <2>5. call[c].phase \notin {"hashLookup", "revokeAll", "revokeExpired",
            "userOfSession", "rotate", "sign"}
    BY <2>1, <2>2 DEF CallInv, Known, RefreshInv
  <2>6. call[c].phase \notin {"cookieLookup", "ownership", "revokeSession",
            "blocklist", "announceRevoked"}
    BY <2>1, <2>2 DEF CallInv, Known, LogoutInv
  <2>7. call[c].phase \notin {"forgotLookup", "resetToken", "announceReset",
            "resetLookup", "updatePassword", "markReset", "announcePassword"}
    BY <2>1, <2>2 DEF CallInv, Known, ResetInv
  <2>8. call[c].phase \in Phase /\ call[c].phase \notin Answered \union {"start"}
    BY <1>4, <2>1 DEF Call, InFlight
  <2>. QED
    BY <1>4, <2>3, <2>4, <2>5, <2>6, <2>7, <2>8 DEF Phase
<1>5. ASSUME NEW d \in Calls, Register(d) PROVE FALSE
  <2>1. CASE BeginRegister(d)
    BY <1>3, <2>1, MailBegins
  <2>2. CASE FindDuplicate(d) \/ CreateUser(d) \/ CreateEmailToken(d) \/ PublishRegistered(d)
    <3>1. CallStep(d)
      BY <2>2, RegisterWalks, CreateUserWrites, MailTokenWrites
    <3>. QED  BY <1>1, <1>2, <2>2, <3>1
  <2>. QED  BY <1>5, <2>1, <2>2 DEF Register
<1>6. ASSUME NEW d \in Calls, VerifyEmail(d) PROVE FALSE
  <2>1. CASE BeginVerify(d)
    BY <1>3, <2>1, MailBegins
  <2>2. CASE \/ FindEmailToken(d) \/ SetEmailVerified(d) \/ MarkEmailTokenUsed(d)
             \/ PublishVerified(d)
    <3>1. CallStep(d)
      BY <2>2, VerifyWalks, SetEmailVerifiedWrites, MailTokenWrites
    <3>2. /\ InFlight(d)
          /\ call[d].phase \notin {"duplicate", "createUser", "emailToken",
                                   "announceUser", "jti", "suspension"}
      BY <2>2 DEF FindEmailToken, SetEmailVerified, MarkEmailTokenUsed, PublishVerified,
                  At, InFlight, Answered
    <3>. QED  BY <1>2, <1>4, <3>1, <3>2
  <2>. QED  BY <1>6, <2>1, <2>2 DEF VerifyEmail
<1>7. ASSUME NEW d \in Calls, Login(d) PROVE FALSE
  <2>1. CASE BeginLogin(d)
    BY <1>3, <2>1, MailBegins
  <2>2. CASE \/ FindUser(d) \/ CheckLockout(d) \/ VerifyPassword(d) \/ ReadCount(d)
             \/ WriteCount(d) \/ ResetFailedLogins(d) \/ StartSession(d) \/ FinishLogin(d)
    <3>1. CallStep(d)
      BY <2>2, FindUserNotes, LoginWalks, ReadCountNotes, RowWrites, StartSessionHeld, Signs
    <3>2. /\ InFlight(d)
          /\ call[d].phase \notin {"duplicate", "createUser", "emailToken",
                                   "announceUser", "jti", "suspension"}
      BY <2>2 DEF FindUser, CheckLockout, VerifyPassword, ReadCount, WriteCount,
                  ResetFailedLogins, StartSession, FinishLogin, At, InFlight, Answered
    <3>. QED  BY <1>2, <1>4, <3>1, <3>2
  <2>. QED  BY <1>7, <2>1, <2>2 DEF Login
<1>8. ASSUME NEW d \in Calls, Refresh(d) PROVE FALSE
  <2>1. CASE BeginRefresh(d)
    BY <1>3, <2>1, RefreshBegins
  <2>2. CASE \/ FindByTokenHash(d) \/ RevokeExpired(d) \/ FindUserOfSession(d)
             \/ RotateSession(d) \/ FinishRefresh(d)
    <3>1. CallStep(d)
      BY <2>2, FindByTokenHashNotes, SessionsRevoked, RefreshWalks, RotateSessionHeld, Signs
    <3>2. /\ InFlight(d)
          /\ call[d].phase \notin {"duplicate", "createUser", "emailToken",
                                   "announceUser", "jti", "suspension"}
      BY <2>2 DEF FindByTokenHash, RevokeExpired, FindUserOfSession, RotateSession,
                  FinishRefresh, At, InFlight, Answered
    <3>. QED  BY <1>2, <1>4, <3>1, <3>2
  <2>. QED  BY <1>8, <2>1, <2>2 DEF Refresh
<1>9. ASSUME NEW d \in Calls, Logout(d) PROVE FALSE
  <2>1. CASE BeginLogout(d) \/ BeginRevoke(d)
    BY <1>3, <2>1, LogoutBegins, RevokeBegins
  <2>2. CASE \/ FindCookie(d) \/ FindOwnSession(d) \/ RevokeSession(d)
             \/ BlocklistToken(d) \/ PublishSessionRevoked(d)
    <3>1. CallStep(d)
      BY <2>2, FindCookieNotes, LogoutWalks, SessionsRevoked, BlocklistTokenActs
    <3>2. /\ InFlight(d)
          /\ call[d].phase \notin {"duplicate", "createUser", "emailToken",
                                   "announceUser", "jti", "suspension"}
      BY <2>2 DEF FindCookie, FindOwnSession, RevokeSession, BlocklistToken,
                  PublishSessionRevoked, At, InFlight, Answered
    <3>. QED  BY <1>2, <1>4, <3>1, <3>2
  <2>. QED  BY <1>9, <2>1, <2>2 DEF Logout
<1>10. ASSUME NEW d \in Calls, ResetPassword(d) PROVE FALSE
  <2>1. CASE BeginForgot(d) \/ BeginReset(d)
    BY <1>3, <2>1, MailBegins
  <2>2. CASE \/ FindForgetful(d) \/ CreateResetToken(d) \/ PublishResetRequested(d)
             \/ FindResetToken(d) \/ UpdatePassword(d) \/ MarkResetTokenUsed(d)
             \/ RevokeAllUserSessions(d) \/ PublishPasswordChanged(d)
    <3>1. CallStep(d)
      BY <2>2, ResetWalks, MailTokenWrites, RowWrites, SessionsRevoked
    <3>2. /\ InFlight(d)
          /\ call[d].phase \notin {"duplicate", "createUser", "emailToken",
                                   "announceUser", "jti", "suspension"}
      BY <2>2
      DEF FindForgetful, CreateResetToken, PublishResetRequested, FindResetToken,
                  UpdatePassword, MarkResetTokenUsed, RevokeAllUserSessions,
                  PublishPasswordChanged, At, InFlight, Answered
    <3>. QED  BY <1>2, <1>4, <3>1, <3>2
  <2>. QED  BY <1>10, <2>1, <2>2 DEF ResetPassword
<1>11. ASSUME NEW d \in Calls, Fail(d) PROVE FALSE
  BY <1>1, <1>2, <1>11, FailWalks
<1>12. ASSUME NEW d \in Calls, Use(d) PROVE FALSE
  <2>1. CASE BeginUse(d)
    BY <1>3, <2>1, UseBegins
  <2>2. CASE CheckBlocklist(d) \/ CheckSuspended(d)
    BY <1>1, <1>2, <2>2, UseWalks
  <2>. QED  BY <1>12, <2>1, <2>2 DEF Use
<1>13. ASSUME NEW d \in Calls, PublishSuspension(d) PROVE FALSE
  <2>1. PICK u \in Users : call' = [call EXCEPT
            ![d] = [Fresh EXCEPT !.op = "suspend", !.phase = "done", !.user = u]]
    BY <1>13 DEF PublishSuspension
  <2>2. d = c
    BY <2>1 DEF AuthInv, BaseInv, TypeOK
  <2>3. call'[c].op = "suspend"
    BY <2>1, <2>2, FreshCall DEF Call, AuthInv, BaseInv, TypeOK
  <2>. QED  BY <1>1, <2>3
<1>14. CASE Consume \/ Nack \/ Crash \/ Tick \/ UNCHANGED vars
  BY <1>14 DEF Consume, Receive, SetSuspended, RevokeSuspended, Bar, Ack, Nack,
                     Crash, Tick, vars
<1>. QED
  BY <1>5, <1>6, <1>7, <1>8, <1>9, <1>10, <1>11, <1>12, <1>13, <1>14 DEF Next

\* Only the gateway's last check admits a request.
LEMMA Admits ==
    ASSUME AuthInv, [Next]_vars, NEW c \in Calls, ~Admitted(c), Admitted(c)'
    PROVE  CheckSuspended(c)
<1>1. call'[c] # call[c] /\ call'[c].op = "use" /\ At(c, "done")'
  BY DEF Admitted, At
<1>2. CASE FindDuplicate(c) \/ CreateUser(c) \/ CreateEmailToken(c) \/ PublishRegistered(c)
  <2>1. CallStep(c)
    BY <1>2, RegisterWalks, CreateUserWrites, MailTokenWrites
  <2>2. call[c].op = "register" /\ call[c].phase # "start"
    BY <1>2 DEF FindDuplicate, CreateUser, CreateEmailToken, PublishRegistered, At,
                AuthInv, BaseInv, CallInv, Known, RegisterInv
  <2>. QED  BY <1>1, <2>1, <2>2 DEF CallStep, SessionStep
<1>3. CASE CheckBlocklist(c)
  <2>1. PICK p \in {"refused", "suspension"} : Go(c, p)
    BY <1>3 DEF CheckBlocklist, Step
  <2>. QED  BY <1>1, <2>1, Moves DEF At, Phase, Answered, AuthInv, BaseInv, TypeOK
<1>4. CASE Fail(c)
  <2>1. call[c].op = "use"
    BY <1>1, <1>4, FailWalks DEF CallStep, SessionStep, Fail, InFlight
  <2>2. Go(c, "refused")
    BY <1>4, <2>1 DEF Fail
  <2>. QED  BY <1>1, <2>2, Moves DEF At, Phase, Answered, AuthInv, BaseInv, TypeOK
<1>. QED  BY <1>1, <1>2, <1>3, <1>4, Changes

\* Once auth-service has acknowledged a user's suspension the gateway admits no
\* token of that user, however its handlers overlapped with the consumer.
THEOREM SuspensionHolds == Spec => SuspendedIsLockedOut
<1>1. ASSUME AuthInv, [Next]_vars, NEW c \in Calls, ~Admitted(c), Admitted(c)'
      PROVE  call[c].user \notin Enforced
  <2>. SUFFICES ASSUME call[c].user \in Enforced PROVE FALSE
    OBVIOUS
  <2>1. CheckSuspended(c)
    BY <1>1, Admits
  <2>2. ~(now < barred[call[c].user])
    <3>1. SUFFICES ASSUME now < barred[call[c].user] PROVE FALSE
      OBVIOUS
    <3>2. Go(c, "refused")
      BY <2>1, <3>1 DEF CheckSuspended, Step
    <3>. QED
      BY <1>1, <3>2, Moves DEF Admitted, At, Phase, Answered, AuthInv, BaseInv, TypeOK
  <2>3. /\ Signed(call[c].bearer)
        /\ call[c].user = access[call[c].bearer].user
        /\ call[c].since < access[call[c].bearer].exp
        /\ now <= call[c].since + 1
    BY <1>1, <2>1
    DEF CheckSuspended, At, AuthInv, BaseInv, CallInv, Known, UseInv, InFlight, Answered
  <2>4. PICK a \in Calls : a = call[c].bearer
    BY <2>3 DEF Signed
  <2>5. PICK u \in Users : u = call[c].user
    BY <1>1, <2>3, <2>4 DEF AuthInv, BaseInv, OwnRows, Row
  <2>6. LockedOut(u)
    BY <1>1, <2>5 DEF Enforced, AuthInv, LockInv
  <2>7. access[a].exp < barred[u]
    BY <2>3, <2>4, <2>5, <2>6 DEF LockedOut
  <2>8. /\ now \in Nat /\ barred[u] \in Nat
        /\ access[a].exp \in Nat /\ call[c].since \in Nat
    BY <1>1, <2>3, <2>4 DEF AuthInv, BaseInv, TypeOK, Signed, AccessToken, Call
  <2>. QED  BY <2>2, <2>3, <2>4, <2>5, <2>7, <2>8
<1>2. AuthInv /\ [Next]_vars =>
          [\A c \in Calls : ~Admitted(c) /\ Admitted(c)' => call[c].user \notin Enforced]_vars
  BY <1>1
<1>. QED  BY <1>2, Invariance, PTL DEF Spec, SuspendedIsLockedOut

\* What was revoked before a request arrived admits it in no interleaving, unless
\* the token expired on the way, and yields no tokens.
THEOREM RevocationHolds == Spec => RevokedIsRefused
<1>1. ASSUME AuthInv, [Next]_vars, NEW c \in Calls
      PROVE  /\ ~Admitted(c) /\ Admitted(c)' /\ call[c].doomed
                    => now >= access[call[c].bearer].exp
             /\ At(c, "sign") /\ At(c, "done")' => ~call[c].doomed
  <2>1. DoomInv(c)
    BY <1>1 DEF AuthInv, RevokeInv
  <2>2. ~Admitted(c) /\ Admitted(c)' => At(c, "suspension")
    BY <1>1, Admits DEF CheckSuspended
  <2>. QED  BY <2>1, <2>2 DEF DoomInv, Doom, At
<1>2. AuthInv /\ [Next]_vars =>
          [\A c \in Calls :
              /\ ~Admitted(c) /\ Admitted(c)' /\ call[c].doomed
                     => now >= access[call[c].bearer].exp
              /\ At(c, "sign") /\ At(c, "done")' => ~call[c].doomed]_vars
  BY <1>1
<1>. QED  BY <1>2, Invariance, PTL DEF Spec, RevokedIsRefused
-----------------------------------------------------------------------------
LEMMA RowsStay ==
    ASSUME AuthInv, [Next]_vars, NEW u \in Users, Row(u)
    PROVE  Row(u)'
<1>1. CASE \E c \in Calls : CallStep(c)
  BY <1>1 DEF CallStep, Grows, Row
<1>2. CASE SetSuspended
  <2>1. PICK w \in User : w = users[u]
    BY DEF Row, AuthInv, BaseInv, TypeOK
  <2>2. users'[u] \in {w, [w EXCEPT !.suspended = TRUE]}
    BY <1>2, <2>1 DEF SetSuspended
  <2>3. [w EXCEPT !.suspended = TRUE] \in User
    BY DEF User
  <2>. QED  BY <2>1, <2>2, <2>3, NoneIsNoRow DEF Row
<1>3. CASE UNCHANGED users
  BY <1>3 DEF Row
<1>4. CASE \E c \in Calls : \/ Register(c) \/ VerifyEmail(c) \/ Login(c)
                            \/ Refresh(c) \/ Logout(c) \/ ResetPassword(c)
                            \/ Use(c) \/ Fail(c)
  BY <1>1, <1>4, CallActs
<1>5. CASE \/ \E c \in Calls : PublishSuspension(c)
           \/ Receive \/ RevokeSuspended \/ Bar \/ Ack \/ Nack \/ Crash \/ Tick
           \/ UNCHANGED vars
  BY <1>3, <1>5 DEF PublishSuspension, Receive, RevokeSuspended, Bar, Ack, Nack, Crash,
                    Tick, vars, tables
<1>. QED  BY <1>2, <1>4, <1>5 DEF Next, Consume

\* Only an insert that finds no row makes a registration the maker of one.
LEMMA Inserts ==
    ASSUME AuthInv, [Next]_vars, NEW c \in Calls, Inserted(c)'
    PROVE  /\ call'[c].user = call[c].user
           /\ \/ Inserted(c)
              \/ /\ CreateUser(c)
                 /\ CallStep(c)
                 /\ call[c].user \in Users
                 /\ ~Row(call[c].user)
                 /\ Row(call[c].user)'
<1>1. CASE call'[c] = call[c]
  BY <1>1 DEF Inserted
<1>2. ASSUME call'[c] # call[c]
      PROVE  \/ FindDuplicate(c) \/ CreateUser(c) \/ CreateEmailToken(c)
             \/ PublishRegistered(c)
  <2>1. CASE CheckBlocklist(c) \/ CheckSuspended(c)
    <3>1. call[c].op = "use" /\ call[c].phase # "start"
      BY <2>1
      DEF CheckBlocklist, CheckSuspended, At, AuthInv, BaseInv, CallInv, Known, UseInv
    <3>2. call'[c].op = "use"
      BY <2>1, <3>1, UseWalks DEF CallStep, SessionStep
    <3>. QED  BY <3>2 DEF Inserted
  <2>2. CASE Fail(c)
    <3>1. call[c].op = "register"
      BY <2>2, FailWalks DEF CallStep, SessionStep, Fail, InFlight, Inserted
    <3>2. Go(c, "failed")
      BY <2>2, <3>1 DEF Fail
    <3>. QED  BY <3>2, Moves DEF Inserted, Phase, Answered, AuthInv, BaseInv, TypeOK
  <2>3. call'[c].op = "register"
    BY DEF Inserted
  <2>. QED  BY <1>2, <2>1, <2>2, <2>3, Changes
<1>3. ASSUME NEW p \in Phase, Go(c, p)
      PROVE  call'[c].user = call[c].user /\ call'[c].op = call[c].op /\ call'[c].phase = p
  BY <1>3, Moves DEF AuthInv, BaseInv, TypeOK
<1>4. CASE FindDuplicate(c)
  <2>1. PICK p \in {"createUser", "refused"} : Go(c, p)
    BY <1>4 DEF FindDuplicate, Step
  <2>. QED  BY <1>3, <2>1 DEF Inserted, Phase, Answered
<1>5. CASE CreateUser(c)
  <2>1. call[c].user \in Users
    BY <1>5 DEF CreateUser, At, AuthInv, BaseInv, CallInv, Known, RegisterInv
  <2>2. CASE users[call[c].user] # None
    <3>1. Go(c, "failed")
      BY <1>5, <2>2 DEF CreateUser, ViolatesEmailIndex, EmailTaken, Step
    <3>. QED  BY <1>3, <3>1 DEF Inserted, Phase, Answered
  <2>3. CASE users[call[c].user] = None
    <3>1. Go(c, "emailToken")
      BY <1>5, <2>3 DEF CreateUser, ViolatesEmailIndex, EmailTaken, Step
    <3>2. call'[c].user = call[c].user
      BY <1>3, <3>1 DEF Phase
    <3>3. PICK r : r = NewUser(c)
      OBVIOUS
    <3>4. r \in User
      BY <3>3 DEF NewUser, User
    <3>5. users' = [users EXCEPT ![call[c].user] = r]
      BY <1>5, <2>3, <3>3 DEF CreateUser, ViolatesEmailIndex, EmailTaken
    <3>6. Row(call[c].user)'
      BY <2>1, <3>2, <3>4, <3>5, NoneIsNoRow DEF Row, AuthInv, BaseInv, TypeOK
    <3>. QED  BY <1>5, <2>1, <2>3, <3>2, <3>6, CreateUserWrites DEF Row
  <2>. QED  BY <2>2, <2>3
<1>6. CASE CreateEmailToken(c) \/ PublishRegistered(c)
  <2>1. PICK p \in {"announceUser", "done"} : Go(c, p)
    BY <1>6 DEF CreateEmailToken, PublishRegistered, Step
  <2>2. Inserted(c)
    BY <1>6 DEF CreateEmailToken, PublishRegistered, At, Inserted, AuthInv, BaseInv,
                CallInv, Known, RegisterInv
  <2>. QED  BY <1>3, <2>1, <2>2 DEF Phase, Answered
<1>. QED  BY <1>1, <1>2, <1>4, <1>5, <1>6

\* The row that an insert found missing is never missing again.
OnceInv ==
    /\ \A u \in Registered : Row(u)
    /\ \A c \in Calls : Inserted(c) =>
          Row(call[c].user) /\ call[c].user \notin Registered
    /\ \A c, d \in Calls :
          Inserted(c) /\ Inserted(d) /\ call[c].user = call[d].user => c = d

\* Of the registrations of one address, one at most is answered 201, and its mail
\* is on the way.
THEOREM RegistrationHolds == Spec => []RegisteredOnce
<1>1. Init => OnceInv
  <2>. SUFFICES ASSUME Init PROVE OnceInv
    OBVIOUS
  <2>1. ASSUME NEW u \in Registered PROVE Row(u)
    <3>1. PICK w \in User : w = NewUser(None)
      BY DEF NewUser, User
    <3>2. users[u] = [w EXCEPT !.verified = TRUE] /\ u \in Users
      BY <3>1, AuthSetsAssumption DEF Init
    <3>3. [w EXCEPT !.verified = TRUE] \in User
      BY DEF User
    <3>. QED  BY <3>2, <3>3, NoneIsNoRow DEF Row
  <2>2. ASSUME NEW c \in Calls PROVE call[c].op # "register"
    <3>1. Fresh.op = None
      BY DEF Fresh
    <3>2. call[c].op \in {"login", Fresh.op}
      BY FreshCall DEF Init, FirstLogin, Call
    <3>3. None # "register"
      BY AuthSetsAssumption DEF Op
    <3>. QED  BY <3>1, <3>2, <3>3
  <2>. QED  BY <2>1, <2>2 DEF OnceInv, Inserted
<1>2. AuthInv /\ OnceInv /\ [Next]_vars => OnceInv'
  <2>. SUFFICES ASSUME AuthInv, OnceInv, [Next]_vars PROVE OnceInv'
    OBVIOUS
  <2>1. \A u : Row(u) => Row(u)'
    BY RowsStay DEF Row
  <2>2. ASSUME NEW c \in Calls, Inserted(c)'
        PROVE  Row(call[c].user)' /\ call'[c].user \notin Registered
    BY <2>1, <2>2, Inserts DEF OnceInv
  <2>3. ASSUME NEW c \in Calls, NEW d \in Calls, c # d,
               CreateUser(c), CallStep(c), Inserted(d)'
        PROVE  Inserted(d)
    BY <2>3 DEF CallStep, Alone, Inserted
  <2>4. ASSUME NEW c \in Calls, NEW d \in Calls, c # d, Inserted(c)', Inserted(d)',
               call'[c].user = call'[d].user
        PROVE  FALSE
    <3>1. call'[c].user = call[c].user /\ call'[d].user = call[d].user
      BY <2>4, Inserts
    <3>2. CASE Inserted(c) /\ Inserted(d)
      BY <2>4, <3>1, <3>2 DEF OnceInv
    <3>3. CASE ~Inserted(c)
      <4>1. ~Row(call[c].user) /\ Inserted(d)
        BY <2>3, <2>4, <3>3, Inserts
      <4>. QED  BY <2>4, <3>1, <4>1 DEF OnceInv
    <3>4. CASE ~Inserted(d)
      <4>1. ~Row(call[d].user) /\ Inserted(c)
        BY <2>3, <2>4, <3>4, Inserts
      <4>. QED  BY <2>4, <3>1, <4>1 DEF OnceInv
    <3>. QED  BY <3>2, <3>3, <3>4
  <2>. QED  BY <2>1, <2>2, <2>4 DEF OnceInv
<1>3. AuthInv /\ OnceInv => RegisteredOnce
  <2>. SUFFICES ASSUME AuthInv, OnceInv PROVE RegisteredOnce
    OBVIOUS
  <2>1. ASSUME NEW c \in Calls, call[c].op = "register", At(c, "done")
        PROVE  Inserted(c) /\ emailTokens[c] # None
    BY <2>1 DEF Inserted, At, AuthInv, BaseInv, CallInv, Known, RegisterInv, Mailed
  <2>. QED  BY <2>1 DEF OnceInv, RegisteredOnce
<1>. QED  BY <1>1, <1>2, <1>3, Invariance, PTL DEF Spec
=============================================================================
