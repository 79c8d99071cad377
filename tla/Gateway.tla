------------------------------- MODULE Gateway -------------------------------
(***************************************************************************)
(* api-gateway: what a request meets on its way to a service.  A middleware *)
(* that does not await runs in one action with the await before it; Redis   *)
(* is asked three times, by requests of all the gateway's replicas, and any *)
(* of these calls may reject.                                               *)
(*                                                                          *)
(* The clock moves in fractions of the limiter's window.  External: clients,*)
(* auth-service, which writes the keys the blocklist middleware reads, and  *)
(* what the services behind the proxy do with the headers they get.         *)
(***************************************************************************)
EXTENDS Integers, FiniteSets

CONSTANTS
    Requests,
    Ips,
    Users,
    Tokens,       \* access tokens auth-service signed
    Owner,        \* Owner[t]: sub
    Exp,          \* Exp[t]: exp
    Scripts,      \* what the clients send, one Input a request
    Window,       \* 60 seconds
    MaxRequests,  \* 100
    MaxNow,       \* bound on the clock
    MaxFailures,  \* bound on calls that reject
    None

Path == {"login", "logout", "accounts", "ledger", "healthz", "readyz"}

\* an address, an Origin in ALLOWED_ORIGINS or not, a preflight or not, a path,
\* a Bearer token and an X-User-Id header
Input == [ip : Ips, origin : BOOLEAN, preflight : BOOLEAN, path : Path,
          token : Tokens \union {None}, claimed : Users \union {None}]

ASSUME GatewaySetsAssumption ==
    /\ Owner \in [Tokens -> Users]
    /\ Exp \in [Tokens -> Nat]
    /\ Scripts \subseteq [Requests -> Input]
    /\ None \notin Tokens \union Users \union Nat
ASSUME GatewayBoundsAssumption ==
    /\ {Window, MaxRequests} \subseteq Nat \ {0}
    /\ {MaxNow, MaxFailures} \subseteq Nat

VARIABLES
    now,
    counter,   \* counter[i]: gw:ip:i in Redis, its value and when it expires
    blocked,   \* blocked[t]: until when jti:blocklist:t is in Redis
    barred,    \* barred[u]: until when suspended:u is in Redis
    request,   \* request[r]: its progress
    failures

vars == <<now, counter, blocked, barred, request, failures>>

Status == {200, 204, 401, 404, 429, 500, 503}
Phase == {"idle", "limit", "verify", "jti", "suspended", "ping", "upstream",
          "answered"}
Request == [input : Input, phase : Phase,
            user : Users \union {None},   \* req.user
            bearer : BOOLEAN,             \* the Authorization header is there
            header : Users \union {None}, \* X-User-Id, as it is forwarded
            status : Status \union {None},
            counted : Nat \union {None},  \* when the limiter let it pass
            acted : Users \union {None},  \* for whom a service acted
            doomed : BOOLEAN]             \* its token was refused on arrival

TypeOK ==
    /\ now \in Nat
    /\ counter \in [Ips -> [count : Nat, until : Nat]]
    /\ blocked \in [Tokens -> Nat]
    /\ barred \in [Users -> Nat]
    /\ request \in [Requests -> Request]
    /\ failures \in Nat

Fresh(i) == [input |-> i, phase |-> "idle", user |-> None,
             bearer |-> i.token # None, header |-> i.claimed, status |-> None,
             counted |-> None, acted |-> None, doomed |-> FALSE]

Init ==
    /\ now = 0
    /\ counter = [i \in Ips |-> [count |-> 0, until |-> 0]]
    /\ blocked = [t \in Tokens |-> 0]
    /\ barred = [u \in Users |-> 0]
    /\ \E s \in Scripts : request = [r \in Requests |-> Fresh(s[r])]
    /\ failures = 0

-----------------------------------------------------------------------------
At(r, phase) == request[r].phase = phase
In(r) == request[r].input
Answer(r, status) ==
    request' = [request EXCEPT ![r].phase = "answered", ![r].status = status]
Go(r, phase) == request' = [request EXCEPT ![r].phase = phase]

InRedis(until) == now < until
Expired(t) == now >= Exp[t]
Refused(t) == /\ t # None
              /\ \/ Expired(t)
                 \/ InRedis(blocked[t])
                 \/ InRedis(barred[Owner[t]])

\* a call to Redis or to a service that rejects
Rejects ==
    /\ failures < MaxFailures
    /\ failures' = failures + 1
    /\ UNCHANGED <<now, counter, blocked, barred>>
Resolves == UNCHANGED <<now, blocked, barred, failures>>

\* CORS: another origin is an error, a preflight is answered at once
Arrive(r) ==
    /\ At(r, "idle")
    /\ request' = [request EXCEPT
           ![r].doomed = Refused(In(r).token),
           ![r].phase = IF In(r).origin /\ ~In(r).preflight
                        THEN "limit" ELSE "answered",
           ![r].status = CASE ~In(r).origin -> 500
                           [] In(r).origin /\ In(r).preflight -> 204
                           [] OTHER -> None]
    /\ UNCHANGED counter
    /\ Resolves

\* the script: INCR, and EXPIRE when it created the key
\* Mutant: EXPIRE whenever it counts
Prolonged(i) == [count |-> IF InRedis(counter[i].until) THEN counter[i].count + 1 ELSE 1,
                 until |-> now + Window]
Incremented(i) == IF InRedis(counter[i].until)
                  THEN [counter[i] EXCEPT !.count = @ + 1]
                  ELSE [count |-> 1, until |-> now + Window]

\* Mutant: one too many
ExceededByOne(c) == c.count > MaxRequests + 1
Exceeded(c) == c.count > MaxRequests

Limit(r) ==
    /\ At(r, "limit")
    /\ LET c == Incremented(In(r).ip)
       IN /\ counter' = [counter EXCEPT ![In(r).ip] = c]
          /\ IF Exceeded(c)
             THEN Answer(r, 429)
             ELSE request' = [request EXCEPT ![r].phase = "verify",
                                             ![r].counted = now]
    /\ Resolves

\* the limiter lets a request pass when Redis does not answer
LimiterUnavailable(r) ==
    /\ At(r, "limit")
    /\ Go(r, "verify")
    /\ Rejects

-----------------------------------------------------------------------------
Public == {"login", "healthz", "readyz"}
Proxied == {"login", "logout", "accounts"}

\* what follows the blocklist: probes, the proxies, and 404 for the rest
Route(r, path) ==
    [request[r] EXCEPT
        !.phase = CASE path \in Proxied -> "upstream"
                    [] path = "readyz" -> "ping"
                    [] OTHER -> "answered",
        !.status = CASE path = "healthz" -> 200
                     [] path \in Proxied \union {"readyz"} -> None
                     [] OTHER -> 404]

\* headerInjection of a public route removes the client's X-User-* headers
VerifyPublic(r) ==
    /\ At(r, "verify")
    /\ In(r).path \in Public
    /\ request' = [request EXCEPT ![r] = [Route(r, In(r).path) EXCEPT !.header = None]]
    /\ UNCHANGED counter
    /\ Resolves

Verify(r) ==
    /\ At(r, "verify")
    /\ In(r).path \notin Public
    /\ IF In(r).token = None \/ Expired(In(r).token)
       THEN Answer(r, 401)
       ELSE request' = [request EXCEPT ![r].phase = "jti",
                                       ![r].user = Owner[In(r).token]]
    /\ UNCHANGED counter
    /\ Resolves

CheckBlocklist(r) ==
    /\ At(r, "jti")
    /\ IF InRedis(blocked[In(r).token]) THEN Answer(r, 401) ELSE Go(r, "suspended")
    /\ UNCHANGED counter
    /\ Resolves

\* headerInjection: Authorization is removed, the verified identity put in
ClientsHeader(r) == IF request[r].header = None THEN request[r].user ELSE request[r].header
InjectedHeader(r) == request[r].user

CheckSuspended(r) ==
    /\ At(r, "suspended")
    /\ IF InRedis(barred[request[r].user])
       THEN Answer(r, 401)
       ELSE request' = [request EXCEPT ![r] =
                [Route(r, In(r).path) EXCEPT !.header = InjectedHeader(r),
                                             !.bearer = FALSE]]
    /\ UNCHANGED counter
    /\ Resolves

\* the blocklist refuses a request when Redis does not answer
FailsOpen == "upstream"
FailsClosed == "answered"
BlocklistUnavailable(r) ==
    /\ \/ At(r, "jti")
       \/ At(r, "suspended")
    /\ request' = [request EXCEPT ![r].phase = FailsClosed, ![r].status = 401]
    /\ Rejects

Ping(r) ==
    /\ At(r, "ping")
    /\ Answer(r, 200)
    /\ UNCHANGED counter
    /\ Resolves

PingUnavailable(r) ==
    /\ At(r, "ping")
    /\ Answer(r, 503)
    /\ Rejects

-----------------------------------------------------------------------------
\* authenticate of auth-service reads the Authorization header, account-service
\* X-User-Id; login asks for neither
Identified(r) ==
    CASE In(r).path = "logout" -> request[r].bearer /\ ~Expired(In(r).token)
      [] In(r).path = "accounts" -> request[r].header # None
      [] OTHER -> TRUE

Identity(r) == CASE In(r).path = "logout" -> Owner[In(r).token]
                 [] In(r).path = "accounts" -> request[r].header
                 [] OTHER -> None

Handle(r) ==
    /\ At(r, "upstream")
    /\ IF Identified(r)
       THEN request' = [request EXCEPT ![r].phase = "answered", ![r].status = 200,
                                       ![r].acted = Identity(r)]
       ELSE Answer(r, 401)
    /\ UNCHANGED counter
    /\ Resolves

\* on.error of the proxy
UpstreamUnavailable(r) ==
    /\ At(r, "upstream")
    /\ Answer(r, 503)
    /\ Rejects

-----------------------------------------------------------------------------
\* auth-service: a logout that reached it, and its suspension consumer
BlocklistToken(t) ==
    /\ now < Exp[t]
    /\ ~InRedis(blocked[t])
    /\ blocked' = [blocked EXCEPT ![t] = Exp[t]]
    /\ UNCHANGED <<now, counter, barred, request, failures>>

\* the key outlives every access token, see Auth
Bar(u) ==
    /\ ~InRedis(barred[u])
    /\ \E t \in Tokens : Owner[t] = u
    /\ barred' = [barred EXCEPT ![u] = MaxNow + 1]
    /\ UNCHANGED <<now, counter, blocked, request, failures>>

Tick ==
    /\ now < MaxNow
    /\ now' = now + 1
    /\ UNCHANGED <<counter, blocked, barred, request, failures>>

Work(r) == \/ Limit(r) \/ LimiterUnavailable(r)
           \/ VerifyPublic(r) \/ Verify(r) \/ CheckBlocklist(r) \/ CheckSuspended(r)
           \/ BlocklistUnavailable(r) \/ Ping(r) \/ PingUnavailable(r)
           \/ Handle(r) \/ UpstreamUnavailable(r)

Next ==
    \/ \E r \in Requests : Arrive(r) \/ Work(r)
    \/ \E t \in Tokens : BlocklistToken(t)
    \/ \E u \in Users : Bar(u)
    \/ Tick

Spec == Init /\ [][Next]_vars

-----------------------------------------------------------------------------
\* Where windows meet, more than MaxRequests requests of an address pass within
\* a window's length, but fewer than twice as many, whatever the interleaving of
\* requests and window ends: the first of the two keys was set by a request that
\* lies a window back.  Those that Redis failed to count come on top.
CountedIn(i, times) == {r \in Requests : request[r].counted \in times /\ In(r).ip = i}
WindowBounded ==
    \A i \in Ips, t \in 0 .. now :
        Cardinality(CountedIn(i, t .. t + Window - 1)) < 2 * MaxRequests

\* Nobody is refused for a window that has ended: when the limiter refuses
\* a request, at least as many as it allows were
\* counted within a window's length.
RefusedAtTheLimit ==
    [][\A r \in Requests :
        At(r, "limit") /\ request'[r].status = 429
        => Cardinality(CountedIn(In(r).ip, (now - Window + 1) .. now)) >= MaxRequests]_vars

\* A request whose token was expired, blocklisted or its owner's barred when it
\* arrived reaches no service behind a protected route, however Redis fails on
\* the way, unless the key expired meanwhile and with it the token.
DoomedStopsHere ==
    [][\A r \in Requests :
        /\ ~At(r, "upstream") /\ At(r, "upstream")'
        /\ In(r).path \notin Public
        /\ request[r].doomed
        => now >= Exp[In(r).token]]_vars

\* A service acts for the owner of the access token the gateway verified for
\* this very request, whatever identity headers the client sent.
ActsForTheOwner ==
    \A r \in Requests : request[r].acted # None =>
        /\ In(r).token # None
        /\ request[r].acted = Owner[In(r).token]

\* A logout the gateway let through with a live access token is carried out.
LogoutIsCarriedOut ==
    [][\A r \in Requests :
        At(r, "upstream") /\ At(r, "answered")' /\ In(r).path = "logout"
        /\ ~Expired(In(r).token)
        => request'[r].status # 401]_vars
=============================================================================
