---------------------------- MODULE GatewayProofs ----------------------------
(***************************************************************************)
(* Theorems about Gateway, for any requests, tokens, limits and bounds: for *)
(* whom services act, what is stopped, and what the limiter lets pass.      *)
(***************************************************************************)
EXTENDS Gateway, FiniteSetTheorems, TLAPS

\* The token's owner is the user the gateway goes by, and the identity it sends
\* on to a service that asks for one.
IdentityInv(r) ==
    /\ request[r].phase \in {"jti", "suspended"} =>
          /\ In(r).path \notin Public
          /\ In(r).token # None
          /\ request[r].user = Owner[In(r).token]
    /\ At(r, "upstream") /\ In(r).path \notin Public =>
          /\ In(r).token # None
          /\ request[r].header = Owner[In(r).token]
    /\ request[r].acted # None =>
          /\ In(r).token # None
          /\ request[r].acted = Owner[In(r).token]

\* What refused a doomed request on arrival still does at the lookups to come.
DoomInv(r) ==
    request[r].doomed =>
        /\ In(r).token # None
        /\ ~At(r, "idle")
        /\ request[r].phase \in {"limit", "verify", "jti"} =>
              \/ Expired(In(r).token)
              \/ InRedis(blocked[In(r).token])
              \/ InRedis(barred[Owner[In(r).token]])
        /\ At(r, "suspended") =>
              \/ Expired(In(r).token)
              \/ InRedis(barred[Owner[In(r).token]])

\* A blocklist key goes with its token, a suspension outlives the run.
KeysInv ==
    /\ now <= MaxNow
    /\ \A t \in Tokens : blocked[t] \in {0, Exp[t]}
    /\ \A u \in Users : barred[u] \in {0, MaxNow + 1}

GatewayInv ==
    /\ TypeOK
    /\ KeysInv
    /\ \A r \in Requests : IdentityInv(r) /\ DoomInv(r)

\* A step of request r alone.
Local(r) ==
    /\ request' \in [Requests -> Request]
    /\ \A s \in Requests \ {r} : request'[s] = request[s]
    /\ request'[r].input = request[r].input
-----------------------------------------------------------------------------
\* Initially no request has got anywhere.
LEMMA InitInv == Init => GatewayInv
<1>. SUFFICES ASSUME Init PROVE GatewayInv
  OBVIOUS
<1>1. PICK s \in Scripts : request = [r \in Requests |-> Fresh(s[r])]
  BY DEF Init
<1>2. \A r \in Requests : request[r] = Fresh(s[r]) /\ s[r] \in Input
  BY <1>1, GatewaySetsAssumption
<1>3. \A i \in Input : Fresh(i) \in Request
  BY GatewaySetsAssumption DEF Fresh, Request, Input, Phase
<1>4. TypeOK
  BY <1>1, <1>2, <1>3 DEF Init, TypeOK
<1>5. KeysInv
  BY GatewayBoundsAssumption DEF Init, KeysInv
<1>6. ASSUME NEW r \in Requests PROVE IdentityInv(r) /\ DoomInv(r)
  <2>1. /\ request[r].phase = "idle"
        /\ request[r].acted = None
        /\ request[r].doomed = FALSE
    <3>1. request[r] = Fresh(s[r])
      BY <1>2
    <3>. QED  BY <3>1 DEF Fresh
  <2>. QED  BY <2>1 DEF IdentityInv, DoomInv, At
<1>. QED  BY <1>4, <1>5, <1>6 DEF GatewayInv

\* A record put in place of request r's is a step of it alone.
LEMMA Puts ==
    ASSUME NEW r \in Requests, NEW q \in Request,
           request \in [Requests -> Request],
           request' = [request EXCEPT ![r] = q],
           q.input = request[r].input
    PROVE  Local(r) /\ request'[r] = q
  BY DEF Local

\* An answer is a step of its request.
LEMMA Answers ==
    ASSUME NEW r \in Requests, NEW status \in Status,
           request \in [Requests -> Request], Answer(r, status)
    PROVE  /\ Local(r)
           /\ At(r, "answered")'
           /\ request'[r].acted = request[r].acted
           /\ request'[r].doomed = request[r].doomed
           /\ request'[r].counted = request[r].counted
<1>1. request[r] \in Request
  OBVIOUS
<1>2. PICK q : q = [[request[r] EXCEPT !.phase = "answered"] EXCEPT !.status = status]
  OBVIOUS
<1>3. /\ q \in Request
      /\ q.input = request[r].input
      /\ q.doomed = request[r].doomed
      /\ q.counted = request[r].counted
      /\ q.acted = request[r].acted
      /\ q.phase = "answered"
  BY <1>1, <1>2 DEF Request, Phase
<1>4. request' = [request EXCEPT ![r] = q]
  BY <1>2 DEF Answer
<1>5. Local(r) /\ request'[r] = q
  BY <1>3, <1>4, Puts
<1>. QED  BY <1>3, <1>5 DEF At

\* So is moving on to the next await.
LEMMA Goes ==
    ASSUME NEW r \in Requests, NEW phase \in Phase,
           request \in [Requests -> Request], Go(r, phase)
    PROVE  /\ Local(r)
           /\ At(r, phase)'
           /\ request'[r].acted = request[r].acted
           /\ request'[r].doomed = request[r].doomed
           /\ request'[r].counted = request[r].counted
           /\ request'[r].user = request[r].user
<1>1. request[r] \in Request
  OBVIOUS
<1>2. PICK q : q = [request[r] EXCEPT !.phase = phase]
  OBVIOUS
<1>3. /\ q \in Request
      /\ q.input = request[r].input
      /\ q.doomed = request[r].doomed
      /\ q.counted = request[r].counted
      /\ q.acted = request[r].acted
      /\ q.user = request[r].user
      /\ q.phase = phase
  BY <1>1, <1>2 DEF Request
<1>4. request' = [request EXCEPT ![r] = q]
  BY <1>2 DEF Go
<1>5. Local(r) /\ request'[r] = q
  BY <1>3, <1>4, Puts
<1>. QED  BY <1>3, <1>5 DEF At

\* An answered request is beyond both invariants.
LEMMA AnswerKeeps ==
    ASSUME GatewayInv, NEW r \in Requests, NEW status \in Status,
           ~At(r, "idle"), Answer(r, status)
    PROVE  Local(r) /\ IdentityInv(r)' /\ DoomInv(r)'
<1>1. /\ Local(r)
      /\ At(r, "answered")'
      /\ request'[r].acted = request[r].acted
      /\ request'[r].doomed = request[r].doomed
  BY Answers DEF GatewayInv, TypeOK
<1>2. IdentityInv(r) /\ DoomInv(r)
  BY DEF GatewayInv
<1>3. IdentityInv(r)'
  BY <1>1, <1>2 DEF IdentityInv, At, In, Local
<1>4. DoomInv(r)'
  BY <1>1, <1>2 DEF DoomInv, At, In, Local
<1>. QED  BY <1>1, <1>3, <1>4

\* On arrival doomed is what it says.
LEMMA ArriveKeeps ==
    ASSUME GatewayInv, NEW r \in Requests, Arrive(r)
    PROVE  Local(r) /\ IdentityInv(r)' /\ DoomInv(r)'
<1>1. /\ request \in [Requests -> Request]
      /\ request[r] \in Request
      /\ UNCHANGED <<now, blocked, barred>>
  BY DEF GatewayInv, TypeOK, Arrive, Resolves
<1>2. IdentityInv(r)
  BY DEF GatewayInv
<1>3. PICK doomed : doomed = Refused(In(r).token)
  OBVIOUS
<1>4. PICK phase \in {"limit", "answered"} :
          phase = IF In(r).origin /\ ~In(r).preflight THEN "limit" ELSE "answered"
  OBVIOUS
<1>5. PICK status \in Status \union {None} :
          status = CASE ~In(r).origin -> 500
                     [] In(r).origin /\ In(r).preflight -> 204
                     [] OTHER -> None
  BY DEF Status
<1>6. PICK q : q = [[[request[r] EXCEPT !.doomed = doomed] EXCEPT !.phase = phase]
                        EXCEPT !.status = status]
  OBVIOUS
<1>7. /\ q \in Request
      /\ q.input = request[r].input
      /\ q.doomed = doomed
      /\ q.acted = request[r].acted
      /\ q.phase = phase
  <2>1. doomed \in BOOLEAN
    BY <1>3 DEF Refused
  <2>. QED  BY <1>1, <1>6, <2>1 DEF Request, Phase
<1>8. request' = [request EXCEPT ![r] = q]
  <2>1. CASE ~In(r).origin
    <3>1. phase = "answered" /\ status = 500
      BY <2>1, <1>4, <1>5
    <3>2. request' = [request EXCEPT ![r].doomed = Refused(In(r).token),
                                     ![r].phase = "answered", ![r].status = 500]
      BY <2>1 DEF Arrive
    <3>3. request' = [request EXCEPT ![r].doomed = doomed,
                                     ![r].phase = phase, ![r].status = status]
      BY <3>1, <3>2, <1>3
    <3>. QED  BY <3>3, <1>6
  <2>2. CASE In(r).origin /\ In(r).preflight
    <3>1. phase = "answered" /\ status = 204
      BY <2>2, <1>4, <1>5
    <3>2. request' = [request EXCEPT ![r].doomed = Refused(In(r).token),
                                     ![r].phase = "answered", ![r].status = 204]
      BY <2>2 DEF Arrive
    <3>. QED  BY <3>1, <3>2, <1>3, <1>6
  <2>3. CASE In(r).origin /\ ~In(r).preflight
    <3>1. phase = "limit" /\ status = None
      BY <2>3, <1>4, <1>5
    <3>2. request' = [request EXCEPT ![r].doomed = Refused(In(r).token),
                                     ![r].phase = "limit", ![r].status = None]
      BY <2>3 DEF Arrive
    <3>. QED  BY <3>1, <3>2, <1>3, <1>6
  <2>. QED  BY <2>1, <2>2, <2>3
<1>9. Local(r) /\ request'[r] = q
  BY <1>1, <1>7, <1>8, Puts
<1>10. IdentityInv(r)'
  BY <1>2, <1>7, <1>9 DEF IdentityInv, At, In
<1>11. DoomInv(r)'
  BY <1>1, <1>3, <1>7, <1>9 DEF DoomInv, At, In, Expired, InRedis, Refused
<1>. QED  BY <1>9, <1>10, <1>11

\* Past the limiter, with Redis or without.
LEMMA LimitKeeps ==
    ASSUME GatewayInv, NEW r \in Requests, Limit(r) \/ LimiterUnavailable(r)
    PROVE  Local(r) /\ IdentityInv(r)' /\ DoomInv(r)'
<1>1. /\ request \in [Requests -> Request]
      /\ request[r] \in Request
      /\ now \in Nat
      /\ request[r].phase = "limit"
      /\ UNCHANGED <<now, blocked, barred>>
  BY DEF GatewayInv, TypeOK, Limit, LimiterUnavailable, At, Rejects, Resolves
<1>2. CASE Answer(r, 429)
  BY <1>1, <1>2, AnswerKeeps DEF At, Status
<1>3. CASE request' = [request EXCEPT ![r].phase = "verify", ![r].counted = now]
  <2>1. PICK q : q = [[request[r] EXCEPT !.phase = "verify"] EXCEPT !.counted = now]
    OBVIOUS
  <2>2. /\ q \in Request
        /\ q.input = request[r].input
        /\ q.doomed = request[r].doomed
        /\ q.acted = request[r].acted
        /\ q.phase = "verify"
    BY <1>1, <2>1 DEF Request, Phase
  <2>3. request' = [request EXCEPT ![r] = q]
    BY <1>3, <2>1
  <2>4. Local(r) /\ request'[r] = q
    BY <1>1, <2>2, <2>3, Puts
  <2>5. IdentityInv(r)' /\ DoomInv(r)'
    BY <1>1, <2>2, <2>4
       DEF GatewayInv, IdentityInv, DoomInv, At, In, Expired, InRedis
  <2>. QED  BY <2>4, <2>5
<1>4. CASE LimiterUnavailable(r)
  <2>1. /\ Local(r)
        /\ At(r, "verify")'
        /\ request'[r].acted = request[r].acted
        /\ request'[r].doomed = request[r].doomed
    BY <1>1, <1>4, Goes DEF LimiterUnavailable, Phase
  <2>2. IdentityInv(r)' /\ DoomInv(r)'
    BY <1>1, <2>1
       DEF GatewayInv, IdentityInv, DoomInv, At, In, Expired, InRedis, Local
  <2>. QED  BY <2>1, <2>2
<1>. QED  BY <1>2, <1>3, <1>4 DEF Limit

\* Routing gives a request its next phase and perhaps its answer.
LEMMA Routes ==
    ASSUME NEW r \in Requests, request[r] \in Request, NEW path
    PROVE  /\ Route(r, path) \in Request
           /\ Route(r, path).input = request[r].input
           /\ Route(r, path).doomed = request[r].doomed
           /\ Route(r, path).counted = request[r].counted
           /\ Route(r, path).acted = request[r].acted
           /\ Route(r, path).phase \in {"upstream", "ping", "answered"}
<1>1. PICK phase : phase = CASE path \in Proxied -> "upstream"
                             [] path = "readyz" -> "ping"
                             [] OTHER -> "answered"
  OBVIOUS
<1>2. PICK status : status = CASE path = "healthz" -> 200
                               [] path \in Proxied \union {"readyz"} -> None
                               [] OTHER -> 404
  OBVIOUS
<1>3. phase \in {"upstream", "ping", "answered"}
  BY <1>1
<1>4. status \in Status \union {None}
  BY <1>2 DEF Status
<1>5. Route(r, path) = [[request[r] EXCEPT !.phase = phase] EXCEPT !.status = status]
  BY <1>1, <1>2 DEF Route
<1>. QED  BY <1>3, <1>4, <1>5 DEF Request, Phase

\* Past the signature: the user is the token's owner.
LEMMA VerifyKeeps ==
    ASSUME GatewayInv, NEW r \in Requests, VerifyPublic(r) \/ Verify(r)
    PROVE  Local(r) /\ IdentityInv(r)' /\ DoomInv(r)'
<1>1. /\ request \in [Requests -> Request]
      /\ request[r] \in Request
      /\ request[r].phase = "verify"
      /\ UNCHANGED <<now, blocked, barred>>
  BY DEF GatewayInv, TypeOK, VerifyPublic, Verify, At, Resolves
<1>2. In(r) \in Input /\ IdentityInv(r) /\ DoomInv(r)
  BY <1>1 DEF GatewayInv, In, Request
<1>3. CASE VerifyPublic(r)
  <2>1. PICK q : q = [Route(r, In(r).path) EXCEPT !.header = None]
    OBVIOUS
  <2>2. /\ q.input = request[r].input
        /\ q.doomed = request[r].doomed
        /\ q.acted = request[r].acted
        /\ q.phase \in {"upstream", "ping", "answered"}
    BY <1>1, <2>1, Routes DEF Request
  <2>3. q \in Request
    BY <1>1, <2>1, Routes DEF Request
  <2>4. Local(r) /\ request'[r] = q
    BY <1>1, <1>3, <2>1, <2>2, <2>3, Puts DEF VerifyPublic
  <2>5. IdentityInv(r)'
    BY <1>2, <1>3, <2>2, <2>4 DEF IdentityInv, At, In, VerifyPublic
  <2>6. DoomInv(r)'
    BY <1>2, <2>2, <2>4 DEF DoomInv, At, In
  <2>. QED  BY <2>4, <2>5, <2>6
<1>4. CASE Verify(r) /\ Answer(r, 401)
  BY <1>1, <1>4, AnswerKeeps DEF At, Status
<1>5. CASE /\ Verify(r)
           /\ In(r).token # None
           /\ request' = [request EXCEPT ![r].phase = "jti",
                                         ![r].user = Owner[In(r).token]]
  <2>1. PICK q : q = [[request[r] EXCEPT !.phase = "jti"]
                          EXCEPT !.user = Owner[In(r).token]]
    OBVIOUS
  <2>2. Owner[In(r).token] \in Users
    BY <1>2, <1>5, GatewaySetsAssumption DEF Input
  <2>3. /\ q \in Request
        /\ q.input = request[r].input
        /\ q.doomed = request[r].doomed
        /\ q.acted = request[r].acted
        /\ q.phase = "jti"
        /\ q.user = Owner[In(r).token]
    BY <1>1, <2>1, <2>2 DEF Request, Phase
  <2>4. request' = [request EXCEPT ![r] = q]
    BY <1>5, <2>1
  <2>5. Local(r) /\ request'[r] = q
    BY <1>1, <2>3, <2>4, Puts
  <2>6. IdentityInv(r)'
    BY <1>2, <1>5, <2>3, <2>5 DEF IdentityInv, At, In, Verify
  <2>7. DoomInv(r)'
    BY <1>1, <1>2, <2>3, <2>5 DEF DoomInv, At, In, Expired, InRedis
  <2>. QED  BY <2>5, <2>6, <2>7
<1>. QED  BY <1>3, <1>4, <1>5 DEF Verify

\* Past the lookups in Redis: what refused a doomed token is found in time, and
\* the header that goes on is the owner's.
LEMMA BlocklistKeeps ==
    ASSUME GatewayInv, NEW r \in Requests,
           CheckBlocklist(r) \/ CheckSuspended(r) \/ BlocklistUnavailable(r)
    PROVE  Local(r) /\ IdentityInv(r)' /\ DoomInv(r)'
<1>1. /\ request \in [Requests -> Request]
      /\ request[r] \in Request
      /\ request[r].phase \in {"jti", "suspended"}
      /\ UNCHANGED <<now, blocked, barred>>
  BY DEF GatewayInv, TypeOK, CheckBlocklist, CheckSuspended,
         BlocklistUnavailable, At, Resolves, Rejects
<1>2. IdentityInv(r) /\ DoomInv(r) /\ In(r) \in Input
  BY <1>1 DEF GatewayInv, In, Request
<1>3. CASE Answer(r, 401)
  BY <1>1, <1>3, AnswerKeeps DEF At, Status
<1>4. CASE BlocklistUnavailable(r)
  <2>1. Answer(r, 401)
    BY <1>4 DEF BlocklistUnavailable, FailsClosed, Answer
  <2>. QED  BY <1>3, <2>1
<1>5. CASE /\ CheckBlocklist(r)
           /\ ~InRedis(blocked[In(r).token])
           /\ Go(r, "suspended")
  <2>1. /\ Local(r)
        /\ At(r, "suspended")'
        /\ request'[r].acted = request[r].acted
        /\ request'[r].doomed = request[r].doomed
        /\ request'[r].user = request[r].user
    BY <1>1, <1>5, Goes DEF Phase
  <2>2. IdentityInv(r)'
    BY <1>1, <1>2, <2>1 DEF IdentityInv, At, In, Local
  <2>3. DoomInv(r)'
    BY <1>1, <1>2, <1>5, <2>1
       DEF DoomInv, At, In, Expired, InRedis, Local, CheckBlocklist
  <2>. QED  BY <2>1, <2>2, <2>3
<1>6. CASE /\ CheckSuspended(r)
           /\ request' = [request EXCEPT ![r] =
                  [Route(r, In(r).path) EXCEPT !.header = InjectedHeader(r),
                                               !.bearer = FALSE]]
  <2>1. PICK q : q = [[Route(r, In(r).path) EXCEPT !.header = request[r].user]
                          EXCEPT !.bearer = FALSE]
    OBVIOUS
  <2>2. /\ q \in Request
        /\ q.input = request[r].input
        /\ q.doomed = request[r].doomed
        /\ q.acted = request[r].acted
        /\ q.phase \in {"upstream", "ping", "answered"}
        /\ q.header = request[r].user
    BY <1>1, <2>1, Routes DEF Request
  <2>3. request' = [request EXCEPT ![r] = q]
    BY <1>6, <2>1 DEF InjectedHeader
  <2>4. Local(r) /\ request'[r] = q
    BY <1>1, <2>2, <2>3, Puts
  <2>5. IdentityInv(r)'
    BY <1>1, <1>2, <2>2, <2>4 DEF IdentityInv, At, In
  <2>6. DoomInv(r)'
    BY <1>2, <2>2, <2>4 DEF DoomInv, At, In
  <2>. QED  BY <2>4, <2>5, <2>6
<1>. QED  BY <1>3, <1>4, <1>5, <1>6 DEF CheckBlocklist, CheckSuspended

\* At the services: they act for the identity the gateway sent.
LEMMA UpstreamKeeps ==
    ASSUME GatewayInv, NEW r \in Requests,
           \/ Ping(r) \/ PingUnavailable(r)
           \/ Handle(r) \/ UpstreamUnavailable(r)
    PROVE  Local(r) /\ IdentityInv(r)' /\ DoomInv(r)'
<1>1. /\ request \in [Requests -> Request]
      /\ request[r] \in Request
      /\ request[r].phase \in {"ping", "upstream"}
  BY DEF GatewayInv, TypeOK, Ping, PingUnavailable, Handle,
         UpstreamUnavailable, At
<1>2. IdentityInv(r) /\ DoomInv(r) /\ In(r) \in Input
  BY <1>1 DEF GatewayInv, In, Request
<1>3. CASE \E status \in {200, 401, 503} : Answer(r, status)
  BY <1>1, <1>3, AnswerKeeps DEF At, Status
<1>4. CASE /\ Handle(r)
           /\ Identified(r)
           /\ request' = [request EXCEPT ![r].phase = "answered",
                                         ![r].status = 200,
                                         ![r].acted = Identity(r)]
  <2>2. \/ Identity(r) = None
        \/ /\ In(r).path \in {"logout", "accounts"}
           /\ In(r).token # None
           /\ Identity(r) = Owner[In(r).token]
    BY <1>2, <1>4 DEF Identity, Handle, IdentityInv, At, Public
  <2>3. Identity(r) \in Users \union {None}
    BY <1>2, <2>2, GatewaySetsAssumption DEF Input
  <2>9. PICK acted \in Users \union {None} : acted = Identity(r)
    BY <2>3
  <2>10. PICK status \in Status : status = 200
    BY DEF Status
  <2>1. PICK q : q = [[[request[r] EXCEPT !.phase = "answered"]
                          EXCEPT !.status = status] EXCEPT !.acted = acted]
    OBVIOUS
  <2>4. /\ q \in Request
        /\ q.input = request[r].input
        /\ q.doomed = request[r].doomed
        /\ q.acted = Identity(r)
        /\ q.phase = "answered"
    BY <1>1, <2>1, <2>9 DEF Request, Phase
  <2>5. request' = [request EXCEPT ![r] = q]
    BY <1>4, <2>1, <2>9, <2>10
  <2>6. Local(r) /\ request'[r] = q
    BY <1>1, <2>4, <2>5, Puts
  <2>7. IdentityInv(r)'
    BY <2>2, <2>4, <2>6 DEF IdentityInv, At, In
  <2>8. DoomInv(r)'
    BY <1>1, <1>2, <2>4, <2>6 DEF DoomInv, At, In
  <2>. QED  BY <2>6, <2>7, <2>8
<1>. QED  BY <1>3, <1>4 DEF Ping, PingUnavailable, Handle, UpstreamUnavailable
-----------------------------------------------------------------------------
\* What one request does keeps the invariant of all.
LEMMA LocalKeeps ==
    ASSUME GatewayInv, NEW r \in Requests, Local(r),
           UNCHANGED <<now, blocked, barred>>,
           counter' \in [Ips -> [count : Nat, until : Nat]], failures' \in Nat,
           IdentityInv(r)', DoomInv(r)'
    PROVE  GatewayInv'
<1>1. TypeOK'
  BY DEF GatewayInv, TypeOK, Local
<1>2. KeysInv'
  BY DEF GatewayInv, KeysInv
<1>3. ASSUME NEW s \in Requests \ {r} PROVE IdentityInv(s)' /\ DoomInv(s)'
  <2>1. request'[s] = request[s] /\ IdentityInv(s) /\ DoomInv(s)
    BY DEF GatewayInv, Local
  <2>. QED  BY <2>1 DEF IdentityInv, DoomInv, At, In, Expired, InRedis
<1>. QED  BY <1>1, <1>2, <1>3 DEF GatewayInv

\* Keys and clock: a key that goes takes its token with it.
LEMMA KeysKeep ==
    ASSUME GatewayInv, UNCHANGED <<request, counter, failures>>,
           \/ \E t \in Tokens : BlocklistToken(t)
           \/ \E u \in Users : Bar(u)
           \/ Tick
    PROVE  GatewayInv'
<1>. USE GatewaySetsAssumption, GatewayBoundsAssumption DEF GatewayInv, KeysInv
<1>1. TypeOK' /\ KeysInv'
  BY DEF TypeOK, BlocklistToken, Bar, Tick
<1>2. ASSUME NEW r \in Requests PROVE IdentityInv(r)' /\ DoomInv(r)'
  <2>1. IdentityInv(r)'
    BY DEF IdentityInv, At, In
  <2>2. ASSUME NEW t \in Tokens
        PROVE  /\ Expired(t) => Expired(t)'
               /\ InRedis(barred[Owner[t]]) => InRedis(barred[Owner[t]])'
               /\ InRedis(blocked[t]) => InRedis(blocked[t])' \/ Expired(t)'
    BY DEF TypeOK, Expired, InRedis, BlocklistToken, Bar, Tick
  <2>3. In(r).token \in Tokens \union {None}
    BY DEF TypeOK, In, Request, Input
  <2>4. DoomInv(r)
    OBVIOUS
  <2>5. DoomInv(r)'
    BY <2>2, <2>3, <2>4 DEF DoomInv, At, In
  <2>. QED  BY <2>1, <2>5
<1>. QED  BY <1>1, <1>2

\* The invariant is inductive.
LEMMA NextInv == GatewayInv /\ [Next]_vars => GatewayInv'
<1>. SUFFICES ASSUME GatewayInv, [Next]_vars PROVE GatewayInv'
  OBVIOUS
<1>1. ASSUME NEW r \in Requests, Arrive(r) \/ Work(r) PROVE GatewayInv'
  <2>1. Local(r) /\ IdentityInv(r)' /\ DoomInv(r)'
    BY <1>1, ArriveKeeps, LimitKeeps, VerifyKeeps, BlocklistKeeps,
       UpstreamKeeps DEF Work
  <2>2. UNCHANGED <<now, blocked, barred>> /\ failures' \in Nat
    BY <1>1 DEF GatewayInv, TypeOK, Work, Rejects, Resolves, Arrive, Limit,
       LimiterUnavailable, VerifyPublic, Verify, CheckBlocklist, CheckSuspended,
       BlocklistUnavailable, Ping, PingUnavailable, Handle, UpstreamUnavailable
  <2>3. counter' \in [Ips -> [count : Nat, until : Nat]]
    <3>1. CASE Limit(r)
      <4>1. request[r] \in Request /\ In(r).ip \in Ips
        BY DEF GatewayInv, TypeOK, In, Request, Input
      <4>2. Incremented(In(r).ip) \in [count : Nat, until : Nat]
        BY <4>1, GatewayBoundsAssumption DEF GatewayInv, TypeOK, Incremented
      <4>. QED  BY <3>1, <4>1, <4>2 DEF Limit, GatewayInv, TypeOK
    <3>2. CASE ~Limit(r)
      BY <3>2, <1>1 DEF GatewayInv, TypeOK, Work, Rejects, Arrive,
         LimiterUnavailable, VerifyPublic, Verify, CheckBlocklist, CheckSuspended,
         BlocklistUnavailable, Ping, PingUnavailable, Handle, UpstreamUnavailable
    <3>. QED  BY <3>1, <3>2
  <2>. QED  BY <2>1, <2>2, <2>3, LocalKeeps
<1>2. CASE \E t \in Tokens : BlocklistToken(t)
  BY <1>2, KeysKeep DEF BlocklistToken
<1>3. CASE \E u \in Users : Bar(u)
  BY <1>3, KeysKeep DEF Bar
<1>4. CASE Tick
  BY <1>4, KeysKeep DEF Tick
<1>5. CASE UNCHANGED vars
  <2>. USE <1>5 DEF vars, GatewayInv
  <2>1. TypeOK' /\ KeysInv'
    BY DEF TypeOK, KeysInv
  <2>2. ASSUME NEW r \in Requests PROVE IdentityInv(r)' /\ DoomInv(r)'
    BY DEF IdentityInv, DoomInv, At, In, Expired, InRedis
  <2>. QED  BY <2>1, <2>2
<1>. QED  BY <1>1, <1>2, <1>3, <1>4, <1>5 DEF Next

\* Every reachable state is well typed, and no lookup is passed by a token that
\* it refuses.
THEOREM Invariance == Spec => []GatewayInv
  BY InitInv, NextInv, PTL DEF Spec

\* Services act for the owner of the token the gateway verified.
THEOREM OwnersOnly == Spec => []ActsForTheOwner
<1>1. GatewayInv => ActsForTheOwner
  BY DEF GatewayInv, IdentityInv, ActsForTheOwner
<1>. QED  BY <1>1, Invariance, PTL

\* A token refused on arrival takes a request to no protected service.
THEOREM DoomedStops == Spec => DoomedStopsHere
<1>. DEFINE Step == \A r \in Requests :
         /\ ~At(r, "upstream") /\ At(r, "upstream")'
         /\ In(r).path \notin Public
         /\ request[r].doomed
         => now >= Exp[In(r).token]
<1>1. GatewayInv /\ [Next]_vars => [Step]_vars
  <2>. SUFFICES ASSUME GatewayInv, Next, NEW r \in Requests,
                       ~At(r, "upstream"), At(r, "upstream")',
                       In(r).path \notin Public, request[r].doomed
                PROVE  now >= Exp[In(r).token]
    OBVIOUS
  <2>1. IdentityInv(r) /\ DoomInv(r)
    BY DEF GatewayInv
  <2>2. PICK s \in Requests : Arrive(s) \/ Work(s)
    BY DEF Next, BlocklistToken, Bar, Tick, At
  <2>3. s = r
    <3>1. Local(s)
      BY <2>2, ArriveKeeps, LimitKeeps, VerifyKeeps, BlocklistKeeps,
         UpstreamKeeps DEF Work
    <3>. QED  BY <3>1 DEF Local, At
  <2>4. ~Arrive(r)
    <3>1. ASSUME Arrive(r) PROVE request'[r].phase # "upstream"
      <4>1. /\ request \in [Requests -> Request]
            /\ request[r] \in Request
        BY DEF GatewayInv, TypeOK
      <4>2. PICK ph \in {"limit", "answered"} :
                request'[r].phase = ph
        BY <3>1, <4>1 DEF Arrive, Request
      <4>. QED  BY <4>2
    <3>. QED  BY <3>1 DEF At
  <2>5. CheckSuspended(r)
    <3>1. request \in [Requests -> Request]
      BY DEF GatewayInv, TypeOK
    <3>2. ~(\E status \in Status : Answer(r, status))
      BY <3>1, Answers DEF At
    <3>3. ~(\E phase \in {"verify", "jti", "suspended"} : Go(r, phase))
      BY <3>1, Goes DEF At, Phase
    <3>4. /\ ~VerifyPublic(r) /\ ~Handle(r) /\ ~UpstreamUnavailable(r)
          /\ ~Ping(r) /\ ~PingUnavailable(r) /\ ~LimiterUnavailable(r)
          /\ ~CheckBlocklist(r)
      BY <3>2, <3>3 DEF VerifyPublic, Handle, UpstreamUnavailable, Ping,
         PingUnavailable, LimiterUnavailable, CheckBlocklist, At, Status
    <3>5. ~Limit(r) /\ ~Verify(r) /\ ~BlocklistUnavailable(r)
      BY <3>1, <3>2 DEF Limit, Verify, BlocklistUnavailable, FailsClosed,
         At, Status, Request
    <3>. QED  BY <2>2, <2>3, <2>4, <3>4, <3>5 DEF Work
  <2>6. At(r, "suspended") /\ ~InRedis(barred[request[r].user])
    <3>1. request \in [Requests -> Request] /\ 401 \in Status
      BY DEF GatewayInv, TypeOK, Status
    <3>2. ~Answer(r, 401)
      BY <3>1, Answers DEF At
    <3>. QED  BY <2>5, <3>2 DEF CheckSuspended
  <2>7. Expired(In(r).token)
    BY <2>1, <2>6 DEF DoomInv, IdentityInv, At
  <2>. QED  BY <2>7 DEF Expired
<1>. QED  BY <1>1, Invariance, PTL DEF Spec, DoomedStopsHere

-----------------------------------------------------------------------------
(* The limiter.  What counts for an address are the times its requests were  *)
(* let pass, those of its current key, and those of the window before it.    *)
(* The next six lemmas are about such times alone: f[r] is when r passed,   *)
(* or None, and the key was set Window before until and stands at count.     *)

Passed(f, times) == {r \in Requests : f[r] \in times}

Since(start) == {t \in Nat : t >= start}
Later(start) == {t \in Nat : t > start}
Before(start) == {t \in Nat : start - Window < t /\ t < start}
Span(t) == t .. t + Window - 1

\* The requests the key counted are within the limit; without the one that set
\* it they are fewer, and so are those that came less than a window before the
\* key; who passed did so before the key expires; and in any span of a window's
\* length fewer passed than twice the limit.
Key(f, until, count, time) ==
    /\ until - Window <= time
    /\ count > 0 \/ until <= time
    /\ IsFiniteSet(Passed(f, Nat))
    /\ \A r \in Passed(f, Nat) : f[r] < until
    /\ Cardinality(Passed(f, Since(until - Window))) <= count
    /\ Cardinality(Passed(f, Since(until - Window))) <= MaxRequests
    /\ \/ Cardinality(Passed(f, Later(until - Window))) = 0
       \/ Cardinality(Passed(f, Later(until - Window))) < count
    /\ Cardinality(Passed(f, Later(until - Window))) < MaxRequests
    /\ Cardinality(Passed(f, Before(until - Window))) < MaxRequests
    /\ \A t \in Nat : Cardinality(Passed(f, Span(t))) < 2 * MaxRequests

\* A set within two finite ones has at most as many elements as both together.
LEMMA WithinTwo ==
    ASSUME NEW S, NEW T, IsFiniteSet(S), IsFiniteSet(T), NEW R \in SUBSET (S \union T)
    PROVE  /\ IsFiniteSet(R) /\ Cardinality(R) \in Nat
           /\ Cardinality(S) \in Nat /\ Cardinality(T) \in Nat
           /\ Cardinality(R) <= Cardinality(S) + Cardinality(T)
<1>1. /\ IsFiniteSet(S \union T) /\ IsFiniteSet(S \cap T)
      /\ Cardinality(S \union T) = Cardinality(S) + Cardinality(T) - Cardinality(S \cap T)
  BY FS_Union, FS_Subset
<1>2. IsFiniteSet(R) /\ Cardinality(R) <= Cardinality(S \union T)
  BY <1>1, FS_Subset
<1>. QED  BY <1>1, <1>2, FS_CardinalityType

\* Fewer times, fewer requests.
LEMMA PassedWithin ==
    ASSUME NEW f, IsFiniteSet(Passed(f, Nat)),
           NEW T \in SUBSET Nat, NEW U \in SUBSET T
    PROVE  /\ IsFiniteSet(Passed(f, T)) /\ Cardinality(Passed(f, T)) \in Nat
           /\ IsFiniteSet(Passed(f, U)) /\ Cardinality(Passed(f, U)) \in Nat
           /\ Cardinality(Passed(f, U)) <= Cardinality(Passed(f, T))
<1>1. Passed(f, T) \subseteq Passed(f, Nat) /\ Passed(f, U) \subseteq Passed(f, T)
  BY DEF Passed
<1>2. IsFiniteSet(Passed(f, T))
  BY <1>1, FS_Subset
<1>3. IsFiniteSet(Passed(f, U)) /\ Cardinality(Passed(f, U)) <= Cardinality(Passed(f, T))
  BY <1>1, <1>2, FS_Subset
<1>. QED  BY <1>2, <1>3, FS_CardinalityType

\* A span that reaches into the key's time is within it and the window before.
LEMMA SpanBounded ==
    ASSUME NEW f, IsFiniteSet(Passed(f, Nat)), NEW start \in Int,
           Cardinality(Passed(f, Since(start))) <= MaxRequests,
           Cardinality(Passed(f, Before(start))) < MaxRequests,
           NEW t \in Nat, t + Window > start
    PROVE  Cardinality(Passed(f, Span(t))) < 2 * MaxRequests
<1>1. Window \in Nat /\ MaxRequests \in Nat
  BY GatewayBoundsAssumption
<1>2. Passed(f, Span(t)) \subseteq Passed(f, Before(start)) \union Passed(f, Since(start))
  BY <1>1 DEF Passed, Span, Before, Since
<1>3. IsFiniteSet(Passed(f, Before(start))) /\ IsFiniteSet(Passed(f, Since(start)))
  <2>1. Before(start) \subseteq Nat /\ Since(start) \subseteq Nat
    BY DEF Before, Since
  <2>. QED  BY <2>1, PassedWithin
<1>. QED  BY <1>1, <1>2, <1>3, WithinTwo

\* One more request passes, now.
LEMMA PassedOneMore ==
    ASSUME NEW f, IsFiniteSet(Passed(f, Nat)), NEW r \in Requests, NEW time \in Nat,
           NEW g, g = [f EXCEPT ![r] = time], f \in [Requests -> Nat \union {None}],
           NEW T \in SUBSET Nat
    PROVE  /\ IsFiniteSet(Passed(g, T)) /\ Cardinality(Passed(g, T)) \in Nat
           /\ Cardinality(Passed(g, T)) <= Cardinality(Passed(f, T)) + 1
           /\ time \notin T => Cardinality(Passed(g, T)) <= Cardinality(Passed(f, T))
<1>1. IsFiniteSet(Passed(f, T)) /\ Cardinality(Passed(f, T)) \in Nat
  BY PassedWithin
<1>2. IsFiniteSet({r}) /\ Cardinality({r}) = 1
  BY FS_Singleton
<1>3. Passed(g, T) \subseteq Passed(f, T) \union {r}
  BY DEF Passed
<1>4. time \notin T => Passed(g, T) \subseteq Passed(f, T)
  BY DEF Passed
<1>5. /\ IsFiniteSet(Passed(g, T)) /\ Cardinality(Passed(g, T)) \in Nat
      /\ Cardinality(Passed(g, T)) <= Cardinality(Passed(f, T)) + 1
  BY <1>1, <1>2, <1>3, WithinTwo
<1>. QED  BY <1>1, <1>4, <1>5, FS_Subset

\* The key lives: it counts one more request, which passes.
LEMMA KeyCounts ==
    ASSUME NEW f \in [Requests -> Nat \union {None}], NEW r \in Requests,
           NEW until \in Nat, NEW count \in Nat, NEW time \in Nat,
           Key(f, until, count, time), time < until, count + 1 <= MaxRequests,
           NEW g, g = [f EXCEPT ![r] = time]
    PROVE  Key(g, until, count + 1, time)
<1>. DEFINE start == until - Window
<1>1. /\ Window \in Nat /\ MaxRequests \in Nat /\ start \in Int /\ start <= time
      /\ IsFiniteSet(Passed(f, Nat))
  BY GatewayBoundsAssumption DEF Key
<1>2. /\ Since(start) \subseteq Nat /\ Later(start) \subseteq Nat
      /\ Before(start) \subseteq Nat /\ time \notin Before(start)
  BY <1>1 DEF Since, Before, Later
<1>3. IsFiniteSet(Passed(g, Nat))
  BY <1>1, PassedOneMore
<1>4. \A q \in Passed(g, Nat) : g[q] < until
  BY DEF Passed, Key
<1>5. /\ Cardinality(Passed(f, Since(start))) \in Nat
      /\ Cardinality(Passed(f, Later(start))) \in Nat
      /\ Cardinality(Passed(f, Before(start))) \in Nat
  BY <1>1, <1>2, PassedWithin
<1>6. /\ Cardinality(Passed(g, Since(start))) <= Cardinality(Passed(f, Since(start))) + 1
      /\ Cardinality(Passed(g, Since(start))) \in Nat
  BY <1>1, <1>2, PassedOneMore
<1>7. /\ Cardinality(Passed(g, Before(start))) <= Cardinality(Passed(f, Before(start)))
      /\ Cardinality(Passed(g, Before(start))) \in Nat
  BY <1>1, <1>2, PassedOneMore
<1>8. /\ Cardinality(Passed(g, Later(start))) <= Cardinality(Passed(f, Later(start))) + 1
      /\ Cardinality(Passed(g, Later(start))) \in Nat
  BY <1>1, <1>2, PassedOneMore
<1>9. count > 0
  BY DEF Key
<1>10. /\ Cardinality(Passed(g, Since(start))) <= count + 1
       /\ Cardinality(Passed(g, Later(start))) < count + 1
       /\ Cardinality(Passed(g, Later(start))) < MaxRequests
       /\ Cardinality(Passed(g, Since(start))) <= MaxRequests
       /\ Cardinality(Passed(g, Before(start))) < MaxRequests
  <2>1. /\ Cardinality(Passed(f, Since(start))) <= count
        /\ \/ Cardinality(Passed(f, Later(start))) = 0
           \/ Cardinality(Passed(f, Later(start))) < count
        /\ Cardinality(Passed(f, Before(start))) < MaxRequests
    BY DEF Key
  <2>. HIDE DEF start
  <2>. QED  BY <1>1, <1>5, <1>6, <1>7, <1>8, <1>9, <2>1
<1>11. ASSUME NEW t \in Nat
       PROVE  Cardinality(Passed(g, Span(t))) < 2 * MaxRequests
  <2>1. CASE t + Window > start
    BY <1>1, <1>3, <1>10, <2>1, SpanBounded
  <2>2. CASE ~(t + Window > start)
    <3>1. Span(t) \subseteq Nat /\ time \notin Span(t)
      BY <1>1, <2>2 DEF Span
    <3>2. /\ Cardinality(Passed(g, Span(t))) <= Cardinality(Passed(f, Span(t)))
          /\ Cardinality(Passed(g, Span(t))) \in Nat
      BY <1>1, <3>1, PassedOneMore
    <3>3. /\ Cardinality(Passed(f, Span(t))) < 2 * MaxRequests
          /\ Cardinality(Passed(f, Span(t))) \in Nat
      BY <1>1, <3>1, PassedWithin DEF Key
    <3>. QED  BY <1>1, <3>2, <3>3
  <2>. QED  BY <2>1, <2>2
<1>12. count + 1 > 0 \/ until <= time
  BY <1>9
<1>13. \/ Cardinality(Passed(g, Later(start))) = 0
       \/ Cardinality(Passed(g, Later(start))) < count + 1
  BY <1>10
<1>. QED  BY <1>1, <1>3, <1>4, <1>10, <1>11, <1>12, <1>13, Zenon DEF Key

\* The key has expired: a new one is set, with the request that passes.
LEMMA KeyIsRenewed ==
    ASSUME NEW f \in [Requests -> Nat \union {None}], NEW r \in Requests,
           NEW until \in Nat, NEW count \in Nat, NEW time \in Nat,
           Key(f, until, count, time), time >= until,
           NEW g, g = [f EXCEPT ![r] = time]
    PROVE  Key(g, time + Window, 1, time)
<1>1. /\ Window \in Nat /\ MaxRequests \in Nat \ {0} /\ (time + Window) - Window = time
      /\ IsFiniteSet(Passed(f, Nat))
  BY GatewayBoundsAssumption DEF Key
<1>2. /\ Since(time) \subseteq Nat /\ Before(time) \subseteq Nat
      /\ Later(until - Window) \subseteq Nat /\ Later(time) \subseteq Nat
      /\ time \notin Later(time)
      /\ time \notin Before(time) /\ Before(time) \subseteq Later(until - Window)
  BY <1>1 DEF Since, Before, Later
<1>3. IsFiniteSet(Passed(g, Nat))
  BY <1>1, PassedOneMore
<1>4. \A q \in Passed(g, Nat) : g[q] < time + Window
  <2>1. Window > 0
    BY GatewayBoundsAssumption
  <2>. QED  BY <1>1, <2>1 DEF Passed, Key
<1>5. /\ Cardinality(Passed(g, Since(time))) <= 1
      /\ Cardinality(Passed(g, Since(time))) \in Nat
  <2>1. Passed(f, Since(time)) = {}
    BY DEF Passed, Since, Key
  <2>2. Cardinality(Passed(f, Since(time))) = 0
    BY <2>1, FS_EmptySet
  <2>3. /\ Cardinality(Passed(g, Since(time))) <= Cardinality(Passed(f, Since(time))) + 1
        /\ Cardinality(Passed(g, Since(time))) \in Nat
    BY <1>1, <1>2, PassedOneMore
  <2>. QED  BY <2>2, <2>3
<1>6. Cardinality(Passed(g, Before(time))) < MaxRequests
  <2>1. /\ Cardinality(Passed(g, Before(time))) <= Cardinality(Passed(f, Before(time)))
        /\ Cardinality(Passed(g, Before(time))) \in Nat
    BY <1>1, <1>2, PassedOneMore
  <2>2. /\ Cardinality(Passed(f, Before(time)))
             <= Cardinality(Passed(f, Later(until - Window)))
        /\ Cardinality(Passed(f, Later(until - Window))) \in Nat
        /\ Cardinality(Passed(f, Before(time))) \in Nat
    BY <1>1, <1>2, PassedWithin
  <2>3. Cardinality(Passed(f, Later(until - Window))) < MaxRequests
    BY DEF Key
  <2>. QED  BY <1>1, <2>1, <2>2, <2>3
<1>7. Cardinality(Passed(g, Later(time))) = 0
  <2>1. Passed(f, Later(time)) = {}
    BY DEF Passed, Later, Key
  <2>2. Passed(g, Later(time)) = {}
    BY <1>2, <2>1 DEF Passed
  <2>. QED  BY <2>2, FS_EmptySet
<1>8. Cardinality(Passed(g, Since(time))) <= MaxRequests
  BY <1>1, <1>5
<1>9. ASSUME NEW t \in Nat
      PROVE  Cardinality(Passed(g, Span(t))) < 2 * MaxRequests
  <2>1. CASE t + Window > time
    BY <1>3, <1>6, <1>8, <2>1, SpanBounded
  <2>2. CASE ~(t + Window > time)
    <3>1. Span(t) \subseteq Nat /\ time \notin Span(t)
      BY <1>1, <2>2 DEF Span
    <3>2. /\ Cardinality(Passed(g, Span(t))) <= Cardinality(Passed(f, Span(t)))
          /\ Cardinality(Passed(g, Span(t))) \in Nat
      BY <1>1, <3>1, PassedOneMore
    <3>3. /\ Cardinality(Passed(f, Span(t))) < 2 * MaxRequests
          /\ Cardinality(Passed(f, Span(t))) \in Nat
      BY <1>1, <3>1, PassedWithin DEF Key
    <3>. QED  BY <1>1, <3>2, <3>3
  <2>. QED  BY <2>1, <2>2
<1>. DEFINE start == (time + Window) - Window
<1>10. start = time
  BY <1>1
<1>11. /\ start <= time
       /\ Cardinality(Passed(g, Since(start))) <= 1
       /\ Cardinality(Passed(g, Later(start))) = 0
       /\ Cardinality(Passed(g, Since(start))) <= MaxRequests
       /\ Cardinality(Passed(g, Before(start))) < MaxRequests
  BY <1>5, <1>6, <1>7, <1>8, <1>10
<1>12. 1 > 0 \/ time + Window <= time
  OBVIOUS
<1>13. /\ \/ Cardinality(Passed(g, Later(start))) = 0
          \/ Cardinality(Passed(g, Later(start))) < 1
       /\ Cardinality(Passed(g, Later(start))) < MaxRequests
  BY <1>1, <1>11
<1>. QED  BY <1>3, <1>4, <1>9, <1>11, <1>12, <1>13, Zenon DEF Key

\* When the requests of an address passed, None for those that did not.
Times(i) == [r \in Requests |-> IF In(r).ip = i THEN request[r].counted ELSE None]

LimiterInv ==
    \A i \in Ips : Key(Times(i), counter[i].until, counter[i].count, now)

\* Only the limiter marks a request as passed, and only it sets or counts a key.
LEMMA OnlyTheLimiterCounts ==
    ASSUME GatewayInv, NEW r \in Requests, Arrive(r) \/ Work(r), ~Limit(r)
    PROVE  request'[r].counted = request[r].counted /\ counter' = counter
<1>1. request \in [Requests -> Request] /\ request[r] \in Request
  BY DEF GatewayInv, TypeOK
<1>2. counter' = counter
  BY DEF Work, Rejects, Arrive, LimiterUnavailable, VerifyPublic, Verify, CheckBlocklist,
     CheckSuspended, BlocklistUnavailable, Ping, PingUnavailable, Handle,
     UpstreamUnavailable
<1>. SUFFICES request'[r].counted = request[r].counted
  BY <1>2
<1>3. ASSUME NEW status \in Status, Answer(r, status)
      PROVE  request'[r].counted = request[r].counted
  BY <1>1, <1>3, Answers
<1>4. ASSUME NEW phase \in Phase, Go(r, phase)
      PROVE  request'[r].counted = request[r].counted
  BY <1>1, <1>4, Goes
<1>5. CASE Arrive(r)
  <2>1. PICK phase : phase = IF In(r).origin /\ ~In(r).preflight
                             THEN "limit" ELSE "answered"
    OBVIOUS
  <2>2. PICK status : status = CASE ~In(r).origin -> 500
                                 [] In(r).origin /\ In(r).preflight -> 204
                                 [] OTHER -> None
    OBVIOUS
  <2>3. request' = [request EXCEPT ![r].doomed = Refused(In(r).token),
                                   ![r].phase = phase, ![r].status = status]
    BY <1>5, <2>1, <2>2 DEF Arrive
  <2>. QED  BY <1>1, <2>3 DEF Request
<1>6. CASE LimiterUnavailable(r) \/ CheckBlocklist(r) \/ Ping(r)
           \/ PingUnavailable(r) \/ UpstreamUnavailable(r) \/ BlocklistUnavailable(r)
  <2>1. \/ \E status \in {200, 401, 503} : Answer(r, status)
        \/ \E phase \in {"verify", "suspended"} : Go(r, phase)
    BY <1>6 DEF LimiterUnavailable, CheckBlocklist, Ping, PingUnavailable,
       UpstreamUnavailable, BlocklistUnavailable, FailsClosed, Answer
  <2>. QED  BY <1>3, <1>4, <2>1 DEF Status, Phase
<1>7. CASE VerifyPublic(r)
  <2>1. request' = [request EXCEPT ![r] = [Route(r, In(r).path) EXCEPT !.header = None]]
    BY <1>7 DEF VerifyPublic
  <2>2. /\ Route(r, In(r).path) \in Request
        /\ Route(r, In(r).path).counted = request[r].counted
    BY <1>1, Routes
  <2>. QED  BY <1>1, <2>1, <2>2 DEF Request
<1>8. CASE Verify(r)
  <2>1. CASE Answer(r, 401)
    BY <1>3, <2>1 DEF Status
  <2>2. CASE request' = [request EXCEPT ![r].phase = "jti",
                                        ![r].user = Owner[In(r).token]]
    BY <1>1, <2>2 DEF Request
  <2>. QED  BY <1>8, <2>1, <2>2 DEF Verify
<1>9. CASE CheckSuspended(r)
  <2>1. CASE Answer(r, 401)
    BY <1>3, <2>1 DEF Status
  <2>2. CASE request' = [request EXCEPT ![r] =
                [Route(r, In(r).path) EXCEPT !.header = InjectedHeader(r),
                                             !.bearer = FALSE]]
    <3>1. /\ Route(r, In(r).path) \in Request
          /\ Route(r, In(r).path).counted = request[r].counted
      BY <1>1, Routes
    <3>. QED  BY <1>1, <2>2, <3>1 DEF Request
  <2>. QED  BY <1>9, <2>1, <2>2 DEF CheckSuspended
<1>10. CASE Handle(r)
  <2>1. CASE Answer(r, 401)
    BY <1>3, <2>1 DEF Status
  <2>2. CASE request' = [request EXCEPT ![r].phase = "answered", ![r].status = 200,
                                        ![r].acted = Identity(r)]
    BY <1>1, <2>2 DEF Request
  <2>. QED  BY <1>10, <2>1, <2>2 DEF Handle
<1>. QED  BY <1>2, <1>5, <1>6, <1>7, <1>8, <1>9, <1>10 DEF Work

\* A key refuses, and counts it; it stays what it is as time goes on.
LEMMA KeyStays ==
    ASSUME NEW f, NEW until \in Nat, NEW count \in Nat, NEW time \in Nat,
           Key(f, until, count, time), IsFiniteSet(Passed(f, Nat)),
           NEW more \in Nat, count <= more, NEW later \in Nat, time <= later
    PROVE  Key(f, until, more, later)
<1>1. Window \in Nat
  BY GatewayBoundsAssumption
<1>2. /\ Cardinality(Passed(f, Since(until - Window))) \in Nat
      /\ Cardinality(Passed(f, Later(until - Window))) \in Nat
  <2>1. Since(until - Window) \subseteq Nat /\ Later(until - Window) \subseteq Nat
    BY DEF Since, Later
  <2>. QED  BY <2>1, PassedWithin
<1>. QED  BY <1>1, <1>2 DEF Key

\* What the limiter does to the key of the request's address.
LEMMA LimiterKeeps ==
    ASSUME GatewayInv, LimiterInv, NEW r \in Requests, Limit(r)
    PROVE  LimiterInv'
<1>1. /\ request \in [Requests -> Request] /\ In(r) \in Input /\ now \in Nat
      /\ counter \in [Ips -> [count : Nat, until : Nat]] /\ now' = now
      /\ request[r] \in Request
  BY DEF GatewayInv, TypeOK, Limit, Resolves, In, Request
<1>2. MaxRequests \in Nat \ {0}
  BY GatewayBoundsAssumption
<1>3. PICK i \in Ips : i = In(r).ip
  BY <1>1 DEF Input
<1>4. PICK c : c = Incremented(i)
  OBVIOUS
<1>5. counter' = [counter EXCEPT ![i] = c]
  BY <1>3, <1>4 DEF Limit
<1>6. /\ counter'[i] = c
      /\ \A j \in Ips \ {i} : counter'[j] = counter[j]
  BY <1>1, <1>5
<1>7. PICK until \in Nat, count \in Nat :
          until = counter[i].until /\ count = counter[i].count
  BY <1>1
<1>8. CASE Exceeded(c)
  <2>1. Answer(r, 429)
    BY <1>3, <1>4, <1>8 DEF Limit
  <2>2. Local(r) /\ request'[r].counted = request[r].counted
    BY <1>1, <2>1, Answers DEF Status
  <2>3. \A j \in Ips : Times(j)' = Times(j)
    BY <2>2 DEF Times, Local, In
  <2>4. c.until = until /\ c.count = count + 1
    BY <1>1, <1>2, <1>3, <1>4, <1>7, <1>8 DEF Incremented, Exceeded
  <2>5. PICK f : f = Times(i)
    OBVIOUS
  <2>6. Key(f, until, count, now) /\ IsFiniteSet(Passed(f, Nat))
    BY <1>7, <2>5 DEF LimiterInv, Key
  <2>7. PICK time \in Nat : time = now
    BY <1>1
  <2>8. Key(f, until, count + 1, time)
    BY <2>6, <2>7, KeyStays
  <2>. QED  BY <1>1, <1>6, <2>3, <2>4, <2>5, <2>7, <2>8 DEF LimiterInv
<1>9. CASE ~Exceeded(c)
  <2>1. request' = [request EXCEPT ![r].phase = "verify", ![r].counted = now]
    BY <1>3, <1>4, <1>9 DEF Limit
  <2>2. /\ request'[r].counted = now /\ request'[r].input = request[r].input
        /\ \A s \in Requests \ {r} : request'[s] = request[s]
    BY <1>1, <2>1 DEF Request
  <2>3. PICK time \in Nat : time = now
    BY <1>1
  <2>4. PICK f, g : f = Times(i) /\ g = Times(i)'
    OBVIOUS
  <2>5. f \in [Requests -> Nat \union {None}]
    BY <1>1, <2>3, <2>4 DEF Times, Request
  <2>6. g = [f EXCEPT ![r] = time]
    BY <1>3, <2>2, <2>3, <2>4 DEF Times, In
  <2>7. \A j \in Ips \ {i} : Times(j)' = Times(j)
    BY <1>3, <2>2 DEF Times, In
  <2>8. Key(f, until, count, time)
    BY <1>7, <2>3, <2>4 DEF LimiterInv
  <2>9. CASE time < until
    <3>1. c.until = until /\ c.count = count + 1
      BY <1>1, <1>3, <1>4, <1>7, <2>3, <2>9 DEF Incremented, InRedis
    <3>2. count + 1 <= MaxRequests
      BY <1>2, <1>9, <3>1 DEF Exceeded
    <3>3. Key(g, until, count + 1, time)
      BY <2>5, <2>6, <2>8, <2>9, <3>2, KeyCounts
    <3>. QED  BY <1>1, <1>6, <2>3, <2>4, <2>7, <3>1, <3>3 DEF LimiterInv
  <2>10. CASE time >= until
    <3>1. c.until = time + Window /\ c.count = 1
      BY <1>1, <1>3, <1>4, <1>7, <2>3, <2>10 DEF Incremented, InRedis
    <3>2. Key(g, time + Window, 1, time)
      BY <2>5, <2>6, <2>8, <2>10, KeyIsRenewed
    <3>. QED  BY <1>1, <1>6, <2>3, <2>4, <2>7, <3>1, <3>2 DEF LimiterInv
  <2>. QED  BY <2>9, <2>10
<1>. QED  BY <1>8, <1>9

\* Every step keeps the keys of all addresses.
LEMMA LimiterNext == GatewayInv /\ LimiterInv /\ [Next]_vars => LimiterInv'
<1>. SUFFICES ASSUME GatewayInv, LimiterInv, [Next]_vars PROVE LimiterInv'
  OBVIOUS
<1>1. ASSUME NEW r \in Requests, Arrive(r) \/ Work(r), ~Limit(r)
      PROVE  LimiterInv'
  <2>1. request'[r].counted = request[r].counted /\ counter' = counter
    BY <1>1, OnlyTheLimiterCounts
  <2>2. Local(r)
    BY <1>1, ArriveKeeps, LimitKeeps, VerifyKeeps, BlocklistKeeps, UpstreamKeeps DEF Work
  <2>3. now' = now
    BY <1>1 DEF Work, Rejects, Resolves, Arrive, LimiterUnavailable, VerifyPublic,
       Verify, CheckBlocklist, CheckSuspended, BlocklistUnavailable, Ping,
       PingUnavailable, Handle, UpstreamUnavailable
  <2>4. \A i \in Ips : Times(i)' = Times(i)
    BY <2>1, <2>2 DEF Times, Local, In
  <2>. QED  BY <2>1, <2>3, <2>4 DEF LimiterInv
<1>2. CASE \/ \E t \in Tokens : BlocklistToken(t)
           \/ \E u \in Users : Bar(u)
           \/ UNCHANGED vars
  <2>1. UNCHANGED <<now, counter, request>>
    BY <1>2 DEF BlocklistToken, Bar, vars
  <2>2. \A i \in Ips : Times(i)' = Times(i)
    BY <2>1 DEF Times, In
  <2>. QED  BY <2>1, <2>2 DEF LimiterInv
<1>3. CASE Tick
  <2>1. \A i \in Ips : Times(i)' = Times(i)
    BY <1>3 DEF Times, In, Tick
  <2>2. ASSUME NEW i \in Ips
        PROVE  Key(Times(i), counter[i].until, counter[i].count, now')
    <3>1. counter[i].until \in Nat /\ counter[i].count \in Nat /\ now \in Nat
      BY DEF GatewayInv, TypeOK
    <3>2. PICK f : f = Times(i)
      OBVIOUS
    <3>3. PICK until \in Nat, count \in Nat, time \in Nat :
              until = counter[i].until /\ count = counter[i].count /\ time = now
      BY <3>1
    <3>4. Key(f, until, count, time) /\ IsFiniteSet(Passed(f, Nat))
      BY <3>3, <3>2 DEF LimiterInv, Key
    <3>5. Key(f, until, count, time + 1)
      BY <3>4, KeyStays
    <3>. QED  BY <1>3, <3>3, <3>5, <3>2 DEF Tick
  <2>. QED  BY <1>3, <2>1, <2>2 DEF LimiterInv, Tick
<1>. QED  BY <1>1, <1>2, <1>3, LimiterKeeps DEF Next, Work

\* At the start no request has passed and no key is set.
LEMMA LimiterInit == Init => LimiterInv
<1>. SUFFICES ASSUME Init, NEW i \in Ips
              PROVE  Key(Times(i), counter[i].until, counter[i].count, now)
  BY DEF LimiterInv
<1>1. counter[i].until = 0 /\ counter[i].count = 0 /\ now = 0
  BY DEF Init
<1>2. \A r \in Requests : Times(i)[r] = None
  <2>1. PICK s \in Scripts : request = [r \in Requests |-> Fresh(s[r])]
    BY DEF Init
  <2>. QED  BY <2>1 DEF Times, Fresh
<1>3. PICK f : f = Times(i)
  OBVIOUS
<1>4. ASSUME NEW T \in SUBSET Nat
      PROVE  /\ Passed(f, T) = {} /\ IsFiniteSet(Passed(f, T))
             /\ Cardinality(Passed(f, T)) = 0
  <2>1. Passed(f, T) = {}
    BY <1>2, <1>3, GatewaySetsAssumption DEF Passed
  <2>. QED  BY <2>1, FS_EmptySet
<1>5. /\ Since(0 - Window) \subseteq Nat /\ Later(0 - Window) \subseteq Nat
      /\ Before(0 - Window) \subseteq Nat
      /\ \A t \in Nat : Span(t) \subseteq Nat
      /\ Window \in Nat /\ MaxRequests \in Nat \ {0}
  BY GatewayBoundsAssumption DEF Since, Later, Before, Span
<1>6. Key(f, 0, 0, 0)
  BY <1>4, <1>5 DEF Key
<1>. QED  BY <1>1, <1>3, <1>6

\* However requests interleave over the replicas and windows end, the limiter
\* passes fewer than twice MaxRequests requests of an address within a window's
\* length.
THEOREM LimiterBounds == Spec => []WindowBounded
<1>1. LimiterInv /\ GatewayInv => WindowBounded
  <2>. SUFFICES ASSUME LimiterInv, GatewayInv, NEW i \in Ips, NEW t \in 0 .. now
                PROVE  Cardinality(CountedIn(i, t .. t + Window - 1)) < 2 * MaxRequests
    BY DEF WindowBounded
  <2>1. t \in Nat /\ Window \in Nat /\ None \notin t .. t + Window - 1
    BY GatewaySetsAssumption, GatewayBoundsAssumption DEF GatewayInv, TypeOK
  <2>2. CountedIn(i, t .. t + Window - 1) = Passed(Times(i), Span(t))
    BY <2>1 DEF CountedIn, Passed, Times, Span
  <2>. QED  BY <2>1, <2>2 DEF LimiterInv, Key
<1>. QED  BY <1>1, LimiterInit, LimiterNext, Invariance, PTL DEF Spec
=============================================================================
