------------------------------ MODULE MCGateway ------------------------------
EXTENDS Gateway, TLC

CONSTANTS r1, r2, r3, r4, r5, ip1, ip2, u, v, tu

MCOwner == tu :> u
MCExp == tu :> 2

Ask(ip, path, token, claimed) ==
    [ip |-> ip, origin |-> TRUE, preflight |-> FALSE, path |-> path,
     token |-> token, claimed |-> claimed]

Accounts == Ask(ip1, "accounts", tu, v)
Foreign == Ask(ip1, "accounts", None, v)
Logout == Ask(ip1, "logout", tu, None)
Login == Ask(ip1, "login", None, v)
Ledger == Ask(ip1, "ledger", tu, None)
Health == Ask(ip1, "healthz", None, None)
Ready == Ask(ip1, "readyz", None, None)
OtherIp == Ask(ip2, "accounts", tu, None)
OtherOrigin == [Login EXCEPT !.origin = FALSE]
Preflight == [Accounts EXCEPT !.preflight = TRUE]

\* five requests of one address make two windows meet
MCScripts == {r1 :> s[1] @@ r2 :> s[2] @@ r3 :> s[3] @@ r4 :> s[4] @@ r5 :> s[5] : s \in {
    <<Accounts, Accounts, Preflight, OtherOrigin, OtherOrigin>>,
    <<Logout, OtherIp, Preflight, OtherOrigin, OtherOrigin>>,
    <<Login, Ledger, Foreign, Preflight, OtherOrigin>>,
    <<Health, Health, Health, Health, Health>>,
    <<Health, Ready, Accounts, Preflight, OtherOrigin>>}}
=============================================================================
