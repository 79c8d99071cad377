----------------------------- MODULE MCWebClient -----------------------------
EXTENDS WebClient, Sequences, TLC

CONSTANTS anna, kim, t1, t2, c1, c2, c3, c4, c5, c6, c7

MCRole == anna :> "CUSTOMER" @@ kim :> "CHECKER"
MCLiveProfiles == {[named |-> TRUE, kyc |-> "PENDING"],
                   [named |-> TRUE, kyc |-> "APPROVED"]}

Do(op, t, user) == [op |-> op, tab |-> t, user |-> user]
Script(s) == c1 :> s[1] @@ c2 :> s[2] @@ c3 :> s[3] @@ c4 :> s[4] @@ c5 :> s[5]
             @@ c6 :> s[6] @@ c7 :> s[7]
Short(s) == Script(s \o <<Do("register", t1, anna), Do("register", t1, anna)>>)

\* two accounts, and a transfer to the one that is just being opened
Funding == Script(<<Do("login", t1, kim), Do("login", t2, anna),
                    Do("submitKyc", t2, anna), Do("submitKyc", t1, kim),
                    Do("review", t1, kim), Do("review", t1, kim),
                    Do("transfer", t2, kim)>>)

\* one checker in two tabs, who also reviews himself: money; reviews of one
\* request; a customer and a checker who share the browser; the sign-up
MCScripts == {Funding} \union {Short(s) : s \in {
    <<Do("login", t1, kim), Do("submitKyc", t1, kim), Do("review", t1, kim),
      Do("transfer", t1, kim), Do("transfer", t2, kim)>>,
    <<Do("login", t1, kim), Do("submitKyc", t1, kim), Do("review", t1, kim),
      Do("review", t2, kim), Do("review", t2, kim)>>,
    <<Do("login", t1, anna), Do("submitKyc", t1, anna), Do("login", t2, kim),
      Do("review", t2, kim), Do("review", t1, kim)>>,
    <<Do("login", t1, anna), Do("submitKyc", t1, anna), Do("login", t2, kim),
      Do("review", t2, kim), Do("logout", t1, anna)>>,
    <<Do("register", t1, anna), Do("verifyEmail", t1, anna), Do("login", t1, anna),
      Do("createProfile", t1, anna), Do("logout", t1, anna)>>}}

\* The seven calls of Funding run one after the other, but for the transfer;
\* of the other scripts five run, in any order and side by side.
Bound ==
    IF call[c7].ask.op = "transfer"
    THEN /\ \A p \in {<<c1, c2>>, <<c2, c3>>, <<c3, c4>>, <<c4, c5>>, <<c5, c6>>} :
                At(p[1], "done") \/ At(p[2], "idle")
         /\ At(c6, "idle") => At(c7, "idle")
         /\ At(c6, "asked") => balances[c5] = Portfolio
    ELSE At(c6, "idle") /\ At(c7, "idle")
=============================================================================
