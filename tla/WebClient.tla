------------------------------ MODULE WebClient ------------------------------
(***************************************************************************)
(* AuthProvider of apps/web and the pages that call it, in several tabs of  *)
(* one browser.  The tabs share localStorage and the cookie; each keeps     *)
(* what it loaded when it last read them.  An operation asks the gateway    *)
(* first; if that fails in any way, it is simulated in localStorage, one    *)
(* key after the other: an item is read, changed and written back whole.    *)
(* A tab does so in one task, but no lock keeps other tabs from storage     *)
(* meanwhile, and the tab may be killed between two writes.                 *)
(*                                                                          *)
(* Abstracted: a load reads its four items in one step, and a sign-in       *)
(* stores its three in one; amounts are whole numbers, where the code adds  *)
(* the doubles of parseFloat.  Not modelled: createAccount and updateKyc,   *)
(* which no page can reach (the context does not hand the one out, no page  *)
(* takes the other).  External: the servers, which may answer, refuse or    *)
(* not be there.                                                            *)
(***************************************************************************)
EXTENDS Integers, FiniteSets, Functions

CONSTANTS
    Users,
    Role,          \* Role[u]: of the backend's user
    Tabs,
    Calls,         \* what the users do, see Ask
    Scripts,       \* Scripts \subseteq [Calls -> Ask]
    LiveProfiles,  \* profiles user-service may have, without their owner
    Portfolio,     \* 50000 rupees
    Amounts,       \* of the transfers
    Elsewhere,     \* an account id nobody has, typed in by hand
    None

Op == {"login", "register", "verifyEmail", "logout", "createProfile",
       "submitKyc", "transfer", "review"}
Ask == [op : Op, tab : Tabs, user : Users]  \* user: whose password a login has

KycStatus == {"PENDING", "SUBMITTED", "APPROVED", "REJECTED"}

ASSUME WebSetsAssumption ==
    /\ Role \in [Users -> {"CUSTOMER", "CHECKER", "OPERATIONS"}]
    /\ Scripts \subseteq [Calls -> Ask]
    /\ LiveProfiles \subseteq [named : BOOLEAN, kyc : KycStatus]
    /\ Elsewhere \notin Calls
    /\ None \notin Users \union KycStatus
                       \union [id : Users, named : BOOLEAN, kyc : KycStatus]
ASSUME WebAmountsAssumption ==
    /\ Portfolio \in Nat
    /\ Amounts \subseteq Nat \ {0}

VARIABLES
    session,    \* fintech_user, fintech_token and the auth-token cookie
    profiles,   \* fintech_profiles
    accounts,   \* fintech_all_accounts, each named for the review that made it
    balances,   \* fintech_all_balances
    approvals,  \* fintech_all_approvals: the status of the request call c made
    transfers,  \* fintech_all_transfers: the calls that appended one
    tab,        \* tab[t]: the state of its AuthProvider
    item,       \* item[t]: what the task of tab t has read and not written back
    call,       \* call[c]: its progress
    (* what the properties remember, read by no action *)
    wrote,      \* calls that wrote the balances
    before,     \* before[c]: those that did when c wrote a starting portfolio
    lost        \* a tab wrote over balances it had not read

storage == <<profiles, accounts, balances, approvals, transfers>>
ghosts == <<wrote, before, lost>>
webVars == <<session, storage, tab, item, call, ghosts>>

-----------------------------------------------------------------------------
Profile == [id : Users, named : BOOLEAN, kyc : KycStatus]
Account == [id : Calls, user : Users]
AccountId == Calls \union {Elsewhere}
Review == {"PENDING", "APPROVED", "REJECTED"}

Session == [user : Profile \union {None}, token : Users \union {None},
            cookie : BOOLEAN]
Tab == [user : Profile \union {None}, loading : BOOLEAN,
        accounts : SUBSET Account, balances : [AccountId -> Int],
        approvals : [Calls -> Review \union {None}]]
Key == {"profiles", "approvals", "accounts", "balances", "transfers"}
Task == Key \union {"session", "load"}  \* what a tab does between two awaits
Call == [ask : Ask, phase : {"idle", "asked", "profile", "done"} \union Task,
         user : Profile \union {None},     \* user of the closure
         profile : Profile \union {None},  \* what it is about to store
         token : Users \union {None},      \* whose fintech_token it sends
         from : Calls \union {None}, to : AccountId \union {None},
         amount : Nat, request : Calls \union {None},
         verdict : {"APPROVED", "REJECTED", None}]

\* what a key holds
Item(key) == CASE key = "profiles" -> [Users -> Profile \union {None}]
               [] key = "approvals" -> [Calls -> Review \union {None}]
               [] key = "accounts" -> SUBSET Account
               [] key = "balances" -> [AccountId -> Int]
               [] key = "transfers" -> SUBSET Calls

Stored == [key \in Key |-> CASE key = "profiles" -> profiles
                             [] key = "approvals" -> approvals
                             [] key = "accounts" -> accounts
                             [] key = "balances" -> balances
                             [] key = "transfers" -> transfers]

WebTypeOK ==
    /\ session \in Session
    /\ \A key \in Key : Stored[key] \in Item(key)
    /\ tab \in [Tabs -> Tab]
    /\ call \in [Calls -> Call]
    /\ DOMAIN item = Tabs
    /\ wrote \subseteq Calls
    /\ before \in [Calls -> SUBSET Calls]
    /\ lost \in BOOLEAN

SignedOut == [user |-> None, token |-> None, cookie |-> FALSE]
NoBalances == [a \in AccountId |-> 0]
NoApprovals == [c \in Calls |-> None]
Blank == [user |-> None, loading |-> FALSE, accounts |-> {},
          balances |-> NoBalances, approvals |-> NoApprovals]
Fresh(ask) == [ask |-> ask, phase |-> "idle", user |-> None,
               profile |-> None, token |-> None, from |-> None,
               to |-> None, amount |-> 0, request |-> None, verdict |-> None]

WebInit ==
    /\ session = SignedOut
    /\ profiles = [u \in Users |-> None]
    /\ accounts = {}
    /\ balances = NoBalances
    /\ approvals = NoApprovals
    /\ transfers = {}
    /\ tab = [t \in Tabs |-> Blank]
    /\ item = [t \in Tabs |-> None]
    /\ wrote = {}
    /\ before = [c \in Calls |-> {}]
    /\ lost = FALSE
    /\ \E s \in Scripts : call = [c \in Calls |-> Fresh(s[c])]

-----------------------------------------------------------------------------
At(c, phase) == call[c].phase = phase
Done(c) == [call[c] EXCEPT !.phase = "done"]
Of(c) == call[c].ask.tab
Closure(c) == call[c].user

\* loadServiceData of user u
Loaded(t, u) ==
    [tab[t] EXCEPT
        !.accounts = {a \in accounts : a.user = u},
        !.balances = balances,
        !.approvals = [c \in Calls |->
            IF Role[u] = "CHECKER" \/ (approvals[c] # None /\ call[c].user.id = u)
            THEN approvals[c] ELSE None]]

\* a page is loaded, be it that the tab was killed: what it was at is gone
Launch(t) ==
    /\ LET u == session.user
       IN IF u # None /\ session.token # None /\ session.cookie
          THEN /\ tab' = [tab EXCEPT ![t] = [Loaded(t, u.id) EXCEPT !.user = u,
                                                                   !.loading = FALSE]]
               /\ UNCHANGED session
          ELSE tab' = [tab EXCEPT ![t] = Blank] /\ session' = SignedOut
    /\ call' = [c \in Calls |-> IF Of(c) = t /\ ~At(c, "idle") THEN Done(c)
                                                               ELSE call[c]]
    /\ item' = [item EXCEPT ![t] = None]
    /\ UNCHANGED <<storage, ghosts>>

CookieExpires ==
    /\ session.cookie
    /\ session' = [session EXCEPT !.cookie = FALSE]
    /\ UNCHANGED <<storage, tab, item, call, ghosts>>

\* the dashboard is not there while its provider is loading
Begin(c, op, args) ==
    /\ At(c, "idle")
    /\ call[c].ask.op = op
    /\ ~tab[Of(c)].loading
    /\ call' = [call EXCEPT ![c] = [args EXCEPT !.phase = "asked",
                                                !.user = tab[Of(c)].user,
                                                !.token = session.token]]
    /\ tab' = [tab EXCEPT ![Of(c)].loading = op # "logout"]
    /\ UNCHANGED <<session, storage, item, ghosts>>

Finish(c, t) ==
    /\ call' = [call EXCEPT ![c].phase = "done"]
    /\ tab' = [tab EXCEPT ![Of(c)] = [t EXCEPT !.loading = FALSE]]

-----------------------------------------------------------------------------
(* The task of a fallback: which item it reads next, and what it does of it. *)

GoOn(c, phase) == call' = [call EXCEPT ![c].phase = phase] /\ UNCHANGED tab

FirstKey == [createProfile |-> "profiles", submitKyc |-> "profiles",
             transfer |-> "balances", review |-> "approvals"]

\* the request failed, or its answer says that it did
FallBack(c) ==
    /\ At(c, "asked")
    /\ call[c].ask.op \in DOMAIN FirstKey
    /\ GoOn(c, FirstKey[call[c].ask.op])
    /\ UNCHANGED <<session, storage, item, ghosts>>

GetItem(c) ==
    /\ call[c].phase \in Key
    /\ item[Of(c)] = None
    /\ item' = [item EXCEPT ![Of(c)] = Stored[call[c].phase]]
    /\ UNCHANGED <<session, storage, tab, call, ghosts>>

\* c has read the item of its key, and now lets go of it
SetItem(c, key, op) ==
    /\ At(c, key)
    /\ call[c].ask.op = op
    /\ item[Of(c)] # None
    /\ item' = [item EXCEPT ![Of(c)] = None]

\* the last thing a task does
Load(c) ==
    /\ At(c, "load")
    /\ Finish(c, Loaded(Of(c), IF call[c].ask.op = "login" THEN call[c].profile.id
                                                           ELSE Closure(c).id))
    /\ UNCHANGED <<session, storage, item, ghosts>>

-----------------------------------------------------------------------------
BeginLogin(c) ==
    /\ tab[Of(c)].user = None
    /\ Begin(c, "login", call[c])

LoginAccepted(c) ==
    /\ At(c, "asked")
    /\ call[c].ask.op = "login"
    /\ GoOn(c, "profile")
    /\ UNCHANGED <<session, storage, item, ghosts>>

\* the profile to be stored is known
Store(c, profile) ==
    /\ call' = [call EXCEPT ![c].phase = "session", ![c].profile = profile]
    /\ UNCHANGED <<session, tab>>

LoginLive(c) == \E live \in LiveProfiles :
    /\ At(c, "profile")
    /\ Store(c, [id |-> call[c].ask.user, named |-> live.named, kyc |-> live.kyc])
    /\ UNCHANGED <<storage, item, ghosts>>

LoginFallBack(c) ==
    /\ At(c, "profile")
    /\ GoOn(c, "profiles")
    /\ UNCHANGED <<session, storage, item, ghosts>>

\* a profile of an earlier simulation, or a skeleton of one
LoginProfile(c) ==
    /\ SetItem(c, "profiles", "login")
    /\ LET u == call[c].ask.user
           skeleton == [id |-> u, named |-> FALSE, kyc |-> "PENDING"]
           p == item[Of(c)]
       IN IF p[u] # None
          THEN Store(c, p[u]) /\ UNCHANGED profiles
          ELSE Store(c, skeleton) /\ profiles' = [p EXCEPT ![u] = skeleton]
    /\ UNCHANGED <<accounts, balances, approvals, transfers, ghosts>>

\* the session is stored before the tab loads its data
SignIn(c) ==
    /\ At(c, "session")
    /\ call[c].ask.op = "login"
    /\ LET p == call[c].profile
       IN /\ session' = [user |-> p, token |-> p.id, cookie |-> TRUE]
          /\ tab' = [tab EXCEPT ![Of(c)].user = p]
    /\ call' = [call EXCEPT ![c].phase = "load"]
    /\ UNCHANGED <<storage, item, ghosts>>

\* register and verifyEmail store nothing, nor does an operation that throws, nor
\* a transfer or a review that the gateway accepted
BeginPublic(c) == \E op \in {"register", "verifyEmail"} :
    /\ tab[Of(c)].user = None
    /\ Begin(c, op, call[c])

Answered(c) ==
    /\ At(c, "asked")
    /\ call[c].ask.op \in {"login", "register", "verifyEmail", "transfer", "review"}
    /\ Finish(c, tab[Of(c)])
    /\ UNCHANGED <<session, storage, item, ghosts>>

BeginLogout(c) ==
    /\ tab[Of(c)].user # None
    /\ Begin(c, "logout", call[c])

\* whatever the gateway said, once the tab has no other task
ClearAuthData(c) ==
    /\ At(c, "asked")
    /\ call[c].ask.op = "logout"
    /\ \A d \in Calls : Of(d) = Of(c) => call[d].phase \notin Task
    /\ session' = SignedOut
    /\ tab' = [tab EXCEPT ![Of(c)] = [Blank EXCEPT !.loading = tab[Of(c)].loading]]
    /\ call' = [call EXCEPT ![c].phase = "done"]
    /\ UNCHANGED <<storage, item, ghosts>>

-----------------------------------------------------------------------------
BeginCreateProfile(c) ==
    /\ tab[Of(c)].user # None
    /\ ~tab[Of(c)].user.named
    /\ Begin(c, "createProfile", call[c])

\* the tab's user and fintech_user become the profile, whoever they were: with
\* the token of another tab's login, its owner's
BecomeUser(c, profile, phase) ==
    /\ session' = [session EXCEPT !.user = profile]
    /\ tab' = [tab EXCEPT ![Of(c)].user = profile,
                          ![Of(c)].loading = phase # "done"]
    /\ call' = [call EXCEPT ![c].phase = phase]
    /\ UNCHANGED <<storage, ghosts>>

CreateProfileLive(c) == \E live \in LiveProfiles :
    /\ At(c, "asked")
    /\ call[c].ask.op = "createProfile"
    /\ call[c].token # None
    /\ BecomeUser(c, [id |-> call[c].token, named |-> TRUE, kyc |-> live.kyc], "done")
    /\ UNCHANGED item

CreateProfileOffline(c) ==
    /\ SetItem(c, "profiles", "createProfile")
    /\ LET p == [Closure(c) EXCEPT !.named = TRUE]
       IN /\ profiles' = [item[Of(c)] EXCEPT ![p.id] = p]
          /\ Store(c, p)
    /\ UNCHANGED <<accounts, balances, approvals, transfers, ghosts>>

BeginSubmitKyc(c) ==
    /\ tab[Of(c)].user # None
    /\ tab[Of(c)].user.named
    /\ tab[Of(c)].user.kyc \in {"PENDING", "REJECTED"}
    /\ Begin(c, "submitKyc", call[c])

Submitted(c) == [Closure(c) EXCEPT !.kyc = "SUBMITTED"]

SubmitKycLive(c) ==
    /\ At(c, "asked")
    /\ call[c].ask.op = "submitKyc"
    /\ BecomeUser(c, Submitted(c), "done")
    /\ UNCHANGED item

SubmitProfile(c) ==
    /\ SetItem(c, "profiles", "submitKyc")
    /\ profiles' = [item[Of(c)] EXCEPT ![Closure(c).id] = Submitted(c)]
    /\ GoOn(c, "approvals")
    /\ UNCHANGED <<session, accounts, balances, approvals, transfers, ghosts>>

SubmitRequest(c) ==
    /\ SetItem(c, "approvals", "submitKyc")
    /\ approvals' = [item[Of(c)] EXCEPT ![c] = "PENDING"]
    /\ Store(c, Submitted(c))
    /\ UNCHANGED <<profiles, accounts, balances, transfers, ghosts>>

StoreUser(c) ==
    /\ At(c, "session")
    /\ \/ call[c].ask.op = "createProfile" /\ BecomeUser(c, call[c].profile, "done")
       \/ call[c].ask.op = "submitKyc" /\ BecomeUser(c, call[c].profile, "load")
    /\ UNCHANGED item

-----------------------------------------------------------------------------
\* the ids anybody can type in: a new account's is drawn at random
Known == {a.id : a \in accounts} \union {Elsewhere}

\* the form checks the balances the tab loaded
Unlocked(p) == Role[p.id] = "CHECKER" \/ p.kyc = "APPROVED"

BeginTransfer(c) ==
    LET t == tab[Of(c)]
    IN \E a \in t.accounts, to \in Known, amount \in Amounts :
        /\ t.user # None
        /\ Unlocked(t.user)
        /\ to # a.id
        /\ t.balances[a.id] >= amount
        /\ Begin(c, "transfer", [call[c] EXCEPT !.from = a.id, !.to = to,
                                                !.amount = amount])

\* Mutant: the balances the tab has loaded are relied upon
CoveredInTab(c) == tab[Of(c)].balances[call[c].from] >= call[c].amount
Covered(c) == item[Of(c)][call[c].from] >= call[c].amount

\* writing all balances back drops what others wrote since they were read
SetBalances(c, new) ==
    /\ balances' = new
    /\ wrote' = wrote \union {c}
    /\ lost' = (lost \/ item[Of(c)] # balances)

TransferOffline(c) ==
    /\ SetItem(c, "balances", "transfer")
    /\ IF Covered(c)
       THEN LET paid == [item[Of(c)] EXCEPT ![call[c].from] = @ - call[c].amount]
            IN /\ SetBalances(c, [paid EXCEPT ![call[c].to] = @ + call[c].amount])
               /\ UNCHANGED before
               /\ GoOn(c, "transfers")
       ELSE Finish(c, tab[Of(c)]) /\ UNCHANGED <<balances, ghosts>>
    /\ UNCHANGED <<session, profiles, accounts, approvals, transfers>>

LogTransfer(c) ==
    /\ SetItem(c, "transfers", "transfer")
    /\ transfers' = item[Of(c)] \union {c}
    /\ GoOn(c, "load")
    /\ UNCHANGED <<session, profiles, accounts, balances, approvals, ghosts>>

\* a ticket the tab shows as pending; reviewKyc does nothing unless for a
\* CHECKER, though the page has the buttons for OPERATIONS too
BeginReview(c) == \E request \in Calls, verdict \in {"APPROVED", "REJECTED"} :
    /\ tab[Of(c)].user # None
    /\ Role[tab[Of(c)].user.id] = "CHECKER"
    /\ tab[Of(c)].approvals[request] = "PENDING"
    /\ Begin(c, "review", [call[c] EXCEPT !.request = request, !.verdict = verdict])

Target(c) == call[call[c].request].user.id

\* another tab may have written the request away
ReviewRequest(c) ==
    /\ SetItem(c, "approvals", "review")
    /\ IF item[Of(c)][call[c].request] = None
       THEN GoOn(c, "load") /\ UNCHANGED approvals
       ELSE /\ approvals' = [item[Of(c)] EXCEPT ![call[c].request] = call[c].verdict]
            /\ GoOn(c, "profiles")
    /\ UNCHANGED <<session, profiles, accounts, balances, transfers, ghosts>>

\* the target's simulated profile, if there is one
ReviewProfile(c) ==
    /\ SetItem(c, "profiles", "review")
    /\ IF item[Of(c)][Target(c)] = None
       THEN GoOn(c, "load") /\ UNCHANGED profiles
       ELSE /\ profiles' = [item[Of(c)] EXCEPT ![Target(c)].kyc = call[c].verdict]
            /\ GoOn(c, IF call[c].verdict = "APPROVED" THEN "accounts" ELSE "load")
    /\ UNCHANGED <<session, accounts, balances, approvals, transfers, ghosts>>

\* Mutant: the accounts the tab has loaded are relied upon
HasSavingsInTab(c) == \E a \in tab[Of(c)].accounts : a.user = Target(c)
HasSavings(c) == \E a \in item[Of(c)] : a.user = Target(c)

\* the target's first account
OpenSavings(c) ==
    /\ SetItem(c, "accounts", "review")
    /\ IF HasSavings(c)
       THEN GoOn(c, "load") /\ UNCHANGED accounts
       ELSE /\ accounts' = item[Of(c)] \union {[id |-> c, user |-> Target(c)]}
            /\ GoOn(c, "balances")
    /\ UNCHANGED <<session, profiles, balances, approvals, transfers, ghosts>>

SeedPortfolio(c) ==
    /\ SetItem(c, "balances", "review")
    /\ SetBalances(c, [item[Of(c)] EXCEPT ![c] = Portfolio])
    /\ before' = [before EXCEPT ![c] = wrote]
    /\ GoOn(c, "load")
    /\ UNCHANGED <<session, profiles, accounts, approvals, transfers>>

-----------------------------------------------------------------------------
Operate(c) ==
    \/ BeginLogin(c) \/ LoginAccepted(c) \/ LoginLive(c) \/ LoginFallBack(c)
    \/ LoginProfile(c) \/ SignIn(c)
    \/ BeginPublic(c) \/ Answered(c) \/ BeginLogout(c) \/ ClearAuthData(c)
    \/ FallBack(c) \/ GetItem(c) \/ Load(c)
    \/ BeginCreateProfile(c) \/ CreateProfileLive(c) \/ CreateProfileOffline(c)
    \/ BeginSubmitKyc(c) \/ SubmitKycLive(c) \/ SubmitProfile(c) \/ SubmitRequest(c)
    \/ StoreUser(c)
    \/ BeginTransfer(c) \/ TransferOffline(c) \/ LogTransfer(c)
    \/ BeginReview(c) \/ ReviewRequest(c) \/ ReviewProfile(c) \/ OpenSavings(c)
    \/ SeedPortfolio(c)

WebNext ==
    \/ \E t \in Tabs : Launch(t)
    \/ CookieExpires
    \/ \E c \in Calls : Operate(c)

WebSpec == WebInit /\ [][WebNext]_webVars

-----------------------------------------------------------------------------
\* What call c did to the balance of account a, if it did anything
Effect(c, a) ==
    IF call[c].ask.op = "transfer"
    THEN (IF call[c].to = a THEN call[c].amount ELSE 0)
         - (IF call[c].from = a THEN call[c].amount ELSE 0)
    ELSE IF call[c].ask.op = "review" /\ c = a THEN Portfolio ELSE 0

\* A starting portfolio is written over what an account has received before.
Since(a, kept) == IF a \in kept THEN kept \ before[a] ELSE kept

\* Whatever tabs read, write over and leave undone, the balances are those that
\* some of the transfers and starting portfolios lead to, each whole, and none
\* is negative; unless a tab wrote over another's, they are those that all do.
BalancesExplained ==
    /\ \A a \in AccountId : balances[a] >= 0
    /\ \E kept \in SUBSET wrote :
           /\ \A a \in AccountId : balances[a] =
                  SumFunctionOnSet([c \in Calls |-> Effect(c, a)], Since(a, kept))
           /\ kept # wrote => lost

\* However often and in how many tabs a customer's requests are approved, the
\* list of accounts has one of his.
OneAccountEach ==
    \A a, b \in accounts : a.user = b.user => a = b
=============================================================================
