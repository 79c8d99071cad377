------------------------------- MODULE Accounts -------------------------------
(***************************************************************************)
(* account-service: the accounts of one user.  HTTP handlers create,        *)
(* freeze, unfreeze and close them and validate transfers between them;     *)
(* the user.kyc_status_changed consumer freezes them when compliance        *)
(* rejects the user.  A handler reads a row, awaits, and writes what it     *)
(* decided from the read: every await is an action boundary, and handlers   *)
(* interleave as they like.  A transaction that updates a row and logs it   *)
(* holds the row's lock from its UPDATE to its COMMIT, and nobody sees      *)
(* before what it wrote, so the two are one action.  The audit log is a set *)
(* of rows: it is ordered by occurred_at, the time at which a transaction   *)
(* began, which need not be the order of the commits, and no code reads it  *)
(* in any order.                                                            *)
(*                                                                          *)
(* External: user-service (kyc), the ledger (balance), the transfer saga,   *)
(* which posts to the ledger what validateBounds accepted, and the broker.  *)
(* Amounts and limits are left out: one transfer moves one unit.            *)
(***************************************************************************)
EXTENDS Integers, Sequences, FiniteSets

CONSTANTS
    Accounts,      \* account ids, those of accounts yet to be created included
    Opened,        \* the accounts open at the start
    OpeningFunds,  \* OpeningFunds[a]: their ledger balances
    AccountLimit,  \* 5 in the code
    Calls,         \* HTTP requests
    Inputs,        \* what they may ask
    Reviews,       \* user.kyc_status_changed events
    DecisionOf,    \* DecisionOf[e]: the newStatus e carries
    ApprovedAs,    \* what user-service's internal profile says of an approved user
    MaxCrashes,    \* bound on crashes of the consumer
    MaxFailures,   \* bound on statements and publishes that fail in it
    None

Status == {"ACTIVE", "FROZEN", "CLOSED"}
Row == [status : Status, deleted : BOOLEAN]
Op == {"create", "freeze", "unfreeze", "close", "transfer"}
Input == [op : Op, role : {"CUSTOMER", "SUPPORT", "OPERATIONS"},
          account : Accounts, to : Accounts]

ASSUME OpenedAssumption ==
    /\ Opened \subseteq Accounts
    /\ OpeningFunds \in [Accounts -> Nat]
    /\ \A a \in Accounts \ Opened : OpeningFunds[a] = 0
ASSUME InputsAssumption == Inputs \subseteq Input
ASSUME DecisionAssumption == DecisionOf \in [Reviews -> {"APPROVED", "REJECTED"}]
ASSUME NoneAssumption == None \notin Accounts \union Reviews \union Status \union Row
ASSUME AccountBoundsAssumption ==
    /\ AccountLimit \in Nat
    /\ {MaxCrashes, MaxFailures} \subseteq Nat

VARIABLES
    rows,       \* rows[a]: status and soft deletion; None before its insert
    history,    \* history[a]: its account_status_history rows, a set
    created,    \* accounts announced by account.created
    events,     \* events[a]: the rows account.status_changed was published of
    balance,    \* balance[a] in the ledger
    kyc,        \* the user's status in user-service
    reviewing,  \* the review whose transaction is open in user-service
    reviewed,   \* reviews whose event was published
    queue,      \* account-service.kyc_sync
    dead,       \* events nacked without requeue
    inbox,      \* committed rows of inbox_messages
    sync,       \* the consumer: its event and progress
    request,    \* request[c]: what call c asks
    call,       \* call[c]: its progress, and the status it has read
    crashes, failures,
    (* what the properties remember, read by no action *)
    closedBefore,  \* closedBefore[c]: accounts closed when c read its own
    openSince,     \* openSince[c]: accounts open at some time since c, a
                   \* transfer, arrived
    overtaken,     \* creations past their count when another one committed
    spared         \* accounts opened, unfrozen, or not frozen by a failure
                   \* since the last rejection that listed them

tables == <<rows, history, inbox>>
published == <<created, events>>
outside == <<balance, kyc, reviewing, reviewed>>
consumer == <<queue, dead, sync, crashes, failures>>
calls == <<request, call>>
ghosts == <<closedBefore, openSince, overtaken, spared>>

vars == <<tables, published, outside, consumer, calls, ghosts>>

-----------------------------------------------------------------------------
\* a row of account_status_history, whose id tells it from equal ones
Change == [id : Nat, old : Status, new : Status,
           by : {"CUSTOMER", "SUPPORT", "OPERATIONS", "SYSTEM"}]

Answered == {"done", "failed"}
CallPhase == {"start", "balance", "write", "publish", "count", "insert",
              "commit", "destination", "post"} \union Answered

TypeOK ==
    /\ rows \in [Accounts -> Row \union {None}]
    /\ history \in [Accounts -> SUBSET Change]
    /\ created \subseteq Accounts
    /\ events \in [Accounts -> Seq(Change)]
    /\ balance \in [Accounts -> Nat]
    /\ kyc \in {"APPROVED", "REJECTED"}
    /\ reviewing \in Reviews \union {None}
    /\ reviewed \subseteq Reviews
    /\ queue \in Seq(Reviews)
    /\ dead \subseteq Reviews
    /\ inbox \subseteq Reviews
    /\ sync \in [phase : {"idle", "received", "freezing", "announcing",
                          "committed"},
                 event : Reviews \union {None}, todo : SUBSET Accounts,
                 account : Accounts \union {None}, logged : Nat]
    /\ request \in [Calls -> Inputs]
    /\ call \in [Calls -> [phase : CallPhase, seen : Status \union {None},
                           account : Accounts, logged : Nat]]
    /\ crashes \in 0 .. MaxCrashes
    /\ failures \in 0 .. MaxFailures
    /\ {closedBefore, openSince} \subseteq [Calls -> SUBSET Accounts]
    /\ overtaken \subseteq Calls
    /\ spared \subseteq Accounts

Idle == [phase |-> "idle", event |-> None, todo |-> {}, account |-> None,
         logged |-> 0]

Init ==
    /\ rows = [a \in Accounts |-> IF a \in Opened
                                  THEN [status |-> "ACTIVE", deleted |-> FALSE]
                                  ELSE None]
    /\ history = [a \in Accounts |-> {}]
    /\ created = Opened
    /\ events = [a \in Accounts |-> <<>>]
    /\ balance = OpeningFunds
    /\ kyc = "APPROVED"
    /\ reviewing = None
    /\ reviewed = {}
    /\ queue = <<>>
    /\ dead = {}
    /\ inbox = {}
    /\ sync = Idle
    /\ request \in [Calls -> Inputs]
    /\ call = [c \in Calls |-> [phase |-> "start", seen |-> None,
                                account |-> request[c].account, logged |-> 0]]
    /\ crashes = 0
    /\ failures = 0
    /\ closedBefore = [c \in Calls |-> {}]
    /\ openSince = [c \in Calls |-> {}]
    /\ overtaken = {}
    /\ spared = {}

\* findById and findByUserId do not see soft-deleted rows
Found(a) == rows[a] # None /\ ~rows[a].deleted
Open(a) == Found(a) /\ rows[a].status = "ACTIVE"

\* transfers under way may find a open from now on
OpenFor(a) == [d \in Calls |-> IF call[d].phase \in {"destination", "post"}
                               THEN openSince[d] \union {a} ELSE openSince[d]]

\* a history row says so; the row's status may have been written over since
Closed == {a \in Accounts : \E h \in history[a] : h.new = "CLOSED"}

AtRest == /\ \A c \in Calls : call[c].phase \in {"start"} \union Answered
          /\ sync = Idle
          /\ reviewing = None

\* the next await of c's handler, or its answer, with which its locals go
Go(c, phase) ==
    call' = [call EXCEPT ![c].phase = phase,
                         ![c].seen = IF phase \in Answered THEN None ELSE @,
                         ![c].logged = IF phase \in Answered THEN 0 ELSE @]

-----------------------------------------------------------------------------
(* Freezing, unfreezing and closing. *)

Outcome == [freeze |-> "FROZEN", unfreeze |-> "ACTIVE", close |-> "CLOSED"]

MayAsk(role, op) == /\ op = "freeze" => role # "CUSTOMER"
                    /\ op = "unfreeze" => role = "OPERATIONS"

Applicable(op, status) ==
    CASE op = "freeze" -> status = "ACTIVE"
      [] op = "unfreeze" -> status = "FROZEN"
      [] op = "close" -> status # "CLOSED"

\* the controller's checks, findById and the guards on the status it returns
ReadAccount(c) ==
    LET op == request[c].op
        a == request[c].account
        allowed == /\ MayAsk(request[c].role, op)
                   /\ Found(a)
                   /\ Applicable(op, rows[a].status)
    IN  /\ call[c].phase = "start"
        /\ op \in DOMAIN Outcome
        /\ IF allowed
           THEN call' = [call EXCEPT
                            ![c].seen = rows[a].status,
                            ![c].phase = IF op = "close" THEN "balance"
                                                         ELSE "write"]
           ELSE Go(c, "failed")
        /\ closedBefore' = [closedBefore EXCEPT ![c] = Closed]
        /\ UNCHANGED <<tables, published, outside, consumer, request, openSince,
                       overtaken, spared>>

\* getAccountBalanceFromLedger answers 0 when ledger-service does not
CheckBalance(c) ==
    /\ call[c].phase = "balance"
    /\ \E answer \in {balance[call[c].account], 0} :
          Go(c, IF answer = 0 THEN "write" ELSE "failed")
    /\ UNCHANGED <<tables, published, outside, consumer, request, ghosts>>

\* an id no row of the log has
NewId(log) == Cardinality(log) + 1

\* an audit row as the handler believes it to be: old is what it read
ChangeOf(c, id) == [id |-> id, old |-> call[c].seen,
                    new |-> Outcome[request[c].op], by |-> request[c].role]

\* Mutant: closing does not set deletedAt
WrittenWithoutDeletion(row, op) == [row EXCEPT !.status = Outcome[op]]

\* what becomes of the row, whatever it is now
Written(row, op) == IF op = "close" THEN [status |-> "CLOSED", deleted |-> TRUE]
                                    ELSE [row EXCEPT !.status = Outcome[op]]

\* updateStatus, or closeAccount, of the repository.  An unfreeze may open the
\* account for transfers under way, and exempts it.
WriteStatus(c) ==
    LET a == call[c].account
        id == NewId(history[a])
    IN  /\ call[c].phase = "write"
        /\ rows' = [rows EXCEPT ![a] = Written(@, request[c].op)]
        /\ history' = [history EXCEPT ![a] = @ \union {ChangeOf(c, id)}]
        /\ call' = [call EXCEPT ![c].phase = "publish", ![c].logged = id]
        /\ IF request[c].op = "unfreeze"
           THEN /\ openSince' = OpenFor(a)
                /\ spared' = spared \union {a}
           ELSE UNCHANGED <<openSince, spared>>
        /\ UNCHANGED <<inbox, published, outside, consumer, request, closedBefore,
                       overtaken>>

\* Mutant: the event is published before the transaction, which may fail
PublishBeforeWrite(c) ==
    /\ call[c].phase \in {"write", "publish"}
    /\ events' = [events EXCEPT ![call[c].account] =
                      Append(@, ChangeOf(c, call[c].logged))]
    /\ Go(c, "done")
    /\ UNCHANGED <<tables, created, outside, consumer, request, ghosts>>

PublishStatusChanged(c) ==
    /\ call[c].phase = "publish"
    /\ events' = [events EXCEPT ![call[c].account] =
                      Append(@, ChangeOf(c, call[c].logged))]
    /\ Go(c, "done")
    /\ UNCHANGED <<tables, created, outside, consumer, request, ghosts>>

\* a query or publish throws, or the process dies: an open transaction rolls
\* back and the call goes no further
FailCall(c) ==
    /\ call[c].phase \notin {"start"} \union Answered
    /\ Go(c, "failed")
    /\ UNCHANGED <<tables, published, outside, consumer, request, ghosts>>

-----------------------------------------------------------------------------
(* Creating. *)

Reported == IF kyc = "APPROVED" THEN ApprovedAs ELSE "rejected"

\* no answer of user-service counts as a failure
VerifyUserKyc(c) ==
    /\ call[c].phase = "start"
    /\ request[c].op = "create"
    /\ \/ Reported = "verified" /\ Go(c, "count")
       \/ Go(c, "failed")
    /\ UNCHANGED <<tables, published, outside, consumer, request, ghosts>>

Portfolio == {a \in Accounts : Found(a) /\ rows[a].status # "CLOSED"}

\* Mutant: > for >=
CountOneTooMany(c) ==
    /\ call[c].phase = "count"
    /\ Go(c, IF Cardinality(Portfolio) > AccountLimit
             THEN "failed" ELSE "insert")
    /\ UNCHANGED <<tables, published, outside, consumer, request, ghosts>>

CountAccounts(c) ==
    /\ call[c].phase = "count"
    /\ Go(c, IF Cardinality(Portfolio) >= AccountLimit
             THEN "failed" ELSE "insert")
    /\ UNCHANGED <<tables, published, outside, consumer, request, ghosts>>

\* insert the account and its limits under a new id, and publish
\* account.created, all inside the transaction
InsertAccount(c) ==
    /\ call[c].phase = "insert"
    /\ \E a \in Accounts \ created :
          /\ created' = created \union {a}
          /\ call' = [call EXCEPT ![c].phase = "commit", ![c].account = a]
    /\ UNCHANGED <<tables, events, outside, consumer, request, ghosts>>

\* creations between their count and their commit did not count this account
CommitAccount(c) ==
    LET a == call[c].account
    IN  /\ call[c].phase = "commit"
        /\ rows' = [rows EXCEPT ![a] = [status |-> "ACTIVE", deleted |-> FALSE]]
        /\ Go(c, "done")
        /\ openSince' = OpenFor(a)
        /\ overtaken' = overtaken \union
                            {d \in Calls \ {c} : call[d].phase \in {"insert", "commit"}}
        /\ spared' = spared \union {a}
        /\ UNCHANGED <<history, inbox, published, outside, consumer, request,
                       closedBefore>>

-----------------------------------------------------------------------------
(* Transfers: validateBounds reads the two rows one after the other. *)

ValidateSource(c) ==
    /\ call[c].phase = "start"
    /\ request[c].op = "transfer"
    /\ Go(c, IF Open(request[c].account) THEN "destination" ELSE "failed")
    /\ openSince' = [openSince EXCEPT ![c] = {a \in Accounts : Open(a)}]
    /\ UNCHANGED <<tables, published, outside, consumer, request, closedBefore,
                   overtaken, spared>>

\* Mutant: the destination may be frozen or closed
DestinationUnchecked(c) ==
    /\ call[c].phase = "destination"
    /\ Go(c, IF rows[request[c].to] # None THEN "post" ELSE "failed")
    /\ UNCHANGED <<tables, published, outside, consumer, request, ghosts>>

ValidateDestination(c) ==
    /\ call[c].phase = "destination"
    /\ Go(c, IF Open(request[c].to) THEN "post" ELSE "failed")
    /\ UNCHANGED <<tables, published, outside, consumer, request, ghosts>>

\* the saga has the ledger record the transfer it was told is valid
PostTransfer(c) ==
    LET from == request[c].account
        to == request[c].to
    IN  /\ call[c].phase = "post"
        /\ balance[from] > 0
        /\ from # to
        /\ balance' = [balance EXCEPT ![from] = @ - 1, ![to] = @ + 1]
        /\ Go(c, "done")
        /\ UNCHANGED <<tables, published, kyc, reviewing, reviewed, consumer,
                       request, ghosts>>

-----------------------------------------------------------------------------
(* Compliance: reviews and the kyc_sync consumer. *)

\* user-service changes the user's status, whatever it was, and publishes the
\* event, both inside a transaction
PublishReview(e) ==
    /\ reviewing = None
    /\ e \notin reviewed
    /\ reviewing' = e
    /\ reviewed' = reviewed \union {e}
    /\ queue' = Append(queue, e)
    /\ UNCHANGED <<tables, published, balance, kyc, dead, sync, calls, crashes,
                   failures, ghosts>>

CommitReview ==
    /\ reviewing # None
    /\ kyc' = DecisionOf[reviewing]
    /\ reviewing' = None
    /\ UNCHANGED <<tables, published, balance, reviewed, consumer, calls, ghosts>>

\* the commit fails; the event is out
RollbackReview ==
    /\ reviewing # None
    /\ reviewing' = None
    /\ UNCHANGED <<tables, published, balance, kyc, reviewed, consumer, calls, ghosts>>

Receive ==
    /\ sync = Idle
    /\ queue # <<>>
    /\ sync' = [Idle EXCEPT !.phase = "received", !.event = Head(queue)]
    /\ queue' = Tail(queue)
    /\ UNCHANGED <<tables, published, outside, dead, calls, crashes, failures, ghosts>>

\* the accounts to freeze: none unless the user is rejected or suspended
ToFreeze(e) == IF DecisionOf[e] = "REJECTED" THEN {a \in Accounts : Open(a)}
                                             ELSE {}

\* Mutant: the inbox insert is not looked at
SyncAlways ==
    /\ sync.phase = "received"
    /\ sync' = [sync EXCEPT !.phase = "freezing", !.todo = ToFreeze(sync.event)]
    /\ spared' = spared \ ToFreeze(sync.event)
    /\ UNCHANGED <<tables, published, outside, queue, dead, calls, crashes,
                   failures, closedBefore, openSince, overtaken>>

\* Mutant: the inbox row is committed on its own, before the freezes
InboxFirst ==
    /\ sync.phase = "received"
    /\ IF sync.event \in inbox
       THEN /\ sync' = Idle
            /\ UNCHANGED spared
       ELSE /\ sync' = [sync EXCEPT !.phase = "freezing",
                                    !.todo = ToFreeze(sync.event)]
            /\ spared' = spared \ ToFreeze(sync.event)
    /\ inbox' = inbox \union {sync.event}
    /\ UNCHANGED <<rows, history, published, outside, queue, dead, calls,
                   crashes, failures, closedBefore, openSince, overtaken>>

\* insertMessage in the outer transaction, then findByUserId outside it.  A
\* duplicate ends here: acked when insertMessage returns false, dead-lettered
\* when it throws.
OpenSync ==
    /\ sync.phase = "received"
    /\ IF sync.event \in inbox
       THEN /\ sync' = Idle
            /\ dead' \in {dead, dead \union {sync.event}}
            /\ UNCHANGED spared
       ELSE /\ sync' = [sync EXCEPT !.phase = "freezing",
                                    !.todo = ToFreeze(sync.event)]
            /\ spared' = spared \ ToFreeze(sync.event)
            /\ UNCHANGED dead
    /\ UNCHANGED <<tables, published, outside, queue, calls, crashes,
                   failures, closedBefore, openSince, overtaken>>

SystemFreeze(id) == [id |-> id, old |-> "ACTIVE", new |-> "FROZEN",
                     by |-> "SYSTEM"]

\* updateStatus in a transaction of its own, on the account as it is now
FreezeNext(a) ==
    LET id == NewId(history[a])
    IN  /\ sync.phase = "freezing"
        /\ a \in sync.todo
        /\ rows' = [rows EXCEPT ![a].status = "FROZEN"]
        /\ history' = [history EXCEPT ![a] = @ \union {SystemFreeze(id)}]
        /\ sync' = [sync EXCEPT !.phase = "announcing", !.account = a,
                                !.logged = id]
        /\ UNCHANGED <<published, outside, queue, dead, inbox, calls, crashes,
                       failures, ghosts>>

AnnounceFreeze ==
    /\ sync.phase = "announcing"
    /\ events' = [events EXCEPT ![sync.account] = Append(@, SystemFreeze(sync.logged))]
    /\ sync' = [sync EXCEPT !.phase = "freezing",
                            !.todo = @ \ {sync.account}, !.account = None,
                            !.logged = 0]
    /\ UNCHANGED <<tables, created, outside, queue, dead, calls, crashes, failures, ghosts>>

\* the transaction or the publish for one account throws; the loop logs it
\* and goes on
SwallowFailure(a) ==
    /\ failures < MaxFailures
    /\ \/ /\ sync.phase = "freezing" /\ a \in sync.todo
          /\ spared' = spared \union {a}
       \/ /\ sync.phase = "announcing" /\ a = sync.account
          /\ UNCHANGED spared
    /\ sync' = [sync EXCEPT !.phase = "freezing", !.todo = @ \ {a},
                            !.account = None, !.logged = 0]
    /\ failures' = failures + 1
    /\ UNCHANGED <<tables, published, outside, queue, dead, calls, crashes,
                   closedBefore, openSince, overtaken>>

CommitSync ==
    /\ sync.phase = "freezing"
    /\ sync.todo = {}
    /\ inbox' = inbox \union {sync.event}
    /\ sync' = [sync EXCEPT !.phase = "committed"]
    /\ UNCHANGED <<rows, history, published, outside, queue, dead, calls,
                   crashes, failures, ghosts>>

AckSync ==
    /\ sync.phase = "committed"
    /\ sync' = Idle
    /\ UNCHANGED <<tables, published, outside, queue, dead, calls, crashes,
                   failures, ghosts>>

\* a statement of the outer transaction or the listing throws: rollback, nack
\* without requeue.  The accounts it would have frozen stay as they are.
FailSync ==
    /\ failures < MaxFailures
    /\ failures' = failures + 1
    /\ dead' = dead \union {sync.event}
    /\ sync' = Idle
    /\ \/ /\ sync.phase = "received"
          /\ sync.event \notin inbox
          /\ spared' = spared \union ToFreeze(sync.event)
       \/ /\ sync.phase = "freezing"
          /\ sync.todo = {}
          /\ UNCHANGED spared
    /\ UNCHANGED <<tables, published, outside, queue, calls, crashes,
                   closedBefore, openSince, overtaken>>

\* Mutant: a crash takes the event with it, as when it was acked on delivery
CrashLosingEvent ==
    /\ sync # Idle
    /\ crashes < MaxCrashes
    /\ crashes' = crashes + 1
    /\ sync' = Idle
    /\ UNCHANGED <<tables, published, outside, queue, dead, calls, failures, ghosts>>

\* the consumer dies: the outer transaction rolls back, the freezes already
\* made stay, and the broker puts the event back at the head of the queue
CrashSync ==
    /\ sync # Idle
    /\ crashes < MaxCrashes
    /\ crashes' = crashes + 1
    /\ queue' = <<sync.event>> \o queue
    /\ sync' = Idle
    /\ UNCHANGED <<tables, published, outside, dead, calls, failures, ghosts>>

-----------------------------------------------------------------------------
Handle(c) ==
    \/ ReadAccount(c) \/ CheckBalance(c) \/ WriteStatus(c)
    \/ PublishStatusChanged(c) \/ FailCall(c)
    \/ VerifyUserKyc(c) \/ CountAccounts(c) \/ InsertAccount(c)
    \/ CommitAccount(c)
    \/ ValidateSource(c) \/ ValidateDestination(c) \/ PostTransfer(c)

Sync ==
    \/ Receive \/ OpenSync
    \/ \E a \in Accounts : FreezeNext(a)
    \/ AnnounceFreeze \/ CommitSync \/ AckSync

Next ==
    \/ \E c \in Calls : Handle(c)
    \/ \E e \in Reviews : PublishReview(e)
    \/ CommitReview \/ RollbackReview
    \/ Sync \/ CrashSync \/ FailSync
    \/ \E a \in Accounts : SwallowFailure(a)

Spec == Init /\ [][Next]_vars

\* the broker delivers to an idle consumer and Node runs its handler on
FairSpec == Spec /\ WF_vars(Sync)

-----------------------------------------------------------------------------
(* Properties.  All hold of handlers that interleave as they like. *)

Acting == {"balance", "write", "publish"}

\* a call that decided to change an account read its row
CallsKnowRows ==
    \A c \in Calls :
        /\ call[c].phase = "start" => call[c].account = request[c].account
        /\ call[c].phase \in Acting => /\ request[c].op \in DOMAIN Outcome
                                       /\ call[c].seen \in Status
                                       /\ rows[call[c].account] # None

\* an id being inserted is new, and one call's alone
InsertsAreNew ==
    /\ \A a \in Accounts : rows[a] # None => a \in created
    /\ \A c \in Calls : call[c].phase = "commit" =>
           /\ call[c].account \in created
           /\ rows[call[c].account] = None
           /\ \A d \in Calls \ {c} :
                  call[d].phase = "commit" => call[d].account # call[c].account

\* the consumer freezes accounts whose rows it read
SyncKnowsRows ==
    /\ \A a \in sync.todo : rows[a] # None
    /\ IF sync.phase = "idle" THEN sync = Idle ELSE sync.event \in Reviews
    /\ sync.phase = "announcing" => sync.account \in sync.todo

\* Nothing writes to an account that does not exist: whoever is about to
\* change an account read its row, at whatever distance, and an id being
\* inserted is nobody else's.
RowsAreKnown == TypeOK /\ CallsKnowRows /\ InsertsAreNew /\ SyncKnowsRows

\* account.status_changed never tells of a change that was not committed, nor
\* of one change twice, whatever fails and is delivered again.
EventsAreRecorded ==
    \A a \in Accounts : \A i \in DOMAIN events[a] :
        /\ events[a][i] \in history[a]
        /\ \A j \in DOMAIN events[a] : events[a][j] = events[a][i] => j = i

\* CLOSED is terminal for whoever comes later: although handlers and the
\* consumer that read the account before may write over its status, a handler
\* that arrives after the closing changes nothing of the account.
ClosedStaysClosed ==
    [][\A c \in Calls : call'[c] # call[c] =>
          \A a \in closedBefore[c] : /\ rows'[a] = rows[a]
                                     /\ history'[a] = history[a]]_vars

\* Money leaves and reaches only accounts that were open at some moment since
\* its transfer arrived: a freeze or a closing can be late, never overlooked.
ShutAccountsMoveNothing ==
    [][\A c \in Calls : call'[c] # call[c] =>
          \A a \in Accounts \ openSince[c] : balance'[a] = balance[a]]_vars

\* The user's accounts that are not closed exceed AccountLimit at most by the
\* creations that another one overtook between their count and their commit.
LimitOverrunByRace ==
    Cardinality(Portfolio)
        <= AccountLimit
               + Cardinality({c \in overtaken : call[c].phase = "done"})

\* When the user is rejected, every published review was handled and nothing
\* is under way, the accounts still open were opened or unfrozen since the
\* rejection listed the user's accounts, or their freeze failed.
RejectedHoldsNoOpenAccount ==
    kyc = "REJECTED" /\ queue = <<>> /\ AtRest =>
        \A a \in Accounts : Open(a) => a \in spared

\* Once a review has been applied, a redelivery of its event freezes nothing:
\* it does not undo what operations unfroze since (ADR-011).
ReviewAppliedOnce ==
    [][\A a \in Accounts :
          (\E h \in history'[a] \ history[a] : h.by = "SYSTEM")
              => sync.event \notin inbox]_vars

\* A review that user-service published is not lost: although the consumer may
\* crash, it is in the end applied or, when a statement failed, dead-lettered.
ReviewSettled == \A e \in Reviews : e \in reviewed ~> e \in inbox \union dead
=============================================================================
