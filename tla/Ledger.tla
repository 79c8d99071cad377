------------------------------- MODULE Ledger -------------------------------
(***************************************************************************)
(* ledger-service: concurrent POST /v1/internal/ledger/entry requests, each *)
(* handled by LedgerService.recordTransaction under PostgreSQL              *)
(* SERIALIZABLE isolation.  A request is validated, opens a database        *)
(* transaction, looks its referenceId up, checks the balance of every       *)
(* account it debits, inserts the transaction row and one row per entry,    *)
(* commits, and only then publishes ledger.transaction_posted.  Every await *)
(* at which another request, an abort or a crash can intervene and be seen  *)
(* is the boundary of an action.                                            *)
(*                                                                          *)
(* The database is external: a transaction reads the state committed at its *)
(* first query (sees, readBalance) and commits only when the committed      *)
(* transactions stay serializable.  PostgreSQL may also abort a             *)
(* transaction that was serializable; Abort covers that.                    *)
(*                                                                          *)
(* Here no snapshot sweep runs, so calculateBalance is the seeded balance   *)
(* plus the sum of all visible entries; LedgerSweep models the sweep.       *)
(***************************************************************************)
EXTENDS LedgerEntries, FiniteSets

CONSTANT Requests   \* calls of POST /v1/internal/ledger/entry, retries included

VARIABLES
    pc,          \* pc[r]: where request r's handler is
    dto,         \* dto[r]: its body
    sees,        \* sees[r]: the requests committed when r took its snapshot
    readBalance, \* readBalance[r][a]: a's balance in that snapshot
    inserted,    \* inserted[r]: entry rows r has inserted, not yet committed
    delta,       \* delta[r][a]: what those rows add to a's balance
    posted,      \* the requests whose transaction committed
    balance,     \* balance[a]: seed plus every committed entry of a
    breached,    \* requests for which ledger.balance_breached was published
    announced    \* requests for which ledger.transaction_posted was published

vars == <<pc, dto, sees, readBalance, inserted, delta, posted, balance,
          breached, announced>>

\* "checking" and "recording" hold an open database transaction
InTransaction == {"checking", "recording"}

\* "unannounced": committed, then the publish failed or the process died
Answered == {"invalid", "duplicate", "insufficient", "failed",
             "recorded", "unannounced"}

Phase == {"idle", "begin", "publishing"} \union InTransaction \union Answered

NoBalances == [a \in Accounts |-> 0]

-----------------------------------------------------------------------------
(* PostgreSQL: serializable snapshot isolation and the unique index on      *)
(* reference_id.                                                            *)

\* Request u's transaction must come before t's in a serial order: t reads
\* rows of u, or u read an account's rows without the rows t writes to it.
Precedes(u, t) ==
    \/ /\ u \in sees[t]
       /\ TouchedAccounts(dto[u]) \cap DebitedAccounts(dto[t]) # {}
    \/ /\ t \notin sees[u]
       /\ DebitedAccounts(dto[u]) \cap TouchedAccounts(dto[t]) # {}

\* Mutant: REPEATABLE READ, which lets write skew through
RepeatableRead(t) == TRUE

\* Committing t closes no cycle with a committed transaction.  PostgreSQL
\* refuses longer cycles too; the model leaves those aborts to Abort.
Serializable(t) == ~\E u \in posted : Precedes(u, t) /\ Precedes(t, u)

\* an insert of a duplicate key waits while the other inserter is undecided
ReferenceLocked(r) ==
    \E s \in Requests \ {r} : /\ pc[s] = "recording"
                              /\ dto[s].referenceId = dto[r].referenceId

\* Mutant: the fresh transaction id is looked up, not the reference
TransactionTaken(r, visible) == r \in visible

ReferenceTaken(r, visible) ==
    \E s \in visible : dto[s].referenceId = dto[r].referenceId

-----------------------------------------------------------------------------
TypeOK ==
    /\ pc \in [Requests -> Phase]
    /\ dto \in [Requests -> Dtos]
    /\ sees \in [Requests -> SUBSET Requests]
    /\ readBalance \in [Requests -> [Accounts -> Int]]
    /\ inserted \in [Requests -> Nat]
    /\ delta \in [Requests -> [Accounts -> Int]]
    /\ posted \in SUBSET Requests
    /\ balance \in [Accounts -> Int]
    /\ breached \in SUBSET Requests
    /\ announced \in SUBSET Requests

Init ==
    /\ pc = [r \in Requests |-> "idle"]
    /\ dto \in [Requests -> Dtos]
    /\ sees = [r \in Requests |-> {}]
    /\ readBalance = [r \in Requests |-> NoBalances]
    /\ inserted = [r \in Requests |-> 0]
    /\ delta = [r \in Requests |-> NoBalances]
    /\ posted = {}
    /\ balance = Opening
    /\ breached = {}
    /\ announced = {}

\* the handler of r is done; nothing of its transaction stays but, when it
\* committed, the snapshot it read
Finish(r, answer) ==
    /\ pc' = [pc EXCEPT ![r] = answer]
    /\ readBalance' = [readBalance EXCEPT ![r] = NoBalances]
    /\ inserted' = [inserted EXCEPT ![r] = 0]
    /\ delta' = [delta EXCEPT ![r] = NoBalances]

Rollback(r, answer) ==
    /\ Finish(r, answer)
    /\ sees' = [sees EXCEPT ![r] = {}]
    /\ UNCHANGED <<dto, posted, balance, announced>>

\* request r arrives and is validated, before any SQL
Receive(r) ==
    /\ pc[r] = "idle"
    /\ pc' = [pc EXCEPT ![r] = IF Valid(dto[r]) THEN "begin" ELSE "invalid"]
    /\ UNCHANGED <<dto, sees, readBalance, inserted, delta, posted, balance,
                   breached, announced>>

\* BEGIN, SET TRANSACTION, and the lookup of referenceId, whose query takes
\* the transaction's snapshot
LookupReference(r) ==
    /\ pc[r] = "begin"
    /\ IF ReferenceTaken(r, posted)
       THEN /\ Rollback(r, "duplicate")
            /\ UNCHANGED breached
       ELSE /\ pc' = [pc EXCEPT ![r] = "checking"]
            /\ sees' = [sees EXCEPT ![r] = posted]
            /\ readBalance' = [readBalance EXCEPT ![r] = balance]
            /\ UNCHANGED <<dto, inserted, delta, posted, balance,
                           breached, announced>>

Covered(r, i) ==
    dto[r].entries[i].amountPaise <= readBalance[r][dto[r].entries[i].accountId]

\* some debit is not covered by the snapshot: publish balance_breached while
\* the transaction is open, then roll it back
RefuseDebit(r) ==
    /\ pc[r] = "checking"
    /\ \E i \in Lines(dto[r], "DEBIT") : ~Covered(r, i)
    /\ breached' = breached \union {r}
    /\ Rollback(r, "insufficient")

\* every debit is covered: insert the ledger_transactions row
CreateTransaction(r) ==
    /\ pc[r] = "checking"
    /\ \A i \in Lines(dto[r], "DEBIT") : Covered(r, i)
    /\ ~ReferenceLocked(r)
    /\ IF ReferenceTaken(r, posted)
       THEN Rollback(r, "failed")
       ELSE /\ pc' = [pc EXCEPT ![r] = "recording"]
            /\ UNCHANGED <<dto, sees, readBalance, inserted, delta, posted,
                           balance, announced>>
    /\ UNCHANGED breached

\* insert the next ledger_entries row
CreateEntry(r) ==
    LET k == inserted[r] + 1
        e == dto[r].entries[k]
    IN  /\ pc[r] = "recording"
        /\ k <= Len(dto[r].entries)
        /\ IF ViolatesEntryIndex(dto[r], k)
           THEN Rollback(r, "failed")
           ELSE /\ inserted' = [inserted EXCEPT ![r] = k]
                /\ delta' = [delta EXCEPT ![r][e.accountId] = @ + Signed(e)]
                /\ UNCHANGED <<pc, dto, sees, readBalance, posted, balance,
                               announced>>
        /\ UNCHANGED breached

\* COMMIT, which the database grants only to a serializable outcome
Commit(r) ==
    /\ pc[r] = "recording"
    /\ inserted[r] = Len(dto[r].entries)
    /\ Serializable(r)
    /\ posted' = posted \union {r}
    /\ balance' = [a \in Accounts |-> balance[a] + delta[r][a]]
    /\ Finish(r, "publishing")
    /\ UNCHANGED <<dto, sees, breached, announced>>

\* Mutant: the failure neither commits nor releases the transaction
FailureUnhandled(r) == FALSE

\* COMMIT fails with 40001; nothing in the service retries it
SerializationFailure(r) ==
    /\ pc[r] = "recording"
    /\ inserted[r] = Len(dto[r].entries)
    /\ ~Serializable(r)
    /\ Rollback(r, "failed")
    /\ UNCHANGED breached

\* a serialization failure PostgreSQL reports early or needlessly, a lost
\* connection, a crash, a failed publish of balance_breached: rolled back
Abort(r) ==
    /\ pc[r] \in {"begin"} \union InTransaction
    /\ Rollback(r, "failed")
    /\ UNCHANGED breached

\* Mutant: the event is published while the transaction is still open
PublishInsideTransaction(r) ==
    /\ pc[r] \in {"recording", "publishing"}
    /\ announced' = announced \union {r}
    /\ pc' = IF pc[r] = "recording" THEN pc ELSE [pc EXCEPT ![r] = "recorded"]
    /\ UNCHANGED <<dto, sees, readBalance, inserted, delta, posted, balance,
                   breached>>

\* the event is confirmed and the caller is answered 201
PublishPosted(r) ==
    /\ pc[r] = "publishing"
    /\ announced' = announced \union {r}
    /\ pc' = [pc EXCEPT ![r] = "recorded"]
    /\ UNCHANGED <<dto, sees, readBalance, inserted, delta, posted, balance,
                   breached>>

\* the process dies or the publish throws after the commit
LosePublish(r) ==
    /\ pc[r] = "publishing"
    /\ pc' = [pc EXCEPT ![r] = "unannounced"]
    /\ UNCHANGED <<dto, sees, readBalance, inserted, delta, posted, balance,
                   breached, announced>>

Progress(r) ==
    \/ LookupReference(r)
    \/ RefuseDebit(r)
    \/ CreateTransaction(r)
    \/ CreateEntry(r)
    \/ Commit(r)
    \/ SerializationFailure(r)
    \/ PublishPosted(r)

Next ==
    \E r \in Requests : Receive(r) \/ Progress(r) \/ Abort(r) \/ LosePublish(r)

Spec == Init /\ [][Next]_vars

\* Node resumes a handler whose await has resolved and the database answers
\* every statement that is not waiting for another transaction.  Nothing
\* makes a request arrive, a transaction abort or a process die.
FairSpec == Spec /\ \A r \in Requests : WF_vars(Progress(r))

-----------------------------------------------------------------------------
(* Properties. *)

\* No interleaving of requests drives an account below zero: the balance
\* check of recordTransaction, made against a snapshot, still holds when the
\* debit is committed.
NoOverdraft == \A a \in Accounts : balance[a] >= 0

\* A transfer saga's referenceId is recorded at most once, whatever the
\* retries and concurrent copies of the request do.
ReferenceRecordedOnce ==
    \A r, s \in posted :
        dto[r].referenceId = dto[s].referenceId => r = s

\* Double entry: what the committed entries do to the balances is all of
\* every recorded request and nothing of any other, and no money appears or
\* disappears, whichever statement an abort or a crash hits.
BooksBalance ==
    /\ \A a \in Accounts :
          balance[a] = Opening[a]
                       + SumFunction([r \in posted |-> NetChange(dto[r], a)])
    /\ SumFunction(balance) = SumFunction(Opening)

\* A 201 and ledger.transaction_posted are only ever about a committed
\* transaction, no 201 comes before the event, and no transaction whose
\* breach was published is committed after all.
EventsTellTheTruth ==
    /\ announced \subseteq posted
    /\ \A r \in Requests : pc[r] = "recorded" => r \in announced
    /\ breached \cap posted = {}

\* Copies of a request that wait for each other's unique reference_id never
\* wait forever: every request that reached the database is answered.
EveryRequestAnswered ==
    \A r \in Requests : pc[r] = "begin" ~> pc[r] \in Answered

(* Why they hold: the parts of an inductive invariant. *)

\* a body that failed validation never reaches the database
BodiesValid ==
    \A r \in Requests : pc[r] \notin {"idle", "invalid"} => Valid(dto[r])

\* a committed request is past its transaction, and snapshots are of the past
PostedIsPast ==
    /\ \A r \in posted : pc[r] \in {"publishing", "recorded", "unannounced"}
    /\ \A r \in Requests : sees[r] \subseteq posted

\* a request that is not inserting has inserted nothing
NothingPending ==
    \A r \in Requests : pc[r] # "recording" =>
        inserted[r] = 0 /\ delta[r] = NoBalances

\* rows are inserted only when the snapshot covers each debit line
ReadsCoverDebits ==
    \A r \in Requests : pc[r] = "recording" =>
        \A i \in Lines(dto[r], "DEBIT") : Covered(r, i)

\* what r has inserted takes from an account no more than one of its debit
\* lines: the unique index leaves an account one debit line per transaction
OneDebitPerAccount ==
    \A r \in Requests : pc[r] = "recording" =>
        \A a \in Accounts :
            \/ delta[r][a] >= 0
            \/ \E i \in Lines(dto[r], "DEBIT") :
                  /\ i <= inserted[r]
                  /\ dto[r].entries[i].accountId = a
                  /\ delta[r][a] >= -dto[r].entries[i].amountPaise

\* an account holds less than an open transaction read only because a request
\* that debits it committed after the snapshot
StaleOnlyByDebit ==
    \A r \in Requests : pc[r] \in InTransaction =>
        \A a \in Accounts :
            \/ balance[a] >= readBalance[r][a]
            \/ \E u \in posted \ sees[r] : a \in DebitedAccounts(dto[u])

\* an uncommitted ledger_transactions row is the only one of its reference
ReferenceReserved ==
    \A r, s \in Requests :
        /\ r # s
        /\ pc[r] = "recording"
        /\ s \in posted \/ pc[s] = "recording"
        => dto[r].referenceId # dto[s].referenceId

SafetyInv ==
    /\ TypeOK
    /\ BodiesValid
    /\ PostedIsPast
    /\ NothingPending
    /\ ReadsCoverDebits
    /\ OneDebitPerAccount
    /\ StaleOnlyByDebit
    /\ ReferenceReserved
    /\ NoOverdraft
    /\ ReferenceRecordedOnce

Book == INSTANCE LedgerBook WITH
            recorded <- {dto[r].referenceId : r \in posted},
            announced <- {dto[r].referenceId : r \in announced}

\* Seen from outside, interleaved and interrupted requests look like whole
\* bodies recorded one at a time, each against the balances of that moment.
ImplementsBook == Book!Spec
=============================================================================
