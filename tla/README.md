# A TLA+ model of the fintech platform

The platform is a TypeScript monorepo: a web client, an API gateway, services
that each own a PostgreSQL schema, and RabbitMQ between them. This directory
holds TLA+ specifications of its core logic, TLC runs that check them on small
instances, and TLAPS proofs of the properties that matter most. Paths below are
relative to `src/`.

## 1. Inventory

What exists as code, the state each part keeps, what is hard in it, and when it
is correct. The services for transfers, approvals, audit, deposits,
notifications, operations, reporting and scheduling exist only as documents
(`docs/architecture/manuals`); where the code depends on one of them, its step
is an external action of a model.

### ledger-service (`services/ledger-service`)

* *State*: `ledger_transactions` (unique `reference_id`), `ledger_entries`
  (unique `transaction_id, account_id, direction`), `balance_snapshots` (unique
  `account_id, snapshot_date`), `inbox_messages`.
* *Operations*: `recordTransaction` (POST `/v1/internal/ledger/entry`, called by
  the transfer saga): validate, then in one SERIALIZABLE transaction look the
  reference up, check every debited balance, insert; after the commit publish
  `ledger.transaction_posted`. `runSnapshotSweep` (consumer of
  `scheduler.trigger.snapshot_sweep`): for every account store a balance and the
  id of the last entry in it. `calculateBalance`: the latest snapshot plus the
  entries above its boundary, from a request, a sweep or GET balance.
* *Hard*: write skew between balance checks; retries of one reference while the
  first copy is open; a failure between two inserts or between commit and
  publish; ids stamped at insert and seen at commit; a sweep that reads its
  boundary and its balance in two statements; late, repeated and interrupted
  sweeps.
* *Correct when*: no account is overdrawn, no reference is recorded twice, the
  books balance, events are about committed transactions, and a balance computed
  from a snapshot is the sum of all entries (which the sweep does not ensure:
  section 4).

### account-service (`services/account-service`)

* *State*: `accounts` (status and soft deletion), `account_limits`,
  `account_status_history`, `inbox_messages`.
* *Operations*: create, freeze, unfreeze, close, `validateBounds` (asked by the
  transfer saga), and the `user.kyc_status_changed` consumer that freezes the
  accounts of a user compliance rejects.
* *Interactions*: asks user-service for the KYC status and the ledger for the
  balance; publishes `account.created` and `account.status_changed`.
* *Hard*: every handler reads a row, awaits, and writes what it decided from
  the read; the consumer freezes accounts in transactions of their own inside
  its outer one; an unreachable ledger counts as a balance of zero.
* *Correct when*: CLOSED is terminal, no money moves through closed or frozen
  accounts, the portfolio limit holds, a rejected user has no open account but
  those operations unfroze, events are about committed changes. The first four
  hold up to handlers and transfers that read before the change; the properties
  say how far each race reaches.

### user-service (`services/user-service`)

* *State*: `user_profiles` (with the KYC status), `user_preferences`,
  `kyc_submissions`, `inbox_messages`.
* *Operations*: create a profile on `user.registered`, update it, submit KYC
  details, apply reviews from four approval and operations queues.
* *Hard*: four queues deliver decisions in any order, no handler looks at the
  status it overwrites, the submission a review marks is looked up while others
  submit, `user.kyc_status_changed` is published inside the transaction.
* *Correct when*: the last committed change that was published is the user's
  status, no review passes over a submission, a decision is applied once.

### auth-service (`services/auth-service`)

* *State*: `users` with credentials, failed-login count and suspension flag,
  `sessions` with a refresh-token hash, e-mail and reset tokens; in Redis,
  `jti:blocklist:{jti}` and `suspended:{userId}`.
* *Operations*: register, verify e-mail, login, refresh, logout, revoke a
  session, forgotten and reset passwords, the consumer of
  `operations.user_suspended`.
* *Interactions*: publishes `user.registered` and the other user events; the
  gateway reads its Redis keys and asks nothing else.
* *Hard*: no operation has a transaction, so every pair of statements may be
  interleaved and every sequence may stop half way; a token is rotated in place
  by a handler that looked at the session earlier; tokens are signed by handlers
  that read the user before a suspension; the lockout counter is read and
  written in two statements.
* *Correct when*: an address is registered once, what was revoked before a
  request yields nothing, and no token of a suspended user is admitted.

### api-gateway (`services/api-gateway`) and shared-middleware

* *State*: none but Redis: rate-limit windows, and the two keys of auth-service.
* *Operations*: CORS, rate limit by address, verify the JWT, ask the blocklist
  by token and by user, inject identity headers, proxy; probes.
* *Interactions*: four proxied services that trust `X-User-Id`; auth-service,
  which authenticates by the `Authorization` header.
* *Hard*: three awaits on Redis per request, one of which fails open and two
  closed; keys that expire and appear between them; the window shared by
  replicas; headers that each of two sides treats rightly by its own tests.
* *Correct when*: of an address pass, within a window's length, fewer requests
  than twice the limit, none is refused below it, a refused token reaches no service, a service acts for the token's owner.

### apps/web (`apps/web`)

* *State*: `localStorage` (session, simulated profiles, accounts, balances,
  approvals, transfers) and a cookie, shared by the tabs; what each tab loaded.
* *Operations*: `AuthProvider`: login, registration, logout, profile, KYC,
  transfers and reviews, each asking the gateway first and simulated in
  `localStorage` when that fails.
* *Hard*: tabs act on what they loaded earlier; `localStorage` has no lock, an
  item is read, changed and written back whole, and a tab may be killed between
  two of its writes; a session may change under an operation that is under way.
* *Correct when*: simulated balances are made of whole transfers and starting
  portfolios, none is negative, and a customer has one account.

### shared-messaging (`packages/shared-messaging`)

* *State*: RabbitMQ exchanges, queues, unacknowledged deliveries, confirms.
* *Operations*: declare the topology, publish with confirms, consume with
  prefetch 1, ack after the handler, nack without requeue, reconnect.
* *Hard*: redelivery after a crash between commit and ack, handlers that outlive
  their channel, dead-lettering and the dead-letter queue's binding, publishes
  repeated after a lost connection or lost with their process.
* *Correct when*: what the queue took is not lost, its effect happens once, and
  what a handler rejects is kept for inspection.

### shared-db (`packages/shared-db`)

* *State*: the pool: ten connections, the queue of those who wait for one for at
  most five seconds.
* *Operations*: `withTransaction`, the connections handlers take inside a
  transaction of their own (`calculateBalance`, the freezes of the KYC
  consumer), the drain of a shutdown.
* *Hard*: enough nested transactions hold every connection while each waits for
  one more.
* *Correct when*: every connection is free or held by one task, and everyone who
  begins ends.

### shared-types, shared-events, shared-errors, shared-config, infra, k8s

Declarations, pure helpers and deployment files.

`PROJECT.json` lists each hazard at its line with the properties that cover it.

## 2. Plan

In order of importance; what is done is marked.

1. **Ledger** (done): `LedgerEntries` (bodies and their validation), `Ledger`
   (concurrent `recordTransaction`), `LedgerBook` (its abstract specification),
   `LedgerProofs`.
2. **LedgerSweep** (done): snapshots and balance queries, over the same
   `LedgerEntries`; `LedgerSweepProofs`.
3. **Accounts** (done): account-service, with the ledger, user-service and the
   saga as its environment; `AccountsProofs`.
4. **Kyc** (done): user-service's submissions and reviews from four queues,
   publish before commit; `KycProofs`.
5. **Messaging** (done): one queue of shared-messaging with its publisher,
   consumer, inbox and dead-letter exchange; `Delivery`, the exactly-once effect
   of ADR-011, which it implements; `SharedProofs`.
6. **Auth** (done): auth-service statement by statement, with the two questions
   the gateway asks of its keys; `AuthProofs`.
7. **Gateway** (done): the middlewares of one request, with the rate limiter, the
   blocklist and the headers; `GatewayProofs`.
8. **WebClient** (done): the offline simulation in several tabs;
   `SharedProofs`.
9. **Pool** (done): connections and nested acquisition; `SharedProofs`.
10. **Registration**: the profile created on `user.registered`, and Kyc composed
   with the consumer of Accounts, so that what account-service knows of a user is
   compared with what user-service committed.
11. **Paise**: the arithmetic of amounts in doubles, as operators checked against
   reference definitions.

Every safety property the passing runs check is proved but one
(`RefusedAtTheLimit`, section 5). Proofs planned next: that one, and the theorems
of the two modules still to come.

## 3. The modules

| module | models | checked by |
|---|---|---|
| `LedgerEntries` | the body of POST `/v1/internal/ledger/entry`, `CreateLedgerTransactionSchema`, the entries' unique index | every Ledger and Sweep run |
| `Ledger` | concurrent `LedgerService.recordTransaction` calls | `MCLedger`, run `Ledger_requests` |
| `LedgerBook` | what the ledger promises: whole bodies, one at a time | refined by `Ledger` in `Ledger_requests` (`ImplementsBook`) |
| `LedgerSweep` | `balance_snapshots`: sweep consumer, balance queries, inserting requests | `MCLedgerSweep`, runs `Sweep_*` |
| `Accounts` | account-service: five operations and the KYC consumer | `MCAccounts`, run `Accounts_races` |
| `Kyc` | user-service: `submitKyc` and four review consumers on one profile row | `MCKyc`, run `Kyc_reviews` |
| `Messaging` | shared-messaging: publisher, one queue, inbox consumer, dead-letter exchange | `MCMessaging`, run `Messaging_delivery` |
| `Delivery` | what the inbox pattern promises: an effect after its publish, at most once | refined by `Messaging` in `Messaging_delivery` (`ImplementsDelivery`) |
| `Auth` | auth-service: its HTTP operations, the suspension consumer, the keys in Redis | `MCAuth`, run `Auth_calls` |
| `Gateway` | api-gateway's pipeline, with the limiter of shared-middleware and `authenticate` behind it | `MCGateway`, runs `Gateway_*` |
| `WebClient` | `AuthProvider` of apps/web in several tabs | `MCWebClient`, run `Web_offline` |
| `Pool` | shared-db's pool under nested transactions | `MCPool`, run `Pool_nested` |
| `FiniteSums` | nothing of the code: theorems about sums over finite sets | TLAPS |
| `LedgerProofs`, `LedgerSweepProofs`, `AccountsProofs`, `KycProofs`, `AuthProofs`, `GatewayProofs` | theorems about the module they are named for | TLAPS |
| `SharedProofs` | theorems about `Pool`, `WebClient` and `Messaging`, whose names differ so that one module can extend all three | TLAPS |

In every module an action is the code from one `await` to the next at which
another actor can intervene and be noticed. Statements that nobody can come
between are merged: an `UPDATE` holds the row's lock until its transaction ends,
and nobody sees before the commit what the transaction wrote, so an `UPDATE` and
the history insert that follows it are one action. What order rows have in a table
is another matter: `account_status_history` is ordered by `occurred_at`, the start
of the transaction, and is a set in the model.

Some variables are read by no action: they remember, for the properties, what a
race has reached (`raced`; `closedBefore`, `openSince`, `overtaken`, `spared`;
`counted`, `doomed`; `wrote`, `before`, `lost`). Each is declared as such in its
module.

### Ledger

| state | code |
|---|---|
| `pc[r]` | where call `r` of `recordTransaction` is: validated, looked up, inserting, committed, publishing, answered |
| `dto[r]` | its body, chosen in `Init` among `Dtos` |
| `sees[r]`, `readBalance[r]` | the snapshot its SERIALIZABLE transaction works on |
| `inserted[r]`, `delta[r]` | its uncommitted `ledger_entries` rows and their effect |
| `posted`, `balance` | committed transactions, and the sum of committed entries |
| `breached`, `announced` | calls that published `balance_breached`, `transaction_posted` |

`Receive` is the validation, `LookupReference` BEGIN and the query that takes the
snapshot, `RefuseDebit` the breach branch with its publish inside the
transaction, `CreateTransaction` and `CreateEntry` the inserts, `Commit` and
`SerializationFailure` the two outcomes of COMMIT, `Abort` any throw inside the
transaction (a lost connection, a crash, a failed publish, an early 40001),
`PublishPosted` and `LosePublish` the two outcomes after it.

PostgreSQL is external. `Serializable(t)` lets `t` commit only when no committed
transaction has to come both before and after it; PostgreSQL refuses more
histories than that, and `Abort` stands for the difference. An insert whose key
another open transaction holds waits (`ReferenceLocked`).

`Opening` is the seeded content of `balance_snapshots`: no code of the service
creates money, and `docs/architecture/manuals/ledger-service.md:181` has
balances seeded. From zero balances every valid body is refused, a deposit
included: some account has to be debited first, and the debit check has no
exception for `purpose: DEPOSIT`.

### LedgerSweep

`stamped` is the sequence of generated entry ids with their day; an id is an
index of it, so ids grow in the order of inserts, while `pc[r] = "committed"`
decides what a statement sees. `sweep` is the consumer: delivered, then per
account a boundary (`ReadBoundary`) and a balance (`SaveSnapshot`), then
`CommitSweep` and `Ack`; its writes are held in `sweep.written` until the commit.
Requests here insert, commit or abort only: what makes them commit is the subject
of `Ledger`. Nothing orders their commits and the sweep's statements. `raced` is
the set of accounts with a row that became visible in one of two ways, which
`Commit` decides: at or below a boundary already written or committed (`Missed`),
or above the boundary the consumer has just read, so that the balance read next
includes it and the next sum adds it again (`SeenTwice`).

`MayUpdate` says whether the runtime role may UPDATE `balance_snapshots`, which
`migrate.ts` does not grant.

### Accounts

| state | code |
|---|---|
| `rows`, `history`, `inbox` | `accounts`, `account_status_history` (a set of rows with ids), `inbox_messages`, committed |
| `created`, `events` | `account.created`, `account.status_changed` published |
| `balance` | the ledger's balances (external) |
| `kyc`, `reviewing`, `reviewed` | user-service: the user's status, the open transaction of a decision, the decisions published |
| `queue`, `dead`, `sync` | `account-service.kyc_sync`, what it dead-lettered, and its consumer |
| `request`, `call` | the HTTP calls, what they ask and have read |
| `closedBefore`, `openSince`, `overtaken`, `spared` | nothing: what the properties remember |

`ReadAccount`, `CheckBalance`, `WriteStatus`, `PublishStatusChanged` are freeze,
unfreeze and close; `VerifyUserKyc`, `CountAccounts`, `InsertAccount`,
`CommitAccount` are creation, with `account.created` published before the
commit; `ValidateSource`, `ValidateDestination` are `validateBounds` and
`PostTransfer` the saga that relies on it. The consumer is `Receive`,
`OpenSync` (inbox insert and the read of the user's accounts), `FreezeNext` and
`AnnounceFreeze` per account, each committed on its own, `SwallowFailure` (the
`catch` inside the loop), `CommitSync`, `AckSync`, `FailSync` (nack without
requeue) and `CrashSync` (the broker requeues).

Handlers and consumer overlap as they like: a handler writes what it decided from
a row that may have become another (`Written` sets the status whatever it is, as
the `UPDATE` does), and logs as the old status the one it read. `CheckBalance` has
the ledger answer its balance or, as when it does not answer, 0. `PublishReview`
sends the event before user-service commits, and `RollbackReview` is a commit that
fails after it. `ApprovedAs` is the word user-service uses for an approved user
('approved' in the code; the runs use 'verified', the word account-service expects,
since otherwise no account can be created at all).

Several promises one would like to make are false of this code, and no property
claims them: that CLOSED is final, that a closed account holds nothing, that the
portfolio limit holds, that changes in the audit log chain from one status to the
next. `ClosedStaysClosed`, `ShutAccountsMoveNothing`, `LimitOverrunByRace` and
`RejectedHoldsNoOpenAccount` say what remains of them: the damage is done by
handlers that read before the change, and only by them. `closedBefore[c]` are the
accounts the log shows as closed when handler `c` reads its own; `openSince[c]`
those that were open at some moment since transfer `c` arrived; `overtaken` the
creations that were past their count when another one committed; `spared` the
accounts opened, unfrozen, or not frozen by a failure since the last rejection
that listed them.

Left out: amounts and limits (one transfer moves one unit), currencies, the
listing endpoints, calls with role SYSTEM (no code of the repository makes
them). `closeAccount` reads the row twice in the service and in the controller;
the reads are merged, which leaves out only refusals. User-service decides one
review at a time here, although it has four queues: Kyc models those.

### Kyc

| state | code |
|---|---|
| `kycStatus`, `status`, `inbox` | `user_profiles.kyc_status`, `kyc_submissions.status`, `inbox_messages`, committed |
| `lock` | who holds the profile row's lock, from `updateKycStatus` to the end of its transaction |
| `begun` | submissions in the order of `submitted_at`, which is the start of their transaction and not its commit |
| `statuses`, `tickets` | `user.kyc_status_changed` and `user.kyc_submitted` published |
| `decided`, `queue`, `dead`, `job` | decisions of reviewers, the four queues, what was nacked, the four consumers |
| `call` | the `submitKyc` calls |

A submission is `InsertSubmission` (BEGIN, `findById`, `createSubmission`),
`UpdateSubmitted` (which waits for the lock), its two publishes and
`CommitSubmission`; `AbortSubmission` is a failure at any of them. A review is
`OpenReview`, `UpdateReviewed` (`updateKycStatus`, `findLatestByUserId` and
`updateStatus` in one, since nothing commits a submission without the lock),
`PublishReviewed`, `CommitReview`, `Ack`. The insert of a submission takes a KEY
SHARE lock on the profile for its foreign key, which the update of a status does
not conflict with. The four queues share two handlers that differ in the outcome.

`oldStatus` is left out of the events: it is read before the lock and may be
older than what the update overwrites. Reviewers are external: they publish one
decision for each ticket, on any queue, and the decision names the user, not the
submission.

### Messaging

| state | code |
|---|---|
| `publish[e]` | the promise of `publish(e)`: in the buffer of the channel wrapper, sent, confirmed, or lost with its process |
| `declared` | the consumer's `setup` has asserted and bound `user-service.profile` |
| `waiting[e]`, `unrouted`, `rejected`, `deadLetters` | RabbitMQ: ready copies of `e`, messages confirmed without a queue, nacked messages, the content of `fintech.dead-letters` |
| `channel`, `handler[h]` | the current channel, and the invocations of the consume callback with the channel they came on |
| `inbox`, `applied[e]` | `inbox_messages`, and how many commits carried the effect of `e` (`createProfile`) |

`Publish`, `Send`, `Confirm` are `publish()`; `Declare` is `setup`; `Deliver`,
`InsertMessage`, `FindDuplicate`, `Commit`, `Abort`, `Ack`, `Nack` the callback
and `createUserRegisteredConsumer` in it, with a COMMIT whose answer may be lost.
A lost connection is where the code is hardest to test: the handler is not told,
its message is delivered again on the next channel, and two handlers of one event
run although `prefetch` is 1. `InsertMessage` then waits in the unique index
(`RowLocked`). The handler that outlived its channel ends the process
(`EndOnClosedChannel`): `channel.ack` throws on a closed channel, so does
`channel.nack` in the `catch` block, the consume callback rejects, and no code of
the repository handles `unhandledRejection`. A duplicate may be acknowledged or
rejected: `insertMessage` looks for `code` on the error it catches, and whether
the driver's code is there or on the error's `cause` depends on the version of
drizzle-orm.

The other modules that consume events keep their own, simpler channel: a message
is requeued together with the end of its handler. `Messaging` shows what that
leaves out and that the inbox makes up for it.

### Auth

| state | code |
|---|---|
| `plan[c]`, `call[c]` | what request `c` asks; its progress and what it has read so far |
| `users`, `sessions`, `emailTokens`, `resetTokens` | the tables, one autocommitted statement at a time |
| `access[c]` | the access token call `c` signed: its owner, session and expiry |
| `blocked[c]`, `barred[u]` | until when `jti:blocklist:c`, `suspended:u` are in Redis |
| `queue`, `consumer`, `acked`, `dead` | the suspension queue, its consumer, what it acknowledged and rejected |
| `now` | quarters of an hour |

Each operation is a chain of actions named for the repository call it awaits:
`FindUser`, `CheckLockout`, `VerifyPassword`, `ReadCount`, `WriteCount`,
`ResetFailedLogins`, `StartSession`, `FinishLogin` are a login; `FindByTokenHash`,
`RevokeAllUserSessions` or `RevokeExpired`, `FindUserOfSession`, `RotateSession`,
`FinishRefresh` a refresh; `FindCookie`, `RevokeSession`, `BlocklistToken` a
logout, and so on. `Fail` is an await that rejects, or the end of the process:
what was written stays. Access tokens, refresh tokens, mail tokens and passwords
are named for the call that made them, so that hashes and signatures are
equalities; `VerifyPassword` compares the name with the one in the row. `BeginUse`,
`CheckBlocklist` and `CheckSuspended` are the gateway as far as these keys go;
`Gateway` has the rest of it. `Tick` waits until no handler has run for more than
one tick, which is the assumption that a handler takes less than a quarter of an
hour: on it rests that `suspended:{userId}`, which lasts an hour, outlives every
token signed for a handler that read the user before the suspension
(`SuspendedLifeAssumption`).

Left out: permissions and roles, devices and addresses of sessions, the listing
of sessions, and the 401s of malformed requests.

### Gateway

| state | code |
|---|---|
| `request[r]` | the progress of a request: `req.user`, the headers that go on, its status; when the limiter passed it, for whom a service acted |
| `counter[i]` | `gw:ip:i`: the count, and when the key expires |
| `blocked[t]`, `barred[u]` | the keys of auth-service, which are written at any moment |
| `now` | the clock, in fractions of the limiter's window |

`Arrive` is CORS, `Limit` the Lua script (`Incremented`) and what becomes of its
count (`Exceeded`); `counted` remembers when the limiter let a request pass. `Verify` is jwtVerify, `CheckBlocklist` and
`CheckSuspended` the two lookups, followed in the same action by header injection
and the route, since nothing is awaited in between; `LimiterUnavailable` and
`BlocklistUnavailable` are Redis rejecting, `Handle` the service behind the proxy:
account-service goes by `X-User-Id`, auth-service's logout by `Authorization`.
Public routes lose the client's identity headers and skip verification
(`VerifyPublic`). Requests stand for what any replica serves: the state they share
is Redis.

### WebClient

| state | code |
|---|---|
| `session` | `fintech_user`, `fintech_token` and the `auth-token` cookie |
| `profiles`, `accounts`, `balances`, `approvals`, `transfers` | the `fintech_*` keys of the simulation |
| `tab[t]` | the state of `AuthProvider` in tab `t`, as it last loaded it |
| `item[t]` | the item the running task of tab `t` has read and not written back |
| `call[c]` | an operation a page started: its closure over the tab's user, its arguments, and the key it is at |
| `wrote`, `before`, `lost` | nothing: which calls wrote balances, in what order with the portfolios, and whether one wrote over another's |

Each operation has a `Begin...` with the page's conditions, then either the
gateway's answer (`...Live`, `Answered`) or its absence (`FallBack`), which starts
the simulation at its first key (`FirstKey`). For each key the task reads the item
(`GetItem`) and writes it back changed, in an action of its own (`SubmitProfile`,
`SubmitRequest`, `TransferOffline`, `LogTransfer`, `ReviewRequest`,
`ReviewProfile`, `OpenSavings`, `SeedPortfolio`...). Any step of another tab may
come between the two, since `localStorage` has no lock: what the other wrote to
the same key is then written over. In one tab a task runs to its end, unless the
tab is killed: `Launch` is a page load, which reads storage and drops what the tab
had under way, half of its writes made included. `Load` is `loadServiceData`.

A recipient is typed in, so that it is an account that exists or somebody else's
(`Known`): the id of an account not yet opened is drawn at random later. An account
becomes known when `OpenSavings` lists it, and its portfolio is written by
`SeedPortfolio` afterwards: a transfer that arrives between is written over, which
`before` accounts for.

Abstracted: a load reads its four items in one step and a sign-in stores its three
in one; amounts are whole numbers where the code adds what `parseFloat` returns.
Two operations no page reaches are left out, and so are layout and forms.

### Pool

`task[t]` is a handler: connecting, in its transaction (`outer`), waiting for or
holding a second connection (`nested`, `inner`), through, or failed; `queue` is
pg's queue, `free` the connections nobody holds. `Release` passes a connection to
whoever has waited longest. `Timeout` is `connectionTimeoutMillis`; `Nested[t]`
says how many inner connections a handler takes one after the other and whether it
catches their failure, as the loop over a rejected user's accounts does; `Drain`
is the shutdown.

## 4. The runs

Passing runs:

| run | shows |
|---|---|
| `Ledger_requests` | three concurrent requests over two accounts, with a duplicated reference, opposite directions, a repeated debit line and an unbalanced body, aborts and lost publishes anywhere: no overdraft, references once, books balance, events are true, every request that is received is answered, copies that wait for each other in the unique index included, and the whole implements `LedgerBook` |
| `Sweep_safety` | two days, late sweeps, a crash, postings that commit between any two statements of a sweep, a query between whose statements sweeps and postings commit: a balance, a snapshot or an answer is wrong only for an account one of whose rows came behind a boundary or between a boundary and its balance; an event is applied once |
| `Sweep_liveness` | two events for one date, one of them published twice: the later sweep replaces the earlier one's rows, and each event is applied or dead-lettered, across a crash and a failing statement |
| `Accounts_races` | two overlapping handlers of any operations, a rejection whose commit may fail, its consumer, a crash, a failing statement: who comes after a closing changes nothing, money moves only through accounts open since the transfer arrived, the limit is passed by overtaken creations alone, a rejection leaves no account open that it listed and could freeze, events are recorded, a review is applied once and, applied or dead-lettered, is settled |
| `Kyc_reviews` | two overlapping submissions and two opposite decisions on queues of their own, with a crash and a failing statement anywhere: the committed status is the last one published among those that committed, no review passes over the latest submission, everything committed was announced, a verdict is final, a decision is applied once and, applied or dead-lettered, is settled |
| `Messaging_delivery` | two events, each connection lost once, one crash of either process, failing statements and lost COMMIT answers: no message the queue took disappears, every published event is applied or rejected unless its publisher stopped or no queue was there, and the whole implements `Delivery` |
| `Auth_calls` | three concurrent calls out of fourteen combinations that set each operation against those it races with, beside the tokens of an earlier login, with one failing await or nack and one crash of the consumer: an address is answered 201 once, a token blocklisted or rotated away or of a revoked session yields nothing to a call that comes later, and nothing signed for a suspended user is admitted |
| `Gateway_pipeline` | five requests, of one address over two windows that meet, or of two addresses with a token, a foreign identity header, both or none, to public and protected routes, probes and another origin, while a token is blocklisted, barred or expires and Redis fails once: fewer than twice the limit pass within a window's length, none is refused below the limit, a doomed request is stopped, services act for the token's owner |
| `Web_offline` | two tabs: two accounts of which one is being opened while it is paid, a checker who reviews himself and spends from both tabs, reviews of one request in both, a customer and a checker sharing the browser, a logout under an operation, the sign-up; tabs overwrite each other and are killed anywhere: balances are made of whole transfers and portfolios, nothing is lost unless a tab wrote over what it had not read, one account for each customer |
| `Pool_nested` | two connections, three tasks with inner connections, one with two of which the second's failure is caught, a plain query, a shutdown at any moment: connections are accounted for, and every circle of waiters ends by the time limit |

Two runs end in a violation, a disagreement between the code and its docs.

`Gateway_logout`: `docs/architecture/user-journey.md:181` has the gateway forward
a logout with what identifies its token and `:186` has auth-service answer 200.
The gateway removes `Authorization` from every authenticated request
(`headerInjection.middleware.ts:57`), and `authenticate` in front of logout reads
nothing else: each such logout is answered 401 and revokes nothing.

`Sweep_overtaken`: `the-handbook.md:1221` says that the last snapshot and the
entries since give the correct current balance, and ADR-017 that correctness is
kept. The code takes for the entries since those whose id is above
`lastProcessedEntryId` (`ledger.repository.ts:101`). An entry stamped before the
boundary and committed after the sweep is in no balance, and one committed between
the sweep's two statements is in it twice. No crash and no failure is needed.
`Sweep_safety` is the other half: nothing else makes a balance wrong.

The same modules show more when one value of a configuration, or one property,
is changed:

* `MayUpdate = FALSE` in `Sweep_liveness.cfg` is what `migrate.ts:54` grants
  `application_runtime_user` (SELECT and INSERT): every upsert is refused, and
  every sweep of a ledger with entries ends dead-lettered.
* `ApprovedAs = "approved"` in `Accounts_races.cfg` is what `internalGetProfile` reports (the domain
  status in lower case), where `account.service.ts:64` wants 'verified': every
  creation is refused.
* `ApprovedAfterSubmission` as a property of `Kyc_reviews.cfg`: an approval that
  arrives after a rejection takes the user from REJECTED to APPROVED.
* `RejectedIsKept` as a property of `Messaging_delivery.cfg`: a nacked message
  matches no binding of `fintech.dlx` (direct, bound with `#`) and is dropped.

What the races of `Accounts_races` do, which its properties bound: a freeze or
unfreeze that read the account before its closing gives it another status, and is
logged as if it had never been closed; an account is committed behind the back of
the consumer that freezes the user's accounts; a transfer validated before a
closing or a freeze is posted after it; two creations pass one count; an account
with money in it is closed because the ledger did not answer or was asked too
early, although `the-handbook.md:2695` has closing require a zero balance; and one
failing freeze leaves an account open with the rejection in the inbox.

Where code and comments part without a property of their own: the comment of
`session.service.ts:54` promises that reuse of a rotated token revokes all
sessions, but the hash is overwritten in place, so that such a token is looked up
in vain and answered 401 (`FindByTokenHash`); only the token of a session that is
revoked and still holds its hash leads to `RevokeAllUserSessions`.
`services/api-gateway/src/app.ts:96` calls a window of 100 requests per 60 seconds
rolling that is fixed (`Incremented`): up to 199 pass within 60 seconds
(`WindowBounded`). `/v1/refresh` is not among the gateway's public paths, so that a
refresh needs a live access token. `blocklist.middleware.ts:101` says 503 where
the error is a 401 (`BlocklistUnavailable`). A logout answers 200 when its cookie
matches no session, or when it has none and revoking fails.

In Kyc, `begun` and the commits may disagree: of two overlapping submissions
the one that began first may commit last, and then no review ever marks it,
although reviewers have its ticket. A decision made for one submission marks
the newer one if that is the latest when it is applied, since events carry only
the user. And a transaction that fails after its publish leaves an event about
a change that never was.

Three more facts follow from the actions
without a run: nothing compares the currency of a body with that of an account,
so `Receive` of Ledger accepts any; a sweep for a past date sums all entries up
to now (`SaveSnapshot`), so a late one stores later days under its date; and
`ReadAccount` refuses to close only an account that is closed, so its owner may
close a frozen one.

### Bounds

* Ledger: three requests are two that conflict and a third that commits between
  them, or two copies of one reference and a competitor; each takes any of five
  bodies. Two accounts give both directions of a write-skew cycle. Bodies have
  two or three lines, enough for a repeated debit. The run checks liveness, so
  it uses no symmetry.
* LedgerSweep: two requests, two dates. A balance error needs one entry on the
  wrong side of one boundary; the second sweep builds on the first one's row. In
  `Sweep_safety` each event is published once and a crash makes the redelivery
  (`MaxCrashes` 1, `MaxFailures` 0: a failing sweep leaves no trace in the tables);
  it has 1.6 million states. `Sweep_overtaken` needs neither. `Sweep_liveness` has
  one date, which both events write to, publishes one of them twice, and has one
  crash and one failure. The requests of an instance carry different references:
  duplicates are the subject of Ledger, which shows that only one commits.
* Accounts: two overlapping calls and the consumer are every pairwise race. Each
  call takes any of five inputs: freeze, unfreeze and close of one account, the
  opening of another, and a transfer of the only money into the first.
  `AccountLimit` is 3 of 5, with two accounts opened of four ids, so that two
  creations that pass one count exceed it. `MaxCrashes` and `MaxFailures` bound
  crashes and failing statements of the consumer to one each; calls may fail at
  every await, without a bound, since a call ends by it. 0.9 million states.

* Kyc: two submissions are every race of two submissions; two decisions, one
  approving and one rejecting, race with them and with each other, on different
  queues because one queue is served one at a time. One crash makes a
  redelivery at any step of any consumer. A third submission takes the run past
  the time a run should have; the theorems cover any number.

* Auth: a race needs two calls, or a call and the consumer, and the third call
  uses what the race left; a plan names the operations, and the calls' inputs
  (addresses, passwords, tokens ever handed out) are chosen freely. `MaxAttempts`
  is 1 so that the lockout happens. Lives are 1 to 3 ticks; the order of the code's
  lives that matters is kept: a suspension outlives an access token by two ticks.

* Gateway: `MaxRequests` is 2 of 100 and the window two ticks of the clock, which
  goes to 3, so that a window ends and another begins. Five requests of one address
  fill both: three of them pass within a window's length, which is the bound
  2 * `MaxRequests` - 1. The other scripts set routes and tokens against each other.
  One token, expiring at 2, blocklisted or barred at any time; one failure of Redis
  or a service, at any of six places. 2.3 million states.

* WebClient: two tabs are every race on one storage. Five calls are the shortest
  way from a login by an approved request to two transfers, and the scripts of five
  (`Short`) run them in any order and side by side. One script needs seven, two
  logins, two submissions, two reviews and a transfer, to have a second account
  opened while it is paid: `CONSTRAINT Bound` runs its calls one after the other,
  but for the transfer and the review it races with. The portfolio is 3 and
  transfers are 1 or 2, so that two transfers may or may not be covered together.
  0.6 million states.

* Pool: three tasks that want a second connection of a pool of two make the
  circle, and a fourth waits beside them; the theorem covers any numbers.

* Messaging: two events, so that one waits behind the other; two handlers, the
  one on the current channel and one that outlived its channel. One lost
  connection of the consumer makes that pair, one of the publisher a second copy
  in the queue, and the crash of either process is the third thing that can go
  wrong between any two steps.

Symmetry (of the requests) is declared in `Sweep_safety` only, which has no
liveness.
`CHECK_DEADLOCK FALSE` everywhere: requests, reviews and sweeps are finite, and
when all are answered the system rests.

### Fairness

`WF(Progress(r))` in Ledger, `WF(Consume)` in LedgerSweep, `WF(Sync)` in
Accounts, `WF` of `Continue(s)`, `Deliver(q)` and `Review(q)` in Kyc, and `WF` of
a delivery and of `Handle(h)` in Messaging say that the database answers a
statement that is not waiting for another transaction, that Node resumes a
handler whose promise is resolved, and that the broker delivers to a connected,
idle consumer. LedgerSweep adds that days pass, Messaging that a connected broker
takes and confirms messages (`Send`, `Confirm`) and that the consumer starts
(`Declare`). `WF(Work(t))` in Pool says that PostgreSQL answers or breaks a
statement and Node's timers fire; a task that waits for a connection has no other
way out than its turn or its timer. Auth, Gateway and WebClient state no
liveness: what they do ends by itself, a request being a fixed chain of awaits,
and their promises are about what never happens. Nothing makes a request arrive, a user be reviewed, an event be
published, a statement fail, a link break or a process die. What eventually happens
to an event is therefore stated as *applied or dead-lettered* (`dead`): the
consumer nacks without requeue, and nothing in the repository reads the
dead-letter queue. That an event is *applied* holds only without failing
statements.

## 5. The proofs

All constants are arbitrary in the theorems: any sets of accounts, requests,
bodies, calls, reviews. The assumptions are the modules' own: bodies are `Dto`
records, opening balances are naturals (`DtosAssumption`, `OpeningAssumption`),
accounts are finitely many (`AccountsAssumption`: their balances are added up),
inputs and decisions are of their types, `None` is none of the values it stands
beside (`RowsAssumption`: a row that is there is not `None`), submissions are
neither decisions nor queues (`ActorsAssumption` of Kyc), tasks are finitely many
(`PoolAssumption`), the key of a suspension lasts longer than an access token
signed by the slowest handler (`SuspendedLifeAssumption`).

Two theorems have a hypothesis more, written in their statement, that a
cardinality or a sum be defined and true at the start: calls and opened accounts
are finitely many and the latter within `AccountLimit` (`LimitExceededByLateOnly`),
and calls are finitely many (`MoneyExplained`). No theorem assumes that handlers,
tabs or transactions take turns, or that a statement succeeds.

Sums are folds of the community modules, defined by a recursive function over
subsets, and no induction scheme can be cited here. `FiniteSums` proves what is
needed of them from well-foundedness of the subset order instead: of the sets on
which a statement fails, take a smallest, and show that it fails on a smaller one
(`SmallestSet`). So it has that the fold exists and is what its equation says
(`AddsExists`, `SumIs`), that a sum may leave out any element (`SumWithout`), adds
up over disjoint sets (`SumUnion`) and over functions (`SumPlus`). The largest
element of a finite set, a sweep's boundary, exists by the same argument
(`LargestExists`).

* `Ledger: TypeCorrect, SafetyInvariance, NeverOverdrawn, RecordedOnce`.
  `NoOverdraft` is not inductive: a commit subtracts what was decided from a
  snapshot. `SafetyInv` adds what links the two. While a transaction inserts, its
  snapshot covers each of its debit lines (`ReadsCoverDebits`), an account's
  pending change is at most one debit line because the unique index allows one
  (`OneDebitPerAccount`), and a balance is below what the snapshot says only if a
  request that debits the account committed since (`StaleOnlyByDebit`). Such a
  request and the one that commits must come before each other, which
  `Serializable` refuses: so the snapshot still covers the debit at the commit
  (`CommitSpendsWhatIsThere`). `ReferenceReserved` does the same for references.
* `Ledger: EventsTrue`, from an invariant of its own: announced requests are
  committed, and those past a breach have rolled back.
* `Ledger: BooksAlwaysBalance`, from `BooksInv`: what an open transaction has
  pending is the sum over the lines it has inserted so far (`PendingIsPrefix`), so
  that a commit adds the whole body; and over all accounts a body adds its credits
  less its debits, which `Valid` makes equal.
* `Ledger: ImplementsTheBook`, the refinement: `Init` is an initial state of
  `LedgerBook`; a commit is its `Post`, whose guard is what `SafetyInv` knows of
  references and cover at that moment; `PublishPosted` is its `Announce`; every
  other step leaves its variables alone.

* `LedgerSweep: SweptOnce`, from `SweepInv`, whose part `ConsumerInv` says that the
  event of an open transaction is not in the inbox.
* `LedgerSweep: SnapshotsSum, BalanceIsSum, AnswersSum`, from `SweepInv` and
  `SumsInv`, for every account that has not raced. A snapshot is `Sound` when it is
  the sum of the rows up to its boundary. `SumsInv` says that snapshots, what the
  open transaction has written and what a query holds are sound, and that the
  boundary in the consumer's hands is the largest id seen. What a commit adds to an
  account that does not race is above every boundary written, so that sums up to a
  boundary stay, and does not come between a boundary and its balance. A query may
  hold a snapshot that was replaced: boundaries are never taken back (`NewerInv`),
  so a row missed by the one it holds is missed by the table (`Reached`). A sound
  snapshot and the rows behind it add up to all rows (`SoundIsActual`), from which
  the next snapshot is sound again. An account without a snapshot starts from zero,
  and is right to: it was seeded with nothing.
* `Accounts: RowsKnown`, from `RowsInv`: a handler about to write and the consumer
  hold accounts whose rows exist; an id being inserted belongs to one call and to
  no row; a row is deleted exactly when its history says that it was closed
  (`RowsRemember`), which no later write undoes; ids of history rows do not repeat
  (`HistoryCounted`). The rest stands on it, with an invariant for each promise.
* `Accounts: AppliedOnce`, an action property, from the fact that the event being
  applied is not in the inbox (`ApplyingIsNew`).
* `Accounts: EventsRecorded`, from `EventsOwed`: whoever is about to publish has
  logged a change that is in no event yet, and no two of them the same one.
* `Accounts: ClosedForGood`, from `ClosedAreLeft`: what a handler found closed is
  deleted, and so is not the account it goes on to change.
* `Accounts: MoneyMovesInTheOpen`, from `OpenAreKnown`: a transfer past a check
  counts among the accounts open since its arrival all that are open now and those
  it has checked.
* `Accounts: LimitExceededByLateOnly`, from `RoomIsKept`: whoever is past the count
  and not overtaken has room for one more.
* `Accounts: RejectionFreezesAll`, from `RelyingIsPending`: once a rejection is
  published, an open account that is not spared has one that waits in the queue or
  is being applied (`Pending`), and the consumer applying it has listed the account
  (`RelyingListed`); a crash returns the event, a failure spares what it skips.

* `Kyc: LastWord, NothingPassedOver, Announced, ReviewedOnce, AppliedOnce`, from
  `KycInv`. Its heart is that the lock belongs to one transaction from its update
  to its end (`LockInv`), so that the status published by the holder stays the
  last of `statuses` until it commits (`HeadInv`) and what a review found under
  the lock is still so when it commits (`ReviewInv`). Events of transactions that
  rolled back lie between, which is why the property speaks of the last event
  whose transaction committed.

* `Messaging: TakenIsKept, AppliedAtMostOnce`, from `QueueInv`. `NothingIsLost`
  alone is not inductive: a handler may acknowledge only what is in the inbox
  (`AckedIsInbox`). For the refinement, `EffectsAreInbox` ties the number of
  effects to the inbox row of the same commit, and `OneWriter` says what the
  unique index does: of two handlers of one event, one waits, and what is inserted
  but not committed is not in the inbox. So `applied[e]` is 0 at every commit, and
  the commit is `Delivery`'s `Apply`; every other step but `Publish` stutters. It
  holds for any number of lost connections and of handlers at once.

* `Auth: Invariance, SuspensionHolds, RevocationHolds, RegistrationHolds`, from
  `AuthInv`. `BaseInv` says which rows a call in each phase has seen (`Known`): none
  is ever deleted. `LockInv` is why a suspension holds against calls that read the
  user before it: when the consumer is about to acknowledge, `suspended:{userId}`
  outlives every token signed for the user and every one that a call past that
  reading may still sign (`LockedOut`), because such a call is at most a tick old.
  `SessionInv` says that a session is found by the token it was made or last rotated
  for, and `RevokeInv` that what doomed a call on its arrival still does: its
  session stays revoked or rotated, and a blocklist key lasts as long as its token.
  The proof is by interference: `CallStep` says what a step of one call may do to
  the others and the tables, `CallKeeps` that such a step keeps `AuthInv`, and then
  each action is shown to be one. `RegistrationHolds` adds `OnceInv`: the row an
  insert found missing is never missing again, so that only one call inserted it.

* `Gateway: OwnersOnly, DoomedStops`, from `GatewayInv`. `IdentityInv` follows the
  identity of a request: from the verified token to `req.user`, from there to the
  header that overwrites the client's, and to whom the service acts for. `DoomInv`
  says that what refused a token on arrival still refuses it at the lookup that
  asks for it: a blocklist key expires no sooner than its token (`KeysInv`), and
  a lookup that cannot be made is an answer 401.
* `Gateway: LimiterBounds`, from `LimiterInv`: the requests the key has counted
  since it was set are within `MaxRequests`, those without the one that set it are
  fewer, as are those that came less than a window before the key (`Key`). A span
  of a window's length that meets two keys does not hold the request that set the
  first.

* `Pool: Accounted`, from `PoolInv`: `Held` counts the connections of all tasks and
  changes by what one task does (`Counted`); the queue has each waiter once
  (`QueueInv`), so that a connection passed on is passed to one task.

* `WebClient: WebTypeCorrect, OneAccount`, from `WebInv`: an operation holds the
  turn of its tab until it is done, so that what the tab has read belongs to one
  call (`TurnInv`); a form under way holds what its operation needs (`FormInv`);
  storage, tabs and items read hold what calls left (`StorageInv`, `TabsInv`,
  `ReadInv`). A list of accounts that has one for each user, read at whatever
  distance, is written back with one for each user.
* `WebClient: MoneyExplained`, from `MoneyInv`: balances, those in storage and those
  a tab has read and not written back, are what a set of calls leads to, each whole
  (`Explained`). Writing back drops the calls the item does not know and adds one;
  while nothing was dropped, the set is all that wrote. A transfer is covered by the
  item it changes, a portfolio replaces what its account has received before.

Only model-checked: liveness and everything that mentions ENABLED, that is
`EveryRequestAnswered`, `SweepSettled`, `ReviewSettled`, `DecisionSettled`,
`PublishedIsSettled` and `EveryTaskEnds`; and `RefusedAtTheLimit`, which needs the
converse of what `LimiterInv` counts.

## 6. Not modelled

* `shared-types`, `shared-events`, `shared-errors`, `shared-config`: declarations,
  error classes and the validation of the environment at the start, without state.
* The services that exist as documents only, and deployment files.
* Of modelled components: listings and other operations that only read;
  `updateProfile` of user-service, which writes other columns than the KYC status; limits
  and currencies of accounts; permissions and roles, which no modelled decision
  depends on except the web client's checker; hashing, signing and mail; the
  strategies of the rate limiter no service uses; the cursor pagination of
  shared-db, which no query uses; in the web client layout, forms and the two
  operations no page can reach.
* Sums above 2^53 paise, where JavaScript's numbers lose units: nothing in the
  services bounds a sum, so that no exactness could be stated.
