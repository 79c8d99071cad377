----------------------------- MODULE LedgerSweep -----------------------------
(***************************************************************************)
(* ledger-service: balance_snapshots.  The scheduler.trigger.snapshot_sweep *)
(* consumer (prefetch 1) runs LedgerService.runSnapshotSweep in one READ    *)
(* COMMITTED transaction while requests insert ledger_entries rows and      *)
(* GET balance calls read.  Every SQL statement sees what is committed when *)
(* it runs, so each await is an action boundary.  An entry's ULID is        *)
(* stamped when the row is inserted and the row is seen when its            *)
(* transaction commits: the order of ids is not the order of visibility.    *)
(*                                                                          *)
(* A request here only inserts and ends: Ledger models what makes it        *)
(* commit.  Nothing orders its commit and the sweep's statements, so a row  *)
(* may appear below a boundary that was already taken, or above it while    *)
(* the balance is being summed; raced, a history variable, remembers the    *)
(* accounts this happened to.                                               *)
(***************************************************************************)
EXTENDS LedgerEntries, FiniteSetsExt

CONSTANTS
    Requests,    \* ledger transactions that insert entries
    Queries,     \* GET /v1/balance/:accountId calls
    Events,      \* snapshot_sweep events
    DateOf,      \* DateOf[e]: executionTargetDate, a day number
    Copies,      \* Copies[e]: how many times the broker holds e
    LastDay,     \* bound on the calendar
    MaxCrashes,  \* bound on crashes of the consumer
    MaxFailures, \* bound on sweeps that throw
    MayUpdate,   \* TRUE: the runtime role holds UPDATE on balance_snapshots
    NoAccount, NoEvent

ASSUME DatesAssumption == DateOf \in [Events -> 1 .. LastDay]
ASSUME CopiesAssumption == Copies \in [Events -> Nat]
ASSUME BoundsAssumption ==
    /\ LastDay \in Nat \ {0}
    /\ {MaxCrashes, MaxFailures} \subseteq Nat
ASSUME GrantsAssumption == MayUpdate \in BOOLEAN
ASSUME NothingAssumption == NoAccount \notin Accounts /\ NoEvent \notin Events

VARIABLES
    today,
    stamped,    \* stamped[i]: the day entry id i was generated
    dto, pc,    \* dto[r], pc[r]: body and state of request r
    ids,        \* ids[r]: the ids of the entry rows r has inserted
    snapshots,  \* committed rows of balance_snapshots
    inbox,      \* committed rows of inbox_messages
    waiting,    \* waiting[e]: copies of e ready in the queue
    dead,       \* events nacked without requeue
    sweep,      \* the consumer: its event and its open transaction
    query,      \* query[q]: progress and answer of a balance query
    crashes, failures,
    raced       \* history: accounts a row of which a sweep missed or saw twice

vars == <<today, stamped, dto, pc, ids, snapshots, inbox, waiting, dead,
          sweep, query, crashes, failures, raced>>

Days == 1 .. LastDay

-----------------------------------------------------------------------------
(* Rows and balances. *)

RowsOf(r) ==
    {[id |-> ids[r][k], accountId |-> dto[r].entries[k].accountId,
      change |-> Signed(dto[r].entries[k])] : k \in DOMAIN ids[r]}

\* what a statement sees of ledger_entries for one account
Visible(account) ==
    {row \in UNION {RowsOf(r) : r \in {s \in Requests : pc[s] = "committed"}} :
        row.accountId = account}

Sum(rows) == SumFunction([row \in rows |-> row.change])

\* a seeded balance is a snapshot of the day before the first
Seed(account) ==
    [accountId |-> account, snapshotDate |-> 0,
     balancePaise |-> Opening[account], lastProcessedEntryId |-> 0]

\* no snapshot: all entries count, as after a snapshot of nothing
NoSnapshot(account) == [Seed(account) EXCEPT !.balancePaise = 0]

\* getLatestSnapshot
Latest(account) ==
    LET own == {s \in snapshots : s.accountId = account}
    IN  IF own = {} THEN NoSnapshot(account)
        ELSE CHOOSE s \in own : \A t \in own : t.snapshotDate <= s.snapshotDate

\* Mutant: gte for gt
CalculatedFromBoundary(account, s) ==
    s.balancePaise
        + Sum({row \in Visible(account) : row.id >= s.lastProcessedEntryId})

\* calculateBalance, s being what getLatestSnapshot returned
Calculated(account, s) ==
    s.balancePaise
        + Sum({row \in Visible(account) : row.id > s.lastProcessedEntryId})

Key(s) == <<s.accountId, s.snapshotDate>>

\* createSnapshot: insert, or update on conflict of (account_id, date)
Upsert(table, rows) ==
    {t \in table : \A s \in rows : Key(s) # Key(t)} \union rows

\* what the account really holds
Actual(account) == Opening[account] + Sum(Visible(account))

-----------------------------------------------------------------------------
Snapshot == [accountId : Accounts, snapshotDate : {0} \union Days,
             balancePaise : Int, lastProcessedEntryId : Nat]

SweepPhase == {"idle", "delivered", "sweeping", "saving", "committed"}

TypeOK ==
    /\ today \in Days
    /\ stamped \in Seq(Days)
    /\ dto \in [Requests -> Dtos]
    /\ pc \in [Requests -> {"open", "committed", "aborted"}]
    /\ ids \in [Requests -> Seq(DOMAIN stamped)]
    /\ snapshots \subseteq Snapshot
    /\ inbox \subseteq Events
    /\ waiting \in [Events -> Nat]
    /\ dead \subseteq Events
    /\ sweep \in [phase : SweepPhase, event : Events \union {NoEvent},
                  todo : SUBSET Accounts,
                  account : Accounts \union {NoAccount}, boundary : Nat,
                  written : SUBSET Snapshot]
    /\ query \in [Queries -> [phase : {"new", "reading", "answered"},
                              account : Accounts, snapshot : Snapshot,
                              balance : Int]]
    /\ crashes \in 0 .. MaxCrashes
    /\ failures \in 0 .. MaxFailures
    /\ raced \subseteq Accounts

NoSweep == [phase |-> "idle", event |-> NoEvent, todo |-> {},
            account |-> NoAccount, boundary |-> 0, written |-> {}]

Init ==
    /\ today = 1
    /\ stamped = <<>>
    /\ dto \in {d \in [Requests -> Dtos] :
                   /\ \A r \in Requests : Valid(d[r])
                   /\ \A r, s \in Requests :
                         d[r].referenceId = d[s].referenceId => r = s}
    /\ pc = [r \in Requests |-> "open"]
    /\ ids = [r \in Requests |-> <<>>]
    /\ snapshots = {Seed(account) : account \in
                        {a \in Accounts : Opening[a] > 0}}
    /\ inbox = {}
    /\ waiting = Copies
    /\ dead = {}
    /\ sweep = NoSweep
    /\ query \in [Queries -> {[phase |-> "new", account |-> account,
                               snapshot |-> NoSnapshot(account),
                               balance |-> 0] : account \in Accounts}]
    /\ crashes = 0
    /\ failures = 0
    /\ raced = {}

NextDay ==
    /\ today < LastDay
    /\ today' = today + 1
    /\ UNCHANGED <<stamped, dto, pc, ids, snapshots, inbox, waiting, dead,
                   sweep, query, crashes, failures, raced>>

-----------------------------------------------------------------------------
(* Requests. *)

CreateEntry(r) ==
    /\ pc[r] = "open"
    /\ Len(ids[r]) < Len(dto[r].entries)
    /\ stamped' = Append(stamped, today)
    /\ ids' = [ids EXCEPT ![r] = Append(@, Len(stamped) + 1)]
    /\ UNCHANGED <<today, dto, pc, snapshots, inbox, waiting, dead, sweep,
                   query, crashes, failures, raced>>

\* a sweep has taken a boundary at or above the row's id: it missed the row
Missed(row) ==
    \E s \in snapshots \union sweep.written :
        s.accountId = row.accountId /\ row.id <= s.lastProcessedEntryId

\* calculateBalance will sum the row, the boundary just taken leaves it out
SeenTwice(row) == sweep.account = row.accountId /\ row.id > sweep.boundary

\* the rows of r join those seen, whatever the sweep is at
Commit(r) ==
    /\ pc[r] = "open"
    /\ Len(ids[r]) = Len(dto[r].entries)
    /\ pc' = [pc EXCEPT ![r] = "committed"]
    /\ raced' = raced \union {row.accountId : row \in
                    {w \in RowsOf(r) : Missed(w) \/ SeenTwice(w)}}
    /\ UNCHANGED <<today, stamped, dto, ids, snapshots, inbox, waiting, dead,
                   sweep, query, crashes, failures>>

Abort(r) ==
    /\ pc[r] = "open"
    /\ pc' = [pc EXCEPT ![r] = "aborted"]
    /\ UNCHANGED <<today, stamped, dto, ids, snapshots, inbox, waiting, dead,
                   sweep, query, crashes, failures, raced>>

-----------------------------------------------------------------------------
(* The snapshot_sweep consumer. *)

\* the trigger for a date fires on that day or later
Deliver(e) ==
    /\ sweep.phase = "idle"
    /\ waiting[e] > 0
    /\ today >= DateOf[e]
    /\ waiting' = [waiting EXCEPT ![e] = @ - 1]
    /\ sweep' = [NoSweep EXCEPT !.phase = "delivered", !.event = e]
    /\ UNCHANGED <<today, stamped, dto, pc, ids, snapshots, inbox, dead, query,
                   crashes, failures, raced>>

WithEntries == {account \in Accounts : Visible(account) # {}}

\* Mutant: the inbox insert is not looked at
OpenEverySweep ==
    /\ sweep.phase = "delivered"
    /\ sweep' = [sweep EXCEPT !.phase = "sweeping", !.todo = WithEntries]
    /\ UNCHANGED <<today, stamped, dto, pc, ids, snapshots, inbox, waiting,
                   dead, query, crashes, failures, raced>>

\* BEGIN, insertMessage, getDistinctAccountIds.  A duplicate ends here: acked
\* when insertMessage returns false, dead-lettered when it throws.
OpenSweep ==
    /\ sweep.phase = "delivered"
    /\ IF sweep.event \in inbox
       THEN /\ sweep' = NoSweep
            /\ dead' \in {dead, dead \union {sweep.event}}
       ELSE /\ sweep' = [sweep EXCEPT !.phase = "sweeping", !.todo = WithEntries]
            /\ UNCHANGED dead
    /\ UNCHANGED <<today, stamped, dto, pc, ids, snapshots, inbox, waiting,
                   query, crashes, failures, raced>>

\* Mutant: ascending order, the account's first entry
ReadFirstEntry(account) ==
    /\ sweep.phase = "sweeping"
    /\ account \in sweep.todo
    /\ sweep' = [sweep EXCEPT !.phase = "saving",
                              !.account = account,
                              !.boundary = Min({row.id : row \in Visible(account)})]
    /\ UNCHANGED <<today, stamped, dto, pc, ids, snapshots, inbox, waiting,
                   dead, query, crashes, failures, raced>>

\* getLatestEntryForAccount
ReadBoundary(account) ==
    /\ sweep.phase = "sweeping"
    /\ account \in sweep.todo
    /\ sweep' = [sweep EXCEPT !.phase = "saving",
                              !.account = account,
                              !.boundary = Max({row.id : row \in Visible(account)})]
    /\ UNCHANGED <<today, stamped, dto, pc, ids, snapshots, inbox, waiting,
                   dead, query, crashes, failures, raced>>

\* calculateBalance and createSnapshot.  INSERT ... ON CONFLICT DO UPDATE needs
\* UPDATE on the table; refused, it rejects the handler, which nacks.
SaveSnapshot ==
    LET account == sweep.account
        row == [accountId |-> account, snapshotDate |-> DateOf[sweep.event],
                balancePaise |-> Calculated(account, Latest(account)),
                lastProcessedEntryId |-> sweep.boundary]
    IN  /\ sweep.phase = "saving"
        /\ IF MayUpdate
           THEN /\ sweep' = [sweep EXCEPT !.phase = "sweeping",
                                          !.todo = @ \ {account},
                                          !.account = NoAccount,
                                          !.boundary = 0,
                                          !.written = @ \union {row}]
                /\ UNCHANGED dead
           ELSE /\ sweep' = NoSweep
                /\ dead' = dead \union {sweep.event}
        /\ UNCHANGED <<today, stamped, dto, pc, ids, snapshots, inbox, waiting,
                       query, crashes, failures, raced>>

CommitSweep ==
    /\ sweep.phase = "sweeping"
    /\ sweep.todo = {}
    /\ snapshots' = Upsert(snapshots, sweep.written)
    /\ inbox' = inbox \union {sweep.event}
    /\ sweep' = [NoSweep EXCEPT !.phase = "committed", !.event = sweep.event]
    /\ UNCHANGED <<today, stamped, dto, pc, ids, waiting, dead, query, crashes,
                   failures, raced>>

Ack ==
    /\ sweep.phase = "committed"
    /\ sweep' = NoSweep
    /\ UNCHANGED <<today, stamped, dto, pc, ids, snapshots, inbox, waiting,
                   dead, query, crashes, failures, raced>>

\* Mutant: a crash takes the event with it, as when it was acked on delivery
CrashLosingEvent ==
    /\ sweep.phase # "idle"
    /\ crashes < MaxCrashes
    /\ crashes' = crashes + 1
    /\ sweep' = NoSweep
    /\ UNCHANGED <<today, stamped, dto, pc, ids, snapshots, inbox, waiting,
                   dead, query, failures, raced>>

\* the process dies: the transaction, if open, rolls back and the broker
\* requeues the unacknowledged event
Crash ==
    /\ sweep.phase # "idle"
    /\ crashes < MaxCrashes
    /\ crashes' = crashes + 1
    /\ waiting' = [waiting EXCEPT ![sweep.event] = @ + 1]
    /\ sweep' = NoSweep
    /\ UNCHANGED <<today, stamped, dto, pc, ids, snapshots, inbox, dead, query,
                   failures, raced>>

\* a statement throws: rollback, nack without requeue
FailSweep ==
    /\ sweep.phase \in {"delivered", "sweeping", "saving"}
    /\ failures < MaxFailures
    /\ failures' = failures + 1
    /\ dead' = dead \union {sweep.event}
    /\ sweep' = NoSweep
    /\ UNCHANGED <<today, stamped, dto, pc, ids, snapshots, inbox, waiting,
                   query, crashes, raced>>

-----------------------------------------------------------------------------
(* GET balance: calculateBalance outside any transaction. *)

ReadSnapshot(q) ==
    /\ query[q].phase = "new"
    /\ query' = [query EXCEPT ![q].phase = "reading",
                              ![q].snapshot = Latest(query[q].account)]
    /\ UNCHANGED <<today, stamped, dto, pc, ids, snapshots, inbox, waiting,
                   dead, sweep, crashes, failures, raced>>

\* Mutant: the boundary is taken from the table again, not from the row read
SumAfterNewBoundary(q) ==
    LET account == query[q].account
        mixed == [Latest(account) EXCEPT
                      !.balancePaise = query[q].snapshot.balancePaise]
    IN  /\ query[q].phase = "reading"
        /\ query' = [query EXCEPT ![q].phase = "answered",
                                  ![q].balance = Calculated(account, mixed)]
        /\ UNCHANGED <<today, stamped, dto, pc, ids, snapshots, inbox, waiting,
                       dead, sweep, crashes, failures, raced>>

SumEntries(q) ==
    /\ query[q].phase = "reading"
    /\ query' = [query EXCEPT
                    ![q].phase = "answered",
                    ![q].balance = Calculated(query[q].account,
                                              query[q].snapshot)]
    /\ UNCHANGED <<today, stamped, dto, pc, ids, snapshots, inbox, waiting,
                   dead, sweep, crashes, failures, raced>>

-----------------------------------------------------------------------------
Consume ==
    \/ \E e \in Events : Deliver(e)
    \/ OpenSweep
    \/ \E account \in Accounts : ReadBoundary(account)
    \/ SaveSnapshot
    \/ CommitSweep
    \/ Ack

Next ==
    \/ NextDay
    \/ \E r \in Requests : CreateEntry(r) \/ Commit(r) \/ Abort(r)
    \/ Consume \/ Crash \/ FailSweep
    \/ \E q \in Queries : ReadSnapshot(q) \/ SumEntries(q)

Spec == Init /\ [][Next]_vars

\* The broker delivers to an idle consumer, Node resumes the handler when its
\* query returns, and days pass.
FairSpec == Spec /\ WF_vars(Consume) /\ WF_vars(NextDay)

-----------------------------------------------------------------------------
(* Properties. *)


\* Sweeps for whatever dates, redelivered, interrupted or late, and commits
\* between any of their statements leave each balance right, but for one
\* race: a row that appeared behind a boundary, or in front of one between the
\* boundary's statement and the balance's.
WrongOnlyIfRaced ==
    \A account \in Accounts \ raced :
        Calculated(account, Latest(account)) = Actual(account)

\* Why: each row of balance_snapshots of an account that never raced, past
\* dates and dates written twice included, is the sum of the entries up to its
\* boundary, and the unique index leaves one row per account and date.
SnapshotsAreSums ==
    /\ TypeOK
    /\ \A s \in snapshots :
          s.accountId \notin raced =>
              s.balancePaise = Opening[s.accountId]
                               + Sum({row \in Visible(s.accountId) :
                                          row.id <= s.lastProcessedEntryId})
    /\ \A s, t \in snapshots : Key(s) = Key(t) => s = t

\* A balance query whose two statements sweeps and postings commit between
\* answers the balance of its second statement, unless its account raced: the
\* snapshot it read stays good although newer ones replace it.
AnswersAreActual ==
    [][\A q \in Queries :
          query'[q].phase = "answered" /\ query[q].phase # "answered"
              => \/ query'[q].balance = Actual(query[q].account)
                 \/ query[q].account \in raced]_vars

\* A sweep event rewrites snapshots at most once, across redeliveries and a
\* crash between its commit and its ack (ADR-011).
EventAppliedOnce ==
    [][snapshots' # snapshots =>
          sweep.event \notin inbox /\ sweep.event \in inbox']_vars

\* A sweep event in the queue is not lost: a crash redelivers it, and in the
\* end it is applied or, when a statement failed, dead-lettered.
SweepSettled ==
    \A e \in Events : waiting[e] > 0 ~> e \in inbox \union dead
=============================================================================
