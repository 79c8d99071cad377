--------------------------------- MODULE Pool ---------------------------------
(***************************************************************************)
(* The connection pool of a service (shared-db over pg) and the handlers    *)
(* that take a second connection while a transaction holds one: ledger's    *)
(* calculateBalance reads the currency through this.db, account's KYC       *)
(* consumer finds and freezes accounts through this.db inside the           *)
(* transaction of its inbox.                                                *)
(*                                                                          *)
(* External: pg's queue, first come first served, and PostgreSQL, which     *)
(* answers a statement or breaks it.                                        *)
(***************************************************************************)
EXTENDS Integers, FiniteSets, SequencesExt

CONSTANTS
    Tasks,     \* requests and messages one process works on
    Nested,    \* Nested[t]: its inner connections; TRUE: a failure is caught
    PoolSize  \* 10 connections

ASSUME PoolAssumption ==
    /\ IsFiniteSet(Tasks)
    /\ Nested \in [Tasks -> Seq(BOOLEAN)]
    /\ PoolSize \in Nat \ {0}

VARIABLES
    free,    \* connections nobody holds, idle or not opened yet
    queue,   \* the tasks pg has queued
    task,    \* task[t]: its phase and the inner connections it is through with
    ending   \* pool.end() was called

poolVars == <<free, queue, task, ending>>

Phase == {"new", "connect", "outer", "nested", "inner", "broken", "done", "failed"}
InTransaction ==
    {t \in Tasks : task[t].phase \in {"outer", "nested", "inner", "broken"}}
InNested == {t \in Tasks : task[t].phase = "inner"}

PoolTypeOK ==
    /\ free \in Nat
    /\ queue \in Seq(Tasks)
    /\ task \in [Tasks -> [phase : Phase, through : Nat]]
    /\ ending \in BOOLEAN

PoolInit ==
    /\ free = PoolSize
    /\ queue = <<>>
    /\ task = [t \in Tasks |-> [phase |-> "new", through |-> 0]]
    /\ ending = FALSE

-----------------------------------------------------------------------------
TaskAt(t, phase) == task[t].phase = phase
Waits(phase) == phase \in {"connect", "nested"}
Granted(phase) == IF phase = "connect" THEN "outer" ELSE "inner"

\* pool.connect(): a connection at once or a place in the queue
Connect(t, phase) ==
    IF free > 0
    THEN /\ free' = free - 1
         /\ task' = [task EXCEPT ![t].phase = Granted(phase)]
         /\ UNCHANGED queue
    ELSE /\ queue' = Append(queue, t)
         /\ task' = [task EXCEPT ![t].phase = phase]
         /\ UNCHANGED free

\* client.release(), task t going on as next: the connection goes to whoever
\* has waited longest; a pool that is ending closes it
Release(t, next) ==
    LET later == [task EXCEPT ![t] = next]
    IN IF queue # <<>> /\ ~ending
       THEN LET w == Head(queue)
            IN /\ queue' = Tail(queue)
               /\ task' = [later EXCEPT ![w].phase = Granted(@)]
               /\ UNCHANGED free
       ELSE /\ free' = free + 1
            /\ task' = later
            /\ UNCHANGED queue

Leaks(t, next) == /\ task' = [task EXCEPT ![t] = next]
                  /\ UNCHANGED <<free, queue>>
ReleasesOnError(t, next) == Release(t, next)

As(t, phase) == [task[t] EXCEPT !.phase = phase]
\* an inner connection is over, and with it the transaction unless it went well
\* or the handler catches the error
Back(t, ok) == [phase |-> IF ok THEN "outer" ELSE "broken",
                through |-> task[t].through + 1]

-----------------------------------------------------------------------------
\* withTransaction, or db.transaction of Drizzle
BeginTask(t) ==
    /\ TaskAt(t, "new")
    /\ IF ending
       THEN /\ task' = [task EXCEPT ![t] = As(t, "failed")]
            /\ UNCHANGED <<free, queue>>
       ELSE Connect(t, "connect")
    /\ UNCHANGED ending

HasNested(t) == task[t].through < Len(Nested[t])
Caught(t) == Nested[t][task[t].through + 1]

CommitTask(t) ==
    /\ TaskAt(t, "outer")
    /\ ~HasNested(t)
    /\ Release(t, As(t, "done"))
    /\ UNCHANGED ending

\* of a statement that fails, or an inner connection: ROLLBACK, and finally
Rollback(t) ==
    /\ TaskAt(t, "outer") \/ TaskAt(t, "broken")
    /\ ReleasesOnError(t, As(t, "failed"))
    /\ UNCHANGED ending

ConnectNested(t) ==
    /\ TaskAt(t, "outer")
    /\ HasNested(t)
    /\ IF ending
       THEN /\ task' = [task EXCEPT ![t] = Back(t, Caught(t))]
            /\ UNCHANGED <<free, queue>>
       ELSE Connect(t, "nested")
    /\ UNCHANGED ending

FinishNested(t) ==
    /\ TaskAt(t, "inner")
    /\ \E ok \in {TRUE, Caught(t)} : Release(t, Back(t, ok))
    /\ UNCHANGED ending

\* connectionTimeoutMillis, 5 seconds: the waiter leaves the queue
NeverOver(i) == FALSE
WaitIsOver(i) == i \in DOMAIN queue

Timeout(t) == \E i \in DOMAIN queue :
    /\ WaitIsOver(i)
    /\ queue[i] = t
    /\ queue' = RemoveAt(queue, i)
    /\ task' = [task EXCEPT ![t] = IF TaskAt(t, "connect") THEN As(t, "failed")
                                   ELSE Back(t, Caught(t))]
    /\ UNCHANGED <<free, ending>>

\* drainPool: pg refuses whoever comes from now on, and serves no waiter
Drain ==
    /\ ~ending
    /\ ending' = TRUE
    /\ UNCHANGED <<free, queue, task>>

Work(t) == \/ CommitTask(t) \/ Rollback(t) \/ ConnectNested(t) \/ FinishNested(t)
           \/ Timeout(t)

PoolNext == (\E t \in Tasks : BeginTask(t) \/ Work(t)) \/ Drain

PoolSpec == PoolInit /\ [][PoolNext]_poolVars

\* PostgreSQL answers or breaks a statement, and Node's timers fire
FairPoolSpec == PoolSpec /\ \A t \in Tasks : WF_poolVars(Work(t))

-----------------------------------------------------------------------------
\* However transactions nest, fail, time out and are overtaken by the shutdown,
\* every connection is free or held by one task; nobody waits beside a free one;
\* and pg queues exactly the tasks that await it.
ConnectionsAccounted ==
    /\ free + Cardinality(InTransaction) + Cardinality(InNested) = PoolSize
    /\ free > 0 /\ ~ending => queue = <<>>
    /\ \A t \in Tasks : Waits(task[t].phase) <=> \E i \in DOMAIN queue : queue[i] = t
    /\ \A i, j \in DOMAIN queue : i # j => queue[i] # queue[j]

\* Transactions that hold every connection while each waits for one more do not
\* stay so: everyone who begins ends, and with them the shutdown's drain.
EveryTaskEnds ==
    \A t \in Tasks : ~TaskAt(t, "new") ~> TaskAt(t, "done") \/ TaskAt(t, "failed")
=============================================================================
