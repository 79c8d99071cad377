--------------------------------- MODULE Kyc ---------------------------------
(***************************************************************************)
(* user-service: the KYC status of one user.  submitKyc calls and four      *)
(* review consumers (prefetch 1 each) run transactions that write the       *)
(* user's profile row and publish user.kyc_status_changed (its oldStatus is *)
(* left out) before they commit.  From updateKycStatus to its end a         *)
(* transaction holds the row's lock; before it, findById reads without one. *)
(* Every await at which another transaction can be noticed is an action     *)
(* boundary.                                                                *)
(*                                                                          *)
(* External: the reviewers behind the operations and approval events, who   *)
(* decide on a user each time user.kyc_submitted reaches them, and the      *)
(* broker.  The user's profile exists and is active: no code deactivates    *)
(* one.  updateProfile writes other columns of the row and is left out, and *)
(* so are approval events about other actions than KYC_CLEAR, which the     *)
(* consumers acknowledge unread.                                            *)
(***************************************************************************)
EXTENDS Naturals, Sequences, FiniteSets

CONSTANTS
    Submissions,  \* submitKyc calls, and the kyc_submissions rows they insert
    Decisions,    \* events of reviewers
    OutcomeOf,    \* OutcomeOf[d]: APPROVED or REJECTED
    QueueOf,      \* QueueOf[d]: the queue d is routed to
    MaxCrashes,   \* bound on crashes of the process
    MaxFailures,  \* bound on statements and publishes that fail in a consumer
    None

Queues == {"kyc-approved", "kyc-approved-approval",
           "kyc-rejected", "kyc-rejected-approval"}

SubmissionStatus == {"pending", "approved", "rejected"}

ASSUME OutcomeAssumption == OutcomeOf \in [Decisions -> {"APPROVED", "REJECTED"}]
ASSUME QueueAssumption == QueueOf \in [Decisions -> Queues]
ASSUME ActorsAssumption ==
    /\ Submissions \intersect Decisions = {}
    /\ Submissions \intersect Queues = {}
    /\ None \notin Submissions \union Decisions \union Queues \union SubmissionStatus
ASSUME KycBoundsAssumption == {MaxCrashes, MaxFailures} \subseteq Nat

VARIABLES
    kycStatus,    \* user_profiles.kyc_status, committed
    status,       \* status[s]: the committed row of submission s; None before
    lock,         \* who holds the lock of the profile row
    begun,        \* submissions by submitted_at, the start of their transaction
    statuses,     \* user.kyc_status_changed events, in the order published
    tickets,      \* submissions whose user.kyc_submitted was published
    decided,      \* decisions published by reviewers
    queue,        \* queue[q]: decisions waiting
    dead,         \* decisions nacked without requeue
    inbox,        \* committed rows of inbox_messages
    call,         \* call[s]: progress of submitKyc
    job,          \* job[q]: the consumer of q: its event and progress
    crashes, failures

tables == <<kycStatus, status, inbox>>
published == <<statuses, tickets>>
broker == <<decided, queue, dead>>
bounds == <<crashes, failures>>

vars == <<tables, lock, begun, published, broker, call, job, bounds>>

-----------------------------------------------------------------------------
KycStatus == {"PENDING", "SUBMITTED", "APPROVED", "REJECTED"}

Answered == {"done", "failed"}
CallPhase == {"start", "inserted", "updated", "announced", "ticketed"}
                 \union Answered

Job == [phase : {"idle", "delivered", "opened", "updated", "announced",
                 "committed"},
        event : Decisions \union {None},
        reviews : SUBSET Submissions]

Idle == [phase |-> "idle", event |-> None, reviews |-> {}]

Change == [new : KycStatus, by : Submissions \union Decisions]

TypeOK ==
    /\ kycStatus \in KycStatus
    /\ status \in [Submissions -> SubmissionStatus \union {None}]
    /\ lock \in Submissions \union Queues \union {None}
    /\ begun \in Seq(Submissions)
    /\ statuses \in Seq(Change)
    /\ tickets \subseteq Submissions
    /\ decided \subseteq Decisions
    /\ queue \in [Queues -> Seq(Decisions)]
    /\ dead \subseteq Decisions
    /\ inbox \subseteq Decisions
    /\ call \in [Submissions -> CallPhase]
    /\ job \in [Queues -> Job]
    /\ crashes \in Nat /\ failures \in Nat

Init ==
    /\ kycStatus = "PENDING"
    /\ status = [s \in Submissions |-> None]
    /\ lock = None
    /\ begun = <<>>
    /\ statuses = <<>>
    /\ tickets = {}
    /\ decided = {}
    /\ queue = [q \in Queues |-> <<>>]
    /\ dead = {}
    /\ inbox = {}
    /\ call = [s \in Submissions |-> "start"]
    /\ job = [q \in Queues |-> Idle]
    /\ crashes = 0 /\ failures = 0

-----------------------------------------------------------------------------
(* submitKyc. *)

Go(s, phase) == call' = [call EXCEPT ![s] = phase]

\* BEGIN, findById, createSubmission
InsertSubmission(s) ==
    /\ call[s] = "start"
    /\ Go(s, "inserted")
    /\ begun' = Append(begun, s)
    /\ UNCHANGED <<tables, lock, published, broker, job, bounds>>

\* Mutant: updateKycStatus without the transaction's handle commits by itself.
UpdateAutocommitted(s) ==
    /\ call[s] = "inserted"
    /\ lock = None
    /\ kycStatus' = "SUBMITTED"
    /\ Go(s, "updated")
    /\ UNCHANGED <<status, inbox, lock, begun, published, broker, job, bounds>>

\* updateKycStatus: waits for the row's lock
UpdateSubmitted(s) ==
    /\ call[s] = "inserted"
    /\ lock = None
    /\ lock' = s
    /\ Go(s, "updated")
    /\ UNCHANGED <<tables, begun, published, broker, job, bounds>>

PublishSubmitted(s) ==
    /\ call[s] = "updated"
    /\ statuses' = Append(statuses, [new |-> "SUBMITTED", by |-> s])
    /\ Go(s, "announced")
    /\ UNCHANGED <<tables, lock, begun, tickets, broker, job, bounds>>

PublishTicket(s) ==
    /\ call[s] = "announced"
    /\ tickets' = tickets \union {s}
    /\ Go(s, "ticketed")
    /\ UNCHANGED <<tables, lock, begun, statuses, broker, job, bounds>>

\* Mutant: the ticket is left for after the commit.
CommitWithoutTicket(s) ==
    /\ call[s] = "announced"
    /\ kycStatus' = "SUBMITTED"
    /\ status' = [status EXCEPT ![s] = "pending"]
    /\ lock' = None
    /\ Go(s, "done")
    /\ UNCHANGED <<inbox, begun, published, broker, job, bounds>>

CommitSubmission(s) ==
    /\ call[s] = "ticketed"
    /\ kycStatus' = "SUBMITTED"
    /\ status' = [status EXCEPT ![s] = "pending"]
    /\ lock' = None
    /\ Go(s, "done")
    /\ UNCHANGED <<inbox, begun, published, broker, job, bounds>>

Release(actor) == lock' = IF lock = actor THEN None ELSE lock

\* any statement, publish or the COMMIT fails: the transaction rolls back and
\* the call is answered with an error; what was published stays published
AbortSubmission(s) ==
    /\ call[s] \notin Answered
    /\ Release(s)
    /\ Go(s, "failed")
    /\ UNCHANGED <<tables, begun, published, broker, job, bounds>>

-----------------------------------------------------------------------------
(* Reviewers, and the broker between them and the consumers. *)

\* one decision for each user.kyc_submitted; the event names the user only
Decide(d) ==
    /\ d \notin decided
    /\ Cardinality(decided) < Cardinality(tickets)
    /\ decided' = decided \union {d}
    /\ queue' = [queue EXCEPT ![QueueOf[d]] = Append(@, d)]
    /\ UNCHANGED <<tables, lock, begun, published, dead, call, job, bounds>>

Deliver(q) ==
    /\ job[q].phase = "idle"
    /\ queue[q] # <<>>
    /\ job' = [job EXCEPT ![q] = [Idle EXCEPT !.phase = "delivered",
                                              !.event = Head(queue[q])]]
    /\ queue' = [queue EXCEPT ![q] = Tail(@)]
    /\ UNCHANGED <<tables, lock, begun, published, decided, dead, call, bounds>>

-----------------------------------------------------------------------------
(* handleApproval and handleRejection. *)

\* Mutant: the answer of insertMessage is not looked at.
OpenAlways(q) ==
    /\ job[q].phase = "delivered"
    /\ job' = [job EXCEPT ![q].phase = "opened"]
    /\ UNCHANGED <<tables, lock, begun, published, broker, call, bounds>>

\* BEGIN, insertMessage, findById.  A duplicate ends here: acked when
\* insertMessage returns false, dead-lettered when it throws.
OpenReview(q) ==
    /\ job[q].phase = "delivered"
    /\ IF job[q].event \in inbox
       THEN /\ job' = [job EXCEPT ![q] = Idle]
            /\ dead' \in {dead, dead \union {job[q].event}}
       ELSE /\ job' = [job EXCEPT ![q].phase = "opened"]
            /\ UNCHANGED dead
    /\ UNCHANGED <<tables, lock, begun, published, decided, queue, call, bounds>>

Committed(s) == status[s] # None

\* findLatestByUserId: of the committed submissions, the last to have begun;
\* the set is empty before the first
Latest ==
    {s \in Submissions :
        /\ Committed(s)
        /\ \E i \in DOMAIN begun :
              /\ begun[i] = s
              /\ \A k \in DOMAIN begun : k > i => ~Committed(begun[k])}

\* Mutant: the latest submission, whatever its status.
ToReviewAgain == Latest

\* the latest submission, unless it is already reviewed
ToReview == {s \in Latest : status[s] = "pending"}

\* updateKycStatus, which waits for the lock, findLatestByUserId and
\* updateStatus: nobody can commit a submission without that lock
UpdateReviewed(q) ==
    /\ job[q].phase = "opened"
    /\ lock = None
    /\ lock' = q
    /\ job' = [job EXCEPT ![q].phase = "updated", ![q].reviews = ToReview]
    /\ UNCHANGED <<tables, begun, published, broker, call, bounds>>

PublishReviewed(q) ==
    /\ job[q].phase = "updated"
    /\ statuses' = Append(statuses, [new |-> OutcomeOf[job[q].event],
                                     by |-> job[q].event])
    /\ job' = [job EXCEPT ![q].phase = "announced"]
    /\ UNCHANGED <<tables, lock, begun, tickets, broker, call, bounds>>

Reviewed == [APPROVED |-> "approved", REJECTED |-> "rejected"]

\* Mutant: the submission is left as it was.
CommitStatusOnly(q) ==
    /\ job[q].phase = "announced"
    /\ kycStatus' = OutcomeOf[job[q].event]
    /\ inbox' = inbox \union {job[q].event}
    /\ lock' = None
    /\ job' = [job EXCEPT ![q].phase = "committed"]
    /\ UNCHANGED <<status, begun, published, broker, call, bounds>>

CommitReview(q) ==
    LET d == job[q].event
    IN  /\ job[q].phase = "announced"
        /\ kycStatus' = OutcomeOf[d]
        /\ status' = [s \in Submissions |-> IF s \in job[q].reviews
                                            THEN Reviewed[OutcomeOf[d]]
                                            ELSE status[s]]
        /\ inbox' = inbox \union {d}
        /\ lock' = None
        /\ job' = [job EXCEPT ![q].phase = "committed"]
        /\ UNCHANGED <<begun, published, broker, call, bounds>>

Ack(q) ==
    /\ job[q].phase = "committed"
    /\ job' = [job EXCEPT ![q] = Idle]
    /\ UNCHANGED <<tables, lock, begun, published, broker, call, bounds>>

\* a statement or the publish throws: rollback, nack without requeue
FailReview(q) ==
    /\ job[q].phase \in {"delivered", "opened", "updated", "announced"}
    /\ failures < MaxFailures
    /\ failures' = failures + 1
    /\ Release(q)
    /\ dead' = dead \union {job[q].event}
    /\ job' = [job EXCEPT ![q] = Idle]
    /\ UNCHANGED <<tables, begun, published, decided, queue, call, crashes>>

\* Mutant: deliveries are acknowledged on arrival, and lost in a crash.
CrashLosingEvents ==
    /\ crashes < MaxCrashes
    /\ crashes' = crashes + 1
    /\ lock' = None
    /\ call' = [s \in Submissions |->
                   IF call[s] \in {"start"} \union Answered THEN call[s]
                   ELSE "failed"]
    /\ job' = [q \in Queues |-> Idle]
    /\ UNCHANGED <<tables, begun, published, broker, failures>>

\* The process dies: its transactions roll back, its calls get no answer, and
\* the broker requeues what was not acknowledged.
Crash ==
    /\ crashes < MaxCrashes
    /\ crashes' = crashes + 1
    /\ lock' = None
    /\ call' = [s \in Submissions |->
                   IF call[s] \in {"start"} \union Answered THEN call[s]
                   ELSE "failed"]
    /\ queue' = [q \in Queues |-> IF job[q].phase = "idle" THEN queue[q]
                                  ELSE <<job[q].event>> \o queue[q]]
    /\ job' = [q \in Queues |-> Idle]
    /\ UNCHANGED <<tables, begun, published, decided, dead, failures>>

-----------------------------------------------------------------------------
Submit(s) ==
    \/ InsertSubmission(s)
    \/ UpdateSubmitted(s)
    \/ PublishSubmitted(s)
    \/ PublishTicket(s)
    \/ CommitSubmission(s)
    \/ AbortSubmission(s)

Review(q) ==
    \/ OpenReview(q)
    \/ UpdateReviewed(q)
    \/ PublishReviewed(q)
    \/ CommitReview(q)
    \/ Ack(q)

Next ==
    \/ \E s \in Submissions : Submit(s)
    \/ \E d \in Decisions : Decide(d)
    \/ \E q \in Queues : Deliver(q) \/ Review(q) \/ FailReview(q)
    \/ Crash

Spec == Init /\ [][Next]_vars

\* PostgreSQL answers a statement that is not waiting and grants a lock that is
\* free for good; the broker delivers to an idle consumer.  A request need not
\* arrive, a reviewer decide, a statement fail or the process die.
Continue(s) == call[s] # "start" /\ Submit(s)

FairSpec ==
    /\ Spec
    /\ \A s \in Submissions : WF_vars(Continue(s))
    /\ \A q \in Queues : WF_vars(Deliver(q)) /\ WF_vars(Review(q))
-----------------------------------------------------------------------------
(* Properties. *)

CommittedBy(actor) == actor \in inbox \/ \E s \in Submissions : s = actor /\ Committed(s)

\* Of the published status changes, the last whose transaction has committed
\* is the status of the user: whoever reads user.kyc_status_changed in order
\* and hears of nothing but committed changes ends with what is in the table.
LastWordIsCommitted ==
    /\ TypeOK
    /\ \A i \in DOMAIN statuses :
          /\ CommittedBy(statuses[i].by)
          /\ \A k \in DOMAIN statuses : k > i => ~CommittedBy(statuses[k].by)
          => kycStatus = statuses[i].new
    /\ (\A i \in DOMAIN statuses : ~CommittedBy(statuses[i].by))
          => kycStatus = "PENDING"

\* No review passes over the latest submission: while it is pending, the user
\* is SUBMITTED.
PendingIsSubmitted ==
    \A s \in Latest : status[s] = "pending" => kycStatus = "SUBMITTED"

\* What is committed was announced: no submission waits for reviewers who were
\* never told of it.
NothingUnannounced ==
    /\ \A s \in Submissions : Committed(s) => s \in tickets
    /\ \A actor \in Submissions \union Decisions :
          CommittedBy(actor) => \E i \in DOMAIN statuses : statuses[i].by = actor

\* A reviewed submission is never reviewed again, whatever decisions follow.
ReviewIsFinal ==
    [][\A s \in Submissions :
          status[s] \in {"approved", "rejected"} => status'[s] = status[s]]_vars

\* A decision changes the tables once, across redeliveries.
DecisionAppliedOnce ==
    [][\A q \in Queues :
          job[q].phase = "announced" /\ job'[q].phase = "committed"
              => job[q].event \notin inbox]_vars

\* A published decision is applied or, when a statement failed, dead-lettered.
DecisionSettled == \A d \in Decisions : d \in decided ~> d \in inbox \union dead

\* A rejected user is not approved before submitting again.
ApprovedAfterSubmission ==
    [][kycStatus = "REJECTED" => kycStatus' # "APPROVED"]_vars
=============================================================================
