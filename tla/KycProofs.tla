------------------------------ MODULE KycProofs ------------------------------
(***************************************************************************)
(* Theorems about Kyc, for any submissions, decisions and bounds.           *)
(***************************************************************************)
EXTENDS Kyc, TLAPS

USE OutcomeAssumption, QueueAssumption, ActorsAssumption, KycBoundsAssumption
USE DEF SubmissionStatus

Holding == {"updated", "announced", "ticketed"}

\* Submission s is past its first publish and not yet decided.
Announcing(s) == call[s] \in {"announced", "ticketed"}

\* The lock belongs to the transaction between its update and its end.
LockInv ==
    /\ \A s \in Submissions : call[s] \in Holding <=> lock = s
    /\ \A q \in Queues : job[q].phase \in {"updated", "announced"} <=> lock = q

\* Decisions stay on the queue they were routed to, and one that is being
\* applied was not applied before.
JobInv ==
    /\ \A q \in Queues : \A i \in DOMAIN queue[q] : QueueOf[queue[q][i]] = q
    /\ \A q \in Queues : job[q].phase # "idle" =>
          /\ job[q].event \in Decisions
          /\ QueueOf[job[q].event] = q
    /\ \A q \in Queues : job[q].phase \in {"opened", "updated", "announced"}
          => job[q].event \notin inbox

\* A submission is committed by the end of its call.
CallInv == \A s \in Submissions : Committed(s) => call[s] = "done"

\* The status published by the holder of the lock is the last one published.
HeadInv ==
    /\ \A s \in Submissions : Announcing(s) =>
          /\ statuses # <<>>
          /\ statuses[Len(statuses)] = [new |-> "SUBMITTED", by |-> s]
    /\ \A q \in Queues : job[q].phase = "announced" =>
          /\ statuses # <<>>
          /\ statuses[Len(statuses)]
                = [new |-> OutcomeOf[job[q].event], by |-> job[q].event]

\* LastWordIsCommitted without the types.
WordInv ==
    /\ \A i \in DOMAIN statuses :
          /\ CommittedBy(statuses[i].by)
          /\ \A k \in DOMAIN statuses : k > i => ~CommittedBy(statuses[k].by)
          => kycStatus = statuses[i].new
    /\ (\A i \in DOMAIN statuses : ~CommittedBy(statuses[i].by))
          => kycStatus = "PENDING"

\* What a review is about to mark is what it would find now.
ReviewInv ==
    /\ \A q \in Queues : job[q].phase \in {"updated", "announced"}
          => job[q].reviews = ToReview
    /\ PendingIsSubmitted

\* A submission about to commit has its ticket, and what is committed was
\* announced.
TicketInv ==
    /\ \A s \in Submissions : call[s] = "ticketed" => s \in tickets
    /\ NothingUnannounced

KycInv == TypeOK /\ LockInv /\ JobInv /\ CallInv /\ HeadInv /\ WordInv
              /\ ReviewInv /\ TicketInv
-----------------------------------------------------------------------------
\* What is appended is the last element.
LEMMA LastOfAppend ==
    ASSUME NEW S, NEW seq \in Seq(S), NEW e \in S
    PROVE  /\ Append(seq, e) # <<>>
           /\ Append(seq, e)[Len(Append(seq, e))] = e
  OBVIOUS

\* A consumer that moves on stays a job.
LEMMA JobAdvances ==
    ASSUME NEW f \in [Queues -> Job], NEW q \in Queues,
           NEW phase \in {"opened", "updated", "announced", "committed"}
    PROVE  [f EXCEPT ![q].phase = phase] \in [Queues -> Job]
<1>1. f[q] \in Job
  OBVIOUS
<1>2. [f[q] EXCEPT !.phase = phase] \in Job
  BY <1>1 DEF Job
<1>. QED  BY <1>2

\* A consumer that has found what to review stays a job.
LEMMA JobFinds ==
    ASSUME NEW f \in [Queues -> Job], NEW q \in Queues,
           NEW found \in SUBSET Submissions
    PROVE  [f EXCEPT ![q].phase = "updated", ![q].reviews = found]
               \in [Queues -> Job]
<1>1. f[q] \in Job
  OBVIOUS
<1>2. [[f[q] EXCEPT !.phase = "updated"] EXCEPT !.reviews = found] \in Job
  BY <1>1 DEF Job
<1>. QED  BY <1>2

\* A consumer that is done is a job.
LEMMA IdleJob == Idle \in Job
  BY DEF Idle, Job

\* Every step keeps the types.
LEMMA TypeStep == KycInv /\ [Next]_vars => TypeOK'
<1>. SUFFICES ASSUME KycInv, [Next]_vars PROVE TypeOK'
  OBVIOUS
<1>. USE DEF KycInv, TypeOK, JobInv, tables, published, broker, bounds, Go, Release, KycStatus, SubmissionStatus, Answered, CallPhase, Change
<1>1. ASSUME NEW s \in Submissions, InsertSubmission(s) PROVE TypeOK'
  BY <1>1 DEF InsertSubmission
<1>2. ASSUME NEW s \in Submissions, UpdateSubmitted(s) PROVE TypeOK'
  BY <1>2 DEF UpdateSubmitted
<1>3. ASSUME NEW s \in Submissions, PublishSubmitted(s) PROVE TypeOK'
  BY <1>3 DEF PublishSubmitted
<1>4. ASSUME NEW s \in Submissions, PublishTicket(s) PROVE TypeOK'
  BY <1>4 DEF PublishTicket
<1>5. ASSUME NEW s \in Submissions, CommitSubmission(s) PROVE TypeOK'
  BY <1>5 DEF CommitSubmission
<1>6. ASSUME NEW s \in Submissions, AbortSubmission(s) PROVE TypeOK'
  BY <1>6 DEF AbortSubmission
<1>7. ASSUME NEW d \in Decisions, Decide(d) PROVE TypeOK'
  BY <1>7 DEF Decide
<1>8. ASSUME NEW q \in Queues, Deliver(q) PROVE TypeOK'
  <2>1. Head(queue[q]) \in Decisions /\ Tail(queue[q]) \in Seq(Decisions)
    BY <1>8 DEF Deliver
  <2>2. job' \in [Queues -> Job]
    BY <1>8, <2>1 DEF Deliver, Idle, Job
  <2>3. queue' \in [Queues -> Seq(Decisions)]
    BY <1>8, <2>1 DEF Deliver
  <2>. QED  BY <1>8, <2>2, <2>3 DEF Deliver
<1>9. ASSUME NEW q \in Queues, OpenReview(q) PROVE TypeOK'
  <2>1. job' \in {[job EXCEPT ![q] = Idle], [job EXCEPT ![q].phase = "opened"]}
    BY <1>9 DEF OpenReview
  <2>2. dead' \subseteq Decisions
    BY <1>9 DEF OpenReview
  <2>3. [job EXCEPT ![q] = Idle] \in [Queues -> Job]
    BY IdleJob
  <2>4. [job EXCEPT ![q].phase = "opened"] \in [Queues -> Job]
    BY JobAdvances
  <2>5. job' \in [Queues -> Job]
    BY JobAdvances, IdleJob, <2>1, <2>3, <2>4
  <2>. QED  BY <1>9, <2>2, <2>5 DEF OpenReview
<1>10. ASSUME NEW q \in Queues, UpdateReviewed(q) PROVE TypeOK'
  <2>1. ToReview \in SUBSET Submissions
    BY DEF ToReview, Latest
  <2>2. job' \in [Queues -> Job]
    BY JobFinds, <1>10, <2>1 DEF UpdateReviewed
  <2>. QED  BY <1>10, <2>2 DEF UpdateReviewed
<1>11. ASSUME NEW q \in Queues, PublishReviewed(q) PROVE TypeOK'
  <2>1. job' \in [Queues -> Job]
    BY JobAdvances, IdleJob, <1>11 DEF PublishReviewed
  <2>2. [new |-> OutcomeOf[job[q].event], by |-> job[q].event] \in Change
    BY <1>11 DEF PublishReviewed
  <2>3. statuses' \in Seq(Change)
    BY <1>11, <2>2 DEF PublishReviewed
  <2>. QED  BY <1>11, <2>1, <2>3 DEF PublishReviewed
<1>12. ASSUME NEW q \in Queues, CommitReview(q) PROVE TypeOK'
  <2>1. job' \in [Queues -> Job]
    BY JobAdvances, IdleJob, <1>12 DEF CommitReview
  <2>2. OutcomeOf[job[q].event] \in {"APPROVED", "REJECTED"} /\ job[q].event \in Decisions
    BY <1>12 DEF CommitReview
  <2>3. status' \in [Submissions -> SubmissionStatus \union {None}]
    BY <1>12, <2>2 DEF CommitReview, Reviewed
  <2>. QED  BY <1>12, <2>1, <2>2, <2>3 DEF CommitReview
<1>13. ASSUME NEW q \in Queues, Ack(q) PROVE TypeOK'
  BY <1>13 DEF Ack, Idle, Job
<1>14. ASSUME NEW q \in Queues, FailReview(q) PROVE TypeOK'
  BY <1>14 DEF FailReview, Idle, Job
<1>15. CASE Crash
  BY <1>15 DEF Crash, Idle, Job
<1>16. CASE UNCHANGED vars
  BY <1>16 DEF vars
<1>. QED
  BY <1>1, <1>2, <1>3, <1>4, <1>5, <1>6, <1>7, <1>8, <1>9, <1>10, <1>11, <1>12, <1>13, <1>14, <1>15, <1>16 DEF Next, Submit, Review

\* Every step keeps the lock with its holder.
LEMMA LockStep == KycInv /\ [Next]_vars => LockInv'
<1>. SUFFICES ASSUME KycInv, [Next]_vars PROVE LockInv'
  OBVIOUS
<1>. USE DEF KycInv, TypeOK, LockInv, Holding, Idle, tables, published, broker, bounds, Go, Release, Answered, CallPhase, Job
<1>1. ASSUME NEW s \in Submissions, InsertSubmission(s) PROVE LockInv'
  BY <1>1 DEF InsertSubmission
<1>2. ASSUME NEW s \in Submissions, UpdateSubmitted(s) PROVE LockInv'
  BY <1>2 DEF UpdateSubmitted
<1>3. ASSUME NEW s \in Submissions, PublishSubmitted(s) PROVE LockInv'
  BY <1>3 DEF PublishSubmitted
<1>4. ASSUME NEW s \in Submissions, PublishTicket(s) PROVE LockInv'
  BY <1>4 DEF PublishTicket
<1>5. ASSUME NEW s \in Submissions, CommitSubmission(s) PROVE LockInv'
  BY <1>5 DEF CommitSubmission
<1>6. ASSUME NEW s \in Submissions, AbortSubmission(s) PROVE LockInv'
  BY <1>6 DEF AbortSubmission
<1>7. ASSUME NEW d \in Decisions, Decide(d) PROVE LockInv'
  BY <1>7 DEF Decide
<1>8. ASSUME NEW q \in Queues, Deliver(q) PROVE LockInv'
  BY <1>8 DEF Deliver
<1>9. ASSUME NEW q \in Queues, OpenReview(q) PROVE LockInv'
  <2>1. job[q].phase = "delivered" /\ lock' = lock /\ call' = call
    BY <1>9 DEF OpenReview
  <2>2. job' \in {[job EXCEPT ![q] = Idle], [job EXCEPT ![q].phase = "opened"]}
    BY <1>9 DEF OpenReview
  <2>. QED
    <3>1. CASE job' = [job EXCEPT ![q] = Idle]
      BY <2>1, <3>1
    <3>2. CASE job' = [job EXCEPT ![q].phase = "opened"]
      BY <2>1, <3>2
    <3>. QED  BY <2>2, <3>1, <3>2
<1>10. ASSUME NEW q \in Queues, UpdateReviewed(q) PROVE LockInv'
  BY <1>10 DEF UpdateReviewed
<1>11. ASSUME NEW q \in Queues, PublishReviewed(q) PROVE LockInv'
  BY <1>11 DEF PublishReviewed
<1>12. ASSUME NEW q \in Queues, CommitReview(q) PROVE LockInv'
  BY <1>12 DEF CommitReview
<1>13. ASSUME NEW q \in Queues, Ack(q) PROVE LockInv'
  BY <1>13 DEF Ack
<1>14. ASSUME NEW q \in Queues, FailReview(q) PROVE LockInv'
  BY <1>14 DEF FailReview
<1>15. CASE Crash
  BY <1>15 DEF Crash
<1>16. CASE UNCHANGED vars
  BY <1>16 DEF vars
<1>. QED
  BY <1>1, <1>2, <1>3, <1>4, <1>5, <1>6, <1>7, <1>8, <1>9, <1>10, <1>11, <1>12, <1>13, <1>14, <1>15, <1>16 DEF Next, Submit, Review

\* Every step keeps decisions on their queues, and applies none twice.
LEMMA JobStep == KycInv /\ [Next]_vars => JobInv'
<1>. SUFFICES ASSUME KycInv, [Next]_vars PROVE JobInv'
  OBVIOUS
<1>. USE DEF KycInv, TypeOK, JobInv, Idle, tables, published, broker, bounds, Go, Release, Job
<1>1. ASSUME NEW s \in Submissions, InsertSubmission(s) PROVE JobInv'
  BY <1>1 DEF InsertSubmission
<1>2. ASSUME NEW s \in Submissions, UpdateSubmitted(s) PROVE JobInv'
  BY <1>2 DEF UpdateSubmitted
<1>3. ASSUME NEW s \in Submissions, PublishSubmitted(s) PROVE JobInv'
  BY <1>3 DEF PublishSubmitted
<1>4. ASSUME NEW s \in Submissions, PublishTicket(s) PROVE JobInv'
  BY <1>4 DEF PublishTicket
<1>5. ASSUME NEW s \in Submissions, CommitSubmission(s) PROVE JobInv'
  BY <1>5 DEF CommitSubmission
<1>6. ASSUME NEW s \in Submissions, AbortSubmission(s) PROVE JobInv'
  BY <1>6 DEF AbortSubmission
<1>7. ASSUME NEW d \in Decisions, Decide(d) PROVE JobInv'
  BY <1>7 DEF Decide
<1>8. ASSUME NEW q \in Queues, Deliver(q) PROVE JobInv'
  BY <1>8 DEF Deliver
<1>9. ASSUME NEW q \in Queues, OpenReview(q) PROVE JobInv'
  <2>1. queue' = queue /\ inbox' = inbox /\ job[q].phase = "delivered"
    BY <1>9 DEF OpenReview
  <2>2. CASE job' = [job EXCEPT ![q] = Idle]
    BY <2>1, <2>2
  <2>3. CASE job' = [job EXCEPT ![q].phase = "opened"] /\ job[q].event \notin inbox
    BY <2>1, <2>3
  <2>. QED  BY <1>9, <2>2, <2>3 DEF OpenReview
<1>10. ASSUME NEW q \in Queues, UpdateReviewed(q) PROVE JobInv'
  BY <1>10 DEF UpdateReviewed
<1>11. ASSUME NEW q \in Queues, PublishReviewed(q) PROVE JobInv'
  BY <1>11 DEF PublishReviewed
<1>12. ASSUME NEW q \in Queues, CommitReview(q) PROVE JobInv'
  <2>1. /\ queue' = queue
        /\ inbox' = inbox \union {job[q].event}
        /\ job' = [job EXCEPT ![q].phase = "committed"]
        /\ job[q].phase = "announced"
    BY <1>12 DEF CommitReview
  <2>2. ASSUME NEW p \in Queues, p # q, job[p].phase # "idle"
        PROVE  job[p].event # job[q].event
    BY <2>1, <2>2
  <2>. QED  BY <2>1, <2>2
<1>13. ASSUME NEW q \in Queues, Ack(q) PROVE JobInv'
  BY <1>13 DEF Ack
<1>14. ASSUME NEW q \in Queues, FailReview(q) PROVE JobInv'
  BY <1>14 DEF FailReview
<1>15. CASE Crash
  BY <1>15 DEF Crash
<1>16. CASE UNCHANGED vars
  BY <1>16 DEF vars
<1>. QED
  BY <1>1, <1>2, <1>3, <1>4, <1>5, <1>6, <1>7, <1>8, <1>9, <1>10, <1>11, <1>12, <1>13, <1>14, <1>15, <1>16 DEF Next, Submit, Review

\* Every step commits submissions at the end of their calls only.
LEMMA CallStep == KycInv /\ [Next]_vars => CallInv'
<1>. SUFFICES ASSUME KycInv, [Next]_vars PROVE CallInv'
  OBVIOUS
<1>. USE DEF KycInv, TypeOK, CallInv, ReviewInv, Committed, tables, published, broker, bounds, Go, Release, Reviewed, Answered, CallPhase
<1>1. ASSUME NEW s \in Submissions, InsertSubmission(s) PROVE CallInv'
  BY <1>1 DEF InsertSubmission
<1>2. ASSUME NEW s \in Submissions, UpdateSubmitted(s) PROVE CallInv'
  BY <1>2 DEF UpdateSubmitted
<1>3. ASSUME NEW s \in Submissions, PublishSubmitted(s) PROVE CallInv'
  BY <1>3 DEF PublishSubmitted
<1>4. ASSUME NEW s \in Submissions, PublishTicket(s) PROVE CallInv'
  BY <1>4 DEF PublishTicket
<1>5. ASSUME NEW s \in Submissions, CommitSubmission(s) PROVE CallInv'
  BY <1>5 DEF CommitSubmission
<1>6. ASSUME NEW s \in Submissions, AbortSubmission(s) PROVE CallInv'
  BY <1>6 DEF AbortSubmission
<1>7. ASSUME NEW d \in Decisions, Decide(d) PROVE CallInv'
  BY <1>7 DEF Decide
<1>8. ASSUME NEW q \in Queues, Deliver(q) PROVE CallInv'
  BY <1>8 DEF Deliver
<1>9. ASSUME NEW q \in Queues, OpenReview(q) PROVE CallInv'
  BY <1>9 DEF OpenReview
<1>10. ASSUME NEW q \in Queues, UpdateReviewed(q) PROVE CallInv'
  BY <1>10 DEF UpdateReviewed
<1>11. ASSUME NEW q \in Queues, PublishReviewed(q) PROVE CallInv'
  BY <1>11 DEF PublishReviewed
<1>12. ASSUME NEW q \in Queues, CommitReview(q) PROVE CallInv'
  <2>1. \A s \in job[q].reviews : Committed(s)
    BY <1>12 DEF CommitReview, ReviewInv, ToReview, Latest
  <2>. QED  BY <1>12, <2>1 DEF CommitReview
<1>13. ASSUME NEW q \in Queues, Ack(q) PROVE CallInv'
  BY <1>13 DEF Ack
<1>14. ASSUME NEW q \in Queues, FailReview(q) PROVE CallInv'
  BY <1>14 DEF FailReview
<1>15. CASE Crash
  BY <1>15 DEF Crash
<1>16. CASE UNCHANGED vars
  BY <1>16 DEF vars
<1>. QED
  BY <1>1, <1>2, <1>3, <1>4, <1>5, <1>6, <1>7, <1>8, <1>9, <1>10, <1>11, <1>12, <1>13, <1>14, <1>15, <1>16 DEF Next, Submit, Review

\* Every step keeps the lock holder's publication last.
LEMMA HeadStep == KycInv /\ [Next]_vars => HeadInv'
<1>. SUFFICES ASSUME KycInv, [Next]_vars PROVE HeadInv'
  OBVIOUS
<1>. USE DEF KycInv, TypeOK, LockInv, Holding, JobInv, HeadInv, Announcing, Idle, tables, published, broker, bounds, Go, Release, Answered, CallPhase, Job, Change
<1>1. ASSUME NEW s \in Submissions, InsertSubmission(s) PROVE HeadInv'
  BY <1>1 DEF InsertSubmission
<1>2. ASSUME NEW s \in Submissions, UpdateSubmitted(s) PROVE HeadInv'
  BY <1>2 DEF UpdateSubmitted
<1>3. ASSUME NEW s \in Submissions, PublishSubmitted(s) PROVE HeadInv'
  <2>1. statuses' = Append(statuses, [new |-> "SUBMITTED", by |-> s])
    BY <1>3 DEF PublishSubmitted
  <2>2. [new |-> "SUBMITTED", by |-> s] \in Change
    BY <1>3 DEF PublishSubmitted, KycStatus
  <2>3. statuses' # <<>> /\ statuses'[Len(statuses')] = [new |-> "SUBMITTED", by |-> s]
    <3>. HIDE DEF Change
    <3>. QED  BY LastOfAppend, <2>1, <2>2
  <2>4. lock = s
    BY <1>3 DEF PublishSubmitted
  <2>5. \A t \in Submissions : t # s => ~Announcing(t)
    BY <2>4
  <2>6. \A p \in Queues : p # s => job[p].phase # "announced"
    BY <2>4
  <2>. QED  BY <1>3, <2>3, <2>5, <2>6 DEF PublishSubmitted
<1>4. ASSUME NEW s \in Submissions, PublishTicket(s) PROVE HeadInv'
  BY <1>4 DEF PublishTicket
<1>5. ASSUME NEW s \in Submissions, CommitSubmission(s) PROVE HeadInv'
  BY <1>5 DEF CommitSubmission
<1>6. ASSUME NEW s \in Submissions, AbortSubmission(s) PROVE HeadInv'
  BY <1>6 DEF AbortSubmission
<1>7. ASSUME NEW d \in Decisions, Decide(d) PROVE HeadInv'
  BY <1>7 DEF Decide
<1>8. ASSUME NEW q \in Queues, Deliver(q) PROVE HeadInv'
  BY <1>8 DEF Deliver
<1>9. ASSUME NEW q \in Queues, OpenReview(q) PROVE HeadInv'
  <2>1. statuses' = statuses /\ call' = call
    BY <1>9 DEF OpenReview
  <2>2. job' \in {[job EXCEPT ![q] = Idle], [job EXCEPT ![q].phase = "opened"]}
    BY <1>9 DEF OpenReview
  <2>. QED
    <3>1. CASE job' = [job EXCEPT ![q] = Idle]
      BY <2>1, <3>1
    <3>2. CASE job' = [job EXCEPT ![q].phase = "opened"]
      BY <2>1, <3>2
    <3>. QED  BY <2>2, <3>1, <3>2
<1>10. ASSUME NEW q \in Queues, UpdateReviewed(q) PROVE HeadInv'
  BY <1>10 DEF UpdateReviewed
<1>11. ASSUME NEW q \in Queues, PublishReviewed(q) PROVE HeadInv'
  <2>1. statuses' = Append(statuses, [new |-> OutcomeOf[job[q].event], by |-> job[q].event])
    BY <1>11 DEF PublishReviewed
  <2>2. [new |-> OutcomeOf[job[q].event], by |-> job[q].event] \in Change
    BY <1>11 DEF PublishReviewed, KycStatus
  <2>3. statuses' # <<>> /\ statuses'[Len(statuses')] = [new |-> OutcomeOf[job[q].event], by |-> job[q].event]
    <3>. HIDE DEF Change
    <3>. QED  BY LastOfAppend, <2>1, <2>2
  <2>4. lock = q
    BY <1>11 DEF PublishReviewed
  <2>5. \A t \in Submissions : t # q => ~Announcing(t)
    BY <2>4
  <2>6. \A p \in Queues : p # q => job[p].phase # "announced"
    BY <2>4
  <2>. QED  BY <1>11, <2>3, <2>5, <2>6 DEF PublishReviewed
<1>12. ASSUME NEW q \in Queues, CommitReview(q) PROVE HeadInv'
  BY <1>12 DEF CommitReview
<1>13. ASSUME NEW q \in Queues, Ack(q) PROVE HeadInv'
  BY <1>13 DEF Ack
<1>14. ASSUME NEW q \in Queues, FailReview(q) PROVE HeadInv'
  BY <1>14 DEF FailReview
<1>15. CASE Crash
  BY <1>15 DEF Crash
<1>16. CASE UNCHANGED vars
  BY <1>16 DEF vars
<1>. QED
  BY <1>1, <1>2, <1>3, <1>4, <1>5, <1>6, <1>7, <1>8, <1>9, <1>10, <1>11, <1>12, <1>13, <1>14, <1>15, <1>16 DEF Next, Submit, Review

\* Whoever has committed stays with it, and nobody else has.
LEMMA WordKept ==
    WordInv /\ UNCHANGED <<statuses, kycStatus, status, inbox>> => WordInv'
  BY DEF WordInv, CommittedBy, Committed

\* A publication of a transaction that has not committed says nothing yet.
LEMMA WordPublished ==
    ASSUME TypeOK, WordInv, NEW e \in Change, ~CommittedBy(e.by),
           statuses' = Append(statuses, e),
           UNCHANGED <<kycStatus, status, inbox>>
    PROVE  WordInv'
<1>. USE DEF TypeOK
<1>1. \A a : CommittedBy(a)' <=> CommittedBy(a)
  BY DEF CommittedBy, Committed
<1>2. /\ Len(statuses') = Len(statuses) + 1
      /\ \A i \in DOMAIN statuses : statuses'[i] = statuses[i]
      /\ statuses'[Len(statuses')] = e
      /\ DOMAIN statuses' = 1..Len(statuses) + 1
      /\ DOMAIN statuses = 1..Len(statuses)
      /\ Len(statuses) \in Nat
  OBVIOUS
<1>3. ASSUME NEW i \in DOMAIN statuses', CommittedBy(statuses'[i].by),
             \A k \in DOMAIN statuses' : k > i => ~CommittedBy(statuses'[k].by)
      PROVE  kycStatus = statuses'[i].new
  <2>1. i \in DOMAIN statuses
    BY <1>2, <1>3
  <2>2. \A k \in DOMAIN statuses : k > i => ~CommittedBy(statuses[k].by)
    BY <1>2, <1>3
  <2>. QED  BY <1>2, <1>3, <2>1, <2>2 DEF WordInv
<1>4. (\A i \in DOMAIN statuses' : ~CommittedBy(statuses'[i].by))
          => kycStatus = "PENDING"
  BY <1>2 DEF WordInv
<1>. QED  BY <1>1, <1>3, <1>4 DEF WordInv

\* A commit makes the last publication the last word.
LEMMA WordCommitted ==
    ASSUME TypeOK, statuses # <<>>, statuses' = statuses,
           CommittedBy(statuses[Len(statuses)].by)',
           kycStatus' = statuses[Len(statuses)].new
    PROVE  WordInv'
<1>1. Len(statuses) \in DOMAIN statuses /\ \A i \in DOMAIN statuses : i <= Len(statuses)
  BY DEF TypeOK
<1>2. CommittedBy(statuses[Len(statuses)].by)'
  OBVIOUS
<1>3. ASSUME NEW i \in DOMAIN statuses',
             \A k \in DOMAIN statuses' : k > i => ~CommittedBy(statuses[k].by)'
      PROVE  i = Len(statuses)
  BY <1>1, <1>2, <1>3 DEF TypeOK
<1>. QED  BY <1>1, <1>2, <1>3 DEF WordInv

\* Every step keeps the last committed publication the status of the user.
LEMMA WordStep == KycInv /\ [Next]_vars => WordInv'
<1>. SUFFICES ASSUME KycInv, [Next]_vars PROVE WordInv'
  OBVIOUS
<1>. USE DEF KycInv, tables, published, broker, bounds
<1>1. ASSUME NEW s \in Submissions, InsertSubmission(s) PROVE WordInv'
  BY <1>1, WordKept DEF InsertSubmission
<1>2. ASSUME NEW s \in Submissions, UpdateSubmitted(s) PROVE WordInv'
  BY <1>2, WordKept DEF UpdateSubmitted
<1>3. ASSUME NEW s \in Submissions, PublishSubmitted(s) PROVE WordInv'
  <2>1. ~CommittedBy(s)
    BY <1>3 DEF PublishSubmitted, CommittedBy, CallInv, TypeOK
  <2>2. [new |-> "SUBMITTED", by |-> s] \in Change
    BY DEF Change, KycStatus
  <2>. QED  BY <1>3, <2>1, <2>2, WordPublished DEF PublishSubmitted
<1>4. ASSUME NEW s \in Submissions, PublishTicket(s) PROVE WordInv'
  BY <1>4, WordKept DEF PublishTicket
<1>5. ASSUME NEW s \in Submissions, CommitSubmission(s) PROVE WordInv'
  <2>1. CommittedBy(s)'
    BY <1>5 DEF CommitSubmission, CommittedBy, Committed, TypeOK
  <2>2. /\ statuses # <<>>
        /\ statuses[Len(statuses)].by = s
        /\ statuses[Len(statuses)].new = "SUBMITTED"
    <3>1. Announcing(s)
      BY <1>5 DEF CommitSubmission, Announcing
    <3>2. /\ statuses # <<>>
          /\ statuses[Len(statuses)] = [new |-> "SUBMITTED", by |-> s]
      BY <3>1 DEF HeadInv
    <3>. QED  BY <3>2
  <2>3. statuses' = statuses /\ kycStatus' = "SUBMITTED"
    BY <1>5 DEF CommitSubmission
  <2>4. CommittedBy(statuses[Len(statuses)].by)'
    BY <2>1, <2>2, <2>3
  <2>. QED  BY <2>2, <2>3, <2>4, WordCommitted
<1>6. ASSUME NEW s \in Submissions, AbortSubmission(s) PROVE WordInv'
  BY <1>6, WordKept DEF AbortSubmission
<1>7. ASSUME NEW d \in Decisions, Decide(d) PROVE WordInv'
  BY <1>7, WordKept DEF Decide
<1>8. ASSUME NEW q \in Queues, Deliver(q) PROVE WordInv'
  BY <1>8, WordKept DEF Deliver
<1>9. ASSUME NEW q \in Queues, OpenReview(q) PROVE WordInv'
  BY <1>9, WordKept DEF OpenReview
<1>10. ASSUME NEW q \in Queues, UpdateReviewed(q) PROVE WordInv'
  BY <1>10, WordKept DEF UpdateReviewed
<1>11. ASSUME NEW q \in Queues, PublishReviewed(q) PROVE WordInv'
  <2>1. job[q].event \in Decisions /\ job[q].event \notin inbox
    BY <1>11 DEF PublishReviewed, JobInv
  <2>2. ~CommittedBy(job[q].event)
    BY <2>1 DEF CommittedBy
  <2>3. [new |-> OutcomeOf[job[q].event], by |-> job[q].event] \in Change
    BY <2>1 DEF Change, KycStatus
  <2>. QED  BY <1>11, <2>2, <2>3, WordPublished DEF PublishReviewed
<1>12. ASSUME NEW q \in Queues, CommitReview(q) PROVE WordInv'
  <2>1. /\ statuses # <<>>
        /\ statuses[Len(statuses)].by = job[q].event
        /\ statuses[Len(statuses)].new = OutcomeOf[job[q].event]
    <3>1. job[q].phase = "announced"
      BY <1>12 DEF CommitReview
    <3>2. /\ statuses # <<>>
          /\ statuses[Len(statuses)]
                = [new |-> OutcomeOf[job[q].event], by |-> job[q].event]
      BY <3>1 DEF HeadInv
    <3>. QED  BY <3>2
  <2>2. statuses' = statuses /\ kycStatus' = OutcomeOf[job[q].event]
    BY <1>12 DEF CommitReview
  <2>3. CommittedBy(statuses[Len(statuses)].by)'
    BY <1>12, <2>1, <2>2 DEF CommitReview, CommittedBy
  <2>. QED  BY <2>1, <2>2, <2>3, WordCommitted
<1>13. ASSUME NEW q \in Queues, Ack(q) PROVE WordInv'
  BY <1>13, WordKept DEF Ack
<1>14. ASSUME NEW q \in Queues, FailReview(q) PROVE WordInv'
  BY <1>14, WordKept DEF FailReview
<1>15. CASE Crash
  BY <1>15, WordKept DEF Crash
<1>16. CASE UNCHANGED vars
  BY <1>16, WordKept DEF vars
<1>. QED
  BY <1>1, <1>2, <1>3, <1>4, <1>5, <1>6, <1>7, <1>8, <1>9, <1>10, <1>11, <1>12, <1>13, <1>14, <1>15, <1>16 DEF Next, Submit, Review

\* What is the latest submission, and whether it is reviewed, depends on the
\* committed rows and the order of submission only.
LEMMA LatestKept ==
    UNCHANGED <<status, begun>> => Latest' = Latest /\ ToReview' = ToReview
  BY DEF Latest, ToReview, Committed

\* Every step keeps what a review has found up to date.
LEMMA ReviewStep == KycInv /\ [Next]_vars => ReviewInv'
<1>. SUFFICES ASSUME KycInv, [Next]_vars PROVE ReviewInv'
  OBVIOUS
<1>. USE DEF KycInv, ReviewInv, PendingIsSubmitted, tables, published, broker, bounds, Go
<1>1. ASSUME NEW s \in Submissions, InsertSubmission(s) PROVE ReviewInv'
  <2>1. begun' = Append(begun, s) /\ status' = status /\ ~Committed(s)
    BY <1>1 DEF InsertSubmission, CallInv
  <2>2. /\ DOMAIN begun = 1..Len(begun)
        /\ Len(begun) \in Nat
        /\ DOMAIN begun' = 1..Len(begun) + 1
        /\ begun'[Len(begun) + 1] = s
        /\ \A i \in DOMAIN begun : begun'[i] = begun[i]
    BY <2>1 DEF TypeOK
  <2>3. \A t : Committed(t)' <=> Committed(t)
    BY <2>1 DEF Committed
  <2>4. Latest' = Latest
    BY <2>1, <2>2, <2>3 DEF Latest
  <2>5. ToReview' = ToReview
    BY <2>1, <2>4 DEF ToReview
  <2>. QED  BY <1>1, <2>1, <2>4, <2>5 DEF InsertSubmission
<1>2. ASSUME NEW s \in Submissions, UpdateSubmitted(s) PROVE ReviewInv'
  <2>1. Latest' = Latest /\ ToReview' = ToReview /\ status' = status
    BY <1>2, LatestKept DEF UpdateSubmitted
  <2>. QED  BY <1>2, <2>1 DEF UpdateSubmitted
<1>3. ASSUME NEW s \in Submissions, PublishSubmitted(s) PROVE ReviewInv'
  <2>1. Latest' = Latest /\ ToReview' = ToReview /\ status' = status
    BY <1>3, LatestKept DEF PublishSubmitted
  <2>. QED  BY <1>3, <2>1 DEF PublishSubmitted
<1>4. ASSUME NEW s \in Submissions, PublishTicket(s) PROVE ReviewInv'
  <2>1. Latest' = Latest /\ ToReview' = ToReview /\ status' = status
    BY <1>4, LatestKept DEF PublishTicket
  <2>. QED  BY <1>4, <2>1 DEF PublishTicket
<1>5. ASSUME NEW s \in Submissions, CommitSubmission(s) PROVE ReviewInv'
  <2>1. lock = s /\ job' = job /\ kycStatus' = "SUBMITTED"
    BY <1>5 DEF CommitSubmission, LockInv, Holding
  <2>2. \A q \in Queues : job[q].phase \notin {"updated", "announced"}
    BY <2>1 DEF LockInv
  <2>. QED  BY <2>1, <2>2
<1>6. ASSUME NEW s \in Submissions, AbortSubmission(s) PROVE ReviewInv'
  <2>1. Latest' = Latest /\ ToReview' = ToReview /\ status' = status
    BY <1>6, LatestKept DEF AbortSubmission
  <2>. QED  BY <1>6, <2>1 DEF AbortSubmission
<1>7. ASSUME NEW d \in Decisions, Decide(d) PROVE ReviewInv'
  <2>1. Latest' = Latest /\ ToReview' = ToReview /\ status' = status
    BY <1>7, LatestKept DEF Decide
  <2>. QED  BY <1>7, <2>1 DEF Decide
<1>8. ASSUME NEW q \in Queues, Deliver(q) PROVE ReviewInv'
  <2>1. Latest' = Latest /\ ToReview' = ToReview /\ status' = status
    BY <1>8, LatestKept DEF Deliver
  <2>2. \A p \in Queues : job'[p].phase \in {"updated", "announced"}
            => /\ job[p].phase \in {"updated", "announced"}
               /\ job'[p].reviews = job[p].reviews
    BY <1>8 DEF Deliver, TypeOK, Idle
  <2>. QED  BY <1>8, <2>1, <2>2 DEF Deliver
<1>9. ASSUME NEW q \in Queues, OpenReview(q) PROVE ReviewInv'
  <2>1. Latest' = Latest /\ ToReview' = ToReview /\ status' = status
    BY <1>9, LatestKept DEF OpenReview
  <2>2. \A p \in Queues : job'[p].phase \in {"updated", "announced"}
            => /\ job[p].phase \in {"updated", "announced"}
               /\ job'[p].reviews = job[p].reviews
    <3>1. job' \in {[job EXCEPT ![q] = Idle], [job EXCEPT ![q].phase = "opened"]}
      BY <1>9 DEF OpenReview
    <3>2. CASE job' = [job EXCEPT ![q] = Idle]
      BY <3>2 DEF TypeOK, Idle
    <3>3. CASE job' = [job EXCEPT ![q].phase = "opened"]
      BY <3>3 DEF TypeOK, Job
    <3>. QED  BY <3>1, <3>2, <3>3
  <2>. QED  BY <1>9, <2>1, <2>2 DEF OpenReview
<1>10. ASSUME NEW q \in Queues, UpdateReviewed(q) PROVE ReviewInv'
  <2>1. Latest' = Latest /\ ToReview' = ToReview /\ status' = status
    BY <1>10, LatestKept DEF UpdateReviewed
  <2>2. job' = [job EXCEPT ![q].phase = "updated", ![q].reviews = ToReview]
    BY <1>10 DEF UpdateReviewed
  <2>3. job'[q].reviews = ToReview
    BY <2>2 DEF TypeOK, Job
  <2>4. \A p \in Queues : p # q => job'[p] = job[p]
    BY <2>2 DEF TypeOK
  <2>. QED  BY <1>10, <2>1, <2>3, <2>4 DEF UpdateReviewed
<1>11. ASSUME NEW q \in Queues, PublishReviewed(q) PROVE ReviewInv'
  <2>1. Latest' = Latest /\ ToReview' = ToReview /\ status' = status
    BY <1>11, LatestKept DEF PublishReviewed
  <2>2. \A p \in Queues : job'[p].phase \in {"updated", "announced"}
            => /\ job[p].phase \in {"updated", "announced"}
               /\ job'[p].reviews = job[p].reviews
    BY <1>11 DEF PublishReviewed, TypeOK, Idle
  <2>. QED  BY <1>11, <2>1, <2>2 DEF PublishReviewed
<1>12. ASSUME NEW q \in Queues, CommitReview(q) PROVE ReviewInv'
  <2>1. /\ lock = q
        /\ job' = [job EXCEPT ![q].phase = "committed"]
        /\ begun' = begun
        /\ job[q].reviews = ToReview
    BY <1>12 DEF CommitReview, LockInv, ReviewInv
  <2>2. \A p \in Queues : job'[p].phase \notin {"updated", "announced"}
    BY <2>1 DEF LockInv, TypeOK, Job
  <2>3. Reviewed[OutcomeOf[job[q].event]] \in {"approved", "rejected"}
    BY <1>12 DEF CommitReview, Reviewed, JobInv
  <2>4. \A t \in Submissions :
            status'[t] = IF t \in ToReview
                         THEN Reviewed[OutcomeOf[job[q].event]] ELSE status[t]
    BY <1>12, <2>1 DEF CommitReview
  <2>5. \A t \in Submissions : Committed(t)' <=> Committed(t)
    BY <2>3, <2>4 DEF Committed, ToReview
  <2>6. \A i \in DOMAIN begun : begun[i] \in Submissions
    BY DEF TypeOK
  <2>7. Latest' = Latest
    BY <2>1, <2>5, <2>6 DEF Latest
  <2>8. \A t \in Latest' : status'[t] # "pending"
    BY <2>3, <2>4, <2>7 DEF ToReview, Latest
  <2>. QED  BY <2>2, <2>8
<1>13. ASSUME NEW q \in Queues, Ack(q) PROVE ReviewInv'
  <2>1. Latest' = Latest /\ ToReview' = ToReview /\ status' = status
    BY <1>13, LatestKept DEF Ack
  <2>2. \A p \in Queues : job'[p].phase \in {"updated", "announced"}
            => /\ job[p].phase \in {"updated", "announced"}
               /\ job'[p].reviews = job[p].reviews
    BY <1>13 DEF Ack, TypeOK, Idle
  <2>. QED  BY <1>13, <2>1, <2>2 DEF Ack
<1>14. ASSUME NEW q \in Queues, FailReview(q) PROVE ReviewInv'
  <2>1. Latest' = Latest /\ ToReview' = ToReview /\ status' = status
    BY <1>14, LatestKept DEF FailReview
  <2>2. \A p \in Queues : job'[p].phase \in {"updated", "announced"}
            => /\ job[p].phase \in {"updated", "announced"}
               /\ job'[p].reviews = job[p].reviews
    BY <1>14 DEF FailReview, TypeOK, Idle
  <2>. QED  BY <1>14, <2>1, <2>2 DEF FailReview
<1>15. CASE Crash
  <2>1. Latest' = Latest /\ ToReview' = ToReview /\ status' = status
    BY <1>15, LatestKept DEF Crash
  <2>2. \A p \in Queues : job'[p].phase \in {"updated", "announced"}
            => /\ job[p].phase \in {"updated", "announced"}
               /\ job'[p].reviews = job[p].reviews
    BY <1>15 DEF Crash, TypeOK, Idle
  <2>. QED  BY <1>15, <2>1, <2>2 DEF Crash
<1>16. CASE UNCHANGED vars
  <2>1. Latest' = Latest /\ ToReview' = ToReview /\ status' = status
    BY <1>16, LatestKept DEF vars
  <2>. QED  BY <1>16, <2>1 DEF vars
<1>. QED
  BY <1>1, <1>2, <1>3, <1>4, <1>5, <1>6, <1>7, <1>8, <1>9, <1>10, <1>11, <1>12, <1>13, <1>14, <1>15, <1>16 DEF Next, Submit, Review

\* Every step announces before it commits.
LEMMA TicketStep == KycInv /\ [Next]_vars => TicketInv'
<1>. SUFFICES ASSUME KycInv, [Next]_vars PROVE TicketInv'
  OBVIOUS
<1>. USE DEF KycInv, TicketInv, NothingUnannounced, tables, published, broker, bounds, Go
<1>1. ASSUME NEW s \in Submissions, InsertSubmission(s) PROVE TicketInv'
  <2>1. \A a : CommittedBy(a)' <=> CommittedBy(a)
    BY <1>1 DEF InsertSubmission, CommittedBy, Committed
  <2>. QED  BY <1>1, <2>1 DEF InsertSubmission, Committed, TypeOK
<1>2. ASSUME NEW s \in Submissions, UpdateSubmitted(s) PROVE TicketInv'
  <2>1. \A a : CommittedBy(a)' <=> CommittedBy(a)
    BY <1>2 DEF UpdateSubmitted, CommittedBy, Committed
  <2>. QED  BY <1>2, <2>1 DEF UpdateSubmitted, Committed, TypeOK
<1>3. ASSUME NEW s \in Submissions, PublishSubmitted(s) PROVE TicketInv'
  <2>1. \A a : CommittedBy(a)' <=> CommittedBy(a)
    BY <1>3 DEF PublishSubmitted, CommittedBy, Committed
  <2>2. /\ DOMAIN statuses \subseteq DOMAIN statuses'
        /\ \A i \in DOMAIN statuses : statuses'[i] = statuses[i]
    BY <1>3 DEF PublishSubmitted, TypeOK
  <2>. QED  BY <1>3, <2>1, <2>2 DEF PublishSubmitted, Committed, TypeOK
<1>4. ASSUME NEW s \in Submissions, PublishTicket(s) PROVE TicketInv'
  <2>1. \A a : CommittedBy(a)' <=> CommittedBy(a)
    BY <1>4 DEF PublishTicket, CommittedBy, Committed
  <2>. QED  BY <1>4, <2>1 DEF PublishTicket, Committed, TypeOK
<1>5. ASSUME NEW s \in Submissions, CommitSubmission(s) PROVE TicketInv'
  <2>1. \E i \in DOMAIN statuses : statuses[i].by = s
    <3>1. statuses # <<>> /\ statuses[Len(statuses)] = [new |-> "SUBMITTED", by |-> s]
      BY <1>5 DEF CommitSubmission, HeadInv, Announcing
    <3>2. Len(statuses) \in DOMAIN statuses
      BY <3>1 DEF TypeOK
    <3>. QED  BY <3>1, <3>2
  <2>2. s \in tickets
    BY <1>5 DEF CommitSubmission
  <2>3. \A t : CommittedBy(t)' => CommittedBy(t) \/ t = s
    BY <1>5 DEF CommitSubmission, CommittedBy, Committed, TypeOK
  <2>4. \A t \in Submissions : Committed(t)' => Committed(t) \/ t = s
    BY <1>5 DEF CommitSubmission, Committed, TypeOK
  <2>. QED  BY <1>5, <2>1, <2>2, <2>3, <2>4 DEF CommitSubmission, TypeOK
<1>6. ASSUME NEW s \in Submissions, AbortSubmission(s) PROVE TicketInv'
  <2>1. \A a : CommittedBy(a)' <=> CommittedBy(a)
    BY <1>6 DEF AbortSubmission, CommittedBy, Committed
  <2>. QED  BY <1>6, <2>1 DEF AbortSubmission, Committed, TypeOK
<1>7. ASSUME NEW d \in Decisions, Decide(d) PROVE TicketInv'
  <2>1. \A a : CommittedBy(a)' <=> CommittedBy(a)
    BY <1>7 DEF Decide, CommittedBy, Committed
  <2>. QED  BY <1>7, <2>1 DEF Decide, Committed, TypeOK
<1>8. ASSUME NEW q \in Queues, Deliver(q) PROVE TicketInv'
  <2>1. \A a : CommittedBy(a)' <=> CommittedBy(a)
    BY <1>8 DEF Deliver, CommittedBy, Committed
  <2>. QED  BY <1>8, <2>1 DEF Deliver, Committed, TypeOK
<1>9. ASSUME NEW q \in Queues, OpenReview(q) PROVE TicketInv'
  <2>1. \A a : CommittedBy(a)' <=> CommittedBy(a)
    BY <1>9 DEF OpenReview, CommittedBy, Committed
  <2>. QED  BY <1>9, <2>1 DEF OpenReview, Committed, TypeOK
<1>10. ASSUME NEW q \in Queues, UpdateReviewed(q) PROVE TicketInv'
  <2>1. \A a : CommittedBy(a)' <=> CommittedBy(a)
    BY <1>10 DEF UpdateReviewed, CommittedBy, Committed
  <2>. QED  BY <1>10, <2>1 DEF UpdateReviewed, Committed, TypeOK
<1>11. ASSUME NEW q \in Queues, PublishReviewed(q) PROVE TicketInv'
  <2>1. \A a : CommittedBy(a)' <=> CommittedBy(a)
    BY <1>11 DEF PublishReviewed, CommittedBy, Committed
  <2>2. /\ DOMAIN statuses \subseteq DOMAIN statuses'
        /\ \A i \in DOMAIN statuses : statuses'[i] = statuses[i]
    BY <1>11 DEF PublishReviewed, TypeOK
  <2>. QED  BY <1>11, <2>1, <2>2 DEF PublishReviewed, Committed, TypeOK
<1>12. ASSUME NEW q \in Queues, CommitReview(q) PROVE TicketInv'
  <2>1. \E i \in DOMAIN statuses : statuses[i].by = job[q].event
    <3>1. /\ statuses # <<>>
          /\ statuses[Len(statuses)]
                = [new |-> OutcomeOf[job[q].event], by |-> job[q].event]
      BY <1>12 DEF CommitReview, HeadInv
    <3>2. Len(statuses) \in DOMAIN statuses
      BY <3>1 DEF TypeOK
    <3>. QED  BY <3>1, <3>2
  <2>2. \A t \in Submissions : Committed(t)' => Committed(t)
    BY <1>12 DEF CommitReview, Committed, ReviewInv, ToReview, Latest
  <2>3. \A t : CommittedBy(t)' => CommittedBy(t) \/ t = job[q].event
    BY <1>12, <2>2 DEF CommitReview, CommittedBy
  <2>. QED  BY <1>12, <2>1, <2>2, <2>3 DEF CommitReview
<1>13. ASSUME NEW q \in Queues, Ack(q) PROVE TicketInv'
  <2>1. \A a : CommittedBy(a)' <=> CommittedBy(a)
    BY <1>13 DEF Ack, CommittedBy, Committed
  <2>. QED  BY <1>13, <2>1 DEF Ack, Committed, TypeOK
<1>14. ASSUME NEW q \in Queues, FailReview(q) PROVE TicketInv'
  <2>1. \A a : CommittedBy(a)' <=> CommittedBy(a)
    BY <1>14 DEF FailReview, CommittedBy, Committed
  <2>. QED  BY <1>14, <2>1 DEF FailReview, Committed, TypeOK
<1>15. CASE Crash
  <2>1. \A a : CommittedBy(a)' <=> CommittedBy(a)
    BY <1>15 DEF Crash, CommittedBy, Committed
  <2>. QED  BY <1>15, <2>1 DEF Crash, Committed, TypeOK
<1>16. CASE UNCHANGED vars
  <2>1. \A a : CommittedBy(a)' <=> CommittedBy(a)
    BY <1>16 DEF vars, CommittedBy, Committed
  <2>. QED  BY <1>16, <2>1 DEF vars, Committed, TypeOK
<1>. QED
  BY <1>1, <1>2, <1>3, <1>4, <1>5, <1>6, <1>7, <1>8, <1>9, <1>10, <1>11, <1>12, <1>13, <1>14, <1>15, <1>16 DEF Next, Submit, Review

-----------------------------------------------------------------------------
\* The inductive invariant of Kyc: the transaction that holds the lock of the
\* profile row published last, and what it found under the lock is still so.
THEOREM KycInvariance == Spec => []KycInv
<1>1. Init => KycInv
  <2>. SUFFICES ASSUME Init PROVE KycInv
    OBVIOUS
  <2>. USE DEF Init
  <2>1. TypeOK
    BY DEF TypeOK, KycStatus, CallPhase, Job, Idle
  <2>2. LockInv /\ JobInv /\ CallInv /\ HeadInv
    BY DEF LockInv, JobInv, CallInv, HeadInv, Holding, Announcing, Committed, Idle
  <2>3. \A a : ~CommittedBy(a)
    BY DEF CommittedBy, Committed
  <2>4. WordInv
    BY <2>3 DEF WordInv
  <2>5. ReviewInv
    BY DEF ReviewInv, PendingIsSubmitted, Latest, Committed, Idle
  <2>6. TicketInv
    BY <2>3 DEF TicketInv, NothingUnannounced, Committed
  <2>. QED  BY <2>1, <2>2, <2>4, <2>5, <2>6 DEF KycInv
<1>2. KycInv /\ [Next]_vars => KycInv'
  BY TypeStep, LockStep, JobStep, CallStep, HeadStep, WordStep, ReviewStep,
     TicketStep DEF KycInv
<1>. QED  BY <1>1, <1>2, PTL DEF Spec

\* Whatever the order in which submissions and reviews run, fail and crash, the
\* last published status change that was committed is the user's status.
THEOREM LastWord == Spec => []LastWordIsCommitted
<1>1. KycInv => LastWordIsCommitted
  BY DEF KycInv, WordInv, LastWordIsCommitted
<1>. QED  BY <1>1, KycInvariance, PTL

\* No review passes over the latest submission.
THEOREM NothingPassedOver == Spec => []PendingIsSubmitted
<1>1. KycInv => PendingIsSubmitted
  BY DEF KycInv, ReviewInv
<1>. QED  BY <1>1, KycInvariance, PTL

\* What is committed was announced.
THEOREM Announced == Spec => []NothingUnannounced
<1>1. KycInv => NothingUnannounced
  BY DEF KycInv, TicketInv
<1>. QED  BY <1>1, KycInvariance, PTL

\* A reviewed submission is never reviewed again.
THEOREM ReviewedOnce == Spec => ReviewIsFinal
<1>1. KycInv /\ [Next]_vars =>
        \A s \in Submissions :
            status[s] \in {"approved", "rejected"} => status'[s] = status[s]
  <2>. SUFFICES ASSUME KycInv, [Next]_vars, NEW t \in Submissions,
                       status[t] \in {"approved", "rejected"}
                PROVE  status'[t] = status[t]
    OBVIOUS
  <2>. USE DEF KycInv, TypeOK, tables
  <2>1. ASSUME NEW s \in Submissions, CommitSubmission(s)
        PROVE  status'[t] = status[t]
    <3>1. s # t
      BY <2>1 DEF CommitSubmission, CallInv, Committed
    <3>. QED  BY <2>1, <3>1 DEF CommitSubmission
  <2>2. ASSUME NEW q \in Queues, CommitReview(q)
        PROVE  status'[t] = status[t]
    <3>1. t \notin job[q].reviews
      BY <2>2 DEF CommitReview, ReviewInv, ToReview
    <3>. QED  BY <2>2, <3>1 DEF CommitReview
  <2>3. CASE \E s \in Submissions :
                \/ InsertSubmission(s) \/ UpdateSubmitted(s)
                \/ PublishSubmitted(s) \/ PublishTicket(s) \/ AbortSubmission(s)
    BY <2>3 DEF InsertSubmission, UpdateSubmitted, PublishSubmitted,
                PublishTicket, AbortSubmission
  <2>4. CASE \E q \in Queues :
                \/ Deliver(q) \/ OpenReview(q) \/ UpdateReviewed(q)
                \/ PublishReviewed(q) \/ Ack(q) \/ FailReview(q)
    BY <2>4 DEF Deliver, OpenReview, UpdateReviewed, PublishReviewed, Ack,
                FailReview
  <2>5. CASE Crash \/ UNCHANGED vars \/ \E d \in Decisions : Decide(d)
    BY <2>5 DEF Crash, vars, Decide
  <2>. QED  BY <2>1, <2>2, <2>3, <2>4, <2>5 DEF Next, Submit, Review
<1>. QED  BY <1>1, KycInvariance, PTL DEF Spec, ReviewIsFinal

\* A decision changes the tables once.
THEOREM AppliedOnce == Spec => DecisionAppliedOnce
<1>1. KycInv => \A q \in Queues :
          job[q].phase = "announced" /\ job'[q].phase = "committed"
              => job[q].event \notin inbox
  BY DEF KycInv, JobInv
<1>. QED  BY <1>1, KycInvariance, PTL DEF Spec, DecisionAppliedOnce

=============================================================================
