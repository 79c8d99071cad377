CONSTANTS
    s1 = s1
    s2 = s2
    s3 = s3
    d1 = d1
    d2 = d2
    None = None
    Submissions = {s1, s2}
    Decisions = {d1, d2}
    OutcomeOf <- MCOutcome
    QueueOf <- MCQueue
    MaxCrashes = 1
    MaxFailures = 1
SPECIFICATION FairSpec
INVARIANTS
    LastWordIsCommitted
    PendingIsSubmitted
    NothingUnannounced
PROPERTIES
    ReviewIsFinal
    DecisionAppliedOnce
    DecisionSettled
CHECK_DEADLOCK FALSE
