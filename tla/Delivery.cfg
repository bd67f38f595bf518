\* One message and two handlers: every interleaving of one delivery, undisturbed
\* and with every failure the model has.
SPECIFICATION FairSpec
CONSTANTS
    e1 = e1
    w1 = w1
    w2 = w2
    NoEmail = NoEmail
    NoWorker = NoWorker
    Emails <- OneEmail
    Workers <- TwoWorkers
    MaxRetry = 2
    MaxAsks = 2
    MaxStops = 1
    FaultSets <- CalmOrStorm
CHECK_DEADLOCK FALSE
INVARIANTS
    ClaimIsExclusive
    AtMostOneHandOff
    OutcomeIsTrue
    TrailAgrees
    AttemptsWithinBudget
PROPERTIES
    TerminalIsFinal
    QueueDrains
    EventuallySettled
    ImplementsPromise
